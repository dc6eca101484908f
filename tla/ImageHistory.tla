---------------------------- MODULE ImageHistory ----------------------------
(***************************************************************************)
(* One open image and the requests that change, save, rewind and rename it *)
(* (src/app/session_disk_service.py, checkpoints.py, server.py and the     *)
(* routes of routes/images.py).                                            *)
(*                                                                         *)
(* Every request that changes the image is wrapped by the middleware: an   *)
(* automatic checkpoint is recorded before the handler runs, and after its *)
(* answer the checkpoint is kept, dropped when nothing changed, or, after  *)
(* an error, restored and dropped.  The server is threaded and a request   *)
(* holds the session lock only for one step at a time, so the steps of     *)
(* several requests interleave.  The image, the checkpoints and            *)
(* session.json are files and survive a crash; the session object does     *)
(* not.                                                                    *)
(*                                                                         *)
(* The content of the image is the set of edits it holds, so that a lost   *)
(* or resurrected edit is visible.                                         *)
(***************************************************************************)
EXTENDS Naturals, FiniteSets

CONSTANTS
    Requests,     \* the requests that will arrive; bounds the behaviour
    NoRequest,    \* "nobody holds the session lock"
    Names,        \* the names the image may be given
    AutoLimit,    \* automatic checkpoints that pruning leaves (20)
    Kinds,        \* the kinds of request that arrive
    Concurrent,   \* may a request arrive while another is in flight?
    MayCrash      \* may the process die?

AllKinds == {"edit", "replace", "save", "restore", "undo", "named", "delete", "rename",
             "profile"}

ASSUME RequestAssumption == NoRequest \notin Requests
ASSUME LimitAssumption == AutoLimit \in Nat \ {0}
ASSUME KindsAssumption == Kinds \subseteq AllKinds
ASSUME ModeAssumption == Concurrent \in BOOLEAN /\ MayCrash \in BOOLEAN

VARIABLES
    image,     \* the working image: the edits it contains
    stamp,     \* its size and modification time, as a count of its rewrites
    mem,       \* the session object: name and changed flag (the pane's dot)
    json,      \* session.json: the same as last stored
    points,    \* the complete checkpoints in the checkpoints folder
    nextId,    \* creation order of checkpoints
    lock,      \* the holder of session.lock between two steps
    pc,        \* where each request is
    kind,      \* what it does
    token,     \* its checkpoint, and the fingerprint taken at its start
    saved      \* contents the user has a file of: as opened, or downloaded

vars == <<image, stamp, mem, json, points, nextId, lock, pc, kind, token, saved>>
session == <<image, stamp, mem, json, saved>>
-----------------------------------------------------------------------------
Contents == SUBSET Requests
State == [name : Names, dirty : BOOLEAN]
Point == [id : Nat, auto : BOOLEAN, image : Contents, name : Names, dirty : BOOLEAN]
Token == [point : Nat, stamp : Nat, name : Names]

Working == {"working", "blank", "written", "marked"}
Ended == {"ok", "unlabelled", "failed", "lost"}
Changing == {"edit", "replace"}
InFlight == {r \in Requests : pc[r] \notin {"idle"} \cup Ended}
Quiet == InFlight = {}

TypeOK ==
    /\ image \in Contents
    /\ stamp \in Nat
    /\ mem \in State
    /\ json \in State
    /\ points \subseteq Point
    /\ nextId \in Nat
    /\ lock \in Requests \cup {NoRequest}
    /\ pc \in [Requests -> {"idle", "restoring", "rewinding", "rewound",
                            "undoing", "relabelling"} \cup Working \cup Ended]
    /\ kind \in [Requests -> AllKinds \cup {"none"}]
    /\ token \in [Requests -> Token]
    /\ saved \subseteq Contents

\* An image opened from a file is clean; one the program created is not.
Init ==
    /\ image = {}
    /\ stamp = 0
    /\ \E name \in Names, created \in BOOLEAN :
        /\ mem = [name |-> name, dirty |-> created]
        /\ saved = IF created THEN {} ELSE {{}}
        /\ token = [r \in Requests |-> [point |-> 0, stamp |-> 0, name |-> name]]
    /\ json = mem
    /\ points = {}
    /\ nextId = 1
    /\ lock = NoRequest
    /\ pc = [r \in Requests |-> "idle"]
    /\ kind = [r \in Requests |-> "none"]
-----------------------------------------------------------------------------
(***************************************************************************)
(* Checkpoints.                                                            *)
(***************************************************************************)

Free == lock = NoRequest
Autos(ps) == {p \in ps : p.auto}
OwnPoint(r) == {p \in points : p.id = token[r].point}

\* Mistake: undo takes the oldest automatic point.
Oldest(p) == p \in Autos(points) /\ \A q \in Autos(points) : p.id <= q.id

\* latest_automatic(): the one undo restores.
Latest(p) == p \in Autos(points) /\ \A q \in Autos(points) : q.id <= p.id

\* Mistake: a checkpoint does not record the changed flag.
SnapshotClean(auto) ==
    [id |-> nextId, auto |-> auto, image |-> image, name |-> mem.name, dirty |-> FALSE]

\* A checkpoint is copied into a hidden folder that becomes visible by one
\* rename, so a crash leaves either none of it or all of it.
Snapshot(auto) ==
    [id |-> nextId, auto |-> auto, image |-> image, name |-> mem.name, dirty |-> mem.dirty]

TakePoint(auto) ==
    /\ points' = points \cup {Snapshot(auto)}
    /\ nextId' = nextId + 1

\* Mistake: named points are pruned with the automatic ones.
PrunedAnyKind(ps) == {p \in ps : Cardinality({q \in ps : q.id > p.id}) < AutoLimit}

\* prune_automatic(): only the newest automatic points are kept.
Pruned(ps) ==
    {p \in ps : p.auto => Cardinality({q \in Autos(ps) : q.id > p.id}) < AutoLimit}

Without(r) == {p \in points : p.id # token[r].point}

Arrive(r, k) ==
    /\ k \in Kinds
    /\ pc[r] = "idle"
    /\ Concurrent \/ Quiet
    /\ kind' = [kind EXCEPT ![r] = k]

Step(r, from, to) ==
    /\ pc[r] \in from
    /\ pc' = [pc EXCEPT ![r] = to]
-----------------------------------------------------------------------------
(***************************************************************************)
(* Requests wrapped by the middleware: edits, and preparing a download.    *)
(***************************************************************************)

\* Mistake: the fingerprint leaves the session state out.
BeginWithoutState(r) ==
    /\ \E k \in Changing \cup {"save"} : Arrive(r, k)
    /\ Free
    /\ Step(r, {"idle"}, "working")
    /\ token' = [token EXCEPT ![r] = [point |-> nextId, stamp |-> stamp]]
    /\ TakePoint(TRUE)
    /\ UNCHANGED <<session, lock>>

\* begin_automatic_checkpoint(), under the lock.
Begin(r) ==
    /\ \E k \in Changing \cup {"save"} : Arrive(r, k)
    /\ Free
    /\ Step(r, {"idle"}, "working")
    /\ token' = [token EXCEPT ![r] =
                    [point |-> nextId, stamp |-> stamp, name |-> mem.name]]
    /\ TakePoint(TRUE)
    /\ UNCHANGED <<session, lock>>

\* The handler changes the volume inside a mount, which holds the lock ...
EditWrite(r) ==
    /\ kind[r] = "edit"
    /\ Free
    /\ Step(r, {"working"}, "written")
    /\ image' = image \cup {r}
    /\ stamp' = stamp + 1
    /\ UNCHANGED <<mem, json, points, nextId, lock, kind, token, saved>>

\* ... and sets the changed flag, in memory only, after it has let it go.
EditMark(r) ==
    /\ Step(r, {"written"}, "marked")
    /\ mem' = [mem EXCEPT !.dirty = TRUE]
    /\ UNCHANGED <<image, stamp, json, points, nextId, lock, kind, token, saved>>

\* replace_blank_image(): the listing of the root is read first ...
FindBlank(r) ==
    /\ kind[r] = "replace"
    /\ Free
    /\ Step(r, {"working"}, "blank")
    /\ image = {}
    /\ UNCHANGED <<session, points, nextId, lock, kind, token>>

\* ... and later, under the lock, the bytes are replaced by those of another
\* image and the session takes that one's name, which no point is told of.
ReplaceBlank(r) ==
    /\ Free
    /\ Step(r, {"blank"}, "marked")
    /\ image' = {r}
    /\ stamp' = stamp + 1
    /\ \E name \in Names : mem' = [name |-> name, dirty |-> TRUE]
    /\ json' = mem'
    /\ UNCHANGED <<points, nextId, lock, kind, token, saved>>

\* prepare_image_download: the archive and mark_saved() under one lock.
SaveArchive(r) ==
    /\ kind[r] = "save"
    /\ Free
    /\ Step(r, {"working"}, "marked")
    /\ saved' = saved \cup {image}
    /\ mem' = [mem EXCEPT !.dirty = FALSE]
    /\ json' = mem'
    /\ UNCHANGED <<image, stamp, points, nextId, lock, kind, token>>

\* Mistakes: the finaliser does not store the session; it looks only at the
\* session state to see whether the request changed something.
FinishWithoutStore(r) ==
    /\ Free
    /\ Step(r, IF kind[r] \in Changing THEN {"working", "marked"} ELSE {"marked"}, "ok")
    /\ points' = IF stamp = token[r].stamp /\ mem.name = token[r].name
                 THEN Without(r) ELSE Pruned(points)
    /\ UNCHANGED <<session, nextId, lock, kind, token>>
FinishIgnoresImage(r) ==
    /\ Free
    /\ Step(r, IF kind[r] \in Changing THEN {"working", "marked"} ELSE {"marked"}, "ok")
    /\ points' = IF mem.name = token[r].name THEN Without(r) ELSE Pruned(points)
    /\ json' = mem
    /\ UNCHANGED <<image, stamp, mem, nextId, lock, kind, token, saved>>

\* finish_automatic_checkpoint() after a successful answer, which may also
\* be that nothing needed changing.
Finish(r) ==
    /\ Free
    /\ Step(r, IF kind[r] \in Changing THEN {"working", "marked"} ELSE {"marked"}, "ok")
    /\ points' = IF stamp = token[r].stamp /\ mem.name = token[r].name
                 THEN Without(r) ELSE Pruned(points)
    /\ json' = mem
    /\ UNCHANGED <<image, stamp, mem, nextId, lock, kind, token, saved>>

\* Mistakes: only the session state is rolled back; the rollback takes the
\* oldest automatic point.
RollbackStateOnly(r) ==
    /\ Free
    /\ Step(r, Working, "rewinding")
    /\ OwnPoint(r) # {}
    /\ lock' = r
    /\ UNCHANGED <<session, points, nextId, kind, token>>
RollbackToOldest(r) ==
    /\ Free
    /\ Step(r, Working, "rewinding")
    /\ \E p \in points : Oldest(p) /\ image' = p.image
    /\ stamp' = stamp + 1
    /\ lock' = r
    /\ UNCHANGED <<mem, json, points, nextId, kind, token, saved>>

\* rollback_automatic_checkpoint() after an error answer, in three steps:
\* the image, then the session (Rewind below), then the point is removed
\* under the lock taken once more.
Rollback(r) ==
    /\ Free
    /\ Step(r, Working, "rewinding")
    /\ \E p \in OwnPoint(r) : image' = p.image
    /\ stamp' = stamp + 1
    /\ lock' = r
    /\ UNCHANGED <<mem, json, points, nextId, kind, token, saved>>

\* Without its checkpoint the rollback raises; the middleware only logs it.
RollbackWithoutPoint(r) ==
    /\ Free
    /\ Step(r, Working, "failed")
    /\ OwnPoint(r) = {}
    /\ UNCHANGED <<session, points, nextId, lock, kind, token>>

RollbackDrop(r) ==
    /\ Free
    /\ Step(r, {"rewound"}, "failed")
    /\ points' = Without(r)
    /\ UNCHANGED <<session, nextId, lock, kind, token>>
-----------------------------------------------------------------------------
(***************************************************************************)
(* Restoring a checkpoint, and undo.                                       *)
(***************************************************************************)

\* restore_image_checkpoint: an automatic point first; the lock is released.
\* The point asked for may be one the dialog still shows but that is gone.
RestoreBegin(r) ==
    /\ Arrive(r, "restore")
    /\ Free
    /\ Step(r, {"idle"}, "restoring")
    /\ \E target \in 1 .. nextId - 1 : token' = [token EXCEPT ![r].point = target]
    /\ TakePoint(TRUE)
    /\ UNCHANGED <<session, lock>>

RestoreImage(r) ==
    /\ Free
    /\ Step(r, {"restoring"}, "rewinding")
    /\ \E p \in OwnPoint(r) : image' = p.image
    /\ stamp' = stamp + 1
    /\ lock' = r
    /\ UNCHANGED <<mem, json, points, nextId, kind, token, saved>>

RestoreWithoutPoint(r) ==
    /\ Free
    /\ Step(r, {"restoring"}, "failed")
    /\ OwnPoint(r) = {}
    /\ UNCHANGED <<session, points, nextId, lock, kind, token>>

\* undo_last_change(): the lock is held until the point has been removed.
UndoImage(r) ==
    /\ Arrive(r, "undo")
    /\ Free
    /\ Step(r, {"idle"}, "rewinding")
    /\ \E p \in points :
        /\ Latest(p)
        /\ image' = p.image
        /\ token' = [token EXCEPT ![r].point = p.id]
    /\ stamp' = stamp + 1
    /\ lock' = r
    /\ UNCHANGED <<mem, json, points, nextId, saved>>

\* The second half of CheckpointStore.restore, common to the three: the
\* session object takes the state the point was taken with and is stored.
Rewind(r) ==
    /\ pc[r] = "rewinding"
    /\ \E p \in OwnPoint(r) : mem' = [name |-> p.name, dirty |-> p.dirty]
    /\ json' = mem'
    /\ pc' = [pc EXCEPT ![r] = CASE kind[r] = "restore" -> "ok"
                                 [] kind[r] = "undo" -> "undoing"
                                 [] OTHER -> "rewound"]
    /\ lock' = IF kind[r] = "undo" THEN r ELSE NoRequest
    /\ UNCHANGED <<image, stamp, points, nextId, kind, token, saved>>

UndoDrop(r) ==
    /\ Step(r, {"undoing"}, "ok")
    /\ points' = Without(r)
    /\ lock' = NoRequest
    /\ UNCHANGED <<session, nextId, kind, token>>
-----------------------------------------------------------------------------
(***************************************************************************)
(* Named checkpoints, deletion, renaming, the hardware profile, crashes.   *)
(***************************************************************************)

CreateNamed(r) ==
    /\ Arrive(r, "named")
    /\ Free
    /\ Step(r, {"idle"}, "ok")
    /\ TakePoint(FALSE)
    /\ UNCHANGED <<session, lock, token>>

DeletePoint(r) ==
    /\ Arrive(r, "delete")
    /\ Free
    /\ Step(r, {"idle"}, "ok")
    /\ \E p \in points :
        /\ token' = [token EXCEPT ![r].point = p.id]
        /\ points' = points \ {p}
    /\ UNCHANGED <<session, nextId, lock>>

\* rename_session(): the session first, then every point that bears the old
\* name, all under the lock.
Rename(r) ==
    /\ Arrive(r, "rename")
    /\ Free
    /\ Step(r, {"idle"}, "relabelling")
    /\ \E name \in Names \ {mem.name} : mem' = [mem EXCEPT !.name = name]
    /\ json' = mem'
    /\ token' = [token EXCEPT ![r].name = mem.name]
    /\ lock' = r
    /\ UNCHANGED <<image, stamp, points, nextId, saved>>

Bearing(name) == {p \in points : p.name = name}
Renamed(done) == {IF p \in done THEN [p EXCEPT !.name = mem.name] ELSE p : p \in points}

\* Mistake: only automatic points are relabelled.
RelabelAutomatic(r) ==
    /\ Step(r, {"relabelling"}, "ok")
    /\ points' = Renamed(Autos(Bearing(token[r].name)))
    /\ lock' = NoRequest
    /\ UNCHANGED <<session, nextId, kind, token>>

\* relabel() rewrites the points in any order; an error at one of them is
\* ignored and leaves it and those after it with the old name.
Relabel(r) ==
    /\ \E done \in SUBSET Bearing(token[r].name) :
        /\ Step(r, {"relabelling"},
                IF done = Bearing(token[r].name) THEN "ok" ELSE "unlabelled")
        /\ points' = Renamed(done)
    /\ lock' = NoRequest
    /\ UNCHANGED <<session, nextId, kind, token>>

\* set_hardware_profile stores the session without taking the lock.
StoreProfile(r) ==
    /\ Arrive(r, "profile")
    /\ Step(r, {"idle"}, "ok")
    /\ json' = mem
    /\ UNCHANGED <<image, stamp, mem, points, nextId, lock, token, saved>>

\* The process dies; a new one reads session.json (_restore_session).
Crash ==
    /\ MayCrash
    /\ mem' = json
    /\ lock' = NoRequest
    /\ pc' = [r \in Requests |-> IF r \in InFlight THEN "lost" ELSE pc[r]]
    /\ UNCHANGED <<image, stamp, json, points, nextId, kind, token, saved>>
-----------------------------------------------------------------------------
EditStep(r) == EditWrite(r) \/ EditMark(r) \/ FindBlank(r) \/ ReplaceBlank(r)
RollbackStep(r) == Rollback(r) \/ RollbackWithoutPoint(r) \/ RollbackDrop(r)
RestoreStep(r) == RestoreBegin(r) \/ RestoreImage(r) \/ RestoreWithoutPoint(r)
UndoStep(r) == UndoImage(r) \/ UndoDrop(r)
RenameStep(r) == Rename(r) \/ Relabel(r)

RequestStep(r) ==
    \/ Begin(r) \/ EditStep(r) \/ SaveArchive(r) \/ Finish(r)
    \/ RollbackStep(r) \/ RestoreStep(r) \/ UndoStep(r) \/ Rewind(r)
    \/ CreateNamed(r) \/ DeletePoint(r) \/ RenameStep(r) \/ StoreProfile(r)

\* Nothing has to arrive; a request that is in flight must be able to go on.
NoMoreRequests == Quiet /\ UNCHANGED vars

Next == (\E r \in Requests : RequestStep(r)) \/ Crash \/ NoMoreRequests

Spec == Init /\ [][Next]_vars
-----------------------------------------------------------------------------
(***************************************************************************)
(* Properties.                                                             *)
(***************************************************************************)

\* An image shown without the changed dot is one the user has a file of:
\* unsaved work is never taken for saved, after undo, restore, a failed
\* request or a failed download included.
CleanMeansSaved == Quiet /\ ~ mem.dirty => image \in saved

\* When no request is in flight, session.json says what memory says, so that
\* a restart at that moment loses nothing.
StoredIsCurrent == Quiet => json = mem

\* A request that answered with an error has left none of its edit behind.
FailedEditIsGone == \A r \in image : pc[r] # "failed"

\* The edit of a request that succeeded leaves the image only because an undo
\* or a restore was asked for, never because another request failed.
FinishedEditKept ==
    [][\A r \in image \ image' : pc[r] = "ok" =>
          \E q \in Requests : /\ kind'[q] \in {"undo", "restore"}
                              /\ pc[q] # "rewinding" /\ pc'[q] = "rewinding"]_vars

\* Whatever edit the image holds, some automatic point without it remains: no
\* change is beyond undo, whichever requests overlap and wherever one dies.
EveryEditUndoable ==
    \A r \in image : pc[r] = "ok" => \E p \in Autos(points) : r \notin p.image

\* Restoring a checkpoint saves the state it replaces as a new automatic
\* point.  (It does not when another request changes the image in between.)
RestoreIsUndoable ==
    [][\A r \in Requests :
          pc[r] = "restoring" /\ pc'[r] = "rewinding" =>
              \E p \in Autos(points) : p.image = image]_vars

\* A named checkpoint keeps its content until it is deleted on request:
\* pruning, rollback, undo and the finaliser only ever remove automatic ones.
Kept(p, ps) ==
    \E q \in ps : /\ q.id = p.id /\ ~ q.auto
                  /\ q.image = p.image /\ q.dirty = p.dirty
DeletedNow(p) ==
    \E r \in Requests : /\ pc[r] = "idle" /\ pc'[r] = "ok"
                        /\ kind'[r] = "delete" /\ token'[r].point = p.id
NamedPointKept ==
    [][\A p \in points : ~ p.auto => Kept(p, points') \/ DeletedNow(p)]_vars

\* The content the image has now, or that of a point, with the name it bears.
Labelled ==
    {[image |-> p.image, name |-> p.name] : p \in points}
        \cup {[image |-> image, name |-> mem.name]}
Replacements(c) == {r \in c : kind[r] = "replace"}

\* Contents that stem from the same replaced images bear the same name, so
\* that undoing an edit made before a rename does not undo the rename, and a
\* rename never reaches the points of an image that has since been replaced
\* by one of another name; unless a point could not be relabelled.
NamesFollowImage ==
    Free /\ (\A r \in Requests : pc[r] # "unlabelled") =>
        \A a, b \in Labelled :
            Replacements(a.image) = Replacements(b.image) => a.name = b.name
=============================================================================
