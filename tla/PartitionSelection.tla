------------------------- MODULE PartitionSelection -------------------------
(***************************************************************************)
(* Which partition of a hard disk a request works on                       *)
(* (src/app/partition_service.py, routes/common.py, routes/files.py,       *)
(* filesystem_disk_service.py, file_editor.py).                            *)
(*                                                                         *)
(* The selected partition is a field of the session that every request on  *)
(* the drive shares.  A request that names a partition first points the    *)
(* session at it and later mounts whatever is selected then.  Selecting    *)
(* is done without the session lock and in steps: the field is set, the    *)
(* partition is mounted to read its capabilities (format, limits of names  *)
(* and directories), and the session is stored: _persist_session() makes   *)
(* the text, writes it to session.json.tmp, which all requests on the      *)
(* image share, and renames that file to session.json.                     *)
(*                                                                         *)
(* Several panes may show the same drive, so what a request names and what *)
(* is selected when it arrives are independent.                            *)
(***************************************************************************)
EXTENDS Naturals, SequencesExt

CONSTANTS
    Requests,    \* the requests on the drive; bounds the behaviour
    Parts,       \* indices of the partitions the table declares
    Table,       \* "no partition": the pane shows the partition table
    Unsaid,      \* a request that says nothing about partitions
    Beyond,      \* an index the table does not have
    NoFile,      \* there is no session.json.tmp, or a request holds no text
    Kinds,       \* the kinds of request that arrive
    Concurrent   \* may a request arrive while another is in flight?

AllKinds == {"edit", "delete", "list", "search", "undo"}

ASSUME PartsAssumption == Parts # {} /\ IsFiniteSet(Parts)
ASSUME NoPartAssumption ==
    /\ Table \notin Parts \cup {Unsaid, Beyond}
    /\ Unsaid \notin Parts \cup {Beyond}
    /\ Beyond \notin Parts
ASSUME KindsAssumption == Kinds \subseteq AllKinds /\ Concurrent \in BOOLEAN
ASSUME NoFileAssumption ==
    NoFile \notin [selection : Parts \cup {Table}, caps : Parts \cup {Table}, dirty : BOOLEAN]

VARIABLES
    selection,   \* session.partition
    caps,        \* the partition the cached capabilities were read from; Table: none
    stored,      \* what session.json says
    temporary,   \* what session.json.tmp says
    volume,      \* volume[p]: the edits partition p contains
    points,      \* the automatic checkpoints, oldest first
    req          \* req[r]: the state of each request

vars == <<selection, caps, stored, temporary, volume, points, req>>
files == <<stored, temporary>>
-----------------------------------------------------------------------------
Selected == Parts \cup {Table}

\* session.dirty: _mark_mutated() sets it, a checkpoint brings back the one of
\* its content.  Nothing saves the image here.
Dirty == \E p \in Parts : volume[p] # {}

\* What session.json says of the session; session_metadata() makes it.
Stored == [selection : Selected, caps : Selected, dirty : BOOLEAN]
Current == [selection |-> selection, caps |-> caps, dirty |-> Dirty]
Point == [owner : Requests, volume : [Parts -> SUBSET Requests], selection : Selected]

Wrapped == {"edit", "delete"}
Ended == {"ok", "failed"}

\* In _persist_session(): to make the text, to write it, to rename the file.
Storing == {"storing", "writing", "replacing"}

\* Where a request goes on once the session is stored.
Afters == {"applying", "ok", "dropping"}

Places ==
    {"idle", "applying", "describing", "reading", "mounted", "marked", "broken", "dropping"}
        \cup Storing \cup Ended

\* named: the partition the request names; before: the selection it found;
\* todo: the selections it still makes; index: the partition it mounted;
\* text: the session as it is about to write it.
Request ==
    [pc : Places,
     kind : AllKinds \cup {"none"},
     named : Selected \cup {Unsaid, Beyond},
     before : Selected,
     todo : Seq(Selected \cup {Unsaid, Beyond}),
     index : Selected,
     wrote : BOOLEAN,
     after : Afters,
     text : Stored \cup {NoFile}]

Quiet == \A r \in Requests : req[r].pc \in {"idle"} \cup Ended

\* The session lock: kept while the finaliser or an undo stores the session,
\* and by an undo until its point is gone.  Every other use of it is one step.
HoldsLock(r) ==
    \/ req[r].pc \in Storing /\ req[r].after # "applying"
    \/ req[r].pc = "dropping" /\ req[r].kind = "undo"
LockFree == \A r \in Requests : ~ HoldsLock(r)

TypeOK ==
    /\ selection \in Selected
    /\ caps \in Selected
    /\ stored \in Stored
    /\ temporary \in Stored \cup {NoFile}
    /\ volume \in [Parts -> SUBSET Requests]
    /\ points \in Seq(Point)
    /\ req \in [Requests -> Request]

\* A drive opens on its partition table.
Init ==
    /\ selection = Table
    /\ caps = Table
    /\ volume = [p \in Parts |-> {}]
    /\ stored = Current
    /\ temporary = NoFile
    /\ points = <<>>
    /\ req = [r \in Requests |->
                [pc |-> "idle", kind |-> "none", named |-> Unsaid, before |-> Table,
                 todo |-> <<>>, index |-> Table, wrote |-> FALSE,
                 after |-> "applying", text |-> NoFile]]
-----------------------------------------------------------------------------
(***************************************************************************)
(* Arrival.  The middleware records an automatic checkpoint before a       *)
(* request that changes the image; the checkpoint holds the selection.     *)
(***************************************************************************)

Begun(r, k, named, todo) ==
    /\ k \in Kinds
    /\ req[r].pc = "idle"
    /\ Concurrent \/ Quiet
    /\ k \in Wrapped => LockFree
    /\ req' = [req EXCEPT ![r] =
                  [pc |-> "applying", kind |-> k, named |-> named, before |-> selection,
                   todo |-> todo, index |-> selection, wrote |-> FALSE,
                   after |-> "applying", text |-> NoFile]]
    /\ points' = IF k \in Wrapped
                 THEN Append(points, [owner |-> r, volume |-> volume, selection |-> selection])
                 ELSE points
    /\ UNCHANGED <<selection, caps, files, volume>>

\* Mistake: the handler does not apply the partition.
EditUnapplied(r) == \E named \in Parts \cup {Unsaid, Beyond} : Begun(r, "edit", named, <<>>)

\* Making a folder, writing, renaming, moving, importing.  A pane that shows
\* the partition table sends no edits.
Edit(r) == \E named \in Parts \cup {Unsaid, Beyond} : Begun(r, "edit", named, <<named>>)

\* Deleting: the browser sends the partition, the handler does not apply it.
Delete(r) == \E named \in Parts : Begun(r, "delete", named, <<>>)

\* Mistake: the handler does not apply the partition.
ListUnapplied(r) == \E named \in Selected \cup {Unsaid, Beyond} : Begun(r, "list", named, <<>>)

\* A listing, the capacity, the content of a file.
List(r) == \E named \in Selected \cup {Unsaid, Beyond} : Begun(r, "list", named, <<named>>)

\* Mistake: the search does not put the selection back.
SearchLeavesLast(r) == Begun(r, "search", Unsaid, SetToSeq(Parts))

\* A search of the whole drive selects every partition in turn and then what
\* was selected when it began.
Search(r) == Begun(r, "search", Unsaid, Append(SetToSeq(Parts), selection))
-----------------------------------------------------------------------------
(***************************************************************************)
(* apply_partition() and select_partition().                               *)
(***************************************************************************)

Goal(r) == Head(req[r].todo)

Applying(r) == req[r].pc = "applying" /\ req[r].todo # <<>>

SkipSelection(r) ==
    /\ Applying(r)
    /\ Goal(r) = Unsaid
    /\ req' = [req EXCEPT ![r].todo = Tail(@)]
    /\ UNCHANGED <<selection, caps, files, volume, points>>

\* Mistake: the session is not stored.
SelectTableUnstored(r) ==
    /\ Applying(r)
    /\ Goal(r) = Table
    /\ selection' = Table
    /\ req' = [req EXCEPT ![r].todo = Tail(@)]
    /\ UNCHANGED <<caps, files, volume, points>>

\* Back to the partition table: the capabilities stay as they were.
SelectTable(r) ==
    /\ Applying(r)
    /\ Goal(r) = Table
    /\ selection' = Table
    /\ req' = [req EXCEPT ![r].todo = Tail(@), ![r].pc = "storing", ![r].after = "applying"]
    /\ UNCHANGED <<caps, files, volume, points>>

\* Mistakes: the table is not asked whether it has the partition; the
\* capabilities are kept and the session is not stored.
ChooseUnchecked(r) ==
    /\ Applying(r)
    /\ Goal(r) \notin {Unsaid, Table}
    /\ selection' = Goal(r)
    /\ caps' = Table
    /\ req' = [req EXCEPT ![r].todo = Tail(@), ![r].pc = "describing"]
    /\ UNCHANGED <<files, volume, points>>
ChooseOnly(r) ==
    /\ Applying(r)
    /\ Goal(r) \in Parts
    /\ selection' = Goal(r)
    /\ req' = [req EXCEPT ![r].todo = Tail(@)]
    /\ UNCHANGED <<caps, files, volume, points>>

\* An index the table does not have is refused (see Fail).
Choose(r) ==
    /\ Applying(r)
    /\ Goal(r) \in Parts
    /\ selection' = Goal(r)
    /\ caps' = Table
    /\ req' = [req EXCEPT ![r].todo = Tail(@), ![r].pc = "describing"]
    /\ UNCHANGED <<files, volume, points>>

\* refresh_gemdos_capabilities() reads the index before it takes the lock, and
\* describes nothing when there is none.
ReadIndex(r) ==
    /\ req[r].pc = "describing"
    /\ req' = [req EXCEPT ![r].pc = "reading", ![r].index = selection]
    /\ UNCHANGED <<selection, caps, files, volume, points>>

\* A volume that does not mount has no capabilities.  After a selection the
\* session is stored; after an edit the finaliser of the middleware will do it.
Describe(r) ==
    /\ req[r].pc = "reading"
    /\ LockFree
    /\ caps' \in {req[r].index, Table}
    /\ req' = IF req[r].wrote THEN [req EXCEPT ![r].pc = "marked"]
              ELSE [req EXCEPT ![r].pc = "storing", ![r].after = "applying"]
    /\ UNCHANGED <<selection, files, volume, points>>
-----------------------------------------------------------------------------
(***************************************************************************)
(* _persist_session().  Requests share the name of the temporary file: one *)
(* may write over the text of another, rename it in its place, and leave   *)
(* it nothing to rename.                                                   *)
(***************************************************************************)

MakeText(r) ==
    /\ req[r].pc = "storing"
    /\ req' = [req EXCEPT ![r].pc = "writing", ![r].text = Current]
    /\ UNCHANGED <<selection, caps, files, volume, points>>

WriteTemporary(r) ==
    /\ req[r].pc = "writing"
    /\ temporary' = req[r].text
    /\ req' = [req EXCEPT ![r].pc = "replacing", ![r].text = NoFile]
    /\ UNCHANGED <<selection, caps, stored, volume, points>>

\* Nothing to rename: the selection fails, the finaliser only logs the error,
\* so that a finished edit is answered as it was and a rollback or an undo
\* leaves its point.
NotStored == [applying |-> "broken", ok |-> "ok", dropping |-> "failed"]

ReplaceStored(r) ==
    /\ req[r].pc = "replacing"
    /\ stored' = IF temporary = NoFile THEN stored ELSE temporary
    /\ temporary' = NoFile
    /\ req' = [req EXCEPT ![r].pc =
                  IF temporary = NoFile THEN NotStored[req[r].after] ELSE req[r].after]
    /\ UNCHANGED <<selection, caps, volume, points>>
-----------------------------------------------------------------------------
(***************************************************************************)
(* The work, and how a request ends.                                       *)
(***************************************************************************)

Ready(r) == req[r].pc = "applying" /\ req[r].todo = <<>>

\* gemdos_mount(): refused without a selection (see Fail); the index is read
\* before the lock of the mount is taken.
Mount(r) ==
    /\ Ready(r)
    /\ req[r].kind # "search"
    /\ selection # Table
    /\ req' = [req EXCEPT ![r].pc = "mounted", ![r].index = selection]
    /\ UNCHANGED <<selection, caps, files, volume, points>>

\* The change, and _mark_mutated(), which reads the capabilities again.
Write(r) ==
    /\ req[r].kind \in Wrapped
    /\ req[r].pc = "mounted"
    /\ LockFree
    /\ volume' = [volume EXCEPT ![req[r].index] = @ \cup {r}]
    /\ req' = [req EXCEPT ![r].pc = "describing", ![r].wrote = TRUE]
    /\ UNCHANGED <<selection, caps, files, points>>

Own(r) == CHOOSE i \in 1 .. Len(points) : points[i].owner = r
HasOwn(r) == \E i \in 1 .. Len(points) : points[i].owner = r

\* finish_automatic_checkpoint(): the point is dropped when neither the image
\* nor the selection changed, and the session is stored.
Finish(r) ==
    /\ req[r].pc = "marked"
    /\ LockFree
    /\ points' = IF HasOwn(r) /\ points[Own(r)].volume = volume
                                /\ points[Own(r)].selection = selection
                 THEN RemoveAt(points, Own(r)) ELSE points
    /\ req' = [req EXCEPT ![r].pc = "storing", ![r].after = "ok"]
    /\ UNCHANGED <<selection, caps, files, volume>>

\* A listing of the table or of a volume; the end of a search.
Answer(r) ==
    /\ \/ /\ req[r].kind = "list"
          /\ (req[r].pc = "mounted" /\ LockFree) \/ (Ready(r) /\ selection = Table)
       \/ req[r].kind = "search" /\ Ready(r)
    /\ req' = [req EXCEPT ![r].pc = "ok"]
    /\ UNCHANGED <<selection, caps, files, volume, points>>

\* An error in applying the selection, in the mount, in the change or after it:
\* the checkpoint is restored and the session stored; the capabilities are not
\* read again.  Without its checkpoint the request only fails.
Fail(r) ==
    /\ req[r].pc \in {"applying", "mounted", "marked", "broken"}
    /\ req[r].kind \in Wrapped
    /\ LockFree
    /\ volume' = IF HasOwn(r) THEN points[Own(r)].volume ELSE volume
    /\ selection' = IF HasOwn(r) THEN points[Own(r)].selection ELSE selection
    /\ req' = IF HasOwn(r) THEN [req EXCEPT ![r].pc = "storing", ![r].after = "dropping"]
              ELSE [req EXCEPT ![r].pc = "failed"]
    /\ UNCHANGED <<caps, files, points>>

\* Then the rollback drops its checkpoint, under the lock again, and an undo
\* the newest one, still under the lock.
Drop(r) ==
    /\ req[r].pc = "dropping"
    /\ \A q \in Requests \ {r} : ~ HoldsLock(q)
    /\ points' = IF req[r].kind = "undo" THEN Front(points)
                 ELSE IF HasOwn(r) THEN RemoveAt(points, Own(r)) ELSE points
    /\ req' = [req EXCEPT ![r].pc = IF req[r].kind = "undo" THEN "ok" ELSE "failed"]
    /\ UNCHANGED <<selection, caps, files, volume>>

\* A listing that fails has no checkpoint and leaves what it selected; so does
\* a search whose last selection was not stored.
FailListing(r) ==
    /\ \/ req[r].kind = "list" /\ req[r].pc \in {"applying", "mounted", "broken"}
       \/ req[r].kind = "search" /\ req[r].pc = "broken" /\ req[r].todo = <<>>
    /\ req' = [req EXCEPT ![r].pc = "failed"]
    /\ UNCHANGED <<selection, caps, files, volume, points>>

\* A search that is interrupted goes straight to its last selection.
InterruptSearch(r) ==
    /\ req[r].kind = "search"
    /\ \/ req[r].pc = "applying" /\ Len(req[r].todo) > 1
       \/ req[r].pc = "broken" /\ req[r].todo # <<>>
    /\ req' = [req EXCEPT ![r].todo = <<Last(@)>>, ![r].pc = "applying"]
    /\ UNCHANGED <<selection, caps, files, volume, points>>

\* undo_last_change(), under the session lock; its point goes when the session
\* is stored (Drop).
Undo(r) ==
    /\ "undo" \in Kinds
    /\ req[r].pc = "idle"
    /\ Concurrent \/ Quiet
    /\ LockFree
    /\ points # <<>>
    /\ volume' = Last(points).volume
    /\ selection' = Last(points).selection
    /\ req' = [req EXCEPT ![r].pc = "storing", ![r].after = "dropping",
                          ![r].kind = "undo", ![r].before = selection]
    /\ UNCHANGED <<caps, files, points>>
-----------------------------------------------------------------------------
Arrival(r) == Edit(r) \/ Delete(r) \/ List(r) \/ Search(r) \/ Undo(r)
Selecting(r) ==
    SkipSelection(r) \/ SelectTable(r) \/ Choose(r) \/ ReadIndex(r) \/ Describe(r)
Persisting(r) == MakeText(r) \/ WriteTemporary(r) \/ ReplaceStored(r)
Working(r) ==
    \/ Mount(r) \/ Write(r) \/ Finish(r) \/ Answer(r)
    \/ Fail(r) \/ Drop(r) \/ FailListing(r) \/ InterruptSearch(r)

\* Nothing has to arrive; a request that is in flight must be able to go on.
NoMoreRequests == Quiet /\ UNCHANGED vars

Next ==
    \/ \E r \in Requests : Arrival(r) \/ Selecting(r) \/ Persisting(r) \/ Working(r)
    \/ NoMoreRequests

Spec == Init /\ [][Next]_vars
-----------------------------------------------------------------------------
(***************************************************************************)
(* Properties.                                                             *)
(***************************************************************************)

\* The partition a request means: the one it names, or the one that was
\* selected when it arrived.
Meant(r) == IF req[r].named = Unsaid THEN req[r].before ELSE req[r].named

\* An edit whose request names a partition changes no other one.
EditsLandWhereNamed ==
    [][\A r \in Requests, p \in Parts :
          r \in volume'[p] \ volume[p] /\ req[r].named \in Parts => p = req[r].named]_vars

\* An edit changes no partition but the one its request means.
EditsLandWhereMeant ==
    [][\A r \in Requests, p \in Parts :
          r \in volume'[p] \ volume[p] /\ req[r].kind = "edit" => p = Meant(r)]_vars

\* A listing shows the partition its request means.
ListingShowsMeant ==
    [][\A r \in Requests :
          req[r].kind = "list" /\ req[r].pc = "mounted" /\ req'[r].pc = "ok"
              => req[r].index = Meant(r)]_vars

PutsBack(r) ==
    \/ req[r].kind \in Wrapped /\ req'[r].pc = "failed"
    \/ req[r].kind = "search" /\ req'[r].pc = "ok"

\* An edit that failed, and a search of the whole drive, leave the selection as
\* they found it.
SelectionPutBack ==
    [][\A r \in Requests :
          PutsBack(r) /\ req[r].pc # req'[r].pc => selection' = req[r].before]_vars

AnswersNamed(r) ==
    /\ req[r].kind \in {"edit", "list"}
    /\ req[r].named \in Parts
    /\ req[r].pc # "ok" /\ req'[r].pc = "ok"

\* The capabilities in the answer to a request that named a partition are those
\* of that partition, or none when it did not mount.
AnswerDescribesNamed ==
    [][\A r \in Requests :
          AnswersNamed(r) => selection' = req[r].named /\ caps' \in {req[r].named, Table}]_vars

\* When no request is in flight a restart finds the selection, the capabilities
\* and the unsaved edits as they were.
StoredIsCurrent == Quiet => stored = Current

\* An edit that was answered is not taken for saved after a restart ("so recovery
\* cannot resurrect an edited image as though it were still saved",
\* session_disk_service.py).
EditsStayUnsaved == Quiet /\ Dirty => stored.dirty

\* Requests are alike.
Symmetric == Permutations(Requests)
=============================================================================
