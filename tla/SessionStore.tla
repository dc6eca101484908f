---------------------------- MODULE SessionStore ----------------------------
(***************************************************************************)
(* The image sessions of the server: opening and creating images, the      *)
(* objects in memory, session.json beside each working image, reopening    *)
(* after a restart, the recovery list and clearing it                      *)
(* (src/app/disk_service.py, src/app/session_disk_service.py).             *)
(*                                                                         *)
(* An image is what its name says and what its bytes hold.  Edits,         *)
(* checkpoints and the fields of session.json other than the kind are in   *)
(* ImageHistory and PartitionSelection.                                    *)
(***************************************************************************)
EXTENDS FiniteSets

CONSTANTS
    SessionIds,     \* identifiers, one per opened image
    Owners,         \* browser identities
    NothingKept     \* no image, no stored session, no object

VARIABLES
    folder,         \* working image and session.json of each identifier
    sessions,       \* kind of each session object in memory
    opening,        \* how far the request that opens it has come
    loading,        \* identifiers whose session.json a request has read
    clearing,       \* sessions popped whose folders are not yet removed
    owner,          \* who opened it
    identity           \* whether a browser was given the identifier

storeVars == <<folder, sessions, opening, loading, clearing, owner, identity>>
-----------------------------------------------------------------------------
NameKinds == {"gemdos", "msa", "dim", "stx", "hfe", "scp", "ipf", "iso", "hd", "img",
              "rom", "unknown"}

\* What bytes can be: a volume, a partitioned drive, a TOS ROM, a cartridge, a
\* CD, a floppy that boots its own loader, or nothing that is recognised.
\* Containers and captures hold one of these in their own wrapping.
Recordings == {"volume", "drive", "tos", "cartridge", "cd", "loader", "noise"}
ContainerNames == {"msa", "dim", "stx"}
Captures == {"hfe", "scp", "ipf"}
ImageSources == [named : NameKinds, holds : Recordings, wrapped : BOOLEAN, forced : BOOLEAN]

SessionKinds == {"gemdos", "hd", "msa", "dim", "stx", "iso", "rom", "tosrom", "unknown"}

ASSUME StoreAssumption == NothingKept \notin SessionKinds \cup ImageSources

\* identify_kind(): the disc and the ROM probes come first, the latter when
\* the name allows a ROM, then the filing systems.
Identified(named, holds) ==
    CASE holds = "cd" -> "iso"
      [] holds = "tos" /\ named \in {"img", "rom", "unknown"} -> "tosrom"
      [] holds = "cartridge" /\ named \in {"img", "rom", "unknown"} -> "rom"
      [] holds = "volume" -> "gemdos"
      [] holds = "drive" -> "hd"
      [] OTHER -> "refused"

\* _custom_loader_disk(): a floppy that boots is opened for its sectors.
UnlessLoader(holds, kind) == IF holds = "loader" THEN "unknown" ELSE kind

\* _open_hfe(), _open_scp(), _open_ipf(): the decoded sectors count, and flux
\* must decode to a volume.
Captured(source) ==
    LET kind == Identified("unknown", source.holds)
    IN  IF source.wrapped /\ (source.named = "ipf" \/ kind = "gemdos") THEN kind ELSE "refused"

\* Mistake: the kind of the name is taken for the kind of the bytes.
OpenedByName(source) ==
    CASE source.named \in SessionKinds -> source.named
      [] source.named = "img" -> "hd"
      [] OTHER -> Captured(source)

\* _finalize_new_session().
OpenedAs(source) ==
    CASE source.forced -> "rom"
      [] ~source.forced /\ source.named \in Captures -> Captured(source)
      [] ~source.forced /\ source.named \in ContainerNames ->
             IF source.wrapped THEN source.named ELSE "refused"
      [] ~source.forced /\ source.named = "iso" -> "iso"
      [] ~source.forced /\ source.named = "rom" ->
             IF Identified("rom", source.holds) = "tosrom" THEN "tosrom" ELSE "rom"
      [] OTHER -> UnlessLoader(source.holds, Identified(source.named, source.holds))
-----------------------------------------------------------------------------
EmptyFolder == [image |-> NothingKept, stored |-> NothingKept]

StoreTypeOK ==
    /\ folder \in [SessionIds -> [image : ImageSources \cup {NothingKept},
                                  stored : SessionKinds \cup {NothingKept}]]
    /\ sessions \in [SessionIds -> SessionKinds \cup {NothingKept}]
    /\ opening \in [SessionIds -> {"no", "copied", "registered"}]
    /\ loading \subseteq SessionIds /\ clearing \subseteq SessionIds
    /\ owner \in [SessionIds -> Owners]
    /\ identity \in [SessionIds -> {"new", "answered", "refused", "cleared"}]

StoreInit ==
    /\ folder = [id \in SessionIds |-> EmptyFolder]
    /\ sessions = [id \in SessionIds |-> NothingKept]
    /\ opening = [id \in SessionIds |-> "no"]
    /\ loading = {} /\ clearing = {}
    /\ owner \in [SessionIds -> Owners]
    /\ identity = [id \in SessionIds |-> "new"]

\* create_from_stream(), create_from_path(): a fresh folder with the copy.
CopyImage(id) ==
    /\ identity[id] = "new" /\ opening[id] = "no" /\ folder[id] = EmptyFolder
    /\ \E source \in ImageSources : folder' = [folder EXCEPT ![id].image = source]
    /\ opening' = [opening EXCEPT ![id] = "copied"]
    /\ UNCHANGED <<sessions, loading, clearing, owner, identity>>

\* _finalize_new_session() up to the object in memory; an image that no probe
\* accepts takes its folder with it.
Register(id) ==
    /\ opening[id] = "copied"
    /\ LET kind == OpenedAs(folder[id].image)
       IN  IF kind = "refused"
           THEN /\ folder' = [folder EXCEPT ![id] = EmptyFolder]
                /\ opening' = [opening EXCEPT ![id] = "no"]
                /\ identity' = [identity EXCEPT ![id] = "refused"]
                /\ UNCHANGED sessions
           ELSE /\ sessions' = [sessions EXCEPT ![id] = kind]
                /\ opening' = [opening EXCEPT ![id] = "registered"]
                /\ UNCHANGED <<folder, identity>>
    /\ UNCHANGED <<loading, clearing, owner>>

\* create_blank(): the new image is a volume, a drive or a ROM.
CreateBlank(id) ==
    /\ identity[id] = "new" /\ opening[id] = "no" /\ folder[id] = EmptyFolder
    /\ \E kind \in {"gemdos", "hd", "rom"} :
           /\ folder' = [folder EXCEPT ![id].image =
                  [named |-> kind, wrapped |-> FALSE, forced |-> FALSE,
                   holds |-> CASE kind = "gemdos" -> "volume" [] kind = "hd" -> "drive"
                               [] OTHER -> "cartridge"]]
           /\ sessions' = [sessions EXCEPT ![id] = kind]
    /\ opening' = [opening EXCEPT ![id] = "registered"]
    /\ UNCHANGED <<loading, clearing, owner, identity>>

\* Mistake: the browser is answered before the session is stored.
AnswerUnstored(id) ==
    /\ opening[id] = "registered"
    /\ identity' = [identity EXCEPT ![id] = "answered"]
    /\ opening' = [opening EXCEPT ![id] = "no"]
    /\ UNCHANGED <<folder, sessions, loading, clearing, owner>>

\* _persist_session(), then the answer.
StoreSession(id) ==
    /\ opening[id] = "registered"
    /\ folder' = [folder EXCEPT ![id].stored = sessions[id]]
    /\ identity' = [identity EXCEPT ![id] = "answered"]
    /\ opening' = [opening EXCEPT ![id] = "no"]
    /\ UNCHANGED <<sessions, loading, clearing, owner>>

\* The disk is full: the folder goes, the object in memory stays behind.
StoreFails(id) ==
    /\ opening[id] = "registered"
    /\ folder' = [folder EXCEPT ![id] = EmptyFolder]
    /\ identity' = [identity EXCEPT ![id] = "refused"]
    /\ opening' = [opening EXCEPT ![id] = "no"]
    /\ UNCHANGED <<sessions, loading, clearing, owner>>

\* _restore_session() accepts these kinds.
Restorable == SessionKinds \ {"unknown"}

\* get(): a session that is not in memory is read from its folder, whoever
\* asks; the owner is compared afterwards.
ReadStored(id) ==
    /\ sessions[id] = NothingKept /\ id \notin loading
    /\ folder[id].stored \in Restorable
    /\ loading' = loading \cup {id}
    /\ UNCHANGED <<folder, sessions, opening, clearing, owner, identity>>

\* The object is registered also when the folder has gone since it was read.
Reload(id) ==
    /\ id \in loading
    /\ \E kind \in Restorable :
           /\ folder[id].stored \in {kind, NothingKept}
           /\ sessions' = [sessions EXCEPT ![id] = kind]
    /\ loading' = loading \ {id}
    /\ UNCHANGED <<folder, opening, clearing, owner, identity>>

\* Mistake: the owner is not compared.
ClearOfAnybody(caller, id) ==
    /\ folder[id].stored # NothingKept /\ id \notin clearing
    /\ sessions' = [sessions EXCEPT ![id] = NothingKept]
    /\ clearing' = clearing \cup {id}
    /\ identity' = [identity EXCEPT ![id] = IF caller = owner[id] THEN "cleared" ELSE @]
    /\ UNCHANGED <<folder, opening, loading, owner>>

\* clear_recoverable_sessions(), discard_session(): the object goes first.
ClearSession(caller, id) ==
    /\ folder[id].stored # NothingKept /\ id \notin clearing
    /\ owner[id] = caller
    /\ sessions' = [sessions EXCEPT ![id] = NothingKept]
    /\ clearing' = clearing \cup {id}
    /\ identity' = [identity EXCEPT ![id] = "cleared"]
    /\ UNCHANGED <<folder, opening, loading, owner>>

RemoveFolder(id) ==
    /\ id \in clearing
    /\ folder' = [folder EXCEPT ![id] = EmptyFolder]
    /\ clearing' = clearing \ {id}
    /\ UNCHANGED <<sessions, opening, loading, owner, identity>>

\* The server stops: memory and the requests in flight are gone.
StopServer ==
    /\ sessions # [id \in SessionIds |-> NothingKept]
    /\ sessions' = [id \in SessionIds |-> NothingKept]
    /\ opening' = [id \in SessionIds |-> "no"]
    /\ loading' = {} /\ clearing' = {}
    /\ UNCHANGED <<folder, owner, identity>>

StoreNext ==
    \/ \E id \in SessionIds :
           \/ CopyImage(id) \/ Register(id) \/ CreateBlank(id)
           \/ StoreSession(id) \/ StoreFails(id)
           \/ ReadStored(id) \/ Reload(id) \/ RemoveFolder(id)
           \/ \E caller \in Owners : ClearSession(caller, id)
    \/ StopServer
StoreSpec == StoreInit /\ [][StoreNext]_storeVars
-----------------------------------------------------------------------------
\* "The filename extension is only a hint" (disk_service.py:365): a session
\* whose operations write to a volume, a drive or a ROM holds one, whatever
\* the name of the image said.
KindFollowsBytes ==
    \A id \in SessionIds :
        folder[id].image # NothingKept =>
            LET holds == folder[id].image.holds
            IN  /\ sessions[id] = "gemdos" => holds = "volume"
                /\ sessions[id] = "hd" => holds = "drive"
                /\ sessions[id] = "tosrom" => holds = "tos"

\* "If the Gunicorn worker restarts, the application can reopen a valid session
\* from disk" (README.md:2355): an image that was answered to a browser is in
\* its folder with the session that describes it until its owner clears it.
AnsweredIsKept ==
    \A id \in SessionIds :
        identity[id] = "answered" =>
            /\ folder[id].image # NothingKept
            /\ folder[id].stored # NothingKept
            /\ sessions[id] \in {folder[id].stored, NothingKept}

\* "Recovery preserves completed edits after [...] container restart"
\* (README.md:2358): what the recovery list offers can be opened.
RecoverableOpens ==
    \A id \in SessionIds :
        folder[id].stored # NothingKept /\ sessions[id] = NothingKept /\ id \notin clearing
            => folder[id].stored \in Restorable
=============================================================================
