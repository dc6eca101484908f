---------------------- MODULE ServicePromises_proofs -----------------------
(***************************************************************************)
(* What the services promise, for any size of their stores, volumes and    *)
(* sources.  Sessions answer as they were kept: what a browser was         *)
(* answered is kept, as the kind its bytes have, with restarts, failures   *)
(* and clearing at any point; and the managed emulator keeps its media,    *)
(* with the threads of ended processes taking the lock as late as they     *)
(* like.  Checks are still true when something is written, and transfers   *)
(* are whole: the raw editor, the recipes, patches, the staging of disks,  *)
(* the names and the copies of files, and the catalogue.                   *)
(***************************************************************************)
EXTENDS ServicePromises, FiniteSetTheorems, SequenceTheorems, TLAPS

(***************************************************************************)
(* The session store.                                                      *)
(***************************************************************************)

Opened == {"answered", "cleared"}

\* The kinds that operations rely on are those of the bytes.
Fits(kind, holds) ==
    /\ kind = "gemdos" => holds = "volume"
    /\ kind = "hd" => holds = "drive"
    /\ kind = "tosrom" => holds = "tos"

\* What holds of one image, by what its folder has, the kind of its object in
\* memory, how far its opening is, whether it is being read or cleared, and what
\* its identifier is.  An image is answered once, after it was stored; until then
\* nothing is stored and nobody reads or clears it.
Sound(stock, kind, step, read, cleared, known) ==
    /\ known = "new" => stock.stored = NothingKept
    /\ step # "no" => known = "new" /\ stock.image # NothingKept
    /\ step = "registered" => kind # NothingKept
    /\ known = "new" /\ step # "registered" => kind = NothingKept
    /\ read => known \in Opened
    /\ cleared => known = "cleared"
    /\ known \in Opened /\ stock.stored = NothingKept => stock.image = NothingKept
    /\ known = "refused" => stock = EmptyFolder
    /\ stock.image # NothingKept =>
           Fits(kind, stock.image.holds) /\ Fits(stock.stored, stock.image.holds)
    /\ known = "answered" => /\ stock.image # NothingKept /\ stock.stored # NothingKept
                             /\ kind \in {stock.stored, NothingKept}

SoundAt(id) ==
    Sound(folder[id], sessions[id], opening[id], id \in loading, id \in clearing, identity[id])

StoreInv == StoreTypeOK /\ \A id \in SessionIds : SoundAt(id)

Kept == [image : ImageSources \cup {NothingKept}, stored : SessionKinds \cup {NothingKept}]
-----------------------------------------------------------------------------
\* The kind an image is opened as is one that sessions have, and fits its bytes.
LEMMA OpenedFits ==
  ASSUME NEW source \in ImageSources, OpenedAs(source) # "refused"
  PROVE  OpenedAs(source) \in SessionKinds /\ Fits(OpenedAs(source), source.holds)
<1>1. source.named \in NameKinds /\ source.holds \in Recordings
  BY DEF ImageSources
<1>2. ASSUME NEW named, NEW holds \in Recordings, Identified(named, holds) # "refused"
      PROVE  /\ Identified(named, holds) \in SessionKinds
             /\ Fits(Identified(named, holds), holds)
  <2>1. CASE holds = "cd"
    BY <2>1 DEF Identified, SessionKinds, Fits
  <2>2. CASE holds = "volume"
    BY <2>2 DEF Identified, SessionKinds, Fits
  <2>3. CASE holds = "drive"
    BY <2>3 DEF Identified, SessionKinds, Fits
  <2>4. CASE holds = "tos"
    BY <1>2, <2>4 DEF Identified, SessionKinds, Fits
  <2>5. CASE holds = "cartridge"
    BY <1>2, <2>5 DEF Identified, SessionKinds, Fits
  <2>6. CASE holds \in {"loader", "noise"}
    BY <1>2, <2>6 DEF Identified
  <2> QED BY <2>1, <2>2, <2>3, <2>4, <2>5, <2>6 DEF Recordings
<1>3. Captured(source) # "refused" =>
          Captured(source) \in SessionKinds /\ Fits(Captured(source), source.holds)
  BY <1>1, <1>2 DEF Captured
<1>4. CASE source.forced
  <2>1. OpenedAs(source) = "rom"
    BY <1>4 DEF OpenedAs
  <2> QED BY <2>1 DEF SessionKinds, Fits
<1>5. CASE ~source.forced /\ source.named \in Captures
  <2>1. OpenedAs(source) = Captured(source)
    BY <1>5 DEF OpenedAs, Captures, ContainerNames
  <2> QED BY <2>1, <1>3
<1>6. CASE ~source.forced /\ source.named \in ContainerNames
  BY <1>6 DEF OpenedAs, SessionKinds, Fits, Captures, ContainerNames
<1>7. CASE ~source.forced /\ source.named = "iso"
  BY <1>7 DEF OpenedAs, SessionKinds, Fits, Captures, ContainerNames
<1>8. CASE ~source.forced /\ source.named = "rom"
  BY <1>8, <1>1, <1>2 DEF OpenedAs, SessionKinds, Fits, Captures, ContainerNames, Identified
<1>9. CASE ~source.forced /\ source.named \notin Captures \cup ContainerNames \cup {"iso", "rom"}
  <2>1. OpenedAs(source) = UnlessLoader(source.holds, Identified(source.named, source.holds))
    BY <1>9 DEF OpenedAs
  <2> QED BY <2>1, <1>1, <1>2 DEF UnlessLoader, SessionKinds, Fits
<1> QED BY <1>4, <1>5, <1>6, <1>7, <1>8, <1>9

\* A step about one image leaves what holds of the others.
LEMMA OtherSessionsStay ==
  ASSUME StoreInv, NEW id \in SessionIds, SoundAt(id)',
         \A d \in SessionIds \ {id} :
             /\ folder'[d] = folder[d] /\ sessions'[d] = sessions[d]
             /\ opening'[d] = opening[d] /\ identity'[d] = identity[d]
             /\ d \in loading' <=> d \in loading
             /\ d \in clearing' <=> d \in clearing
  PROVE  \A d \in SessionIds : SoundAt(d)'
<1>1. ASSUME NEW d \in SessionIds, d # id PROVE SoundAt(d)'
  <2>1. SoundAt(d)
    BY DEF StoreInv
  <2> QED BY <1>1, <2>1 DEF SoundAt, Sound
<1> QED BY <1>1

\* A copy waits for its probes.
LEMMA CopyKept == ASSUME StoreInv, NEW id \in SessionIds, CopyImage(id) PROVE StoreInv'
<1>1. PICK source \in ImageSources : folder' = [folder EXCEPT ![id].image = source]
  BY DEF CopyImage
<1>2. folder[id] = EmptyFolder /\ folder[id] \in Kept
  BY DEF CopyImage, StoreInv, StoreTypeOK, Kept
<1>3. /\ folder'[id] = [image |-> source, stored |-> NothingKept]
      /\ \A d \in SessionIds \ {id} : folder'[d] = folder[d]
      /\ folder' \in [SessionIds -> Kept]
  BY <1>1, <1>2 DEF StoreInv, StoreTypeOK, Kept, EmptyFolder
<1>4. StoreTypeOK'
  BY <1>3 DEF CopyImage, StoreInv, StoreTypeOK, Kept
<1>5. /\ identity'[id] = "new" /\ opening'[id] = "copied"
      /\ \A d \in SessionIds \ {id} : opening'[d] = opening[d]
      /\ UNCHANGED <<sessions, loading, clearing, identity>>
  BY DEF CopyImage, StoreInv, StoreTypeOK
<1>6. sessions[id] = NothingKept /\ id \notin loading /\ id \notin clearing
  BY DEF CopyImage, StoreInv, SoundAt, Sound, Opened
<1>7. SoundAt(id)'
  BY <1>1, <1>3, <1>5, <1>6, StoreAssumption DEF SoundAt, Sound, Fits, Opened, SessionKinds
<1> QED BY <1>3, <1>4, <1>5, <1>7, OtherSessionsStay DEF StoreInv

\* An image is registered as a kind that fits it, or refused with its folder.
LEMMA RegisterKept == ASSUME StoreInv, NEW id \in SessionIds, Register(id) PROVE StoreInv'
<1> DEFINE kind == OpenedAs(folder[id].image)
<1>1. /\ opening[id] = "copied" /\ SoundAt(id)
      /\ folder[id] \in Kept /\ UNCHANGED <<loading, clearing, owner>>
  BY DEF Register, StoreInv, StoreTypeOK, Kept
<1>2. folder[id].image \in ImageSources
  BY <1>1, StoreAssumption DEF SoundAt, Sound, Kept
<1>3. CASE kind = "refused"
  <2>1. /\ folder' = [folder EXCEPT ![id] = EmptyFolder]
        /\ opening' = [opening EXCEPT ![id] = "no"]
        /\ identity' = [identity EXCEPT ![id] = "refused"]
        /\ UNCHANGED sessions
    BY <1>3 DEF Register
  <2>2. StoreTypeOK'
    BY <1>1, <2>1 DEF StoreInv, StoreTypeOK, EmptyFolder
  <2>3. SoundAt(id)'
    BY <1>1, <2>1 DEF StoreInv, StoreTypeOK, SoundAt, Sound, EmptyFolder, Opened
  <2> QED BY <1>1, <2>1, <2>2, <2>3, OtherSessionsStay DEF StoreInv, StoreTypeOK
<1>4. CASE kind # "refused"
  <2>1. /\ sessions' = [sessions EXCEPT ![id] = kind]
        /\ opening' = [opening EXCEPT ![id] = "registered"]
        /\ UNCHANGED <<folder, identity>>
    BY <1>4 DEF Register
  <2>2. kind \in SessionKinds /\ Fits(kind, folder[id].image.holds)
    BY <1>2, <1>4, OpenedFits
  <2> HIDE DEF kind
  <2>3. StoreTypeOK'
    BY <1>1, <2>1, <2>2 DEF StoreInv, StoreTypeOK
  <2>4. SoundAt(id)'
    BY <1>1, <2>1, <2>2, StoreAssumption DEF StoreInv, StoreTypeOK, SoundAt, Sound, Opened
  <2> QED BY <1>1, <2>1, <2>3, <2>4, OtherSessionsStay DEF StoreInv, StoreTypeOK
<1> QED BY <1>3, <1>4

\* A new image is registered as what it was made.
LEMMA BlankKept == ASSUME StoreInv, NEW id \in SessionIds, CreateBlank(id) PROVE StoreInv'
<1>1. PICK kind \in {"gemdos", "hd", "rom"} :
        /\ folder' = [folder EXCEPT ![id].image =
               [named |-> kind, wrapped |-> FALSE, forced |-> FALSE,
                holds |-> CASE kind = "gemdos" -> "volume" [] kind = "hd" -> "drive"
                            [] OTHER -> "cartridge"]]
        /\ sessions' = [sessions EXCEPT ![id] = kind]
  BY DEF CreateBlank
<1> DEFINE made == [named |-> kind, wrapped |-> FALSE, forced |-> FALSE,
                    holds |-> CASE kind = "gemdos" -> "volume" [] kind = "hd" -> "drive"
                                [] OTHER -> "cartridge"]
<1>2. made \in ImageSources /\ Fits(kind, made.holds) /\ kind \in SessionKinds
  BY DEF ImageSources, NameKinds, Recordings, Fits, SessionKinds
<1>3. folder' = [folder EXCEPT ![id].image = made]
  BY <1>1
<1> HIDE DEF made
<1>4. folder[id] = EmptyFolder /\ folder[id] \in Kept
  BY DEF CreateBlank, StoreInv, StoreTypeOK, Kept
<1>5. /\ folder'[id] = [image |-> made, stored |-> NothingKept]
      /\ \A d \in SessionIds \ {id} : folder'[d] = folder[d]
      /\ folder' \in [SessionIds -> Kept]
  BY <1>2, <1>3, <1>4 DEF StoreInv, StoreTypeOK, Kept, EmptyFolder
<1>6. /\ identity'[id] = "new" /\ opening'[id] = "registered" /\ sessions'[id] = kind
      /\ \A d \in SessionIds \ {id} : opening'[d] = opening[d] /\ sessions'[d] = sessions[d]
      /\ UNCHANGED <<loading, clearing, identity>>
  BY <1>1 DEF CreateBlank, StoreInv, StoreTypeOK
<1>7. StoreTypeOK'
  BY <1>1, <1>2, <1>5 DEF CreateBlank, StoreInv, StoreTypeOK, Kept
<1>8. id \notin loading /\ id \notin clearing
  BY DEF CreateBlank, StoreInv, SoundAt, Sound, Opened
<1>9. SoundAt(id)'
  BY <1>2, <1>5, <1>6, <1>8, StoreAssumption DEF SoundAt, Sound, Fits, Opened, SessionKinds
<1> QED BY <1>5, <1>6, <1>7, <1>9, OtherSessionsStay DEF StoreInv

\* What is stored is what is in memory, and then the browser is answered; or the
\* folder goes.
LEMMA StoreKept ==
  ASSUME StoreInv, NEW id \in SessionIds, StoreSession(id) \/ StoreFails(id) PROVE StoreInv'
<1>1. SoundAt(id) /\ folder[id] \in Kept /\ sessions[id] # NothingKept
  BY DEF StoreSession, StoreFails, StoreInv, StoreTypeOK, Kept, SoundAt, Sound
<1>2. CASE StoreSession(id)
  <2>1. /\ folder'[id] = [image |-> folder[id].image, stored |-> sessions[id]]
        /\ \A d \in SessionIds \ {id} : folder'[d] = folder[d]
        /\ folder' \in [SessionIds -> Kept]
    BY <1>1, <1>2 DEF StoreSession, StoreInv, StoreTypeOK, Kept
  <2>2. StoreTypeOK'
    BY <1>2, <2>1 DEF StoreSession, StoreInv, StoreTypeOK, Kept
  <2>3. SoundAt(id)'
    BY <1>1, <1>2, <2>1 DEF StoreSession, StoreInv, StoreTypeOK, SoundAt, Sound, Opened
  <2> QED BY <1>2, <2>1, <2>2, <2>3, OtherSessionsStay DEF StoreSession, StoreInv, StoreTypeOK
<1>3. CASE StoreFails(id)
  <2>1. StoreTypeOK'
    BY <1>3 DEF StoreFails, StoreInv, StoreTypeOK, EmptyFolder
  <2>2. SoundAt(id)'
    BY <1>1, <1>3 DEF StoreFails, StoreInv, StoreTypeOK, SoundAt, Sound, EmptyFolder, Opened
  <2> QED BY <1>3, <2>1, <2>2, OtherSessionsStay DEF StoreFails, StoreInv, StoreTypeOK
<1> QED BY <1>2, <1>3

\* What is read has been answered, so it stays what it was stored as.
LEMMA ReadKept ==
  ASSUME StoreInv, NEW id \in SessionIds, ReadStored(id) \/ Reload(id) PROVE StoreInv'
<1>1. SoundAt(id) /\ folder[id] \in Kept
  BY DEF StoreInv, StoreTypeOK, Kept
<1>2. CASE ReadStored(id)
  <2>1. identity[id] \in Opened
    BY <1>1, <1>2, StoreAssumption
    DEF ReadStored, SoundAt, Sound, EmptyFolder, Restorable, StoreInv, StoreTypeOK, Opened
  <2>2. StoreTypeOK'
    BY <1>2 DEF ReadStored, StoreInv, StoreTypeOK
  <2>3. SoundAt(id)'
    BY <1>1, <1>2, <2>1 DEF ReadStored, SoundAt, Sound
  <2> QED BY <1>2, <2>2, <2>3, OtherSessionsStay DEF ReadStored, StoreInv
<1>3. CASE Reload(id)
  <2>1. PICK kind \in Restorable : /\ folder[id].stored \in {kind, NothingKept}
                                   /\ sessions' = [sessions EXCEPT ![id] = kind]
    BY <1>3 DEF Reload
  <2>2. kind \in SessionKinds
    BY <2>1 DEF Restorable
  <2>3. StoreTypeOK'
    BY <1>3, <2>1, <2>2 DEF Reload, StoreInv, StoreTypeOK
  <2>4. SoundAt(id)'
    <3>1. /\ sessions'[id] = kind /\ id \notin loading' /\ id \in loading
          /\ UNCHANGED <<folder, opening, clearing, owner, identity>>
      BY <1>3, <2>1 DEF Reload, StoreInv, StoreTypeOK
    <3> QED BY <1>1, <2>1, <2>2, <3>1, StoreAssumption DEF SoundAt, Sound, Opened
  <2> QED BY <1>3, <2>1, <2>3, <2>4, OtherSessionsStay DEF Reload, StoreInv, StoreTypeOK
<1> QED BY <1>2, <1>3

\* Clearing takes the object first and the folder later, and the answer at once.
LEMMA ClearKept ==
  ASSUME StoreInv, NEW id \in SessionIds, NEW caller,
         ClearSession(caller, id) \/ RemoveFolder(id)
  PROVE  StoreInv'
<1>1. SoundAt(id) /\ folder[id] \in Kept
  BY DEF StoreInv, StoreTypeOK, Kept
<1>2. CASE ClearSession(caller, id)
  <2>1. StoreTypeOK'
    BY <1>2 DEF ClearSession, StoreInv, StoreTypeOK
  <2>2. SoundAt(id)'
    BY <1>1, <1>2, StoreAssumption
    DEF ClearSession, StoreInv, StoreTypeOK, SoundAt, Sound, Opened, Fits, EmptyFolder, SessionKinds
  <2> QED BY <1>2, <2>1, <2>2, OtherSessionsStay DEF ClearSession, StoreInv, StoreTypeOK
<1>3. CASE RemoveFolder(id)
  <2>1. StoreTypeOK'
    BY <1>3 DEF RemoveFolder, StoreInv, StoreTypeOK, EmptyFolder
  <2>2. SoundAt(id)'
    BY <1>1, <1>3 DEF RemoveFolder, StoreInv, StoreTypeOK, SoundAt, Sound, Opened, EmptyFolder
  <2> QED BY <1>3, <2>1, <2>2, OtherSessionsStay DEF RemoveFolder, StoreInv, StoreTypeOK
<1> QED BY <1>2, <1>3

\* A restart loses the objects and the requests, not what the folders have.
LEMMA StopKept == ASSUME StoreInv, StopServer PROVE StoreInv'
<1>1. StoreTypeOK'
  BY DEF StopServer, StoreInv, StoreTypeOK
<1>2. ASSUME NEW id \in SessionIds PROVE SoundAt(id)'
  <2>1. SoundAt(id)
    BY DEF StoreInv
  <2>2. /\ sessions'[id] = NothingKept /\ opening'[id] = "no"
        /\ id \notin loading' /\ id \notin clearing'
        /\ UNCHANGED <<folder, identity>>
    BY DEF StopServer
  <2> QED BY <2>1, <2>2, StoreAssumption DEF SoundAt, Sound, Fits, SessionKinds
<1> QED BY <1>1, <1>2 DEF StoreInv

\* Every step keeps the claims.
LEMMA StoreInvKept == StoreInv /\ [StoreNext]_storeVars => StoreInv'
<1> SUFFICES ASSUME StoreInv, [StoreNext]_storeVars PROVE StoreInv'
  OBVIOUS
<1>1. CASE StoreNext
  BY <1>1, CopyKept, RegisterKept, BlankKept, StoreKept, ReadKept, ClearKept, StopKept DEF StoreNext
<1>2. CASE UNCHANGED storeVars
  BY <1>2 DEF storeVars, StoreInv, StoreTypeOK, SoundAt, Sound
<1> QED BY <1>1, <1>2

\* A server without images satisfies the claims.
LEMMA StoreInvAtFirst == StoreInit => StoreInv
BY DEF StoreInit, StoreInv, EmptyFolder, StoreTypeOK, SoundAt, Sound, Opened

\* The claims about every image hold throughout (session_disk_service.py).
THEOREM StoreInvHolds == StoreSpec => []StoreInv
BY StoreInvAtFirst, StoreInvKept, PTL DEF StoreSpec
-----------------------------------------------------------------------------
\* An image that a browser was given is in its folder, with the session that
\* describes it, until its owner clears it, whatever fails, restarts or is read
\* and cleared at the same time (open, get, discard_session and
\* clear_recoverable_sessions of session_disk_service.py).
THEOREM AnswersAreKept == StoreSpec => [](StoreTypeOK /\ AnsweredIsKept)
<1>1. StoreInv => StoreTypeOK /\ AnsweredIsKept
  BY DEF StoreInv, SoundAt, Sound, AnsweredIsKept
<1> QED BY <1>1, StoreInvHolds, PTL

\* A session that writes to a volume, a drive or a TOS ROM has one, whatever its
\* image was named (_finalize_new_session() of disk_service.py).
THEOREM KindsFollowBytes == StoreSpec => []KindFollowsBytes
<1>1. StoreInv => KindFollowsBytes
  BY DEF StoreInv, SoundAt, Sound, Fits, KindFollowsBytes
<1> QED BY <1>1, StoreInvHolds, PTL

(***************************************************************************)
(* The managed emulator.                                                   *)
(***************************************************************************)

\* The registered process and the registered media belong to the same run,
\* whose thread has yet to take the lock; the viewer is there when it is.
Registered ==
    /\ held = process
    /\ process # NoRun => process \in reaping
    /\ viewer => process # NoRun
    /\ process # NoRun => viewer

\* Only runs that were given a medium are anywhere.
OnlyGiven ==
    /\ alive \subseteq DOMAIN medium
    /\ reaping \subseteq DOMAIN medium
    /\ scratch \subseteq DOMAIN medium

RunInv == EmulatorTypeOK /\ Registered /\ OnlyGiven /\ RunsKeepTheirMedia
-----------------------------------------------------------------------------
\* What a run was given stays as it was when another one is given a medium.
LEMMA GivenTo ==
  ASSUME EmulatorTypeOK, NEW run \in Runs, NotRun(run), NEW what \in Media,
         medium' = Given(run, what)
  PROVE  /\ DOMAIN medium' = DOMAIN medium \cup {run}
         /\ DOMAIN medium' \subseteq Runs
         /\ medium'[run] = what
         /\ \A r \in DOMAIN medium : r # run /\ medium'[r] = medium[r]
         /\ \A r \in DOMAIN medium' : medium'[r] \in Media
BY DEF EmulatorTypeOK, NotRun, Given

\* A start stops what ran, with its media, and the new run has its own.
LEMMA InteractiveKept ==
  ASSUME RunInv, NEW run \in Runs, NEW what \in Media, NEW disks \in Nat,
         StartInteractive(run, what, disks)
  PROVE  RunInv'
<1>1. /\ DOMAIN medium' = DOMAIN medium \cup {run}
      /\ DOMAIN medium' \subseteq Runs
      /\ medium'[run] = what
      /\ \A r \in DOMAIN medium : r # run /\ medium'[r] = medium[r]
      /\ \A r \in DOMAIN medium' : medium'[r] \in Media
  BY GivenTo DEF StartInteractive, RunInv
<1> USE DEF StartInteractive, Entered, Released
<1>2. EmulatorTypeOK'
  BY <1>1 DEF RunInv, EmulatorTypeOK, Media
<1>3. Registered' /\ OnlyGiven'
  BY <1>1, EmulatorAssumption DEF RunInv, Registered, OnlyGiven
<1>4. \A r \in alive' : r \notin reaping' \/ (process' = r /\ held' = r /\ viewer')
  BY <1>1 DEF RunInv, Registered, OnlyGiven, RunsKeepTheirMedia
<1>5. \A r \in alive' : medium'[r] = "scratch" => r \in scratch'
  BY <1>1 DEF RunInv, Registered, OnlyGiven, RunsKeepTheirMedia
<1>6. \A r \in scratch' : r \in alive' \/ (held' = r /\ r \in reaping')
  BY <1>1 DEF RunInv, Registered, OnlyGiven, RunsKeepTheirMedia
<1> QED BY <1>2, <1>3, <1>4, <1>5, <1>6 DEF RunInv, RunsKeepTheirMedia, Registered

\* A start that fails leaves no run registered and no medium behind.
LEMMA FailedStartKept ==
  ASSUME RunInv, NEW run \in Runs, NEW what \in Media, StartFails(run, what)
  PROVE  RunInv'
<1>1. /\ DOMAIN medium' = DOMAIN medium \cup {run}
      /\ DOMAIN medium' \subseteq Runs
      /\ medium'[run] = what
      /\ \A r \in DOMAIN medium : r # run /\ medium'[r] = medium[r]
      /\ \A r \in DOMAIN medium' : medium'[r] \in Media
  BY GivenTo DEF StartFails, RunInv
<1> USE DEF StartFails, Released
<1>2. EmulatorTypeOK'
  BY <1>1 DEF RunInv, EmulatorTypeOK
<1>3. Registered' /\ OnlyGiven'
  BY <1>1 DEF RunInv, Registered, OnlyGiven
<1>4. RunsKeepTheirMedia'
  BY <1>1 DEF RunInv, Registered, OnlyGiven, RunsKeepTheirMedia
<1> QED BY <1>2, <1>3, <1>4 DEF RunInv

\* A bounded run is beside the registered one and touches nothing of it.
LEMMA BoundedStartKept ==
  ASSUME RunInv, NEW run \in Runs, NEW what \in Media, StartBounded(run, what)
  PROVE  RunInv'
<1>1. /\ DOMAIN medium' = DOMAIN medium \cup {run}
      /\ DOMAIN medium' \subseteq Runs
      /\ medium'[run] = what
      /\ \A r \in DOMAIN medium : r # run /\ medium'[r] = medium[r]
      /\ \A r \in DOMAIN medium' : medium'[r] \in Media
  BY GivenTo DEF StartBounded, RunInv
<1> USE DEF StartBounded
<1>2. EmulatorTypeOK'
  BY <1>1 DEF RunInv, EmulatorTypeOK
<1>3. Registered' /\ OnlyGiven'
  BY <1>1 DEF RunInv, Registered, OnlyGiven
<1>4. RunsKeepTheirMedia'
  BY <1>1 DEF RunInv, Registered, OnlyGiven, RunsKeepTheirMedia
<1> QED BY <1>2, <1>3, <1>4 DEF RunInv

\* An end of a run, whoever notices it, takes its own media with it and no other.
LEMMA RunEndKept ==
  ASSUME RunInv, NEW run \in Runs,
         \/ run = process /\ ProcessEnds(run)
         \/ Reap(run) \/ EndBounded(run) \/ StopInteractive
  PROVE  RunInv'
<1> USE DEF RunInv, EmulatorTypeOK, Registered, OnlyGiven, RunsKeepTheirMedia, Released
<1>1. CASE run = process /\ ProcessEnds(run)
  BY <1>1, EmulatorAssumption DEF ProcessEnds
<1>2. CASE Reap(run) /\ process = run
  BY <1>2 DEF Reap
<1>3. CASE Reap(run) /\ process # run
  BY <1>3 DEF Reap
<1>4. CASE EndBounded(run)
  BY <1>4 DEF EndBounded, Bounded
<1>5. CASE StopInteractive
  BY <1>5 DEF StopInteractive
<1> QED BY <1>1, <1>2, <1>3, <1>4, <1>5

\* Every step keeps the claims.
LEMMA RunInvKept == RunInv /\ [EmulatorNext]_emulatorVars => RunInv'
<1> SUFFICES ASSUME RunInv, [EmulatorNext]_emulatorVars PROVE RunInv'
  OBVIOUS
<1>1. ASSUME NEW run \in Runs, EditorRun(run) PROVE RunInv'
  BY <1>1, InteractiveKept DEF EditorRun
<1>2. ASSUME NEW run \in Runs, InstallerRun(run) PROVE RunInv'
  BY <1>2, InteractiveKept, EmulatorAssumption DEF InstallerRun, Media
<1>3. ASSUME NEW run \in Runs, NEW what \in Media, StartFails(run, what) \/ StartBounded(run, what)
      PROVE  RunInv'
  BY <1>3, FailedStartKept, BoundedStartKept
<1>4. ASSUME NEW run \in Runs,
             (run = process /\ ProcessEnds(run)) \/ Reap(run) \/ EndBounded(run)
      PROVE  RunInv'
  BY <1>4, RunEndKept
<1>5. CASE StopInteractive
  BY <1>5 DEF StopInteractive, Released, RunInv, EmulatorTypeOK, Registered, OnlyGiven,
              RunsKeepTheirMedia
<1>6. CASE UNCHANGED emulatorVars
  BY <1>6 DEF emulatorVars, RunInv, EmulatorTypeOK, Registered, OnlyGiven, RunsKeepTheirMedia
<1> QED BY <1>1, <1>2, <1>3, <1>4, <1>5, <1>6 DEF EmulatorNext
-----------------------------------------------------------------------------
\* A process that runs interactively is the registered one and has its viewer and
\* its media; the thread of an ended process takes nothing from its successor, and
\* a scratch floppy goes with its run (start(), stop() and _reap() of
\* InteractiveEmulator in routes/tools.py).
THEOREM MediaKept == EmulatorSpec => [](EmulatorTypeOK /\ RunsKeepTheirMedia)
<1>1. EmulatorInit => RunInv
  BY DEF EmulatorInit, RunInv, EmulatorTypeOK, Registered, OnlyGiven, RunsKeepTheirMedia
<1>2. RunInv /\ [EmulatorNext]_emulatorVars => RunInv'
  BY RunInvKept
<1>3. RunInv => EmulatorTypeOK /\ RunsKeepTheirMedia
  BY DEF RunInv
<1> QED BY <1>1, <1>2, <1>3, PTL DEF EmulatorSpec
-----------------------------------------------------------------------------
\* Together: the store and the emulator share no state, and what a browser was
\* answered, the kind it was opened as and the medium a run was given are kept
\* whatever either of them does meanwhile (session_disk_service.py and
\* InteractiveEmulator in routes/tools.py).
THEOREM SessionsAreKept == StoreSpec /\ EmulatorSpec => []SessionsAnswerAsKept
<1>1. AnsweredIsKept /\ KindFollowsBytes /\ RunsKeepTheirMedia => SessionsAnswerAsKept
  BY DEF SessionsAnswerAsKept
<1> QED BY <1>1, AnswersAreKept, KindsFollowBytes, MediaKept, PTL

(***************************************************************************)
(* What the proofs need to know of sequences.                              *)
(***************************************************************************)

\* A function over the first numbers is a sequence of that length.
LEMMA SequenceOf ==
  ASSUME NEW n \in Nat, NEW S, NEW f \in [1 .. n -> S]
  PROVE  f \in Seq(S) /\ Len(f) = n /\ DOMAIN f = 1 .. n
OBVIOUS

\* A sequence with one thing appended: its front, and its last.
LEMMA Appended ==
  ASSUME NEW S, NEW s \in Seq(S), NEW e \in S
  PROVE  /\ Append(s, e) \in Seq(S) /\ Len(Append(s, e)) = Len(s) + 1
         /\ Front(Append(s, e)) = s /\ Last(Append(s, e)) = e
<1> DEFINE long == Append(s, e)
<1>1. /\ long \in Seq(S) /\ Len(long) = Len(s) + 1 /\ Len(s) \in Nat
      /\ \A i \in 1 .. Len(s) : long[i] = s[i]
      /\ long[Len(s) + 1] = e
  BY AppendProperties, LenProperties
<1> HIDE DEF long
<1>2. Len(long) - 1 = Len(s)
  BY <1>1
<1>3. SubSeq(long, 1, Len(s)) = s
  BY <1>1, <1>2
<1>4. Front(long) = s
  BY <1>2, <1>3 DEF Front
<1>5. Last(long) = e
  <2>1. long[Len(long)] = e
    BY <1>1
  <2> QED BY <2>1 DEF Last
<1> QED BY <1>1, <1>4, <1>5 DEF long

\* A prefix, sign by sign.
LEMMA PrefixShape ==
  ASSUME NEW S, NEW p \in Seq(S), NEW q \in Seq(S)
  PROVE  IsPrefix(q, p) <=> (Len(q) <= Len(p) /\ \A i \in 1 .. Len(q) : q[i] = p[i])
<1>1. Len(q) \in Nat /\ Len(p) \in Nat
  BY LenProperties
<1>2. SubSeq(q, 1, Len(q)) = q
  BY SubSeqFull
<1>3. ASSUME Len(q) <= Len(p)
      PROVE  /\ SubSeq(p, 1, Len(q)) \in Seq(S) /\ Len(SubSeq(p, 1, Len(q))) = Len(q)
             /\ \A i \in 1 .. Len(q) : SubSeq(p, 1, Len(q))[i] = p[i]
  BY <1>1, <1>3
<1>4. ASSUME IsPrefix(q, p) PROVE Len(q) <= Len(p) /\ \A i \in 1 .. Len(q) : q[i] = p[i]
  BY <1>2, <1>3, <1>4 DEF IsPrefix
<1>5. ASSUME Len(q) <= Len(p), \A i \in 1 .. Len(q) : q[i] = p[i] PROVE IsPrefix(q, p)
  <2>1. SubSeq(p, 1, Len(q)) = q
    BY <1>3, <1>5, SeqEqual
  <2> QED BY <1>2, <1>5, <2>1 DEF IsPrefix
<1> QED BY <1>4, <1>5

\* The front of a path, sign by sign.
LEMMA FrontShape ==
  ASSUME NEW S, NEW p \in Seq(S), p # <<>>
  PROVE  /\ Front(p) \in Seq(S) /\ Len(Front(p)) = Len(p) - 1
         /\ \A i \in 1 .. Len(p) - 1 : Front(p)[i] = p[i]
<1>1. Len(p) \in Nat \ {0}
  BY EmptySeq
<1> QED BY <1>1 DEF Front

\* A prefix of a prefix.
LEMMA PrefixOfPrefix ==
  ASSUME NEW S, NEW p \in Seq(S), NEW q \in Seq(S), NEW r \in Seq(S),
         IsPrefix(r, q), IsPrefix(q, p)
  PROVE  IsPrefix(r, p)
<1>1. Len(p) \in Nat /\ Len(q) \in Nat /\ Len(r) \in Nat
  BY LenProperties
<1>2. Len(r) <= Len(q) /\ \A i \in 1 .. Len(r) : r[i] = q[i]
  BY PrefixShape
<1>3. Len(q) <= Len(p) /\ \A i \in 1 .. Len(q) : q[i] = p[i]
  BY PrefixShape
<1>4. Len(r) <= Len(p) /\ \A i \in 1 .. Len(r) : i \in 1 .. Len(q)
  BY <1>1, <1>2, <1>3
<1>5. \A i \in 1 .. Len(r) : r[i] = p[i]
  BY <1>2, <1>3, <1>4
<1> QED BY <1>4, <1>5, PrefixShape

\* Of two prefixes of one sequence the shorter is a prefix of the longer.
LEMMA ShorterPrefix ==
  ASSUME NEW S, NEW p \in Seq(S), NEW q \in Seq(S), NEW r \in Seq(S),
         IsPrefix(r, p), IsPrefix(q, p), Len(r) <= Len(q)
  PROVE  IsPrefix(r, q)
<1>1. Len(p) \in Nat /\ Len(q) \in Nat /\ Len(r) \in Nat
  BY LenProperties
<1>2. \A i \in 1 .. Len(r) : r[i] = p[i]
  BY PrefixShape
<1>3. \A i \in 1 .. Len(q) : q[i] = p[i]
  BY PrefixShape
<1>4. \A i \in 1 .. Len(r) : i \in 1 .. Len(q)
  BY <1>1
<1>5. \A i \in 1 .. Len(r) : r[i] = q[i]
  BY <1>2, <1>3, <1>4
<1> QED BY <1>5, PrefixShape

-----------------------------------------------------------------------------
(***************************************************************************)
(* The raw hex editor: it never writes over what its user has not seen,    *)
(* with any number of editors and of saves in flight, failing at any call. *)
(***************************************************************************)

\* An editor's version is never ahead of the image; where it is the image's, the
\* editor shows what the file holds.  A save that has written has left the
\* version behind, so the text it shows when it ends is never taken for it.
StampsHonest ==
    \A e \in Editors :
        /\ stamp[e] <= edits
        /\ at[e] = "written" => stamp[e] < edits
        /\ stamp[e] = edits /\ seen[e] # NoText => seen[e] = file.holds

EditorInv == EditorTypeOK /\ StampsHonest
-----------------------------------------------------------------------------
\* What one editor does is seen by no other.
LEMMA EditorInvKept == EditorInv /\ [EditorNext]_editorVars => EditorInv'
<1> SUFFICES ASSUME EditorInv, [EditorNext]_editorVars PROVE EditorInv'
  OBVIOUS
<1> USE EditorAssumption DEF EditorInv, EditorTypeOK, StampsHonest
<1>1. ASSUME NEW e \in Editors, OpenEditor(e) PROVE EditorInv'
  BY <1>1 DEF OpenEditor
<1>2. ASSUME NEW e \in Editors, CheckFile(e) PROVE EditorInv'
  BY <1>2 DEF CheckFile
<1>3. ASSUME NEW e \in Editors, UnlockFile(e) PROVE EditorInv'
  <2>1. file' \in [holds : Texts, readOnly : BOOLEAN] /\ file'.holds = file.holds
    BY <1>3 DEF UnlockFile
  <2>2. edits' = edits + 1 /\ edits' \in 0..MaxTexts
    BY <1>3 DEF UnlockFile
  <2>3. EditorTypeOK'
    BY <1>3, <2>1, <2>2 DEF UnlockFile
  <2> QED BY <1>3, <2>1, <2>2, <2>3 DEF UnlockFile
<1>4. ASSUME NEW e \in Editors, PutFile(e) PROVE EditorInv'
  BY <1>4 DEF PutFile, MayPut
<1>5. ASSUME NEW e \in Editors, LockAgain(e) PROVE EditorInv'
  <2>1. edits' \in 0..MaxTexts /\ edits <= edits' /\ file'.holds = file.holds
    BY <1>5 DEF LockAgain
  <2>2. EditorTypeOK'
    BY <1>5, <2>1 DEF LockAgain
  <2>3. stamp'[e] < edits'
    BY <1>5, <2>1 DEF LockAgain
  <2>4. \A d \in Editors : d # e => stamp'[d] = stamp[d] /\ at'[d] = at[d] /\ seen'[d] = seen[d]
    BY <1>5 DEF LockAgain
  <2>5. stamp'[e] <= edits' /\ at'[e] # "written" /\ stamp'[e] # edits'
    BY <1>5, <2>1, <2>3 DEF LockAgain
  <2>6. ASSUME NEW d \in Editors
        PROVE  /\ stamp'[d] <= edits'
               /\ at'[d] = "written" => stamp'[d] < edits'
               /\ stamp'[d] = edits' /\ seen'[d] # NoText => seen'[d] = file'.holds
    <3>1. edits \in Nat /\ edits' \in Nat /\ stamp[d] \in Nat
      BY <2>1
    <3>2. stamp[d] <= edits /\ (at[d] = "written" => stamp[d] < edits)
      OBVIOUS
    <3>3. stamp[d] = edits /\ seen[d] # NoText => seen[d] = file.holds
      OBVIOUS
    <3>4. CASE d = e
      BY <2>5, <3>4
    <3>5. CASE d # e
      <4>1. stamp'[d] = stamp[d] /\ at'[d] = at[d] /\ seen'[d] = seen[d]
        BY <2>4, <3>5
      <4> HIDE DEF EditorInv, EditorTypeOK, StampsHonest
      <4> QED BY <2>1, <3>1, <3>2, <3>3, <4>1
    <3> QED BY <3>4, <3>5
  <2> QED BY <2>2, <2>6
<1>6. ASSUME NEW e \in Editors, SaveFails(e) PROVE EditorInv'
  BY <1>6 DEF SaveFails
<1>7. ASSUME NEW e \in Editors, WriteRaw(e) PROVE EditorInv'
  BY <1>7 DEF WriteRaw
<1>8. CASE UNCHANGED editorVars
  BY <1>8 DEF editorVars
<1> QED BY <1>1, <1>2, <1>3, <1>4, <1>5, <1>6, <1>7, <1>8 DEF EditorNext

\* An editor that has opened nothing has no version to compare.
LEMMA EditorInvAtFirst == EditorInit => EditorInv
BY EditorAssumption DEF EditorInit, EditorInv, EditorTypeOK, StampsHonest
-----------------------------------------------------------------------------
\* The file, the version of the image and the saves in flight are always of their
\* types, and no editor's version is ahead of the image (_version() of
\* hex_service.py).
THEOREM EditorTypeCorrect == EditorSpec => [](EditorTypeOK /\ StampsHonest)
<1>1. EditorInv => EditorTypeOK /\ StampsHonest
  BY DEF EditorInv
<1> QED BY <1>1, EditorInvAtFirst, EditorInvKept, PTL DEF EditorSpec

\* A write to the raw image changes bytes its user saw, however many other saves
\* are in flight: the version is compared under the lock of the write
\* (write_raw_image() of hex_service.py).
THEOREM RawWritesAreCurrent == EditorSpec => RawWriteIsCurrent
<1> DEFINE Current ==
      \A e \in Editors :
          file.holds # file'.holds /\ at[e] = "open" /\ stamp'[e] = edits' /\ edits' > edits
              => file.holds = seen[e]
<1>1. EditorTypeOK /\ StampsHonest /\ [EditorNext]_editorVars => [Current]_editorVars
  <2> SUFFICES ASSUME EditorTypeOK, StampsHonest, EditorNext, NEW e \in Editors,
                      file.holds # file'.holds, stamp'[e] = edits', edits' > edits
               PROVE  file.holds = seen[e]
    BY DEF EditorTypeOK
  <2> USE EditorAssumption DEF EditorTypeOK, StampsHonest
  <2>1. PICK d \in Editors :
          \/ OpenEditor(d) \/ CheckFile(d) \/ UnlockFile(d)
          \/ PutFile(d) \/ LockAgain(d) \/ SaveFails(d) \/ WriteRaw(d)
    BY DEF EditorNext
  <2>2. CASE OpenEditor(d) \/ CheckFile(d) \/ UnlockFile(d) \/ LockAgain(d)
    BY <2>2 DEF OpenEditor, CheckFile, UnlockFile, LockAgain
  <2>3. CASE PutFile(d) \/ SaveFails(d)
    BY <2>3 DEF PutFile, SaveFails
  <2>4. CASE WriteRaw(d)
    <3>1. stamp[e] # edits' /\ stamp[d] = edits /\ seen[d] # NoText
      BY <2>4 DEF WriteRaw
    <3>2. d = e
      BY <2>4, <3>1 DEF WriteRaw
    <3> QED BY <3>1, <3>2
  <2> QED BY <2>1, <2>2, <2>3, <2>4
<1> QED BY <1>1, EditorTypeCorrect, PTL DEF EditorSpec, RawWriteIsCurrent
-----------------------------------------------------------------------------
(***************************************************************************)
(* Recipes.                                                                *)
(***************************************************************************)

\* A run writes to the path it was started for.
RunHasTarget ==
    replay # NoImageFile =>
        \E given, target \in ImagePaths : \E opened :
            replay = [given |-> given, target |-> target, opened |-> opened]

\* Only a run that starts names a target, and opening the source keeps it.
LEMMA TargetKept == RunHasTarget /\ [RecipesNext]_recipeVars => RunHasTarget'
<1> SUFFICES ASSUME RunHasTarget, [RecipesNext]_recipeVars PROVE RunHasTarget'
  OBVIOUS
<1>1. ASSUME NEW given \in ImagePaths, NEW target \in ImagePaths, StartRun(given, target)
      PROVE  RunHasTarget'
  BY <1>1 DEF StartRun, Command, RunHasTarget
<1>2. CASE OpenAndRedo
  <2>1. PICK given \in ImagePaths, target \in ImagePaths :
          \E opened : replay = [given |-> given, target |-> target, opened |-> opened]
    BY <1>2 DEF OpenAndRedo, RunHasTarget
  <2>2. ASSUME NEW other PROVE [replay EXCEPT !.opened = other] =
                                [given |-> given, target |-> target, opened |-> other]
    BY <2>1
  <2>3. replay' = NoImageFile \/ \E other : replay' = [replay EXCEPT !.opened = other]
    BY <1>2 DEF OpenAndRedo
  <2> QED BY <2>2, <2>3 DEF RunHasTarget
<1>3. CASE replay' = replay
  BY <1>3 DEF RunHasTarget
<1>4. CASE replay' = NoImageFile
  BY <1>4 DEF RunHasTarget
<1>5. \/ replay' = replay \/ replay' = NoImageFile \/ OpenAndRedo
      \/ \E given, target \in ImagePaths : StartRun(given, target)
  BY DEF RecipesNext, recipeVars, Create, ImportFile, Compact, SaveCopy, Saved, OpenSession,
         EditSession, PruneCheckpoint, ExportWorkflow, Publish, KillRun, Wait, Rewritten
<1> QED BY <1>1, <1>2, <1>3, <1>4, <1>5

\* What a recipe run publishes is what the recipe recorded, at the path the run
\* was started for, and nothing else is touched, for any images and any edits of
\* the sources meanwhile (recipe-run in cli.py, save_image() in headless.py).
THEOREM RunsPublishTheRecorded == RecipesSpec => PublishedIsRecorded
<1> DEFINE AsRecorded ==
      replay # NoImageFile /\ replay' = NoImageFile /\ disk' # disk =>
          \E path \in ImagePaths : disk' = [disk EXCEPT ![path] = recipe.output]
<1>1. RecipesInit => RunHasTarget
  BY DEF RecipesInit, RunHasTarget
<1>2. RunHasTarget /\ [RecipesNext]_recipeVars => [AsRecorded]_recipeVars
  <2> SUFFICES ASSUME RunHasTarget, RecipesNext, replay # NoImageFile, replay' = NoImageFile,
                      disk' # disk
               PROVE  \E path \in ImagePaths : disk' = [disk EXCEPT ![path] = recipe.output]
    OBVIOUS
  <2>1. Publish
    BY DEF RecipesNext, Create, ImportFile, Compact, SaveCopy, Saved, Command, OpenSession,
           EditSession, PruneCheckpoint, ExportWorkflow, StartRun, OpenAndRedo, KillRun, Wait,
           Rewritten
  <2>2. replay.target \in ImagePaths
    BY DEF RunHasTarget
  <2> QED BY <2>1, <2>2 DEF Publish
<1> QED BY <1>1, <1>2, TargetKept, PTL DEF RecipesSpec, PublishedIsRecorded
-----------------------------------------------------------------------------
(***************************************************************************)
(* Patches.                                                                *)
(***************************************************************************)

\* The checkpoint of a patch that is being applied is the image it was made for.
PatchInv ==
    /\ PatchIsWhole
    /\ patching = "applying" => before = base

\* A patch that is applied turned its base into its candidate; a patch that was
\* refused, failed or was aborted left the image as it was found, whatever the
\* volumes hold and whichever operation failed (apply_patch_archive() of
\* image_patch.py with the checkpoint of the middleware).
THEOREM PatchesAreWhole == PatchSpec => []PatchIsWhole
<1>1. PatchInit => PatchInv
  BY DEF PatchInit, PatchInv, PatchIsWhole
<1>2. PatchInv /\ [PatchNext]_patchVars => PatchInv'
  <2> SUFFICES ASSUME PatchInv, [PatchNext]_patchVars PROVE PatchInv'
    OBVIOUS
  <2> USE DEF PatchInv, PatchIsWhole
  <2>1. CASE BuildPatch \/ EditPatched
    BY <2>1 DEF BuildPatch, EditPatched
  <2>2. CASE Preflight
    BY <2>2 DEF Preflight
  <2>3. CASE RemoveNext
    BY <2>3 DEF RemoveNext, Undone
  <2>4. CASE WriteNext
    BY <2>4 DEF WriteNext, Undone
  <2>5. CASE Verify \/ AbortPatch
    BY <2>5 DEF Verify, AbortPatch, Undone
  <2>6. CASE UNCHANGED patchVars
    BY <2>6 DEF patchVars
  <2> QED BY <2>1, <2>2, <2>3, <2>4, <2>5, <2>6 DEF PatchNext
<1>3. PatchInv => PatchIsWhole
  BY DEF PatchInv
<1> QED BY <1>1, <1>2, <1>3, PTL DEF PatchSpec
-----------------------------------------------------------------------------
(***************************************************************************)
(* Staging.                                                                *)
(***************************************************************************)

\* Only a disk that was staged has conflicts, and only the folder of such a disk
\* holds copies.
OnlyStaged ==
    /\ \A c \in record.conflicts : c.alsoIn \in StagedLabels
    /\ \A f \in ClashFolders : f \cap StagedLabels = {} => \A p \in Paths : aside[f][p] = Absent

StagingInv == StagingTypeOK /\ OnlyStaged /\ ConflictsAreReal
-----------------------------------------------------------------------------
\* Every label has its folder, and no other.
LEMMA FolderFits ==
  ASSUME NEW label \in Labels
  PROVE  /\ FolderOf(label) \in ClashFolders /\ label \in FolderOf(label)
         /\ \A f \in ClashFolders : label \in f => f = FolderOf(label)
<1>1. PICK f \in ClashFolders : label \in f
  BY StagingAssumption
<1>2. FolderOf(label) \in ClashFolders /\ label \in FolderOf(label)
  BY <1>1 DEF FolderOf
<1>3. ASSUME NEW g \in ClashFolders, label \in g PROVE g = FolderOf(label)
  BY <1>2, <1>3, StagingAssumption
<1> QED BY <1>2, <1>3

\* What staging a disk does to the folder, to what is put aside and to the record.
LEMMA StageEffect ==
  ASSUME StagingInv, NEW label \in Labels, NEW disk0 \in PayloadTrees, StageDisk(label, disk0)
  PROVE  \E readable \in SUBSET FilesOf(disk0),
            written \in SUBSET Paths, diverted \in SUBSET Paths :
            /\ written \subseteq readable /\ diverted \subseteq readable
            /\ label \in StagedLabels => diverted = {}
            /\ \A p \in diverted : payload[p] \notin {Absent, disk0[p]}
            /\ label \notin StagedLabels =>
                  /\ \A p \in written : payload[p] = Absent
                  /\ \A p \in readable \ (written \cup diverted) : payload[p] = disk0[p]
            /\ payload' = WrittenOver(payload, disk0, written)
            /\ PutAside(label, disk0, diverted)
            /\ Recorded(label, written, diverted, readable)
            /\ stagedAs' = [stagedAs EXCEPT ![label] =
                               [p \in Paths |-> IF p \in readable THEN disk0[p] ELSE Absent]]
            /\ stagings' = stagings + 1 /\ stagings < MaxStaged /\ titleFolder' = titleFolder
<1>1. PICK unreadable \in SUBSET FilesOf(disk0) :
        LET readable == FilesOf(disk0) \ unreadable
            replacing == label \in StagedLabels
            written == Written(disk0, readable, replacing)
            diverted == Diverted(disk0, readable, replacing)
        IN  /\ payload' = WrittenOver(payload, disk0, written)
            /\ PutAside(label, disk0, diverted)
            /\ Recorded(label, written, diverted, readable)
            /\ stagedAs' = [stagedAs EXCEPT ![label] =
                               [p \in Paths |-> IF p \in readable THEN disk0[p] ELSE Absent]]
  BY DEF StageDisk
<1> DEFINE readable == FilesOf(disk0) \ unreadable
           written == Written(disk0, readable, label \in StagedLabels)
           diverted == Diverted(disk0, readable, label \in StagedLabels)
<1>2. readable \subseteq Paths
  BY DEF FilesOf
<1>3. written \subseteq readable /\ diverted \subseteq readable
  BY DEF Written, Diverted, NewHere, Disagrees
<1>4. /\ label \in StagedLabels => diverted = {}
      /\ \A p \in diverted : payload[p] \notin {Absent, disk0[p]}
  BY DEF Diverted, Disagrees
<1>5. label \notin StagedLabels =>
         /\ \A p \in written : payload[p] = Absent
         /\ \A p \in readable \ (written \cup diverted) : payload[p] = disk0[p]
  BY DEF Written, Diverted, NewHere, Disagrees
<1>6. stagings' = stagings + 1 /\ stagings < MaxStaged /\ titleFolder' = titleFolder
  BY DEF StageDisk
<1>7. /\ payload' = WrittenOver(payload, disk0, written)
      /\ PutAside(label, disk0, diverted)
      /\ Recorded(label, written, diverted, readable)
      /\ stagedAs' = [stagedAs EXCEPT ![label] =
                         [p \in Paths |-> IF p \in readable THEN disk0[p] ELSE Absent]]
  BY <1>1
<1>8. readable \in SUBSET FilesOf(disk0) /\ written \in SUBSET Paths /\ diverted \in SUBSET Paths
  BY <1>2, <1>3
<1> HIDE DEF readable, written, diverted
<1> QED BY <1>3, <1>4, <1>5, <1>6, <1>7, <1>8

\* Staging a disk keeps the claims: what is put aside disagrees with a file that
\* stays, and a conflict about a file that was written is no longer recorded.
LEMMA StageKept ==
  ASSUME StagingInv, NEW label \in Labels, NEW disk0 \in PayloadTrees,
         StageDisk(label, disk0)
  PROVE  StagingInv'
<1>1. PICK readable \in SUBSET FilesOf(disk0), written \in SUBSET Paths, diverted \in SUBSET Paths :
        /\ written \subseteq readable /\ diverted \subseteq readable
        /\ \A p \in diverted : payload[p] \notin {Absent, disk0[p]}
        /\ label \in StagedLabels => diverted = {}
        /\ label \notin StagedLabels => \A p \in written : payload[p] = Absent
        /\ payload' = WrittenOver(payload, disk0, written)
        /\ PutAside(label, disk0, diverted)
        /\ Recorded(label, written, diverted, readable)
        /\ stagedAs' = [stagedAs EXCEPT ![label] =
                           [p \in Paths |-> IF p \in readable THEN disk0[p] ELSE Absent]]
        /\ stagings' = stagings + 1 /\ stagings < MaxStaged /\ titleFolder' = titleFolder
  BY StageEffect
<1> USE StagingAssumption DEF StagingInv, StagingTypeOK, PayloadTrees
<1>2. readable \subseteq Paths /\ \A p \in readable : disk0[p] # Absent
  BY <1>1 DEF FilesOf
<1>3. payload' \in PayloadTrees /\ \A p \in Paths : payload'[p] = IF p \in written THEN disk0[p]
                                                                  ELSE payload[p]
  BY <1>1 DEF WrittenOver
<1>11. /\ FolderOf(label) \in ClashFolders /\ label \in FolderOf(label)
       /\ \A f \in ClashFolders : label \in f => f = FolderOf(label)
  BY FolderFits
<1>4. /\ aside' \in [ClashFolders -> PayloadTrees]
      /\ \A f \in ClashFolders \ {FolderOf(label)} : aside'[f] = aside[f]
      /\ \A p \in Paths :
            aside'[FolderOf(label)][p] =
                IF p \in diverted THEN disk0[p]
                ELSE IF label \in StagedLabels THEN Absent ELSE aside[FolderOf(label)][p]
  <2> DEFINE old == IF label \in StagedLabels THEN Empty ELSE aside[FolderOf(label)]
  <2>1. old \in PayloadTrees /\ WrittenOver(old, disk0, diverted) \in PayloadTrees
    BY <1>11 DEF Empty, WrittenOver
  <2>2. aside' = [aside EXCEPT ![FolderOf(label)] = WrittenOver(old, disk0, diverted)]
    BY <1>1 DEF PutAside
  <2>3. \A p \in Paths : WrittenOver(old, disk0, diverted)[p] =
                            IF p \in diverted THEN disk0[p]
                            ELSE IF label \in StagedLabels THEN Absent ELSE aside[FolderOf(label)][p]
    BY DEF Empty, WrittenOver
  <2> HIDE DEF old
  <2> QED BY <1>11, <2>1, <2>2, <2>3
<1>5. /\ DOMAIN record'.disks = StagedLabels \cup {label}
      /\ \A l \in StagedLabels \cup {label} : record'.disks[l] \subseteq Paths
      /\ record'.conflicts = {c \in record.conflicts : c.alsoIn # label /\ c.path \notin written}
                                 \cup {[path |-> p, alsoIn |-> label] : p \in diverted}
  BY <1>1, <1>2 DEF Recorded, StagedLabels
<1>6. record'.conflicts \subseteq Conflict
  BY <1>1, <1>2, <1>5 DEF Conflict
<1>7. stagedAs' \in [Labels -> PayloadTrees]
  <2>1. [p \in Paths |-> IF p \in readable THEN disk0[p] ELSE Absent] \in PayloadTrees
    OBVIOUS
  <2> QED BY <1>1, <2>1
<1>8. StagingTypeOK'
  BY <1>1, <1>3, <1>4, <1>5, <1>6, <1>7 DEF StagedLabels
<1>9. OnlyStaged'
  <2>1. \A c \in record'.conflicts : c.alsoIn \in StagedLabels'
    BY <1>5 DEF OnlyStaged, StagedLabels
  <2>2. ASSUME NEW f \in ClashFolders, f \cap StagedLabels' = {}, NEW p \in Paths
        PROVE  aside'[f][p] = Absent
    <3>1. label \notin f /\ f \cap StagedLabels = {}
      BY <1>5, <2>2 DEF StagedLabels
    <3> QED BY <1>4, <1>11, <2>2, <3>1 DEF OnlyStaged
  <2> QED BY <2>1, <2>2 DEF OnlyStaged
<1>10. ASSUME NEW c \in record'.conflicts, ~ Shares(c.alsoIn)'
       PROVE  aside'[FolderOf(c.alsoIn)][c.path] \notin {Absent, payload'[c.path]}
  <2>1. CASE c \in record.conflicts /\ c.alsoIn # label /\ c.path \notin written
    <3>1. c.alsoIn \in Labels /\ c.path \in Paths
      BY <2>1 DEF Conflict
    <3>2. label \notin FolderOf(c.alsoIn) /\ ~ Shares(c.alsoIn)
      BY <1>5, <1>10, <2>1 DEF Shares, StagedLabels
    <3>3. FolderOf(c.alsoIn) \in ClashFolders \ {FolderOf(label)}
      BY <1>11, <3>1, <3>2, FolderFits
    <3>4. aside'[FolderOf(c.alsoIn)] = aside[FolderOf(c.alsoIn)] /\ payload'[c.path] = payload[c.path]
      BY <1>3, <1>4, <2>1, <3>1, <3>3
    <3> QED BY <2>1, <3>2, <3>4 DEF ConflictsAreReal
  <2>2. ASSUME NEW p \in diverted, c = [path |-> p, alsoIn |-> label]
        PROVE  aside'[FolderOf(c.alsoIn)][c.path] \notin {Absent, payload'[c.path]}
    <3>1. /\ c.path = p /\ c.alsoIn = label /\ aside'[FolderOf(label)][p] = disk0[p]
          /\ disk0[p] # Absent
      BY <1>1, <1>2, <1>4, <2>2
    <3>2. p \notin written
      BY <1>1
    <3>3. payload'[p] = payload[p] /\ payload[p] # disk0[p]
      BY <1>1, <1>3, <3>2
    <3> QED BY <3>1, <3>3
  <2> QED BY <1>5, <2>1, <2>2
<1> QED BY <1>8, <1>9, <1>10 DEF ConflictsAreReal

\* A title that is discarded or installed leaves nothing aside and no record.
LEMMA TitleGoneKept ==
  ASSUME StagingInv, DiscardTitle \/ InstallTitle
  PROVE  StagingInv'
<1>1. /\ payload' = Empty /\ aside' = NothingAside /\ record' = NoRecord
      /\ stagedAs' = [l \in Labels |-> Empty] /\ stagings' = stagings
      /\ titleFolder' \in {titleFolder, payload}
  BY DEF DiscardTitle, InstallTitle
<1>2. Empty \in PayloadTrees
  BY DEF Empty, PayloadTrees
<1>3. DOMAIN record'.disks = {} /\ record'.conflicts = {}
  BY <1>1 DEF NoRecord
<1>4. StagingTypeOK'
  BY <1>1, <1>2, <1>3 DEF StagingInv, StagingTypeOK, StagedLabels, NothingAside
<1>5. OnlyStaged' /\ ConflictsAreReal'
  BY <1>1, <1>3 DEF OnlyStaged, ConflictsAreReal, NothingAside, Empty
<1> QED BY <1>4, <1>5 DEF StagingInv

\* Every step keeps the claims.
LEMMA StagingKept == StagingInv /\ [StagingNext]_stagingVars => StagingInv'
<1>1. ASSUME StagingInv, UNCHANGED stagingVars PROVE StagingInv'
  BY <1>1
  DEF stagingVars, StagingInv, StagingTypeOK, StagedLabels, OnlyStaged, ConflictsAreReal, Shares
<1> QED BY <1>1, StageKept, TitleGoneKept DEF StagingNext

\* A drive on which nothing was staged satisfies the claims.
LEMMA StagingAtFirst == StagingInit => StagingInv
BY StagingAssumption DEF StagingInit, StagingInv, StagingTypeOK, StagedLabels, OnlyStaged,
       ConflictsAreReal, NoRecord, NothingAside, Empty, PayloadTrees

\* A conflict that staging reports is a real one, for any number of disks staged
\* in any order, again and with files that cannot be read, and however labels
\* shorten to the names of folders: the disk's copy is in its folder and differs
\* from the one in the title's, unless another staged label has the same folder
\* (stage_disk() of install_service.py).
THEOREM ReportedConflictsAreReal == StagingSpec => [](StagingTypeOK /\ ConflictsAreReal)
<1>1. StagingInv => StagingTypeOK /\ ConflictsAreReal
  BY DEF StagingInv
<1> QED BY <1>1, StagingAtFirst, StagingKept, PTL DEF StagingSpec

\* A disk that is staged for the first time changes no file that an earlier disk
\* brought, and of what was put aside only copies of files that it puts aside
\* itself into a folder it shares; every file of its own that can be read is in
\* the title's folder or put aside (copy_volume_tree() with existing="divert").
THEOREM FirstStagingsKeepAll == StagingSpec => FirstStagingKeepsAll
<1> DEFINE Keeps ==
      \A l \in Labels :
          (l \notin StagedLabels /\ l \in DOMAIN record'.disks)
             => /\ \A p \in FilesOf(payload) : payload'[p] = payload[p]
                /\ \A f \in ClashFolders, p \in Paths :
                      aside[f][p] # Absent => aside'[f][p] = aside[f][p] \/ OwnCopyOver(l, f, p)
                /\ \A p \in FilesOf(stagedAs[l]') :
                      stagedAs[l][p]' \in {payload[p]', aside[FolderOf(l)][p]'}
<1>1. StagingInv /\ [StagingNext]_stagingVars => [Keeps]_stagingVars
  <2> SUFFICES ASSUME StagingInv, StagingNext, NEW l \in Labels, l \notin StagedLabels,
                      l \in DOMAIN record'.disks
               PROVE  /\ \A p \in FilesOf(payload) : payload'[p] = payload[p]
                      /\ \A f \in ClashFolders, p \in Paths :
                            aside[f][p] # Absent => aside'[f][p] = aside[f][p] \/ OwnCopyOver(l, f, p)
                      /\ \A p \in FilesOf(stagedAs[l]') :
                            stagedAs[l][p]' \in {payload[p]', aside[FolderOf(l)][p]'}
    OBVIOUS
  <2>1. PICK label \in Labels, disk0 \in PayloadTrees : StageDisk(label, disk0)
    <3>1. ASSUME DiscardTitle \/ InstallTitle PROVE FALSE
      BY <3>1 DEF DiscardTitle, InstallTitle, NoRecord
    <3> QED BY <3>1 DEF StagingNext
  <2>2. PICK readable \in SUBSET FilesOf(disk0),
             written \in SUBSET Paths, diverted \in SUBSET Paths :
          /\ written \subseteq readable /\ diverted \subseteq readable
          /\ label \notin StagedLabels =>
                /\ \A p \in written : payload[p] = Absent
                /\ \A p \in readable \ (written \cup diverted) : payload[p] = disk0[p]
          /\ payload' = WrittenOver(payload, disk0, written)
          /\ PutAside(label, disk0, diverted)
          /\ Recorded(label, written, diverted, readable)
          /\ stagedAs' = [stagedAs EXCEPT ![label] =
                             [p \in Paths |-> IF p \in readable THEN disk0[p] ELSE Absent]]
    BY <2>1, StageEffect
  <2>3. label = l
    BY <2>2 DEF Recorded, StagedLabels
  <2> USE DEF StagingInv, StagingTypeOK, PayloadTrees
  <2>4. \A p \in Paths : payload'[p] = IF p \in written THEN disk0[p] ELSE payload[p]
    BY <2>2 DEF WrittenOver
  <2>5. \A p \in FilesOf(payload) : payload'[p] = payload[p]
    BY <2>2, <2>3, <2>4 DEF FilesOf
  <2>10. /\ FolderOf(l) \in ClashFolders /\ l \in FolderOf(l)
         /\ \A f \in ClashFolders : l \in f => f = FolderOf(l)
    BY FolderFits
  <2>6. aside' = [aside EXCEPT ![FolderOf(l)] = WrittenOver(aside[FolderOf(l)], disk0, diverted)]
    BY <2>2, <2>3 DEF PutAside
  <2>7. \A p \in Paths :
           aside'[FolderOf(l)][p] = IF p \in diverted THEN disk0[p] ELSE aside[FolderOf(l)][p]
    BY <2>6, <2>10 DEF WrittenOver
  <2>8. ASSUME NEW f \in ClashFolders, NEW p \in Paths, aside[f][p] # Absent
        PROVE  aside'[f][p] = aside[f][p] \/ OwnCopyOver(l, f, p)
    <3>1. CASE f # FolderOf(l)
      BY <2>6, <2>8, <3>1
    <3>2. CASE f = FolderOf(l)
      <4>1. Shares(l)
        BY <2>8, <3>2 DEF OnlyStaged, Shares
      <4>2. p \in diverted => [path |-> p, alsoIn |-> l] \in record'.conflicts
        BY <2>2, <2>3 DEF Recorded
      <4> QED BY <2>7, <3>2, <4>1, <4>2 DEF OwnCopyOver
    <3> QED BY <3>1, <3>2
  <2>9. ASSUME NEW p \in FilesOf(stagedAs'[l])
        PROVE  stagedAs'[l][p] \in {payload'[p], aside'[FolderOf(l)][p]}
    <3>1. stagedAs'[l] = [q \in Paths |-> IF q \in readable THEN disk0[q] ELSE Absent]
      BY <2>2, <2>3
    <3>2. p \in Paths /\ p \in readable /\ stagedAs'[l][p] = disk0[p]
      BY <3>1 DEF FilesOf
    <3> QED BY <2>2, <2>3, <2>4, <2>7, <3>2
  <2> QED BY <2>5, <2>8, <2>9
<1>2. StagingInit => StagingInv
  BY StagingAtFirst
<1>3. StagingInv /\ [StagingNext]_stagingVars => StagingInv'
  BY StagingKept
<1> QED BY <1>1, <1>2, <1>3, PTL DEF StagingSpec, FirstStagingKeepsAll
-----------------------------------------------------------------------------
(***************************************************************************)
(* Names.                                                                  *)
(***************************************************************************)

\* The signs that a name is made of: a prover does not know that "A" is a string.
Signs == STRING \cup {"A", "B", "_"} \cup {Digits[k] : k \in 1 .. 9}

\* What a volume can store: a valid name in capitals.
StoredName(name) == name \in Seq(Signs) /\ Valid(name) /\ Uppered(name) = name

\* The nine digits are different signs, and none is a letter, a space or "_".
LEMMA NineDigits ==
  /\ Len(Digits) = 9 /\ DOMAIN Digits = 1 .. 9
  /\ \A k \in 1 .. 9 : Digits[k] \notin {"a", "b", " "}
  /\ \A j, k \in 1 .. 9 : Digits[j] = Digits[k] => j = k
<1>1. Len(Digits) = 9 /\ DOMAIN Digits = 1 .. 9
  BY DEF Digits
<1>2. \A k \in 1 .. 9 : k \in {1, 2, 3, 4, 5, 6, 7, 8, 9}
  OBVIOUS
<1>3. /\ Digits[1] = "1" /\ Digits[2] = "2" /\ Digits[3] = "3"
      /\ Digits[4] = "4" /\ Digits[5] = "5" /\ Digits[6] = "6"
      /\ Digits[7] = "7" /\ Digits[8] = "8" /\ Digits[9] = "9"
  BY DEF Digits
<1>4. ASSUME NEW k \in 1 .. 9 PROVE Digits[k] \notin {"a", "b", " "}
  BY <1>2, <1>3
<1>5. ASSUME NEW j \in 1 .. 9, NEW k \in 1 .. 9, Digits[j] = Digits[k] PROVE j = k
  BY <1>2, <1>3, <1>5
<1> QED BY <1>1, <1>4, <1>5

\* Capitals stay as they are and are not forbidden, and so it is with the digits.
LEMMA Capitals ==
  /\ \A c \in Signs : UpperSign(c) \in Signs /\ UpperSign(UpperSign(c)) = UpperSign(c)
  /\ \A c \in Signs : c \notin Forbidden => UpperSign(c) \notin Forbidden
  /\ "_" \in Signs /\ UpperSign("_") = "_" /\ "_" \notin Forbidden
  /\ \A k \in 1 .. 9 :
        Digits[k] \in Signs /\ UpperSign(Digits[k]) = Digits[k] /\ Digits[k] \notin Forbidden
<1>1. ASSUME NEW c \in Signs
      PROVE  UpperSign(c) \in Signs /\ UpperSign(UpperSign(c)) = UpperSign(c)
  BY DEF UpperSign, Signs
<1>2. ASSUME NEW c \in Signs, c \notin Forbidden PROVE UpperSign(c) \notin Forbidden
  BY <1>2 DEF UpperSign, Forbidden
<1>3. "_" \in Signs /\ UpperSign("_") = "_" /\ "_" \notin Forbidden
  BY DEF UpperSign, Forbidden, Signs
<1>4. ASSUME NEW k \in 1 .. 9
      PROVE  Digits[k] \in Signs /\ UpperSign(Digits[k]) = Digits[k] /\ Digits[k] \notin Forbidden
  BY NineDigits DEF UpperSign, Forbidden, Signs
<1> QED BY <1>1, <1>2, <1>3, <1>4

\* A valid name can be stored in capitals.
LEMMA UpperedStored ==
  ASSUME NEW name \in Seq(Signs), Valid(name)
  PROVE  StoredName(Uppered(name))
<1> DEFINE n == Len(name)
           caps == Uppered(name)
<1>1. n \in Nat \ {0} /\ n <= NameLimit /\ DOMAIN name = 1 .. n
      /\ \A k \in 1 .. n : name[k] \in Signs /\ name[k] \notin Forbidden
  BY EmptySeq DEF Valid
<1>2. caps \in [1 .. n -> Signs] /\ \A k \in 1 .. n : caps[k] = UpperSign(name[k])
  <2> HIDE DEF n
  <2> QED BY <1>1, Capitals DEF Uppered
<1> HIDE DEF n, caps
<1>3. caps \in Seq(Signs) /\ Len(caps) = n /\ DOMAIN caps = 1 .. n
  BY <1>1, <1>2, SequenceOf
<1>4. \A k \in 1 .. n : caps[k] \notin Forbidden /\ UpperSign(caps[k]) = caps[k]
  BY <1>1, <1>2, Capitals
<1>5. Valid(caps)
  BY <1>1, <1>3, <1>4 DEF Valid
<1>6. Uppered(caps) = caps
  BY <1>2, <1>3, <1>4 DEF Uppered
<1>7. StoredName(caps)
  BY <1>3, <1>5, <1>6 DEF StoredName
<1> QED BY <1>7 DEF caps

\* What normalise() gives can be stored.
LEMMA NormalisedStored ==
  ASSUME NEW name \in Seq(Signs), name # <<>>
  PROVE  StoredName(Normalised(name))
<1> DEFINE size == IF Len(name) < NameLimit THEN Len(name) ELSE NameLimit
           cut == SubSeq(name, 1, size)
           plain == Normalised(name)
<1>1. size \in Nat \ {0} /\ size <= Len(name) /\ size <= NameLimit
  BY NameLimitAssumption, EmptySeq
<1>2. plain = [k \in DOMAIN cut |-> IF cut[k] \in Forbidden THEN "_" ELSE UpperSign(cut[k])]
  BY DEF Normalised
<1> HIDE DEF size
<1>3. cut \in Seq(Signs) /\ Len(cut) = size /\ DOMAIN cut = 1 .. size
  BY <1>1
<1> HIDE DEF cut, plain
<1>4. plain = [k \in 1 .. size |-> IF cut[k] \in Forbidden THEN "_" ELSE UpperSign(cut[k])]
  BY <1>2, <1>3
<1>5. \A k \in 1 .. size : cut[k] \in Signs
  BY <1>1, <1>3
<1>6. /\ plain \in [1 .. size -> Signs]
      /\ \A k \in 1 .. size : plain[k] \notin Forbidden /\ UpperSign(plain[k]) = plain[k]
  BY <1>4, <1>5, Capitals
<1>7. plain \in Seq(Signs) /\ Len(plain) = size /\ DOMAIN plain = 1 .. size
  BY <1>1, <1>6, SequenceOf
<1>8. Valid(plain)
  BY <1>1, <1>6, <1>7 DEF Valid
<1>9. Uppered(plain) = plain
  BY <1>6, <1>7 DEF Uppered
<1>10. StoredName(plain)
  BY <1>7, <1>8, <1>9 DEF StoredName
<1> QED BY <1>10 DEF plain

\* A numbered name can be stored, and two numbers give two names.
LEMMA NumberedStored ==
  ASSUME NEW name, StoredName(name)
  PROVE  /\ \A k \in 1 .. 9 : StoredName(Numbered(name, k))
         /\ \A j, k \in 1 .. 9 : Numbered(name, j) = Numbered(name, k) => j = k
<1> DEFINE size == IF Len(name) < NameLimit THEN Len(name) ELSE NameLimit - 1
           cut == SubSeq(name, 1, size)
<1>1. name \in Seq(Signs) /\ Len(name) \in Nat \ {0} /\ Len(name) <= NameLimit
      /\ \A k \in 1 .. Len(name) : name[k] \notin Forbidden /\ UpperSign(name[k]) = name[k]
  BY EmptySeq DEF StoredName, Valid, Uppered
<1>2. size \in Nat \ {0} /\ size <= Len(name) /\ size + 1 <= NameLimit
  BY <1>1, NameLimitAssumption
<1>3. cut \in Seq(Signs) /\ Len(cut) = size /\ \A k \in 1 .. size : cut[k] = name[k]
  BY <1>1, <1>2
<1> HIDE DEF cut, size
<1>4. ASSUME NEW k \in 1 .. 9
      PROVE  /\ Numbered(name, k) \in Seq(Signs) /\ Len(Numbered(name, k)) = size + 1
             /\ \A i \in 1 .. size : Numbered(name, k)[i] = cut[i]
             /\ Numbered(name, k)[size + 1] = Digits[k]
  <2>1. Numbered(name, k) = Append(cut, Digits[k])
    BY DEF Numbered, cut, size
  <2>2. Digits[k] \in Signs
    BY Capitals
  <2> QED BY <1>2, <1>3, <2>1, <2>2, AppendProperties
<1>5. ASSUME NEW k \in 1 .. 9 PROVE StoredName(Numbered(name, k))
  <2> DEFINE long == Numbered(name, k)
  <2>1. long \in Seq(Signs) /\ Len(long) = size + 1 /\ DOMAIN long = 1 .. size + 1
    BY <1>2, <1>4
  <2>2. ASSUME NEW i \in 1 .. size + 1
        PROVE  long[i] \notin Forbidden /\ UpperSign(long[i]) = long[i]
    <3>1. CASE i \in 1 .. size
      <4>1. i \in 1 .. Len(name)
        BY <1>1, <1>2, <3>1
      <4>2. long[i] = name[i]
        BY <1>3, <1>4, <3>1
      <4> QED BY <1>1, <4>1, <4>2
    <3>2. CASE i = size + 1
      BY <1>4, <3>2, Capitals
    <3> QED BY <1>2, <3>1, <3>2
  <2> HIDE DEF long
  <2>3. Valid(long)
    BY <1>2, <2>1, <2>2 DEF Valid
  <2>4. Uppered(long) = long
    BY <2>1, <2>2 DEF Uppered
  <2>5. StoredName(long)
    BY <2>1, <2>3, <2>4 DEF StoredName
  <2> QED BY <2>5 DEF long
<1>6. ASSUME NEW j \in 1 .. 9, NEW k \in 1 .. 9, Numbered(name, j) = Numbered(name, k)
      PROVE  j = k
  <2>1. Digits[j] = Digits[k]
    BY <1>4, <1>6
  <2> QED BY <2>1, NineDigits
<1> QED BY <1>5, <1>6

\* Of some of the nine numbers there is a smallest one.
LEMMA Smallest ==
  ASSUME NEW S \in SUBSET (1 .. 9), S # {}
  PROVE  \E k \in S : \A j \in S : k <= j
<1>1. PICK some \in S : TRUE
  OBVIOUS
<1>2. \A n \in 1 .. 9 : n \in S /\ (\A j \in S : j >= n) => \E k \in S : \A j \in S : k <= j
  OBVIOUS
<1>3. \A n \in 1 .. 9 : n \notin S /\ (\A j \in S : j >= n) => \A j \in S : j >= n + 1
  OBVIOUS
<1>4. \A j \in S : j >= 1 /\ j <= 9
  OBVIOUS
<1> QED BY <1>1, <1>2, <1>3, <1>4

\* More places than things: two places hold the same thing.
LEMMA TwoAlike ==
  ASSUME NEW n \in Nat, NEW S, IsFiniteSet(S), Cardinality(S) < n, NEW f \in [1 .. n -> S]
  PROVE  \E j, k \in 1 .. n : j # k /\ f[j] = f[k]
<1> DEFINE N == 1 .. n
<1>1. IsFiniteSet(N) /\ Cardinality(N) = IF 1 > n THEN 0 ELSE n - 1 + 1
  BY FS_Interval
<1>2. Cardinality(N) = n
  BY <1>1
<1>3. f \in [N -> S]
  OBVIOUS
<1>4. \E j, k \in N : j # k /\ f[j] = f[k]
  <2> HIDE DEF N
  <2> QED BY <1>1, <1>2, <1>3, FS_PigeonHole
<1> QED BY <1>4

\* As long as not all the numbers are taken, a chosen name is new and can be stored.
LEMMA ChosenIsNew ==
  ASSUME NEW name \in Seq(Signs), name # <<>>, NEW used, IsFiniteSet(used), Cardinality(used) < 9
  PROVE  StoredName(Chosen(name, used)) /\ Chosen(name, used) \notin used
<1>1. CASE Valid(name) /\ Uppered(name) \notin used
  BY <1>1, UpperedStored DEF Chosen
<1>2. CASE ~(Valid(name) /\ Uppered(name) \notin used)
  <2> DEFINE plain == Normalised(name)
             free == {k \in DOMAIN Digits : Numbered(plain, k) \notin used}
  <2>1. Chosen(name, used) = Allocated(name, used) /\ StoredName(plain)
    BY <1>2, NormalisedStored DEF Chosen
  <2>2. CASE plain \notin used
    BY <2>1, <2>2 DEF Allocated
  <2>3. CASE plain \in used
    <3>1. free # {}
      <4> SUFFICES ASSUME free = {} PROVE FALSE
        OBVIOUS
      <4> DEFINE f == [k \in 1 .. 9 |-> Numbered(plain, k)]
      <4>1. f \in [1 .. 9 -> used]
        BY NineDigits
      <4> DEFINE n == 9
      <4>2. n \in Nat /\ f \in [1 .. n -> used] /\ Cardinality(used) < n
        BY <4>1
      <4>3. \E j, k \in 1 .. n : j # k /\ f[j] = f[k]
        <5> HIDE DEF f, n
        <5> QED BY <4>2, TwoAlike
      <4> QED BY <2>1, <4>3, NumberedStored DEF f
    <3>2. free \subseteq 1 .. 9
      BY NineDigits
    <3>3. \E k \in free : \A j \in free : k <= j
      <4> HIDE DEF free
      <4> QED BY <3>1, <3>2, Smallest
    <3>4. (CHOOSE k \in free : \A j \in free : k <= j) \in free
      <4> HIDE DEF free
      <4> QED BY <3>3
    <3>5. Allocated(name, used) = Numbered(plain, CHOOSE k \in free : \A j \in free : k <= j)
      BY <2>3 DEF Allocated
    <3> HIDE DEF plain
    <3> QED BY <2>1, <3>2, <3>4, <3>5, NumberedStored
  <2> QED BY <2>2, <2>3
<1> QED BY <1>1, <1>2
-----------------------------------------------------------------------------
\* The names given out in a folder are those of the entries renamed into it, no
\* more of them than entries; the folder of an entry was accepted before it.
NamesInv ==
    /\ NamesTypeOK
    /\ IsFiniteSet(found) /\ Cardinality(found) \in Nat /\ Cardinality(found) <= MaxFound
    /\ \A p \in found : renamedTo[p] \in Seq(Seq(Signs))
    /\ \A p \in found : Len(p) = 2 => Front(p) \in found
    /\ \A f : IsFiniteSet(Used(f)) /\ Cardinality(Used(f)) <= Cardinality(found)
    /\ \A f : Used(f) = {Last(renamedTo[p]) : p \in {q \in found : Front(renamedTo[q]) = f}}
    /\ \A p \in found : StoredName(Last(renamedTo[p]))
    /\ DistinctStayDistinct

\* A path of the source is a name, or a folder and a name.
LEMMA PathsOfSource ==
  ASSUME NEW path \in FoundPaths
  PROVE  /\ Last(path) \in Seq(Signs) /\ Last(path) # <<>>
         /\ Len(path) \in {1, 2}
         /\ Len(path) = 2 => Len(Front(path)) = 1
<1>1. ASSUME NEW m \in FoundNames PROVE m \in Seq(Signs) /\ m # <<>>
  <2>1. m \in Seq(STRING) /\ m # <<>> /\ STRING \subseteq Signs
    BY FoundAssumption DEF Signs
  <2> QED BY <2>1, SeqMonotonic
<1>2. ASSUME NEW m \in FoundNames, path = <<m>>
      PROVE  Last(path) = m /\ Len(path) = 1
  BY <1>2 DEF Last
<1>3. ASSUME NEW m \in FoundNames, NEW n \in FoundNames, path = <<m, n>>
      PROVE  Last(path) = n /\ Len(path) = 2 /\ Len(Front(path)) = 1
  <2>1. Len(path) = 2 /\ path[1] = m /\ path[2] = n /\ path \in Seq(FoundNames)
    BY <1>3
  <2>2. Last(path) = n
    BY <2>1 DEF Last
  <2>3. Front(path) = SubSeq(path, 1, 1)
    BY <2>1 DEF Front
  <2> QED BY <2>1, <2>2, <2>3
<1>4. CASE path \in {<<m>> : m \in FoundNames}
  <2>1. PICK m \in FoundNames : path = <<m>>
    BY <1>4
  <2> QED BY <1>1, <1>2, <2>1
<1>5. CASE path \in {<<m, n>> : m, n \in FoundNames}
  <2>1. PICK m \in FoundNames, n \in FoundNames : path = <<m, n>>
    BY <1>5
  <2> QED BY <1>1, <1>3, <2>1
<1> QED BY <1>4, <1>5 DEF FoundPaths

\* Accepting an entry keeps the claims.
LEMMA NamesKept ==
  ASSUME NamesInv, NEW path \in FoundPaths, AcceptEntry(path)
  PROVE  NamesInv'
<1> DEFINE folder0 == IF Len(path) = 1 THEN <<>> ELSE renamedTo[Front(path)]
           used == Used(folder0)
           chosen == Chosen(Last(path), used)
<1>1. /\ Cardinality(found) < MaxFound /\ path \notin found
      /\ Len(path) = 2 => Front(path) \in found
      /\ found' = found \cup {path}
      /\ renamedTo' = [p \in found \cup {path} |->
                          IF p = path THEN Append(folder0, chosen) ELSE renamedTo[p]]
      /\ allocated' = [f \in DOMAIN allocated \cup {folder0} |->
                          IF f = folder0 THEN used \cup {chosen} ELSE allocated[f]]
  BY DEF AcceptEntry
<1>2. folder0 \in Seq(Seq(Signs)) /\ Len(folder0) = Len(path) - 1
  <2>1. CASE Len(path) = 1
    BY <2>1
  <2>2. CASE Len(path) = 2
    <3>1. Front(path) \in found /\ Len(Front(path)) = 1
      BY <1>1, <2>2, PathsOfSource
    <3>2. folder0 = renamedTo[Front(path)]
      BY <2>2
    <3> QED BY <2>2, <3>1, <3>2 DEF NamesInv, NamesTypeOK
  <2> QED BY <2>1, <2>2, PathsOfSource
<1>3. IsFiniteSet(used) /\ Cardinality(used) < 9
  <2>1. IsFiniteSet(used) /\ Cardinality(used) <= Cardinality(found)
    BY DEF NamesInv
  <2>2. Cardinality(used) \in Nat /\ Cardinality(found) \in Nat
    BY <2>1, FS_CardinalityType DEF NamesInv
  <2> QED BY <1>1, <2>1, <2>2, FoundAssumption
<1>4. StoredName(chosen) /\ chosen \notin used
  <2> HIDE DEF used
  <2> QED BY <1>3, PathsOfSource, ChosenIsNew
<1> HIDE DEF chosen
<1>5. /\ renamedTo'[path] \in Seq(Seq(Signs)) /\ Len(renamedTo'[path]) = Len(path)
      /\ Front(renamedTo'[path]) = folder0 /\ Last(renamedTo'[path]) = chosen
  <2>1. renamedTo'[path] = Append(folder0, chosen)
    BY <1>1
  <2> HIDE DEF folder0
  <2> QED BY <1>2, <1>4, <2>1, Appended, PathsOfSource DEF StoredName
<1>6. \A p \in found : p # path /\ renamedTo'[p] = renamedTo[p]
  BY <1>1
<1>7. NamesTypeOK'
  BY <1>1, <1>5, <1>6 DEF NamesInv, NamesTypeOK
<1>8. IsFiniteSet(found') /\ Cardinality(found') \in Nat /\ Cardinality(found') <= MaxFound
  <2>1. IsFiniteSet(found') /\ Cardinality(found') = Cardinality(found) + 1
    BY <1>1, FS_AddElement DEF NamesInv
  <2> QED BY <1>1, <2>1, FoundAssumption DEF NamesInv
<1>9. \A p \in found' : renamedTo'[p] \in Seq(Seq(Signs))
  BY <1>1, <1>5, <1>6 DEF NamesInv
<1>10. \A p \in found' : Len(p) = 2 => Front(p) \in found'
  BY <1>1 DEF NamesInv
<1>11. ASSUME NEW f
       PROVE  Used(f)' = {Last(renamedTo'[p]) : p \in {q \in found' : Front(renamedTo'[q]) = f}}
  <2> DEFINE old == {Last(renamedTo[p]) : p \in {q \in found : Front(renamedTo[q]) = f}}
             new == {Last(renamedTo'[p]) : p \in {q \in found' : Front(renamedTo'[q]) = f}}
  <2>1. Used(f)' = IF f = folder0 THEN Used(f) \cup {chosen} ELSE Used(f)
    BY <1>1 DEF Used
  <2>2. Used(f) = old
    BY DEF NamesInv
  <2>3. new = IF f = folder0 THEN old \cup {chosen} ELSE old
    <3>1. {q \in found' : Front(renamedTo'[q]) = f} =
             {q \in found : Front(renamedTo[q]) = f} \cup (IF f = folder0 THEN {path} ELSE {})
      BY <1>1, <1>5, <1>6
    <3> HIDE DEF folder0
    <3> QED BY <1>5, <1>6, <3>1
  <2> QED BY <2>1, <2>2, <2>3
<1>12. \A p \in found' : StoredName(Last(renamedTo'[p]))
  BY <1>1, <1>4, <1>5, <1>6 DEF NamesInv
<1>13. ASSUME NEW p \in found', Len(p) = 2
       PROVE  Front(renamedTo'[p]) = renamedTo'[Front(p)]
  <2>1. CASE p = path
    <3>1. Len(path) = 2
      BY <1>13, <2>1
    <3>2. folder0 = renamedTo[Front(path)]
      BY <3>1
    <3> HIDE DEF folder0
    <3>3. Front(path) \in found
      BY <1>1, <3>1
    <3> QED BY <1>5, <1>6, <2>1, <3>2, <3>3
  <2>2. CASE p # path
    <3>1. p \in found /\ Front(p) \in found
      BY <1>1, <1>13, <2>2 DEF NamesInv
    <3> QED BY <1>6, <1>13, <3>1 DEF NamesInv, DistinctStayDistinct
  <2> QED BY <2>1, <2>2
<1>14. ASSUME NEW p \in found, renamedTo[p] = renamedTo'[path] PROVE FALSE
  <2>1. Front(renamedTo[p]) = folder0 /\ Last(renamedTo[p]) = chosen
    BY <1>5, <1>14
  <2>2. chosen \in used
    BY <2>1 DEF NamesInv
  <2> QED BY <1>4, <2>2
<1>15. \A p, q \in found' : p # q => renamedTo'[p] # renamedTo'[q]
  BY <1>1, <1>6, <1>14 DEF NamesInv, DistinctStayDistinct
<1>16. DistinctStayDistinct'
  BY <1>12, <1>13, <1>15 DEF DistinctStayDistinct, StoredName
<1>17. ASSUME NEW f
       PROVE  IsFiniteSet(Used(f)') /\ Cardinality(Used(f)') <= Cardinality(found')
  <2>1. Used(f)' = IF f = folder0 THEN Used(f) \cup {chosen} ELSE Used(f)
    BY <1>1 DEF Used
  <2>2. IsFiniteSet(Used(f)) /\ Cardinality(Used(f)) <= Cardinality(found)
    BY DEF NamesInv
  <2>3. Cardinality(found') = Cardinality(found) + 1 /\ Cardinality(found) \in Nat
    BY <1>1, FS_AddElement DEF NamesInv
  <2>4. Cardinality(Used(f)) \in Nat
    BY <2>2, FS_CardinalityType
  <2> DEFINE U == Used(f)
  <2> HIDE DEF U
  <2>5. /\ IsFiniteSet(U \cup {chosen})
        /\ Cardinality(U \cup {chosen}) =
              IF chosen \in U THEN Cardinality(U) ELSE Cardinality(U) + 1
    BY <2>2, FS_AddElement DEF U
  <2>6. Cardinality(U \cup {chosen}) <= Cardinality(U) + 1
    BY <2>4, <2>5 DEF U
  <2>7. CASE f = folder0
    <3>1. Used(f)' = U \cup {chosen}
      BY <2>1, <2>7 DEF U
    <3>2. Cardinality(U \cup {chosen}) <= Cardinality(found) + 1
      BY <2>2, <2>3, <2>4, <2>5, <2>6 DEF U
    <3> QED BY <2>3, <2>5, <3>1, <3>2
  <2>8. CASE f # folder0
    BY <2>1, <2>2, <2>3, <2>4, <2>8
  <2> QED BY <2>7, <2>8
<1> QED BY <1>7, <1>8, <1>9, <1>10, <1>11, <1>12, <1>16, <1>17 DEF NamesInv

\* "two source names that fold to the same 8.3 name become two different files
\* rather than one overwriting the other" (volume_copy.py:405-411): for names of
\* any signs and length, and a volume of any limit, as long as the numbers last.
THEOREM NamesStayDistinct == NamesSpec => []DistinctStayDistinct
<1>1. ASSUME NamesInit PROVE NamesInv
  <2>1. found = {} /\ renamedTo = [p \in {} |-> <<>>] /\ \A f : Used(f) = {}
    BY <1>1 DEF NamesInit, Used
  <2>2. IsFiniteSet({}) /\ Cardinality({}) = 0
    BY FS_EmptySet
  <2>3. IsFiniteSet(found) /\ Cardinality(found) = 0
    BY <2>1, <2>2
  <2>4. NamesTypeOK /\ DistinctStayDistinct
    BY <2>1 DEF NamesTypeOK, DistinctStayDistinct
  <2>5. Cardinality(found) \in Nat /\ Cardinality(found) <= MaxFound
    BY <2>3, FoundAssumption
  <2>6. ASSUME NEW f
        PROVE  IsFiniteSet(Used(f)) /\ Cardinality(Used(f)) <= Cardinality(found)
    <3>1. Used(f) = {}
      BY <2>1
    <3>2. IsFiniteSet(Used(f)) /\ Cardinality(Used(f)) = 0
      BY <2>2, <3>1
    <3> QED BY <2>3, <3>2
  <2>7. ASSUME NEW f
        PROVE  Used(f) = {Last(renamedTo[p]) : p \in {q \in found : Front(renamedTo[q]) = f}}
    BY <2>1
  <2>8. \A p \in found : p \notin found
    BY <2>1
  <2> QED BY <2>3, <2>4, <2>5, <2>6, <2>7, <2>8 DEF NamesInv
<1>2. ASSUME NamesInv, [NamesNext]_nameVars PROVE NamesInv'
  <2>1. CASE NamesNext
    BY <1>2, <2>1, NamesKept DEF NamesNext
  <2>2. CASE UNCHANGED nameVars
    <3>1. found' = found /\ renamedTo' = renamedTo /\ allocated' = allocated
      BY <2>2 DEF nameVars
    <3>2. ASSUME NEW f PROVE Used(f)' = Used(f)
      BY <3>1 DEF Used
    <3>3. NamesTypeOK' /\ DistinctStayDistinct'
      BY <1>2, <3>1 DEF NamesInv, NamesTypeOK, DistinctStayDistinct
    <3>4. ASSUME NEW f
          PROVE  IsFiniteSet(Used(f)') /\ Cardinality(Used(f)') <= Cardinality(found')
      BY <1>2, <3>1, <3>2 DEF NamesInv
    <3>5. ASSUME NEW f
          PROVE  Used(f)' = {Last(renamedTo'[p]) : p \in {q \in found' : Front(renamedTo'[q]) = f}}
      BY <1>2, <3>1, <3>2 DEF NamesInv
    <3>6. /\ IsFiniteSet(found') /\ Cardinality(found') \in Nat /\ Cardinality(found') <= MaxFound
          /\ \A p \in found' : renamedTo'[p] \in Seq(Seq(Signs))
          /\ \A p \in found' : Len(p) = 2 => Front(p) \in found'
          /\ \A p \in found' : StoredName(Last(renamedTo'[p]))
      BY <1>2, <3>1 DEF NamesInv
    <3> QED BY <3>3, <3>4, <3>5, <3>6 DEF NamesInv
  <2> QED BY <1>2, <2>1, <2>2
<1>3. NamesInv => DistinctStayDistinct
  BY DEF NamesInv
<1> QED BY <1>1, <1>2, <1>3, PTL DEF NamesSpec
-----------------------------------------------------------------------------
(***************************************************************************)
(* Transfers.  A tree has every entry in a folder; a path is at most three *)
(* names long.                                                             *)
(***************************************************************************)
WellFormed(tree) == \A p \in TransferPaths : tree[p] # "nothing" => Holds(tree, Front(p)) = "folder"
Volumes == [tree : [TransferPaths -> Held], boots : BOOLEAN]

\* What the paths are, one by one.
LEMMA PathShape ==
  /\ \A p \in TransferPaths : /\ p \in Seq(Leafs) /\ Len(p) \in {1, 2, 3} /\ DOMAIN p = 1 .. Len(p)
                              /\ p # <<>>
  /\ \A p \in Seq(Leafs) : Len(p) \in {1, 2, 3} => p \in TransferPaths
<1>1. ASSUME NEW p \in TransferPaths
      PROVE  p \in Seq(Leafs) /\ Len(p) \in {1, 2, 3} /\ DOMAIN p = 1 .. Len(p) /\ p # <<>>
  <2>1. PICK n \in 1 .. 3 : p \in [1 .. n -> Leafs]
    BY DEF TransferPaths
  <2>2. n \in Nat /\ n \in {1, 2, 3}
    OBVIOUS
  <2>3. p \in Seq(Leafs) /\ Len(p) = n
    BY <2>1, <2>2, SequenceOf
  <2> QED BY <2>2, <2>3, EmptySeq, LenProperties
<1>2. ASSUME NEW p \in Seq(Leafs), Len(p) \in {1, 2, 3} PROVE p \in TransferPaths
  <2>1. p \in [1 .. Len(p) -> Leafs] /\ Len(p) \in 1 .. 3
    BY <1>2, LenProperties
  <2> QED BY <2>1 DEF TransferPaths
<1> QED BY <1>1, <1>2

\* The last name of a path is a name.
LEMMA LastShape ==
  ASSUME NEW p \in Seq(Leafs), p # <<>>
  PROVE  Last(p) \in Leafs
<1>1. Len(p) \in Nat \ {0}
  BY EmptySeq
<1>2. Len(p) \in 1 .. Len(p)
  BY <1>1
<1> QED BY <1>2, ElementOfSeq DEF Last

\* What has an entry below it is a folder, one level up or two.
LEMMA FoldersAbove ==
  ASSUME NEW tree, WellFormed(tree), NEW p \in TransferPaths, NEW q \in TransferPaths,
         IsPrefix(q, p), q # p, tree[p] # "nothing"
  PROVE  tree[q] = "folder"
<1>1. /\ p \in Seq(Leafs) /\ q \in Seq(Leafs) /\ p # <<>> /\ q # <<>>
      /\ Len(p) \in {1, 2, 3} /\ Len(q) \in {1, 2, 3}
  BY PathShape
<1>2. Len(q) <= Len(p) /\ \A i \in 1 .. Len(q) : q[i] = p[i]
  BY <1>1, PrefixShape
<1>3. Len(q) # Len(p)
  BY <1>1, <1>2, SeqEqual
<1>4. /\ Front(p) \in Seq(Leafs) /\ Len(Front(p)) = Len(p) - 1
      /\ \A i \in 1 .. Len(p) - 1 : Front(p)[i] = p[i]
  BY <1>1, FrontShape
<1>5. Len(Front(p)) \in {1, 2}
  BY <1>1, <1>2, <1>3, <1>4
<1>6. Front(p) \in TransferPaths /\ Front(p) # <<>> /\ tree[Front(p)] = "folder"
  BY <1>4, <1>5, PathShape DEF WellFormed, Holds
<1>7. CASE Len(q) = Len(p) - 1
  <2>1. q = Front(p)
    BY <1>1, <1>2, <1>4, <1>7, SeqEqual
  <2> QED BY <1>6, <2>1
<1>8. CASE Len(q) # Len(p) - 1
  <2>1. Len(p) = 3 /\ Len(q) = 1
    <3> DEFINE n == Len(p)
               m == Len(q)
    <3>1. n \in {1, 2, 3} /\ m \in {1, 2, 3} /\ m <= n /\ m # n /\ m # n - 1
      BY <1>1, <1>2, <1>3, <1>8
    <3> HIDE DEF n, m
    <3>2. n = 3 /\ m = 1
      BY <3>1
    <3> QED BY <3>2 DEF n, m
  <2> DEFINE r == Front(p)
  <2>2. r \in Seq(Leafs) /\ Len(r) = 2 /\ r[1] = q[1] /\ r # <<>>
    BY <1>2, <1>4, <1>6, <2>1
  <2> HIDE DEF r
  <2>3. Front(r) \in Seq(Leafs) /\ Len(Front(r)) = 1 /\ Front(r)[1] = r[1]
    <3>1. 1 \in 1 .. Len(r) - 1
      BY <2>2
    <3>2. Front(r) \in Seq(Leafs) /\ Len(Front(r)) = Len(r) - 1 /\ Front(r)[1] = r[1]
      BY <2>2, <3>1, FrontShape
    <3> QED BY <2>2, <3>2
  <2>4. Front(r) = q
    BY <1>1, <2>1, <2>2, <2>3, SeqEqual
  <2>5. r \in TransferPaths /\ tree[r] = "folder"
    BY <1>6 DEF r
  <2>6. Holds(tree, Front(r)) = "folder"
    BY <2>5 DEF WellFormed
  <2> QED BY <1>1, <2>4, <2>6 DEF Holds
<1> QED BY <1>7, <1>8

\* A place under another: the joined path and what is a prefix of it.
LEMMA Joined ==
  ASSUME NEW at0 \in Seq(Leafs), NEW p \in Seq(Leafs)
  PROVE  /\ at0 \o p \in Seq(Leafs) /\ Len(at0 \o p) = Len(at0) + Len(p)
         /\ IsPrefix(at0, at0 \o p)
         /\ \A q \in Seq(Leafs) : at0 \o p = at0 \o q => p = q
<1>1. /\ at0 \o p \in Seq(Leafs) /\ Len(at0 \o p) = Len(at0) + Len(p)
      /\ Len(at0) \in Nat /\ Len(p) \in Nat
      /\ \A i \in 1 .. Len(at0) + Len(p) :
             (at0 \o p)[i] = IF i <= Len(at0) THEN at0[i] ELSE p[i - Len(at0)]
  BY ConcatProperties, LenProperties
<1>2. IsPrefix(at0, at0 \o p)
  <2> DEFINE path == at0 \o p
  <2>1. path \in Seq(Leafs) /\ Len(at0) <= Len(path) /\ \A i \in 1 .. Len(at0) : at0[i] = path[i]
    BY <1>1
  <2> HIDE DEF path
  <2>2. IsPrefix(at0, path)
    BY <2>1, PrefixShape
  <2> QED BY <2>2 DEF path
<1>3. \A q \in Seq(Leafs) : at0 \o p = at0 \o q => p = q
  BY ConcatSimplifications
<1> QED BY <1>1, <1>2, <1>3

\* A path that two places joined with the same one are prefixes of.
LEMMA JoinedPrefix ==
  ASSUME NEW at0 \in Seq(Leafs), NEW p \in Seq(Leafs), NEW q \in Seq(Leafs)
  PROVE  IsPrefix(at0 \o q, at0 \o p) => IsPrefix(q, p)
<1>1. /\ at0 \o p \in Seq(Leafs) /\ Len(at0 \o p) = Len(at0) + Len(p)
      /\ \A i \in 1 .. Len(at0) + Len(p) :
             (at0 \o p)[i] = IF i <= Len(at0) THEN at0[i] ELSE p[i - Len(at0)]
  BY ConcatProperties
<1>2. /\ at0 \o q \in Seq(Leafs) /\ Len(at0 \o q) = Len(at0) + Len(q)
      /\ \A i \in 1 .. Len(at0) + Len(q) :
             (at0 \o q)[i] = IF i <= Len(at0) THEN at0[i] ELSE q[i - Len(at0)]
  BY ConcatProperties
<1> DEFINE long == at0 \o p
           short == at0 \o q
           n == Len(at0)
<1>3. n \in Nat /\ Len(p) \in Nat /\ Len(q) \in Nat
  BY LenProperties
<1> HIDE DEF long, short, n
<1>4. SUFFICES ASSUME IsPrefix(short, long) PROVE IsPrefix(q, p)
  BY DEF long, short
<1>5. Len(short) <= Len(long) /\ \A i \in 1 .. Len(short) : short[i] = long[i]
  BY <1>1, <1>2, <1>4, PrefixShape DEF long, short
<1>6. Len(q) <= Len(p)
  BY <1>1, <1>2, <1>3, <1>5 DEF long, short, n
<1>7. ASSUME NEW i \in 1 .. Len(q) PROVE q[i] = p[i]
  <2>1. n + i \in 1 .. n + Len(q) /\ n + i \in 1 .. n + Len(p) /\ ~(n + i <= n) /\ n + i - n = i
    BY <1>3, <1>6, <1>7
  <2>2. short[n + i] = q[i]
    BY <1>2, <2>1 DEF short, n
  <2>3. long[n + i] = p[i]
    BY <1>1, <2>1 DEF long, n
  <2>4. n + i \in 1 .. Len(short)
    BY <1>2, <2>1 DEF short, n
  <2> QED BY <1>5, <2>2, <2>3, <2>4
<1> QED BY <1>6, <1>7, PrefixShape

\* A proper prefix of a path is a prefix of its front.
LEMMA PrefixOfFront ==
  ASSUME NEW p \in TransferPaths, NEW q \in TransferPaths
  PROVE  IsPrefix(q, Front(p)) <=> (IsPrefix(q, p) /\ q # p)
<1> DEFINE n == Len(p)
           m == Len(q)
           f == Front(p)
<1>1. p \in Seq(Leafs) /\ q \in Seq(Leafs) /\ p # <<>> /\ n \in Nat \ {0} /\ m \in Nat \ {0}
  BY PathShape, EmptySeq
<1>2. f \in Seq(Leafs) /\ Len(f) = n - 1 /\ \A i \in 1 .. n - 1 : f[i] = p[i]
  BY <1>1, FrontShape
<1>3. IsPrefix(q, f) <=> (m <= n - 1 /\ \A i \in 1 .. m : q[i] = f[i])
  BY <1>1, <1>2, PrefixShape
<1>4. IsPrefix(q, p) <=> (m <= n /\ \A i \in 1 .. m : q[i] = p[i])
  BY <1>1, PrefixShape
<1>5. m = n /\ (\A i \in 1 .. m : q[i] = p[i]) => q = p
  BY <1>1, SeqEqual
<1>6. q = p => m = n
  OBVIOUS
<1> HIDE DEF n, m, f
<1>7. m <= n - 1 => ((\A i \in 1 .. m : q[i] = f[i]) <=> (\A i \in 1 .. m : q[i] = p[i]))
  BY <1>1, <1>2
<1> QED BY <1>1, <1>3, <1>4, <1>5, <1>6, <1>7 DEF f

\* What writing an item does to each path of the volume.
LEMMA ItemEffect ==
  ASSUME NEW tree \in [TransferPaths -> Held], NEW place \in TransferPaths,
         NEW content \in Held \ {"nothing"}, NEW p \in TransferPaths,
         NEW item, item.at = place, item.holds = content
  PROVE  /\ WithItem(tree, item) \in [TransferPaths -> Held]
         /\ p = place => WithItem(tree, item)[p] = content
         /\ p # place /\ IsPrefix(p, place) => WithItem(tree, item)[p] = "folder"
         /\ ~IsPrefix(p, place) /\ ~IsPrefix(place, p) => WithItem(tree, item)[p] = tree[p]
         /\ content = "folder" /\ ~IsPrefix(p, place) => WithItem(tree, item)[p] = tree[p]
<1>1. IsPrefix(p, Front(place)) <=> (IsPrefix(p, place) /\ p # place)
  BY PrefixOfFront
<1>2. IsPrefix(place, place)
  BY PathShape, PrefixShape
<1>3. "folder" \in Held /\ "nothing" \in Held
  BY DEF Held
<1>4. CASE content = "folder"
  <2>1. WithItem(tree, item) =
           [q \in TransferPaths |-> IF IsPrefix(q, place) THEN "folder" ELSE tree[q]]
    BY <1>4 DEF WithItem, Chain
  <2> QED BY <1>2, <1>3, <1>4, <2>1
<1>5. CASE content # "folder"
  <2> DEFINE bare == [q \in TransferPaths |-> IF IsPrefix(place, q) THEN "nothing" ELSE tree[q]]
             chained == [q \in TransferPaths |->
                           IF IsPrefix(q, Front(place)) THEN "folder" ELSE bare[q]]
  <2>1. WithItem(tree, item) = [chained EXCEPT ![place] = content]
    BY <1>5 DEF WithItem, Chain, Without, In
  <2>2. chained \in [TransferPaths -> Held]
    BY <1>3
  <2>3. chained[p] = IF IsPrefix(p, Front(place)) THEN "folder"
                     ELSE IF IsPrefix(place, p) THEN "nothing" ELSE tree[p]
    OBVIOUS
  <2> HIDE DEF chained
  <2> QED BY <1>1, <1>2, <1>5, <2>1, <2>2, <2>3
<1> QED BY <1>4, <1>5

-----------------------------------------------------------------------------
\* The requests, as Start leaves them.
CopyRequests ==
    [doing : {"copying", "extracting", "done", "failed"},
     items : SUBSET [at : TransferPaths, holds : Held \ {"nothing"}], made : BOOLEAN,
     from : TransferPaths \cup {<<>>}, into : CopyTargets]

Busy == copying.doing \in {"copying", "extracting"}
Extracting == copying.doing = "extracting"

\* Nothing was below the folder that is made, and nothing else has changed.
OnlyMade ==
    Extracting /\ copying.made =>
        /\ copying.into \in TransferPaths
        /\ \A p \in TransferPaths :
               IF In(p, copying.into) THEN beforeCopy.tree[p] = "nothing"
               ELSE volume.tree[p] = beforeCopy.tree[p]

\* An item of the disk is still to be written, or it is there.
ItemsArrive ==
    Extracting =>
        /\ copying.items \subseteq Items(disc.tree, <<>>, copying.into)
        /\ \A item \in Items(disc.tree, <<>>, copying.into) : item.at \in TransferPaths
        /\ \A item \in Items(disc.tree, <<>>, copying.into) \ copying.items :
               volume.tree[item.at] = item.holds

\* What is copied into a folder goes below its own name there, and takes nothing else.
OthersStay ==
    copying.doing = "copying" /\ Holds(beforeCopy.tree, copying.into) = "folder" =>
        /\ \A item \in copying.items : In(item.at, Append(copying.into, Last(copying.from)))
        /\ SameBelow(beforeCopy.tree, volume.tree, {Append(copying.into, Last(copying.from))})

TransferInv ==
    /\ disc \in Volumes /\ volume \in Volumes /\ beforeCopy \in Volumes
    /\ WellFormed(disc.tree) /\ WellFormed(beforeCopy.tree)
    /\ copying \in {NoCopy, Answered} \cup CopyRequests
    /\ copying = NoCopy => volume = beforeCopy
    /\ Busy => /\ volume.boots = beforeCopy.boots
               /\ copying.from = <<>> <=> Extracting
    /\ OnlyMade /\ ItemsArrive /\ OthersStay
    /\ TransferIsWhole

\* The items of a disk, each at its own path below the folder.
LEMMA DiscItems ==
  ASSUME NEW tree, NEW target \in CopyTargets
  PROVE  /\ \A item \in Items(tree, <<>>, target) : \E p \in TransferPaths :
                tree[p] # "nothing" /\ item = [at |-> target \o p, holds |-> tree[p]]
         /\ \A p \in TransferPaths : tree[p] # "nothing" =>
                [at |-> target \o p, holds |-> tree[p]] \in Items(tree, <<>>, target)
         /\ target \in Seq(Leafs) /\ Len(target) \in {0, 1}
<1>1. ASSUME NEW p \in TransferPaths PROVE In(p, <<>>) /\ Rest(p, <<>>) = p
  <2>1. p \in Seq(Leafs) /\ <<>> \in Seq(Leafs) /\ Len(<<>>) = 0
    BY PathShape, EmptySeq
  <2> DEFINE root == <<>>
  <2>2. In(p, root)
    <3>1. root \in Seq(Leafs) /\ Len(root) = 0 /\ Len(p) \in Nat
      BY <2>1, LenProperties
    <3> HIDE DEF root
    <3>2. Len(root) <= Len(p) /\ \A i \in 1 .. Len(root) : root[i] = p[i]
      BY <3>1
    <3> QED BY <2>1, <3>1, <3>2, PrefixShape DEF In
  <2>3. SubSeq(p, 1, Len(p)) = p
    BY <2>1, SubSeqFull
  <2> QED BY <2>1, <2>2, <2>3 DEF Rest
<1>2. Items(tree, <<>>, target) =
         {[at |-> target \o Rest(p, <<>>), holds |-> tree[p]] :
             p \in {p \in TransferPaths : In(p, <<>>) /\ tree[p] # "nothing"}}
  BY DEF Items
<1>3. target \in Seq(Leafs) /\ Len(target) \in {0, 1}
  <2>1. \A n \in Leafs : <<n>> \in Seq(Leafs) /\ Len(<<n>>) = 1
    OBVIOUS
  <2>2. <<>> \in Seq(Leafs) /\ Len(<<>>) = 0
    BY EmptySeq
  <2> QED BY <2>1, <2>2 DEF CopyTargets
<1> QED BY <1>1, <1>2, <1>3

-----------------------------------------------------------------------------
\* Writing an item, whichever it is.
LEMMA WriteItemKeeps ==
  ASSUME TransferInv, WriteItem
  PROVE  TransferInv'
<1>1. PICK item \in NextItems(copying.items) :
         /\ volume' = [volume EXCEPT !.tree = WithItem(@, item)]
         /\ copying' = [copying EXCEPT !.items = @ \ {item}]
  BY DEF WriteItem
<1>2. Busy /\ UNCHANGED <<disc, beforeCopy>> /\ item \in copying.items
  BY <1>1 DEF WriteItem, Busy, NextItems
<1>3. copying \in CopyRequests
  BY <1>2 DEF TransferInv, Busy, NoCopy, Answered
<1> DEFINE place == item.at
           content == item.holds
<1>4. place \in TransferPaths /\ content \in Held \ {"nothing"}
  BY <1>2, <1>3 DEF CopyRequests
<1>5. volume \in Volumes /\ volume.tree \in [TransferPaths -> Held]
  BY DEF TransferInv, Volumes
<1> DEFINE new == WithItem(volume.tree, item)
<1>6. ASSUME NEW p \in TransferPaths
      PROVE  /\ p = place => new[p] = content
             /\ p # place /\ IsPrefix(p, place) => new[p] = "folder"
             /\ ~IsPrefix(p, place) /\ ~IsPrefix(place, p) => new[p] = volume.tree[p]
             /\ content = "folder" /\ ~IsPrefix(p, place) => new[p] = volume.tree[p]
  BY <1>4, <1>5, ItemEffect
<1>7. new \in [TransferPaths -> Held]
  BY <1>4, <1>5, ItemEffect
<1> HIDE DEF new
<1>8. volume'.tree = new /\ volume'.boots = volume.boots /\ volume' \in Volumes
  BY <1>1, <1>5, <1>7 DEF new, Volumes
<1>9. /\ copying' \in CopyRequests /\ copying'.items = copying.items \ {item}
      /\ copying'.doing = copying.doing /\ copying'.from = copying.from
      /\ copying'.into = copying.into /\ copying'.made = copying.made
  BY <1>1, <1>3 DEF CopyRequests
<1>10. copying.into \in CopyTargets
  BY <1>3 DEF CopyRequests
<1>11. copying.into \in Seq(Leafs) /\ Len(copying.into) \in {0, 1}
  BY <1>10, DiscItems
<1>12. place \in Seq(Leafs)
  BY <1>4, PathShape
<1>13. OnlyMade'
  <2> SUFFICES ASSUME Extracting, copying.made
               PROVE  OnlyMade'
    BY <1>9 DEF OnlyMade, Extracting
  <2>1. copying.into \in TransferPaths /\ Len(copying.into) = 1
    BY <1>11, PathShape DEF TransferInv, OnlyMade
  <2>2. item \in Items(disc.tree, <<>>, copying.into)
    BY <1>2 DEF TransferInv, ItemsArrive
  <2>3. IsPrefix(copying.into, place)
    <3>1. PICK p \in TransferPaths : item = [at |-> copying.into \o p, holds |-> disc.tree[p]]
      BY <1>10, <2>2, DiscItems
    <3>2. place = copying.into \o p /\ p \in Seq(Leafs)
      BY <3>1, PathShape
    <3> QED BY <1>11, <3>2, Joined
  <2>4. ASSUME NEW p \in TransferPaths, ~In(p, copying.into)
        PROVE  new[p] = volume.tree[p]
    <3>1. p \in Seq(Leafs) /\ Len(p) \in {1, 2, 3}
      BY PathShape
    <3>2. Len(copying.into) <= Len(p)
      <4>1. \A n \in {1, 2, 3} : 1 <= n
        OBVIOUS
      <4> QED BY <2>1, <3>1, <4>1
    <3>3. ~IsPrefix(p, place)
      BY <1>11, <1>12, <2>3, <2>4, <3>1, <3>2, ShorterPrefix DEF In
    <3>4. ~IsPrefix(place, p)
      BY <1>11, <1>12, <2>3, <2>4, <3>1, PrefixOfPrefix DEF In
    <3> QED BY <1>6, <3>3, <3>4
  <2> QED BY <1>2, <1>8, <1>9, <2>1, <2>4 DEF TransferInv, OnlyMade, Extracting
<1>14. ItemsArrive'
  <2> SUFFICES ASSUME Extracting PROVE ItemsArrive'
    BY <1>9 DEF ItemsArrive, Extracting
  <2> DEFINE all == Items(disc.tree, <<>>, copying.into)
  <2>1. copying.items \subseteq all /\ item \in all
    BY <1>2 DEF TransferInv, ItemsArrive
  <2>2. PICK p \in TransferPaths :
           disc.tree[p] # "nothing" /\ item = [at |-> copying.into \o p, holds |-> disc.tree[p]]
    BY <1>10, <2>1, DiscItems
  <2>3. ASSUME NEW other \in all \ copying'.items PROVE volume'.tree[other.at] = other.holds
    <3>1. PICK q \in TransferPaths :
             disc.tree[q] # "nothing" /\ other = [at |-> copying.into \o q, holds |-> disc.tree[q]]
      BY <1>10, DiscItems
    <3>2. p \in Seq(Leafs) /\ q \in Seq(Leafs)
      BY PathShape
    <3>3. CASE other = item
      BY <1>4, <1>6, <1>8, <3>3
    <3>4. CASE other # item
      <4>1. volume.tree[other.at] = other.holds
        BY <1>9, <3>4 DEF TransferInv, ItemsArrive
      <4>2. p # q /\ other.at # place
        <5>1. p # q
          BY <2>2, <3>1, <3>4
        <5> QED BY <1>11, <2>2, <3>1, <3>2, <5>1, Joined
      <4>3. other.at \in TransferPaths
        BY DEF TransferInv, ItemsArrive
      <4>4. CASE IsPrefix(other.at, place)
        <5>1. IsPrefix(q, p)
          BY <1>11, <2>2, <3>1, <3>2, <4>4, JoinedPrefix
        <5>2. disc.tree[q] = "folder"
          BY <2>2, <4>2, <5>1, FoldersAbove DEF TransferInv
        <5> QED BY <1>6, <1>8, <3>1, <4>2, <4>3, <4>4, <5>2
      <4>5. CASE IsPrefix(place, other.at) /\ ~IsPrefix(other.at, place)
        <5>1. IsPrefix(p, q)
          BY <1>11, <2>2, <3>1, <3>2, <4>5, JoinedPrefix
        <5>2. content = "folder"
          BY <2>2, <3>1, <4>2, <5>1, FoldersAbove DEF TransferInv
        <5> QED BY <1>6, <1>8, <4>1, <4>3, <4>5, <5>2
      <4>6. CASE ~IsPrefix(place, other.at) /\ ~IsPrefix(other.at, place)
        BY <1>6, <1>8, <4>1, <4>3, <4>6
      <4> QED BY <4>4, <4>5, <4>6
    <3> QED BY <3>3, <3>4
  <2>4. \A other \in all : other.at \in TransferPaths
    BY DEF TransferInv, ItemsArrive
  <2> QED BY <1>2, <1>9, <2>1, <2>3, <2>4 DEF ItemsArrive, Extracting
<1>15. OthersStay'
  <2> SUFFICES ASSUME copying.doing = "copying", Holds(beforeCopy.tree, copying.into) = "folder"
               PROVE  OthersStay'
    BY <1>2, <1>9 DEF OthersStay
  <2> DEFINE home == Append(copying.into, Last(copying.from))
  <2>1. /\ \A it \in copying.items : In(it.at, home)
        /\ SameBelow(beforeCopy.tree, volume.tree, {home})
    BY DEF TransferInv, OthersStay
  <2>2. IsPrefix(home, place)
    BY <1>2, <2>1 DEF In
  <2>3. home \in Seq(Leafs) /\ Front(home) = copying.into /\ Len(home) = Len(copying.into) + 1
    <3>1. copying.from # <<>> /\ copying.from \in TransferPaths
      BY <1>2, <1>3 DEF TransferInv, Extracting, CopyRequests
    <3>2. Last(copying.from) \in Leafs
      BY <3>1, PathShape, LastShape
    <3> QED BY <1>11, <3>2, Appended
  <2> HIDE DEF home
  <2>4. ASSUME NEW p \in TransferPaths, beforeCopy.tree[p] # "nothing", ~In(p, home)
        PROVE  new[p] = beforeCopy.tree[p]
    <3>1. volume.tree[p] = beforeCopy.tree[p]
      BY <2>1, <2>4 DEF SameBelow
    <3>2. p \in Seq(Leafs) /\ Len(p) \in {1, 2, 3}
      BY PathShape
    <3>3. ~IsPrefix(place, p)
      BY <1>12, <2>2, <2>3, <2>4, <3>2, PrefixOfPrefix DEF In
    <3>4. CASE ~IsPrefix(p, place)
      BY <1>6, <3>1, <3>3, <3>4
    <3>5. CASE IsPrefix(p, place)
      <4>1. Len(p) < Len(home)
        <5>1. Len(home) <= Len(p) => IsPrefix(home, p)
          BY <1>12, <2>2, <2>3, <3>2, <3>5, ShorterPrefix
        <5>2. Len(home) \in Nat /\ Len(p) \in Nat
          BY <2>3, <3>2, LenProperties
        <5> QED BY <2>4, <5>1, <5>2 DEF In
      <4>2. IsPrefix(p, home) /\ p # home
        BY <1>12, <2>2, <2>3, <3>2, <3>5, <4>1, ShorterPrefix
      <4>3. home \in TransferPaths
        <5>1. \A n \in {0, 1} : n + 1 \in {1, 2, 3}
          OBVIOUS
        <5> QED BY <1>11, <2>3, <5>1, PathShape
      <4>4. IsPrefix(p, copying.into)
        BY <2>3, <4>2, <4>3, PrefixOfFront
      <4>5. Len(p) = 1 /\ Len(copying.into) = 1
        <5>1. \A n \in {1, 2, 3}, m \in {0, 1} : n < m + 1 => n = 1 /\ m = 1
          OBVIOUS
        <5> QED BY <1>11, <2>3, <3>2, <4>1, <5>1
      <4>6. p = copying.into
        BY <1>11, <3>2, <4>4, <4>5, PrefixShape, SeqEqual
      <4>7. beforeCopy.tree[p] = "folder"
        BY <4>5, <4>6, PathShape DEF Holds
      <4>8. p # place
        BY <2>2, <2>4 DEF In
      <4> QED BY <1>6, <3>5, <4>7, <4>8
    <3> QED BY <3>4, <3>5
  <2>5. SameBelow(beforeCopy.tree, new, {home})
    BY <2>4 DEF SameBelow
  <2> QED BY <1>2, <1>8, <1>9, <2>1, <2>5 DEF OthersStay, home
<1>16. TransferIsWhole'
  BY <1>2, <1>9 DEF TransferIsWhole, Busy
<1>17. copying' # NoCopy /\ Busy' /\ (Extracting' <=> Extracting)
  BY <1>2, <1>9 DEF Busy, Extracting, NoCopy
<1> QED BY <1>2, <1>8, <1>9, <1>13, <1>14, <1>15, <1>16, <1>17 DEF TransferInv

\* The last item is written, or the one that cannot be: the volume is put back.
LEMMA EndsKeep ==
  ASSUME TransferInv, FinishCopy \/ FailCopy
  PROVE  TransferInv'
<1>1. Busy /\ UNCHANGED <<disc, beforeCopy>>
  BY DEF FinishCopy, FailCopy, Busy
<1>2. copying \in CopyRequests
  BY <1>1 DEF TransferInv, Busy, NoCopy, Answered
<1>3. /\ volume \in Volumes /\ beforeCopy \in Volumes /\ disc \in Volumes
      /\ volume.tree \in [TransferPaths -> Held] /\ volume.boots = beforeCopy.boots
      /\ volume.boots \in BOOLEAN /\ beforeCopy.tree \in [TransferPaths -> Held]
      /\ disc.boots \in BOOLEAN
      /\ (copying.from = <<>> <=> Extracting)
  BY <1>1 DEF TransferInv, Volumes
<1>4. CASE FinishCopy
  <2>1. copying.items = {} /\ copying' = [copying EXCEPT !.doing = "done"]
        /\ volume' = IF copying.doing = "copying" THEN volume
                     ELSE [volume EXCEPT !.boots = Carried(copying.into)]
    BY <1>4 DEF FinishCopy
  <2>2. /\ copying' \in CopyRequests /\ copying'.doing = "done" /\ copying'.from = copying.from
        /\ copying'.into = copying.into
    BY <1>2, <2>1 DEF CopyRequests
  <2>3. /\ volume' \in Volumes /\ volume'.tree = volume.tree
        /\ volume'.boots # volume.boots => disc.boots /\ copying.into = <<>>
    <3>1. CASE copying.doing = "copying"
      BY <1>3, <2>1, <3>1
    <3>2. CASE copying.doing # "copying"
      <4>1. volume' = [volume EXCEPT !.boots = Carried(copying.into)]
        BY <2>1, <3>2
      <4>2. Carried(copying.into) = (volume.boots \/ (disc.boots /\ copying.into = <<>>))
        BY DEF Carried
      <4>3. Carried(copying.into) \in BOOLEAN
        BY <1>3, <4>2
      <4>4. /\ volume' \in Volumes /\ volume'.tree = volume.tree
            /\ volume'.boots = Carried(copying.into)
        <5> DEFINE b == Carried(copying.into)
        <5>1. b \in BOOLEAN /\ volume' = [volume EXCEPT !.boots = b]
          BY <4>1, <4>3
        <5> HIDE DEF b
        <5>2. volume' \in Volumes /\ volume'.tree = volume.tree /\ volume'.boots = b
          BY <1>3, <5>1 DEF Volumes
        <5> QED BY <5>2 DEF b
      <4>5. volume'.boots # volume.boots => disc.boots /\ copying.into = <<>>
        <5>1. CASE volume.boots = TRUE
          BY <4>2, <4>4, <5>1
        <5>2. CASE volume.boots = FALSE
          <6>1. Carried(copying.into) = (disc.boots /\ copying.into = <<>>)
            BY <4>2, <5>2
          <6>2. CASE disc.boots /\ copying.into = <<>>
            BY <6>2
          <6>3. CASE ~(disc.boots /\ copying.into = <<>>)
            BY <4>4, <5>2, <6>1, <6>3
          <6> QED BY <6>2, <6>3
        <5> QED BY <1>3, <5>1, <5>2
      <4> QED BY <4>4, <4>5
    <3> QED BY <3>1, <3>2
  <2>4. copying.from = <<>> => \A item \in Items(disc.tree, <<>>, copying.into) :
                                   volume.tree[item.at] = item.holds
    BY <1>3, <2>1 DEF TransferInv, ItemsArrive
  <2>5. (copying.from # <<>> /\ Holds(beforeCopy.tree, copying.into) = "folder") =>
           SameBelow(beforeCopy.tree, volume.tree, {Append(copying.into, Last(copying.from))})
    <3>1. copying.from # <<>> => copying.doing = "copying"
      BY <1>1, <1>3 DEF Busy, Extracting
    <3> QED BY <3>1 DEF TransferInv, OthersStay
  <2>6. TransferIsWhole'
    BY <1>1, <1>3, <2>2, <2>3, <2>4, <2>5 DEF TransferIsWhole
  <2>7. ~Busy' /\ copying' # NoCopy /\ ~Extracting' /\ OthersStay'
    BY <2>2 DEF Busy, NoCopy, Extracting, OthersStay
  <2> QED BY <1>1, <1>3, <2>2, <2>3, <2>6, <2>7 DEF TransferInv, OnlyMade, ItemsArrive
<1>5. CASE FailCopy
  <2>1. copying' = [copying EXCEPT !.doing = "failed"]
        /\ volume' = IF copying.doing = "extracting" /\ copying.made
                     THEN [volume EXCEPT !.tree = Without(@, copying.into)]
                     ELSE beforeCopy
    BY <1>5 DEF FailCopy
  <2>2. copying' \in CopyRequests /\ copying'.doing = "failed"
    BY <1>2, <2>1 DEF CopyRequests
  <2>3. volume' = beforeCopy
    <3>1. CASE ~(copying.doing = "extracting" /\ copying.made)
      BY <2>1, <3>1
    <3>2. CASE copying.doing = "extracting" /\ copying.made
      <4>1. \A p \in TransferPaths : IF In(p, copying.into) THEN beforeCopy.tree[p] = "nothing"
                                     ELSE volume.tree[p] = beforeCopy.tree[p]
        BY <3>2 DEF TransferInv, OnlyMade, Extracting
      <4>2. Without(volume.tree, copying.into) = beforeCopy.tree
        BY <1>3, <4>1 DEF Without
      <4>3. volume' = [volume EXCEPT !.tree = beforeCopy.tree]
        BY <2>1, <3>2, <4>2
      <4>4. /\ volume = [tree |-> volume.tree, boots |-> volume.boots]
            /\ beforeCopy = [tree |-> beforeCopy.tree, boots |-> beforeCopy.boots]
        BY <1>3 DEF Volumes
      <4> QED BY <1>3, <4>3, <4>4
    <3> QED BY <3>1, <3>2
  <2>4. TransferIsWhole' /\ ~Busy' /\ copying' # NoCopy /\ ~Extracting' /\ OthersStay'
    BY <1>1, <2>2, <2>3 DEF TransferIsWhole, Busy, NoCopy, Extracting, OthersStay
  <2> QED BY <1>1, <1>3, <2>2, <2>3, <2>4 DEF TransferInv, OnlyMade, ItemsArrive
<1> QED BY <1>4, <1>5

\* A request that is answered at once is not one of the copies that are followed.
LEMMA AnsweredKeeps ==
  ASSUME TransferInv, copying = NoCopy, UNCHANGED disc, beforeCopy' = volume,
         copying' = Answered, volume' \in Volumes
  PROVE  TransferInv'
<1>1. copying' # NoCopy /\ ~Busy' /\ ~Extracting' /\ OthersStay' /\ TransferIsWhole'
  BY DEF Answered, NoCopy, Busy, Extracting, OthersStay, TransferIsWhole
<1>2. volume = beforeCopy
  BY DEF TransferInv
<1> QED BY <1>1, <1>2 DEF TransferInv, OnlyMade, ItemsArrive

\* Files put into a folder, a batch from the host, a floppy in a blank one's place.
LEMMA PutsKeep ==
  ASSUME TransferInv,
         \/ ReplaceBlank
         \/ \E from, to \in ShortPaths : CopyFromView(from, to)
         \/ \E one, two \in ShortPaths, replace \in BOOLEAN : ImportBatch({one, two}, replace)
  PROVE  TransferInv'
<1>1. volume \in Volumes /\ volume.tree \in [TransferPaths -> Held] /\ volume.boots \in BOOLEAN
      /\ "new" \in Held /\ "folder" \in Held
  BY DEF TransferInv, Volumes, Held
<1>2. CASE ReplaceBlank
  <2>1. disc \in Volumes
    BY DEF TransferInv
  <2> QED BY <1>2, <2>1, AnsweredKeeps DEF ReplaceBlank
<1>3. ASSUME NEW from \in ShortPaths, NEW to \in ShortPaths, CopyFromView(from, to)
      PROVE  TransferInv'
  <2>1. volume' = [volume EXCEPT !.tree = [volume.tree EXCEPT ![to] = "new"]]
    BY <1>3 DEF CopyFromView
  <2>2. [volume.tree EXCEPT ![to] = "new"] \in [TransferPaths -> Held]
    BY <1>1
  <2>3. volume' \in Volumes
    BY <1>1, <2>1, <2>2 DEF Volumes
  <2> QED BY <1>3, <2>3, AnsweredKeeps DEF CopyFromView
<1>4. ASSUME NEW one \in ShortPaths, NEW two \in ShortPaths, NEW replace \in BOOLEAN,
             ImportBatch({one, two}, replace)
      PROVE  TransferInv'
  <2> DEFINE batch == {one, two}
             chained == [p \in TransferPaths |->
                 IF \E path \in batch : IsPrefix(p, Front(path)) THEN "folder" ELSE volume.tree[p]]
             filled == [p \in TransferPaths |-> IF p \in batch THEN "new" ELSE chained[p]]
  <2>1. volume' = [volume EXCEPT !.tree = filled]
    BY <1>4 DEF ImportBatch
  <2>2. filled \in [TransferPaths -> Held]
    BY <1>1
  <2> HIDE DEF filled
  <2>3. volume' \in Volumes
    BY <1>1, <2>1, <2>2 DEF Volumes
  <2> QED BY <1>4, <2>3, AnsweredKeeps DEF ImportBatch
<1> QED BY <1>2, <1>3, <1>4

\* A copy begins: what it will write is collected, and nothing is written yet.
LEMMA CopyBegins ==
  ASSUME TransferInv, NEW within \in BOOLEAN, NEW from \in ShortPaths, NEW to \in CopyTargets,
         CopyEntry(within, from, to)
  PROVE  TransferInv'
<1> DEFINE source == IF within THEN volume.tree ELSE disc.tree
           home == Destination(volume.tree, from, to)
           items == Items(source, from, home)
<1>1. /\ copying = NoCopy /\ UNCHANGED <<disc, volume>> /\ beforeCopy' = volume
      /\ \A item \in items : item.at \in TransferPaths
      /\ copying' = [doing |-> "copying", items |-> items, made |-> FALSE,
                     from |-> from, into |-> to]
  BY DEF CopyEntry, Start
<1>2. volume = beforeCopy /\ volume \in Volumes /\ disc \in Volumes
  BY <1>1 DEF TransferInv
<1>3. source \in [TransferPaths -> Held]
  BY <1>2 DEF Volumes
<1>4. from \in TransferPaths /\ from \in Seq(Leafs) /\ from # <<>> /\ to \in Seq(Leafs)
  BY PathShape, DiscItems DEF ShortPaths
<1> HIDE DEF source
<1>5. ASSUME NEW item \in items
      PROVE  \E p \in TransferPaths : source[p] # "nothing"
                 /\ item = [at |-> home \o Rest(p, from), holds |-> source[p]]
  <2> HIDE DEF home
  <2> QED BY <1>5 DEF Items
<1>6. items \in SUBSET [at : TransferPaths, holds : Held \ {"nothing"}]
  <2> HIDE DEF home, items
  <2> QED BY <1>1, <1>3, <1>5
<1>7. copying' \in CopyRequests
  <2> HIDE DEF items
  <2> QED BY <1>1, <1>4, <1>6 DEF CopyRequests
<1>8. ASSUME Holds(volume.tree, to) = "folder", NEW item \in items
      PROVE  In(item.at, Append(to, Last(from)))
  <2>1. home = Append(to, Last(from))
    BY <1>8 DEF Destination
  <2>2. Last(from) \in Leafs
    BY <1>4, LastShape
  <2>3. home \in Seq(Leafs)
    BY <1>4, <2>1, <2>2, Appended
  <2> HIDE DEF home
  <2>4. PICK p \in TransferPaths : item = [at |-> home \o Rest(p, from), holds |-> source[p]]
    BY <1>5, <1>8
  <2>5. Rest(p, from) \in Seq(Leafs)
    BY <1>4, PathShape DEF Rest
  <2> QED BY <2>1, <2>3, <2>4, <2>5, Joined DEF In
<1>9. OthersStay'
  <2> HIDE DEF items, home
  <2>1. Holds(volume.tree, to) = "folder" =>
            \A item \in items : In(item.at, Append(to, Last(from)))
    BY <1>8
  <2>2. SameBelow(volume.tree, volume.tree, {Append(to, Last(from))})
    BY DEF SameBelow
  <2>3. copying'.items = items /\ copying'.into = to /\ copying'.from = from
    BY <1>1
  <2> QED BY <1>1, <1>2, <2>1, <2>2, <2>3 DEF OthersStay
<1> HIDE DEF items, home
<1>10. /\ copying'.doing = "copying" /\ copying'.from = from /\ copying' # NoCopy
       /\ Busy' /\ ~Extracting'
  BY <1>1 DEF Busy, Extracting, NoCopy
<1>11. TransferIsWhole' /\ OnlyMade' /\ ItemsArrive'
  BY <1>10 DEF TransferIsWhole, OnlyMade, ItemsArrive
<1> QED BY <1>1, <1>2, <1>4, <1>7, <1>9, <1>10, <1>11 DEF TransferInv

\* Extraction begins, into a folder that is there or into one that it makes.
LEMMA ExtractionBegins ==
  ASSUME TransferInv, NEW target \in CopyTargets, NEW create \in BOOLEAN,
         ExtractDisc(target, create)
  PROVE  TransferInv'
<1> DEFINE items == Items(disc.tree, <<>>, target)
<1>1. /\ copying = NoCopy /\ UNCHANGED disc /\ beforeCopy' = volume
      /\ \A item \in items : item.at \in TransferPaths
      /\ copying' = [doing |-> "extracting", items |-> items, made |-> create,
                     from |-> <<>>, into |-> target]
  BY DEF ExtractDisc, Start
<1>2. volume = beforeCopy /\ volume \in Volumes /\ disc \in Volumes
      /\ volume.tree \in [TransferPaths -> Held] /\ disc.tree \in [TransferPaths -> Held]
      /\ WellFormed(volume.tree)
  BY <1>1 DEF TransferInv, Volumes
<1>3. create => /\ target \in TransferPaths /\ volume.tree[target] = "nothing"
                /\ volume' = [volume EXCEPT !.tree = [volume.tree EXCEPT ![target] = "folder"]]
  <2> SUFFICES ASSUME create
               PROVE  /\ target \in TransferPaths /\ volume.tree[target] = "nothing"
                      /\ volume' = [volume EXCEPT
                                      !.tree = [volume.tree EXCEPT ![target] = "folder"]]
    OBVIOUS
  <2>1. target # <<>> /\ volume.tree[target] = "nothing"
        /\ volume' = [volume EXCEPT !.tree = [volume.tree EXCEPT ![target] = "folder"]]
    BY DEF ExtractDisc
  <2>2. target \in Seq(Leafs) /\ Len(target) = 1
    BY <2>1, DiscItems DEF CopyTargets
  <2> QED BY <2>1, <2>2, PathShape
<1>4. ~create => volume' = volume
  BY DEF ExtractDisc
<1>5. volume' \in Volumes /\ volume'.boots = volume.boots
  <2> DEFINE filled == [volume.tree EXCEPT ![target] = "folder"]
  <2>1. filled \in [TransferPaths -> Held]
    BY <1>2 DEF Held
  <2>2. create => volume' = [volume EXCEPT !.tree = filled]
    BY <1>3
  <2> HIDE DEF filled
  <2> QED BY <1>2, <1>4, <2>1, <2>2 DEF Volumes
<1>6. \A item \in items : item \in [at : TransferPaths, holds : Held \ {"nothing"}]
  <2>1. ASSUME NEW item \in items PROVE item \in [at : TransferPaths, holds : Held \ {"nothing"}]
    <3>1. PICK p \in TransferPaths :
             disc.tree[p] # "nothing" /\ item = [at |-> target \o p, holds |-> disc.tree[p]]
      BY DiscItems
    <3>2. item.at \in TransferPaths
      BY <1>1
    <3> HIDE DEF items
    <3> QED BY <1>2, <3>1, <3>2
  <2> QED BY <2>1
<1>7. OnlyMade'
  <2> SUFFICES ASSUME create PROVE OnlyMade'
    BY <1>1 DEF OnlyMade
  <2>1. ASSUME NEW p \in TransferPaths
        PROVE  IF In(p, target) THEN volume.tree[p] = "nothing"
               ELSE volume'.tree[p] = volume.tree[p]
    <3>1. CASE In(p, target)
      BY <1>2, <1>3, <3>1, FoldersAbove DEF In
    <3>2. CASE ~In(p, target)
      <4>1. p # target
        <5>1. IsPrefix(p, p)
          BY PathShape, PrefixShape
        <5> QED BY <3>2, <5>1 DEF In
      <4> QED BY <1>2, <1>3, <3>2, <4>1 DEF Volumes
    <3> QED BY <3>1, <3>2
  <2> HIDE DEF items
  <2> QED BY <1>1, <1>2, <1>3, <2>1 DEF OnlyMade
<1>8. ItemsArrive'
  BY <1>1 DEF ItemsArrive
<1> HIDE DEF items
<1>9. /\ copying' \in CopyRequests /\ copying'.doing = "extracting" /\ copying'.from = <<>>
      /\ copying' # NoCopy /\ Busy' /\ Extracting'
  BY <1>1, <1>6 DEF CopyRequests, Busy, Extracting, NoCopy
<1>10. TransferIsWhole' /\ OthersStay'
  BY <1>9 DEF TransferIsWhole, OthersStay
<1> QED BY <1>1, <1>2, <1>5, <1>7, <1>8, <1>9, <1>10 DEF TransferInv

\* A copy is whole or not at all: of any tree onto any volume, whichever item
\* fails; it takes nothing away but what has its name, and a disk extracted into
\* a folder does not make the volume boot.
THEOREM CopiesAreWhole == TransferSpec => []TransferIsWhole
<1>1. ASSUME TransferInit PROVE TransferInv
  <2>1. PICK tree \in Trees(DiscTops, "new"), boots \in BOOLEAN :
           disc = [tree |-> Deepened(tree), boots |-> boots]
    BY <1>1 DEF TransferInit
  <2>2. PICK other \in Trees(Leafs, "old") : volume = [tree |-> Deepened(other), boots |-> FALSE]
    BY <1>1 DEF TransferInit
  <2>3. ASSUME NEW tops, NEW content \in {"old", "new"}, NEW t \in Trees(tops, content)
        PROVE  Deepened(t) \in [TransferPaths -> Held] /\ WellFormed(Deepened(t))
    <3> DEFINE short == {p \in TransferPaths : Len(p) <= 2}
    <3>1. /\ t \in [short -> {"nothing", "folder", content}]
          /\ \A p \in short : t[p] # "nothing" => Holds(t, Front(p)) = "folder"
      BY DEF Trees
    <3>2. DOMAIN t = short
      BY <3>1
    <3> HIDE DEF short
    <3>3. \A p \in TransferPaths : Deepened(t)[p] = IF p \in short THEN t[p] ELSE "nothing"
      BY <3>2 DEF Deepened
    <3>4. Deepened(t) \in [TransferPaths -> Held]
      BY <3>1, <3>2 DEF Deepened, Held
    <3>5. ASSUME NEW p \in TransferPaths, Deepened(t)[p] # "nothing"
          PROVE  Holds(Deepened(t), Front(p)) = "folder"
      <4>1. p \in short /\ t[p] # "nothing" /\ Holds(t, Front(p)) = "folder"
        BY <3>1, <3>3, <3>5
      <4>2. CASE Front(p) = <<>>
        BY <4>2 DEF Holds
      <4>3. CASE Front(p) # <<>>
        <5>1. p \in Seq(Leafs) /\ p # <<>> /\ Len(p) \in {1, 2}
          <6>1. \A n \in {1, 2, 3} : n <= 2 => n \in {1, 2}
            OBVIOUS
          <6>2. p \in Seq(Leafs) /\ p # <<>> /\ Len(p) \in {1, 2, 3} /\ Len(p) <= 2
            BY <4>1, PathShape DEF short
          <6> QED BY <6>1, <6>2
        <5>2. Front(p) \in Seq(Leafs) /\ Len(Front(p)) = Len(p) - 1
          BY <5>1, FrontShape
        <5>3. Len(Front(p)) = 1
          BY <4>3, <5>1, <5>2, EmptySeq
        <5>4. Front(p) \in short
          BY <5>2, <5>3, PathShape DEF short
        <5> QED BY <3>3, <4>1, <4>3, <5>4 DEF Holds, short
      <4> QED BY <4>2, <4>3
    <3> QED BY <3>4, <3>5 DEF WellFormed
  <2>4. volume = beforeCopy /\ copying = NoCopy
    BY <1>1 DEF TransferInit
  <2>5. copying.doing = "nothing"
    BY <2>4 DEF NoCopy
  <2>6. ~Busy /\ OnlyMade /\ ItemsArrive /\ OthersStay /\ TransferIsWhole
    BY <2>5 DEF Busy, Extracting, OnlyMade, ItemsArrive, OthersStay, TransferIsWhole
  <2>7. /\ disc \in Volumes /\ volume \in Volumes
        /\ WellFormed(disc.tree) /\ WellFormed(volume.tree)
    BY <2>1, <2>2, <2>3 DEF Volumes
  <2> QED BY <2>4, <2>6, <2>7 DEF TransferInv
<1>2. ASSUME TransferInv, [TransferNext]_transferVars PROVE TransferInv'
  <2>1. CASE WriteItem
    BY <1>2, <2>1, WriteItemKeeps
  <2>2. CASE FinishCopy \/ FailCopy
    BY <1>2, <2>2, EndsKeep
  <2>3. CASE \E within \in BOOLEAN, from \in ShortPaths, to \in CopyTargets :
                 CopyEntry(within, from, to)
    BY <1>2, <2>3, CopyBegins
  <2>4. CASE \E target \in CopyTargets, create \in BOOLEAN : ExtractDisc(target, create)
    BY <1>2, <2>4, ExtractionBegins
  <2>5. CASE \/ ReplaceBlank
             \/ \E from, to \in ShortPaths : CopyFromView(from, to)
             \/ \E one, two \in ShortPaths, replace \in BOOLEAN : ImportBatch({one, two}, replace)
    BY <1>2, <2>5, PutsKeep
  <2>6. CASE UNCHANGED transferVars
    BY <1>2, <2>6 DEF transferVars, TransferInv, Busy, Extracting, OnlyMade, ItemsArrive,
       OthersStay, TransferIsWhole
  <2> QED BY <1>2, <2>1, <2>2, <2>3, <2>4, <2>5, <2>6 DEF TransferNext
<1>3. TransferInv => TransferIsWhole
  BY DEF TransferInv
<1> QED BY <1>1, <1>2, <1>3, PTL DEF TransferSpec

-----------------------------------------------------------------------------
(***************************************************************************)
(* The catalogue.  A token tells which addresses its row has: the one it   *)
(* was made of when the row is a file of the listing, else those that the  *)
(* title's page links.                                                     *)
(***************************************************************************)
ListFolders == {"f1", "f2"}
ChoicesOf(token) ==
    IF token[1] \in ListFolders THEN [k \in 1 .. 1 |-> token[3]]
    ELSE [k \in DOMAIN MediaOf[token[1]] |-> <<token[1], token[1], MediaOf[token[1]][k]>>]

\* A row that can be shown has an address, and its token tells all of them.
Showable(row) ==
    /\ row.choices # <<>> /\ row.choices \in Seq(Range(row.choices))
    /\ row.choices = ChoicesOf(Token(row))

\* A page in memory says what the title's page says, and the listing was crawled
\* from the folders.
PagesTrue ==
    /\ \A title \in Titles :
           /\ pages[title].expires \in Nat
           /\ pages[title].expires > now => pages[title].body = MediaOf[title]
    /\ \A row \in crawled.rows : Showable(row)

\* What is remembered under a token was offered under it at least as long.
WasOffered(store) ==
    \A t \in DOMAIN store :
        /\ store[t].choices = ChoicesOf(t)
        /\ \E o \in offered : o.token = t /\ o.until >= store[t].expires

CatalogueInv ==
    /\ now \in Nat
    /\ PagesTrue
    /\ \A o \in offered : o.choices = ChoicesOf(o.token)
                          /\ o.choices # <<>> /\ o.choices \in Seq(Range(o.choices))
    /\ \A o \in offered : o.until \in Nat
    /\ WasOffered(knownItems) /\ WasOffered(itemFiles)
    /\ \A t \in DOMAIN knownItems : knownItems[t].expires \in Nat
    /\ \A t \in DOMAIN itemFiles : itemFiles[t].expires \in Nat

\* A file of the listing is a row that can be shown.
LEMMA ListedShowable ==
  ASSUME NEW page \in ListFolders, NEW title, NEW suffix
  PROVE  Showable(Row(page, title, <<suffix>>))
<1> DEFINE row == Row(page, title, <<suffix>>)
           address == <<page, title, suffix>>
<1>1. row.choices = [k \in 1 .. 1 |-> address] /\ row.page = page /\ row.title = title
  BY DEF Row
<1> HIDE DEF row, address
<1>2. /\ row.choices \in Seq({address}) /\ Len(row.choices) = 1 /\ DOMAIN row.choices = 1 .. 1
      /\ row.choices[1] = address
  BY <1>1, SequenceOf
<1>3. Range(row.choices) = {address}
  BY <1>2 DEF Range
<1>4. row.choices # <<>> /\ Head(row.choices) = address
  BY <1>2, EmptySeq
<1>5. Token(row) = <<page, title, address>>
  BY <1>1, <1>4 DEF Token
<1>6. ChoicesOf(Token(row)) = [k \in 1 .. 1 |-> address]
  BY <1>5 DEF ChoicesOf
<1>7. Showable(row)
  BY <1>1, <1>2, <1>3, <1>4, <1>6 DEF Showable
<1> QED BY <1>7 DEF row

\* A title whose page links something is a row that can be shown.
LEMMA TitleShowable ==
  ASSUME NEW title \in Titles, Row(title, title, MediaOf[title]).choices # <<>>
  PROVE  Showable(Row(title, title, MediaOf[title]))
<1> DEFINE row == Row(title, title, MediaOf[title])
           n == Len(MediaOf[title])
           addresses == {<<title, title, s>> : s \in {"st", "zip"}}
<1>1. MediaOf[title] \in Seq({"st", "zip"}) /\ title \notin ListFolders
  BY CatalogueAssumption DEF ListFolders
<1>2. n \in Nat /\ DOMAIN MediaOf[title] = 1 .. n
      /\ \A k \in 1 .. n : MediaOf[title][k] \in {"st", "zip"}
  BY <1>1, LenProperties, ElementOfSeq
<1>3. row.choices = [k \in 1 .. n |-> <<title, title, MediaOf[title][k]>>]
      /\ row.page = title /\ row.title = title
  BY <1>2 DEF Row
<1> HIDE DEF row, n
<1>4. row.choices \in [1 .. n -> addresses]
  BY <1>2, <1>3
<1> HIDE DEF addresses
<1>5. row.choices \in Seq(addresses) /\ Len(row.choices) = n /\ DOMAIN row.choices = 1 .. n
  BY <1>2, <1>4, SequenceOf
<1>6. row.choices \in [1 .. n -> Range(row.choices)]
  BY <1>4 DEF Range
<1>7. row.choices \in Seq(Range(row.choices))
  BY <1>2, <1>6, SequenceOf
<1>8. Token(row)[1] = title
  BY <1>3 DEF Token
<1>9. ChoicesOf(Token(row)) = [k \in DOMAIN MediaOf[title] |-> <<title, title, MediaOf[title][k]>>]
  BY <1>1, <1>8 DEF ChoicesOf
<1>10. ChoicesOf(Token(row)) = row.choices
  BY <1>2, <1>3, <1>9
<1> QED BY <1>7, <1>10 DEF Showable, row

\* An address that is preferred is one of those that there are.
LEMMA PreferredIsOne ==
  ASSUME NEW choices, choices # <<>>, choices \in Seq(Range(choices))
  PROVE  Preferred(choices) \in Range(choices)
<1>1. Head(choices) \in Range(choices)
  BY HeadTailProperties
<1> QED BY <1>1 DEF Preferred
(***************************************************************************)
(* Windows of a list: what Matching picks out of it.                       *)
(***************************************************************************)

\* The places of a list where something stands are numbered in their order.
LEMMA PlacesNumbered ==
  ASSUME NEW m \in Nat, NEW hits \in SUBSET (1 .. m)
  PROVE  /\ Cardinality(hits) \in Nat
         /\ \A n \in 1 .. Cardinality(hits) : \E k \in hits :
               Cardinality({j \in hits : j < k}) = n - 1
         /\ \A k \in hits : Cardinality({j \in hits : j < k}) \in 0 .. Cardinality(hits) - 1
         /\ \A k, l \in hits :
               Cardinality({j \in hits : j < k}) = Cardinality({j \in hits : j < l}) => k = l
<1> DEFINE Before(k) == {j \in hits : j < k}
           R == [k \in hits |-> Cardinality(Before(k))]
           n == Cardinality(hits)
<1>1. IsFiniteSet(hits) /\ n \in Nat
  <2>1. IsFiniteSet(1 .. m)
    BY FS_Interval
  <2> QED BY <2>1, FS_Subset, FS_CardinalityType
<1>2. \A k \in hits : IsFiniteSet(Before(k)) /\ Cardinality(Before(k)) \in Nat
  BY <1>1, FS_Subset, FS_CardinalityType
<1>3. ASSUME NEW k \in hits, NEW l \in hits, k < l
      PROVE  Cardinality(Before(k)) < Cardinality(Before(l))
  <2>1. Before(k) \subseteq Before(l) /\ k \in Before(l) /\ k \notin Before(k)
    <3>1. \A j \in hits : j \in Nat
      OBVIOUS
    <3>2. \A j \in hits : j < k => j < l
      BY <1>3, <3>1
    <3>3. ~(k < k)
      BY <3>1
    <3> QED BY <1>3, <3>2, <3>3
  <2>2. Before(k) # Before(l)
    BY <2>1
  <2> HIDE DEF Before
  <2>3. /\ Cardinality(Before(k)) <= Cardinality(Before(l))
        /\ Cardinality(Before(k)) = Cardinality(Before(l)) => Before(k) = Before(l)
    BY <1>2, <2>1, FS_Subset
  <2> QED BY <1>2, <2>2, <2>3
<1>4. ASSUME NEW k \in hits PROVE Cardinality(Before(k)) \in 0 .. n - 1
  <2>1. Before(k) \subseteq hits \ {k}
    OBVIOUS
  <2>2. IsFiniteSet(hits \ {k}) /\ Cardinality(hits \ {k}) = n - 1
    BY <1>1, FS_RemoveElement
  <2> HIDE DEF Before
  <2>3. Cardinality(Before(k)) <= n - 1
    BY <2>1, <2>2, FS_Subset
  <2> QED BY <1>1, <1>2, <2>3
<1>5. ASSUME NEW k \in hits, NEW l \in hits, Cardinality(Before(k)) = Cardinality(Before(l))
      PROVE  k = l
  <2>1. k \in Nat /\ l \in Nat
    OBVIOUS
  <2> HIDE DEF Before
  <2>2. ~(k < l) /\ ~(l < k)
    BY <1>2, <1>3, <1>5
  <2> QED BY <2>1, <2>2
<1>6. IsFiniteSet(0 .. n - 1) /\ Cardinality(0 .. n - 1) = n
  <2>1. 0 \in Int /\ n - 1 \in Int
    BY <1>1
  <2>2. /\ IsFiniteSet(0 .. n - 1)
        /\ Cardinality(0 .. n - 1) = IF 0 > n - 1 THEN 0 ELSE (n - 1) - 0 + 1
    BY <2>1, FS_Interval
  <2> QED BY <1>1, <2>2
<1>7. ASSUME NEW i \in 1 .. n, \A k \in hits : Cardinality(Before(k)) # i - 1
      PROVE  FALSE
  <2> DEFINE Others == (0 .. n - 1) \ {i - 1}
  <2>1. i - 1 \in 0 .. n - 1
    BY <1>1
  <2>2. IsFiniteSet(Others) /\ Cardinality(Others) = n - 1
    <3> DEFINE all == 0 .. n - 1
    <3> HIDE DEF all
    <3>1. IsFiniteSet(all \ {i - 1}) /\ Cardinality(all \ {i - 1}) = Cardinality(all) - 1
      BY <1>6, <2>1, FS_RemoveElement DEF all
    <3> QED BY <1>6, <3>1 DEF all
  <2>3. R \in [hits -> Others]
    BY <1>4, <1>7
  <2> HIDE DEF Others, R
  <2>4. \E k, l \in hits : k # l /\ R[k] = R[l]
    <3>1. Cardinality(Others) < Cardinality(hits)
      BY <1>1, <2>2
    <3> QED BY <1>1, <2>2, <2>3, <3>1, FS_PigeonHole
  <2> QED BY <1>5, <2>4 DEF R
<1> QED BY <1>1, <1>4, <1>5, <1>7


\* A finite set can be listed, each element once.
LEMMA Enumerated ==
  ASSUME NEW S, IsFiniteSet(S)
  PROVE  \E f \in [1 .. Cardinality(S) -> S] : IsInjective(f)
<1>1. PICK list \in Seq(S) : \A x \in S : \E n \in 1 .. Len(list) : list[n] = x
  BY DEF IsFiniteSet
<1> DEFINE m == Len(list)
           firsts == {k \in 1 .. m : \A j \in 1 .. m : list[j] = list[k] => k <= j}
           F == [k \in firsts |-> list[k]]
<1>2. m \in Nat /\ \A k \in 1 .. m : list[k] \in S
  OBVIOUS
<1>3. ASSUME NEW x \in S PROVE \E k \in firsts : list[k] = x
  <2> DEFINE places == {n \in 1 .. m : list[n] = x}
  <2>1. places \in SUBSET (1 .. m) /\ places # {}
    BY <1>1
  <2> DEFINE size == Cardinality(places)
  <2>2. IsFiniteSet(places) /\ size \in Nat /\ size # 0
    <3>1. IsFiniteSet(1 .. m)
      BY <1>2, FS_Interval
    <3> HIDE DEF places
    <3>2. IsFiniteSet(places)
      BY <2>1, <3>1, FS_Subset
    <3> QED BY <2>1, <3>2, FS_CardinalityType, FS_EmptySet
  <2>3. 1 \in 1 .. size
    BY <2>2
  <2>4. PICK k \in places : Cardinality({j \in places : j < k}) = 1 - 1
    <3> HIDE DEF places
    <3>1. \A n \in 1 .. Cardinality(places) : \E k \in places :
             Cardinality({j \in places : j < k}) = n - 1
      BY <1>2, <2>1, PlacesNumbered
    <3> QED BY <2>3, <3>1
  <2>5. {j \in places : j < k} = {}
    <3> DEFINE sooner == {j \in places : j < k}
    <3>1. IsFiniteSet(sooner)
      BY <2>2, FS_Subset
    <3>2. Cardinality(sooner) = 0
      BY <2>4
    <3> HIDE DEF sooner
    <3>3. sooner = {}
      BY <3>1, <3>2, FS_EmptySet
    <3> QED BY <3>3 DEF sooner
  <2>6. \A j \in 1 .. m : list[j] = list[k] => k <= j
    BY <1>2, <2>4, <2>5
  <2> QED BY <2>4, <2>6
<1>4. \A j, k \in firsts : list[j] = list[k] => j = k
  BY <1>2
<1>5. firsts \in SUBSET (1 .. m) /\ IsFiniteSet(firsts)
  <2>1. IsFiniteSet(1 .. m)
    BY <1>2, FS_Interval
  <2> QED BY <2>1, FS_Subset
<1> HIDE DEF firsts, m
<1> DEFINE n == Cardinality(firsts)
<1>6. n \in Nat /\ Cardinality(S) \in Nat
  BY <1>5, FS_CardinalityType
<1>7. n <= Cardinality(S)
  <2> SUFFICES ASSUME Cardinality(S) < n PROVE FALSE
    BY <1>6
  <2>1. F \in [firsts -> S]
    BY <1>2, <1>5
  <2> HIDE DEF F
  <2>2. \E j, k \in firsts : j # k /\ F[j] = F[k]
    BY <1>5, <2>1, FS_PigeonHole
  <2> QED BY <1>4, <2>2 DEF F
<1>8. Cardinality(S) <= n
  <2> SUFFICES ASSUME n < Cardinality(S) PROVE FALSE
    BY <1>6
  <2> DEFINE G == [x \in S |-> CHOOSE k \in firsts : list[k] = x]
  <2>1. \A x \in S : G[x] \in firsts /\ list[G[x]] = x
    BY <1>3
  <2>2. G \in [S -> firsts]
    BY <2>1
  <2> HIDE DEF G
  <2>3. \E x, y \in S : x # y /\ G[x] = G[y]
    BY <1>5, <2>2, FS_PigeonHole
  <2> QED BY <2>1, <2>3
<1> DEFINE nth(i) == CHOOSE k \in firsts : Cardinality({j \in firsts : j < k}) = i - 1
           f == [i \in 1 .. n |-> list[nth(i)]]
<1>9. ASSUME NEW i \in 1 .. n
      PROVE  nth(i) \in firsts /\ Cardinality({j \in firsts : j < nth(i)}) = i - 1
  <2>1. \E k \in firsts : Cardinality({j \in firsts : j < k}) = i - 1
    BY <1>2, <1>5, PlacesNumbered
  <2> QED BY <2>1
<1>10. f \in [1 .. Cardinality(S) -> S]
  <2>1. n = Cardinality(S)
    BY <1>6, <1>7, <1>8
  <2> HIDE DEF nth
  <2> QED BY <1>2, <1>5, <1>9, <2>1
<1>11. \A i, j \in 1 .. n : f[i] = f[j] => i = j
  <2> HIDE DEF nth
  <2>1. \A i, j \in 1 .. n : f[i] = f[j] => nth(i) = nth(j)
    BY <1>4, <1>9
  <2>2. ASSUME NEW i \in 1 .. n, NEW j \in 1 .. n, f[i] = f[j] PROVE i = j
    <3>1. nth(i) = nth(j)
      BY <2>1, <2>2
    <3>2. i - 1 = j - 1
      BY <1>9, <3>1
    <3> QED BY <1>6, <3>2
  <2> QED BY <2>2
<1>12. IsInjective(f)
  BY <1>11 DEF IsInjective
<1> QED BY <1>10, <1>12

\* Matching lists what it says, and nothing twice that was not there twice.
LEMMA MatchingLists ==
  ASSUME NEW S, NEW list \in Seq(S), NEW set
  PROVE  /\ Matching(list, set) \in Seq(S)
         /\ Range(Matching(list, set)) = Range(list) \cap set
         /\ IsInjective(list) => IsInjective(Matching(list, set))
<1> DEFINE m == Len(list)
           hits == {k \in DOMAIN list : list[k] \in set}
           n == Cardinality(hits)
           nth(i) == CHOOSE k \in hits : Cardinality({j \in hits : j < k}) = i - 1
           f == Matching(list, set)
<1>1. m \in Nat /\ DOMAIN list = 1 .. m /\ \A k \in 1 .. m : list[k] \in S
  OBVIOUS
<1>2. hits \in SUBSET (1 .. m) /\ \A k \in 1 .. m : k \in hits <=> list[k] \in set
  BY <1>1
<1>3. f = [i \in 1 .. n |-> list[nth(i)]]
  BY DEF Matching
<1> HIDE DEF hits, m, f
<1>4. /\ n \in Nat
      /\ \A k, l \in hits :
            Cardinality({j \in hits : j < k}) = Cardinality({j \in hits : j < l}) => k = l
  BY <1>1, <1>2, PlacesNumbered
<1>5. ASSUME NEW i \in 1 .. n
      PROVE  nth(i) \in hits /\ Cardinality({j \in hits : j < nth(i)}) = i - 1
  <2>1. \E k \in hits : Cardinality({j \in hits : j < k}) = i - 1
    BY <1>1, <1>2, PlacesNumbered
  <2> QED BY <2>1
<1>6. ASSUME NEW k \in hits PROVE \E i \in 1 .. n : nth(i) = k
  <2> DEFINE c == Cardinality({j \in hits : j < k})
  <2>1. c \in 0 .. n - 1
    BY <1>1, <1>2, PlacesNumbered
  <2>2. c + 1 \in 1 .. n /\ (c + 1) - 1 = c
    BY <1>4, <2>1
  <2>3. nth(c + 1) \in hits /\ Cardinality({j \in hits : j < nth(c + 1)}) = c
    BY <1>5, <2>2
  <2>4. nth(c + 1) = k
    <3> DEFINE y == nth(c + 1)
    <3>1. y \in hits /\ Cardinality({j \in hits : j < y}) = Cardinality({j \in hits : j < k})
      BY <2>3
    <3> HIDE DEF y
    <3>2. y = k
      BY <1>4, <3>1
    <3> QED BY <3>2 DEF y
  <2> QED BY <2>2, <2>4
<1> HIDE DEF nth
<1>7. f \in [1 .. n -> S]
  BY <1>1, <1>2, <1>3, <1>5
<1>8. f \in Seq(S) /\ DOMAIN f = 1 .. n
  BY <1>4, <1>7, SequenceOf
<1>9. Range(f) = Range(list) \cap set
  <2>1. \A i \in 1 .. n : f[i] \in Range(list) \cap set
    BY <1>1, <1>2, <1>3, <1>5 DEF Range
  <2>2. ASSUME NEW x \in Range(list) \cap set PROVE \E i \in 1 .. n : f[i] = x
    <3>1. PICK k \in 1 .. m : list[k] = x
      BY <1>1 DEF Range
    <3>2. PICK i \in 1 .. n : nth(i) = k
      BY <1>2, <1>6, <3>1
    <3> QED BY <1>3, <3>1, <3>2
  <2> QED BY <1>8, <2>1, <2>2 DEF Range
<1>10. ASSUME IsInjective(list), NEW i \in 1 .. n, NEW j \in 1 .. n, f[i] = f[j] PROVE i = j
  <2>1. nth(i) = nth(j)
    BY <1>1, <1>2, <1>3, <1>5, <1>10 DEF IsInjective
  <2>2. i - 1 = j - 1
    BY <1>5, <2>1
  <2> QED BY <1>4, <2>2
<1>11. IsInjective(list) => IsInjective(f)
  BY <1>8, <1>10 DEF IsInjective
<1> QED BY <1>8, <1>9, <1>11 DEF f

\* A row without addresses has none.
LEMMA NothingToChoose ==
  ASSUME NEW title
  PROVE  Row(title, title, <<>>).choices = <<>>
<1> DEFINE none == Row(title, title, <<>>).choices
<1>1. none \in [1 .. 0 -> {}]
  BY DEF Row
<1> HIDE DEF none
<1>2. none \in Seq({}) /\ Len(none) = 0
  BY <1>1, SequenceOf
<1>3. none = <<>>
  BY <1>2, EmptySeq
<1> QED BY <1>3 DEF none

\* What a page of a search does: rows that can be shown are offered and remembered.
LEMMA SearchEffect ==
  ASSUME CatalogueInv, NEW query, NEW start, NEW listingToo, NEW down,
         SearchPage(query, start, listingToo, down)
  PROVE  \E rows, keys :
            /\ \A r \in rows : Showable(r)
            /\ knownItems' = Remembered(knownItems, rows)
            /\ itemFiles' = Remembered(itemFiles, rows)
            /\ offered' = offered \cup {[token |-> Token(r), page |-> r.page,
                                         choices |-> r.choices, until |-> now + 1] : r \in rows}
            /\ \A row \in crawled'.rows : Showable(row)
            /\ pages' = Fetched(keys, down)
            /\ UNCHANGED <<now, itemInstalled>>
<1> DEFINE body == Body("index", index)
           candidates == Matching(body, query)
           looked == SubSeq(candidates, start + 1,
                       IF start + Window < Len(candidates) THEN start + Window ELSE Len(candidates))
           indexUp == Reached("index", down)
           offering == {t \in Titles :
                          indexUp /\ t \in Range(looked) /\ Resolved(t, down).choices # <<>>}
           listed == IF listingToo THEN {r \in ListingRows(down) : r.title \in query} ELSE {}
           rows == {Resolved(t, down) : t \in offering} \cup listed
           keys == (IF indexUp THEN Range(looked) \cup {"index"} ELSE {})
                     \cup (IF listingToo /\ crawled.expires <= now
                           THEN FoldersOf(ListingUrl) ELSE {})
<1>1. /\ knownItems' = Remembered(knownItems, rows)
      /\ itemFiles' = Remembered(itemFiles, rows)
      /\ offered' = offered \cup {[token |-> Token(r), page |-> r.page,
                                   choices |-> r.choices, until |-> now + 1] : r \in rows}
      /\ crawled' = IF listingToo /\ crawled.expires <= now
                    THEN [expires |-> now + DayLength, rows |-> ListingRows(down)] ELSE crawled
      /\ pages' = Fetched(keys, down)
      /\ UNCHANGED <<now, itemInstalled>>
  BY DEF SearchPage
<1>2. \A row \in ListingRows(down) : Showable(row)
  <2>1. CASE crawled.expires > now
    BY <2>1 DEF ListingRows, CatalogueInv, PagesTrue
  <2>2. CASE ~(crawled.expires > now)
    <3>1. ASSUME NEW row \in ListingRows(down) PROVE Showable(row)
      <4>1. PICK f \in FoldersOf(ListingUrl) :
               \E one \in FilesIn(f) : row = Row(f, one[1], <<one[2]>>)
        BY <2>2 DEF ListingRows
      <4>2. PICK one \in FilesIn(f) : row = Row(f, one[1], <<one[2]>>)
        BY <4>1
      <4>3. f \in ListFolders
        BY DEF FoldersOf, ListFolders
      <4> QED BY <4>2, <4>3, ListedShowable
    <3> QED BY <3>1
  <2> QED BY <2>1, <2>2
<1>3. ASSUME NEW t \in Titles, Resolved(t, down).choices # <<>> PROVE Showable(Resolved(t, down))
  <2>1. Reached(t, down)
    BY <1>3, NothingToChoose DEF Resolved
  <2>2. Body(t, MediaOf[t]) = MediaOf[t]
    BY DEF Body, InMemory, CatalogueInv, PagesTrue
  <2>3. Resolved(t, down) = Row(t, t, MediaOf[t])
    BY <2>1, <2>2 DEF Resolved
  <2> QED BY <1>3, <2>3, TitleShowable
<1> HIDE DEF keys, looked, indexUp
<1>4. \A r \in rows : Showable(r)
  BY <1>2, <1>3
<1> HIDE DEF rows
<1>5. \A row \in crawled'.rows : Showable(row)
  BY <1>1, <1>2 DEF CatalogueInv, PagesTrue
<1> QED BY <1>1, <1>4, <1>5

\* What was remembered before and what is remembered now was offered.
LEMMA RememberedOffered ==
  ASSUME CatalogueInv, NEW rows, \A r \in rows : Showable(r), NEW store, WasOffered(store),
         \A t \in DOMAIN store : store[t].expires \in Nat,
         offered' = offered \cup {[token |-> Token(r), page |-> r.page,
                                   choices |-> r.choices, until |-> now + 1] : r \in rows},
         NEW t \in DOMAIN Remembered(store, rows)
  PROVE  /\ Remembered(store, rows)[t].choices = ChoicesOf(t)
         /\ Remembered(store, rows)[t].expires \in Nat
         /\ \E o \in offered' : o.token = t /\ o.until >= Remembered(store, rows)[t].expires
<1> DEFINE entry == Remembered(store, rows)[t]
<1>1. CASE \E r \in rows : Token(r) = t
  <2> DEFINE row == CHOOSE r \in rows : Token(r) = t
  <2>1. row \in rows /\ Token(row) = t
    BY <1>1
  <2>2. entry = [expires |-> now + 1, choices |-> row.choices]
    BY <1>1 DEF Remembered
  <2> HIDE DEF row, entry
  <2>3. entry.choices = ChoicesOf(t) /\ entry.expires = now + 1 /\ now \in Nat
    BY <2>1, <2>2 DEF Showable, CatalogueInv
  <2> DEFINE shown == [token |-> Token(row), page |-> row.page,
                       choices |-> row.choices, until |-> now + 1]
  <2>4. shown \in offered' /\ shown.token = t /\ shown.until = now + 1
    BY <2>1
  <2> HIDE DEF shown
  <2> QED BY <2>3, <2>4 DEF entry
<1>2. CASE ~\E r \in rows : Token(r) = t
  <2>1. t \in DOMAIN store /\ entry = store[t]
    BY <1>2 DEF Remembered
  <2> HIDE DEF entry
  <2>2. PICK o \in offered : o.token = t /\ o.until >= store[t].expires
    BY <2>1 DEF WasOffered
  <2> QED BY <2>1, <2>2 DEF WasOffered, entry
<1> QED BY <1>1, <1>2

\* A search keeps the claims.
LEMMA SearchKeeps ==
  ASSUME CatalogueInv, NEW query, NEW start, NEW listingToo, NEW down,
         SearchPage(query, start, listingToo, down)
  PROVE  CatalogueInv'
<1>1. PICK rows, keys :
            /\ \A r \in rows : Showable(r)
            /\ knownItems' = Remembered(knownItems, rows)
            /\ itemFiles' = Remembered(itemFiles, rows)
            /\ offered' = offered \cup {[token |-> Token(r), page |-> r.page,
                                         choices |-> r.choices, until |-> now + 1] : r \in rows}
            /\ \A row \in crawled'.rows : Showable(row)
            /\ pages' = Fetched(keys, down)
            /\ UNCHANGED <<now, itemInstalled>>
  BY SearchEffect
<1>2. now \in Nat /\ now' = now
  BY <1>1 DEF CatalogueInv
<1>3. ASSUME NEW title \in Titles
      PROVE  /\ pages'[title].expires \in Nat
             /\ pages'[title].expires > now => pages'[title].body = MediaOf[title]
  <2>1. title \in PageKeys /\ title # "index"
    BY CatalogueAssumption DEF PageKeys
  <2>2. pages'[title] = IF title \in keys /\ ~InMemory(title) /\ title \notin down
                        THEN [expires |-> now + LifeOf(title), body |-> Contents(title)]
                        ELSE pages[title]
    BY <1>1, <2>1 DEF Fetched
  <2>3. Contents(title) = MediaOf[title]
    BY <2>1 DEF Contents
  <2>4. now + LifeOf(title) \in Nat
    BY <1>2, CatalogueAssumption DEF LifeOf
  <2> QED BY <2>2, <2>3, <2>4 DEF CatalogueInv, PagesTrue
<1>4. PagesTrue'
  BY <1>1, <1>2, <1>3 DEF PagesTrue
<1>5. \A o \in offered' : /\ o.choices = ChoicesOf(o.token)
                          /\ o.choices # <<>> /\ o.choices \in Seq(Range(o.choices))
                          /\ o.until \in Nat
  <2>1. ASSUME NEW r \in rows, NEW o,
               o = [token |-> Token(r), page |-> r.page, choices |-> r.choices, until |-> now + 1]
        PROVE  /\ o.choices = ChoicesOf(o.token)
               /\ o.choices # <<>> /\ o.choices \in Seq(Range(o.choices))
               /\ o.until \in Nat
    <3>1. o.choices = r.choices /\ o.token = Token(r) /\ o.until = now + 1
      BY <2>1
    <3>2. Showable(r)
      BY <1>1
    <3> QED BY <1>2, <3>1, <3>2 DEF Showable
  <2> QED BY <1>1, <2>1 DEF CatalogueInv
<1>6. ASSUME NEW t \in DOMAIN knownItems'
      PROVE  /\ knownItems'[t].choices = ChoicesOf(t) /\ knownItems'[t].expires \in Nat
             /\ \E o \in offered' : o.token = t /\ o.until >= knownItems'[t].expires
  <2>1. WasOffered(knownItems) /\ \A u \in DOMAIN knownItems : knownItems[u].expires \in Nat
    BY DEF CatalogueInv
  <2> QED BY <1>1, <1>6, <2>1, RememberedOffered
<1>7. ASSUME NEW t \in DOMAIN itemFiles'
      PROVE  /\ itemFiles'[t].choices = ChoicesOf(t) /\ itemFiles'[t].expires \in Nat
             /\ \E o \in offered' : o.token = t /\ o.until >= itemFiles'[t].expires
  <2>1. WasOffered(itemFiles) /\ \A u \in DOMAIN itemFiles : itemFiles[u].expires \in Nat
    BY DEF CatalogueInv
  <2> QED BY <1>1, <1>7, <2>1, RememberedOffered
<1>8. WasOffered(knownItems)' /\ WasOffered(itemFiles)'
  BY <1>6, <1>7 DEF WasOffered
<1> QED BY <1>2, <1>4, <1>5, <1>6, <1>7, <1>8 DEF CatalogueInv

\* An installation keeps the claims, and brings what was offered.
LEMMA InstallKeeps ==
  ASSUME CatalogueInv, NEW batch, NEW failing, Install(batch, failing)
  PROVE  /\ CatalogueInv'
         /\ \A i \in itemInstalled' \ itemInstalled :
               LET shown == {o \in offered : o.token = i.token /\ o.until >= now}
               IN  shown # {} /\ \A o \in shown : i.address \in Range(o.choices)
<1> DEFINE got == {t \in batch \ failing : Known(t)}
<1>1. /\ itemInstalled' = IF \A t \in batch : Known(t)
            THEN {[token |-> t, address |-> Preferred(ItemAt(t).choices)] : t \in got} ELSE {}
      /\ knownItems' = [t \in DOMAIN knownItems \cup got |->
                           IF t \in got THEN ItemAt(t) ELSE knownItems[t]]
      /\ itemFiles' = [t \in DOMAIN itemFiles \ {u \in batch : ~Known(u)} |-> itemFiles[t]]
      /\ UNCHANGED <<now, pages, crawled, offered>>
  BY DEF Install
<1>2. ASSUME NEW t, Known(t)
      PROVE  /\ ItemAt(t).choices = ChoicesOf(t) /\ ItemAt(t).expires \in Nat
             /\ ItemAt(t).expires >= now
             /\ \E o \in offered : o.token = t /\ o.until >= ItemAt(t).expires
  BY <1>2 DEF Known, ItemAt, Live, CatalogueInv, WasOffered
<1>3. \A t \in got : Known(t)
  OBVIOUS
<1> HIDE DEF got
<1>4. WasOffered(knownItems)' /\ \A t \in DOMAIN knownItems' : knownItems'[t].expires \in Nat
  <2>1. ASSUME NEW t \in DOMAIN knownItems'
        PROVE  /\ knownItems'[t].choices = ChoicesOf(t) /\ knownItems'[t].expires \in Nat
               /\ \E o \in offered' : o.token = t /\ o.until >= knownItems'[t].expires
    <3>1. CASE t \in got
      BY <1>1, <1>2, <1>3, <3>1
    <3>2. CASE t \notin got
      BY <1>1, <2>1, <3>2 DEF CatalogueInv, WasOffered
    <3> QED BY <3>1, <3>2
  <2> QED BY <2>1 DEF WasOffered
<1>5. WasOffered(itemFiles)' /\ \A t \in DOMAIN itemFiles' : itemFiles'[t].expires \in Nat
  <2>1. ASSUME NEW t \in DOMAIN itemFiles'
        PROVE  /\ itemFiles'[t].choices = ChoicesOf(t) /\ itemFiles'[t].expires \in Nat
               /\ \E o \in offered' : o.token = t /\ o.until >= itemFiles'[t].expires
    BY <1>1, <2>1 DEF CatalogueInv, WasOffered
  <2> QED BY <2>1 DEF WasOffered
<1>6. CatalogueInv'
  BY <1>1, <1>4, <1>5 DEF CatalogueInv, PagesTrue
<1>7. ASSUME NEW i \in itemInstalled' \ itemInstalled
      PROVE  LET shown == {o \in offered : o.token = i.token /\ o.until >= now}
             IN  shown # {} /\ \A o \in shown : i.address \in Range(o.choices)
  <2>1. PICK t \in got : i = [token |-> t, address |-> Preferred(ItemAt(t).choices)]
    BY <1>1, <1>7
  <2>2. i.token = t /\ i.address = Preferred(ChoicesOf(t)) /\ Known(t)
    BY <1>2, <1>3, <2>1
  <2>3. PICK best \in offered : best.token = t /\ best.until >= ItemAt(t).expires
    BY <1>2, <2>2
  <2>4. best.until >= now
    BY <1>2, <2>2, <2>3 DEF CatalogueInv
  <2>5. ASSUME NEW o \in offered, o.token = t PROVE i.address \in Range(o.choices)
    BY <2>2, <2>5, PreferredIsOne DEF CatalogueInv
  <2> QED BY <2>2, <2>3, <2>4, <2>5
<1> QED BY <1>6, <1>7

\* Whatever time passes, pages change, or the program restarts.
LEMMA OthersKeep ==
  ASSUME CatalogueInv,
         \/ \E url \in Urls : SaveSources(url)
         \/ IndexChanges \/ TimePasses \/ RestartCatalogue \/ UNCHANGED catalogueVars
  PROVE  CatalogueInv' /\ itemInstalled' = itemInstalled
<1>1. \A title \in Titles : Forgotten[title].expires = 0
  BY DEF Forgotten, PageKeys
<1>2. CASE \E url \in Urls : SaveSources(url)
  BY <1>1, <1>2 DEF SaveSources, CatalogueInv, PagesTrue, WasOffered
<1>3. CASE IndexChanges
  BY <1>3 DEF IndexChanges, CatalogueInv, PagesTrue, WasOffered
<1>4. CASE TimePasses
  <2>1. /\ now' = now + 1 /\ now \in Nat
        /\ UNCHANGED <<pages, crawled, knownItems, itemFiles, offered>>
    BY <1>4 DEF TimePasses, CatalogueInv
  <2>2. PagesTrue'
    <3>1. ASSUME NEW title \in Titles, pages[title].expires > now + 1
          PROVE  pages[title].body = MediaOf[title]
      <4>1. pages[title].expires > now
        BY <2>1, <3>1 DEF CatalogueInv, PagesTrue
      <4> QED BY <4>1 DEF CatalogueInv, PagesTrue
    <3> QED BY <2>1, <3>1 DEF CatalogueInv, PagesTrue
  <2> QED BY <1>4, <2>1, <2>2 DEF TimePasses, CatalogueInv, WasOffered
<1>5. CASE RestartCatalogue
  BY <1>1, <1>5 DEF RestartCatalogue, NotCrawled, CatalogueInv, PagesTrue, WasOffered
<1>6. CASE UNCHANGED catalogueVars
  BY <1>6 DEF catalogueVars, CatalogueInv, PagesTrue, WasOffered
<1> QED BY <1>2, <1>3, <1>4, <1>5, <1>6

\* Before the first search nothing is remembered, and no page is in memory.
LEMMA CatalogueAtFirst == CatalogueInit => CatalogueInv
<1> SUFFICES ASSUME CatalogueInit PROVE CatalogueInv
  OBVIOUS
<1>1. \A title \in Titles : pages[title].expires = 0
  BY DEF CatalogueInit, Forgotten, PageKeys
<1> QED BY <1>1 DEF CatalogueInit, NotCrawled, CatalogueInv, PagesTrue, WasOffered

\* Every step keeps the claims, and only an installation brings anything.
LEMMA CatalogueKept ==
  ASSUME CatalogueInv, [CatalogueNext]_catalogueVars
  PROVE  CatalogueInv' /\ (InstallSome \/ itemInstalled' = itemInstalled)
<1>1. ASSUME NEW query, NEW start, NEW listingToo, NEW down,
             SearchPage(query, start, listingToo, down)
      PROVE  CatalogueInv' /\ itemInstalled' = itemInstalled
  BY <1>1, SearchKeeps, SearchEffect
<1>2. CASE Search \/ FindMore
  BY <1>1, <1>2 DEF Search, FindMore
<1>3. CASE InstallSome
  BY <1>3, InstallKeeps DEF InstallSome
<1>4. CASE \/ \E url \in Urls : SaveSources(url)
           \/ IndexChanges \/ TimePasses \/ RestartCatalogue \/ UNCHANGED catalogueVars
  BY <1>4, OthersKeep
<1> QED BY <1>2, <1>3, <1>4 DEF CatalogueNext

\* "Selected result tokens expire after an hour" (README.md:623-624), and until
\* then, over a restart too, a token installs one of the files its row was shown
\* with: for any titles and whatever their pages link, any hours and any
\* number of searches, with sites that are down and sources that are changed.
THEOREM InstallationsWereOffered == CatalogueSpec => InstalledWasOffered
<1> DEFINE Offered == \A i \in itemInstalled' \ itemInstalled :
               LET shown == {o \in offered : o.token = i.token /\ o.until >= now}
               IN  shown # {} /\ \A o \in shown : i.address \in Range(o.choices)
<1>1. CatalogueInv /\ [CatalogueNext]_catalogueVars => CatalogueInv' /\ [Offered]_catalogueVars
  <2> SUFFICES ASSUME CatalogueInv, [CatalogueNext]_catalogueVars
               PROVE  CatalogueInv' /\ [Offered]_catalogueVars
    OBVIOUS
  <2>1. CASE InstallSome
    BY <2>1, InstallKeeps DEF InstallSome
  <2>2. CASE itemInstalled' = itemInstalled
    BY <2>2, CatalogueKept
  <2> QED BY <2>1, <2>2, CatalogueKept
<1> QED BY <1>1, CatalogueAtFirst, PTL DEF CatalogueSpec, InstalledWasOffered
-----------------------------------------------------------------------------
(***************************************************************************)
(* Paging through the index.                                               *)
(***************************************************************************)
TitleList(list) == list \in Seq(Titles) /\ IsInjective(list)
FirstOf(list, n) == {list[k] : k \in 1 .. n}

\* Pages up to the next-th of the titles were shown, each once, but for those
\* that link nothing or could not be read, which are none of the later ones.
ShownUpTo(list, next, shown, missed) ==
    /\ next \in 0 .. Len(list)
    /\ TitleList(shown)
    /\ Range(shown) = {t \in FirstOf(list, next) : MediaOf[t] # <<>> /\ t \notin missed}
    /\ \A k \in next + 1 .. Len(list) : list[k] \notin missed

WalkInv ==
    /\ TitleList(index) /\ TitleList(pages["index"].body) /\ TitleList(walk.over)
    /\ walk.sound =>
          /\ ShownUpTo(Matching(walk.over, walk.query), walk.next, walk.seen, walk.missed)
          /\ walk.open <=> walk.next < Len(Matching(walk.over, walk.query))

\* One more window is shown.
LEMMA WindowShown ==
  ASSUME NEW list, TitleList(list), NEW next, NEW end \in next .. Len(list), NEW shown, NEW missed,
         ShownUpTo(list, next, shown, missed), NEW more, NEW set, NEW gone,
         more = Matching(SubSeq(list, next + 1, end), set),
         \A t \in Titles : t \in Range(SubSeq(list, next + 1, end)) =>
             (t \in set <=> (MediaOf[t] # <<>> /\ t \notin gone)),
         gone \subseteq Range(SubSeq(list, next + 1, end))
  PROVE  ShownUpTo(list, end, shown \o more, missed \cup gone)
<1> DEFINE looked == SubSeq(list, next + 1, end)
           m == Len(list)
<1>1. /\ list \in Seq(Titles) /\ m \in Nat /\ next \in 0 .. m /\ end \in 0 .. m /\ next <= end
      /\ DOMAIN list = 1 .. m /\ \A k \in 1 .. m : list[k] \in Titles
      /\ \A j, k \in 1 .. m : list[j] = list[k] => j = k
  BY DEF TitleList, IsInjective, ShownUpTo
<1>2. /\ looked \in Seq(Titles) /\ Len(looked) = end - next /\ DOMAIN looked = 1 .. end - next
      /\ \A i \in 1 .. end - next : looked[i] = list[next + i]
  BY <1>1
<1> HIDE DEF looked, m
<1>3. Range(looked) = {list[k] : k \in next + 1 .. end}
  <2>1. \A i \in 1 .. end - next : next + i \in next + 1 .. end
    BY <1>1
  <2>2. \A k \in next + 1 .. end : k - next \in 1 .. end - next /\ next + (k - next) = k
    BY <1>1
  <2>3. \A k \in next + 1 .. end : looked[k - next] = list[k]
    BY <1>2, <2>2
  <2> QED BY <1>2, <2>1, <2>2, <2>3 DEF Range
<1>4. IsInjective(looked)
  <2> SUFFICES ASSUME NEW i \in 1 .. end - next, NEW j \in 1 .. end - next, looked[i] = looked[j]
               PROVE  i = j
    BY <1>2 DEF IsInjective
  <2>1. next + i \in 1 .. m /\ next + j \in 1 .. m /\ list[next + i] = list[next + j]
    BY <1>1, <1>2
  <2> QED BY <1>1, <2>1
<1>5. more \in Seq(Titles) /\ IsInjective(more) /\ Range(more) = Range(looked) \cap set
  BY <1>2, <1>4, MatchingLists DEF looked
<1>6. /\ shown \in Seq(Titles) /\ IsInjective(shown)
      /\ Range(shown) = {t \in FirstOf(list, next) : MediaOf[t] # <<>> /\ t \notin missed}
      /\ \A k \in next + 1 .. m : list[k] \notin missed
  BY DEF ShownUpTo, TitleList, m
<1>7. \A k \in 1 .. next : list[k] \notin Range(looked)
  <2> SUFFICES ASSUME NEW k \in 1 .. next, NEW l \in next + 1 .. end, list[k] = list[l]
               PROVE  FALSE
    BY <1>3
  <2>1. k \in 1 .. m /\ l \in 1 .. m /\ k # l
    BY <1>1
  <2> QED BY <1>1, <2>1
<1>8. Range(shown) \cap Range(more) = {}
  BY <1>5, <1>6, <1>7 DEF FirstOf
<1> DEFINE a == Len(shown)
           b == Len(more)
           both == shown \o more
<1>9. /\ a \in Nat /\ b \in Nat /\ both \in Seq(Titles) /\ DOMAIN both = 1 .. a + b
      /\ DOMAIN shown = 1 .. a /\ DOMAIN more = 1 .. b
      /\ \A i \in 1 .. a : both[i] = shown[i]
      /\ \A i \in 1 .. b : both[a + i] = more[i]
  BY <1>5, <1>6, ConcatProperties
<1> HIDE DEF a, b, both
<1>10. Range(both) = Range(shown) \cup Range(more)
  <2>1. ASSUME NEW i \in 1 .. a + b PROVE both[i] \in Range(shown) \cup Range(more)
    <3>1. CASE i \in 1 .. a
      BY <1>9, <3>1 DEF Range
    <3>2. CASE i \notin 1 .. a
      <4>1. i - a \in 1 .. b /\ a + (i - a) = i
        BY <1>9, <3>2
      <4>2. both[i] = more[i - a]
        BY <1>9, <4>1
      <4> QED BY <1>9, <4>1, <4>2 DEF Range
    <3> QED BY <3>1, <3>2
  <2>2. ASSUME NEW i \in 1 .. a PROVE shown[i] \in Range(both)
    <3>1. i \in 1 .. a + b /\ both[i] = shown[i]
      BY <1>9
    <3> QED BY <1>9, <3>1 DEF Range
  <2>3. ASSUME NEW i \in 1 .. b PROVE more[i] \in Range(both)
    <3>1. a + i \in 1 .. a + b /\ both[a + i] = more[i]
      BY <1>9
    <3> QED BY <1>9, <3>1 DEF Range
  <2>4. Range(both) = {both[i] : i \in 1 .. a + b}
    BY <1>9 DEF Range
  <2>5. Range(shown) = {shown[i] : i \in 1 .. a} /\ Range(more) = {more[i] : i \in 1 .. b}
    BY <1>9 DEF Range
  <2> QED BY <2>1, <2>2, <2>3, <2>4, <2>5
<1>11. IsInjective(both)
  <2> SUFFICES ASSUME NEW i \in 1 .. a + b, NEW j \in 1 .. a + b, both[i] = both[j] PROVE i = j
    BY <1>9 DEF IsInjective
  <2>1. CASE i \in 1 .. a /\ j \in 1 .. a
    BY <1>6, <1>9, <2>1 DEF IsInjective
  <2>2. CASE i \notin 1 .. a /\ j \notin 1 .. a
    <3>1. i - a \in 1 .. b /\ j - a \in 1 .. b /\ a + (i - a) = i /\ a + (j - a) = j
      BY <1>9, <2>2
    <3>2. more[i - a] = more[j - a]
      BY <1>9, <3>1
    <3>3. i - a = j - a
      BY <1>5, <1>9, <3>1, <3>2 DEF IsInjective
    <3> QED BY <1>9, <3>3
  <2>3. ASSUME NEW k \in 1 .. a, NEW l \in 1 .. a + b, l \notin 1 .. a, both[k] = both[l]
        PROVE  FALSE
    <3>1. l - a \in 1 .. b /\ a + (l - a) = l
      BY <1>9, <2>3
    <3>2. both[k] \in Range(shown) /\ both[l] \in Range(more)
      BY <1>9, <3>1 DEF Range
    <3> QED BY <1>8, <2>3, <3>2
  <2> QED BY <2>1, <2>2, <2>3
<1>12. Range(both) = {t \in FirstOf(list, end) : MediaOf[t] # <<>> /\ t \notin missed \cup gone}
  <2>1. FirstOf(list, end) = FirstOf(list, next) \cup Range(looked)
    <3>1. \A k \in 1 .. end : k \in 1 .. next \/ k \in next + 1 .. end
      BY <1>1
    <3>2. \A k \in 1 .. next : k \in 1 .. end
      BY <1>1
    <3>3. \A k \in next + 1 .. end : k \in 1 .. end
      BY <1>1
    <3> QED BY <1>3, <3>1, <3>2, <3>3 DEF FirstOf
  <2>2. \A t \in FirstOf(list, next) : t \notin gone
    BY <1>7 DEF FirstOf, looked
  <2>3. \A t \in Range(looked) : t \notin missed
    <3>1. \A k \in next + 1 .. end : k \in next + 1 .. m
      BY <1>1
    <3> QED BY <1>3, <1>6, <3>1
  <2>4. \A t \in Range(looked) : t \in Titles
    BY <1>2 DEF Range
  <2>5. Range(more) = {t \in Range(looked) : MediaOf[t] # <<>> /\ t \notin gone}
    BY <1>5, <2>4 DEF looked
  <2> QED BY <1>6, <1>10, <2>1, <2>2, <2>3, <2>5
<1>13. ASSUME NEW k \in end + 1 .. m PROVE list[k] \notin missed \cup gone
  <2>1. k \in next + 1 .. m /\ k \in 1 .. m
    BY <1>1
  <2>2. list[k] \notin Range(looked)
    <3> SUFFICES ASSUME NEW l \in next + 1 .. end, list[k] = list[l] PROVE FALSE
      BY <1>3
    <3>1. l \in 1 .. m /\ k # l
      BY <1>1
    <3> QED BY <1>1, <2>1, <3>1
  <2> QED BY <1>6, <2>1, <2>2 DEF looked
<1> QED BY <1>1, <1>9, <1>11, <1>12, <1>13 DEF ShownUpTo, TitleList, both, m

\* A page that is found has something to offer, and the others have not.
LEMMA FoundOffers ==
  ASSUME CatalogueInv, NEW t \in Titles, NEW down
  PROVE  Resolved(t, down).choices # <<>> <=> (MediaOf[t] # <<>> /\ Reached(t, down))
<1>1. MediaOf[t] \in Seq({"st", "zip"})
  BY CatalogueAssumption
<1>2. CASE Reached(t, down)
  <2>1. Body(t, MediaOf[t]) = MediaOf[t]
    BY DEF Body, InMemory, CatalogueInv, PagesTrue
  <2>2. Resolved(t, down).choices = [k \in DOMAIN MediaOf[t] |-> <<t, t, MediaOf[t][k]>>]
    BY <1>2, <2>1 DEF Resolved, Row
  <2>3. DOMAIN Resolved(t, down).choices = DOMAIN MediaOf[t]
    BY <2>2
  <2>4. MediaOf[t] = <<>> => Resolved(t, down).choices = <<>>
    BY <1>2, <2>1, NothingToChoose DEF Resolved
  <2>5. MediaOf[t] # <<>> => DOMAIN MediaOf[t] # {}
    <3>1. DOMAIN MediaOf[t] = 1 .. Len(MediaOf[t]) /\ Len(MediaOf[t]) \in Nat
      BY <1>1, LenProperties
    <3>2. MediaOf[t] # <<>> => Len(MediaOf[t]) # 0
      BY <1>1, EmptySeq
    <3>3. Len(MediaOf[t]) # 0 => 1 \in 1 .. Len(MediaOf[t])
      BY <3>1
    <3> QED BY <3>1, <3>2, <3>3
  <2>6. DOMAIN <<>> = {}
    OBVIOUS
  <2> QED BY <1>2, <2>3, <2>4, <2>5, <2>6
<1>3. CASE ~Reached(t, down)
  BY <1>3, NothingToChoose DEF Resolved
<1> QED BY <1>2, <1>3

\* Where a search begins nothing was shown and nothing missed.
LEMMA NothingShown ==
  ASSUME NEW list, TitleList(list)
  PROVE  ShownUpTo(list, 0, <<>>, {})
<1>1. Len(list) \in Nat
  BY LenProperties DEF TitleList
<1>2. Range(<<>>) = {} /\ <<>> \in Seq(Titles) /\ IsInjective(<<>>)
  BY DEF Range, IsInjective
<1>3. FirstOf(list, 0) = {}
  BY DEF FirstOf
<1> QED BY <1>1, <1>2, <1>3 DEF ShownUpTo, TitleList

\* A search keeps track of what it has shown.
LEMMA SearchWalks ==
  ASSUME CatalogueInv, WalkInv, NEW query, NEW start, NEW listingToo \in BOOLEAN, NEW down,
         SearchPage(query, start, listingToo, down),
         listingToo => start = 0,
         ~listingToo => start = walk.next /\ query = walk.query
  PROVE  WalkInv'
<1> DEFINE body == Body("index", index)
           candidates == Matching(body, query)
           end == IF start + Window < Len(candidates) THEN start + Window ELSE Len(candidates)
           looked == SubSeq(candidates, start + 1, end)
           indexUp == Reached("index", down)
           linked == {t \in Titles :
                       indexUp /\ t \in Range(looked) /\ Resolved(t, down).choices # <<>>}
           listed == IF listingToo THEN {r \in ListingRows(down) : r.title \in query} ELSE {}
           rows == {Resolved(t, down) : t \in linked} \cup listed
           earlier == IF listingToo THEN Idle ELSE walk
           gone == {t \in Range(looked) : ~Reached(t, down)}
           fetched == (IF indexUp THEN Range(looked) \cup {"index"} ELSE {})
                        \cup (IF listingToo /\ crawled.expires <= now
                              THEN FoldersOf(ListingUrl) ELSE {})
<1>1. PICK answered \in SUBSET rows :
        walk' = [query |-> query, next |-> end,
                 seen |-> earlier.seen \o
                            Matching(looked, {t \in linked : Resolved(t, down) \in answered}),
                 missed |-> earlier.missed \cup gone,
                 over |-> body,
                 sound |-> earlier.sound /\ indexUp /\ (listingToo \/ body = walk.over)
                             /\ answered = rows,
                 open |-> indexUp /\ end < Len(candidates)]
  BY DEF SearchPage, WindowEnd
<1>2. pages' = Fetched(fetched, down) /\ index' = index
  BY DEF SearchPage
<1>3. TitleList(body)
  BY DEF Body, WalkInv
<1>4. TitleList(candidates)
  BY <1>3, MatchingLists DEF TitleList
<1>5. TitleList(pages'["index"].body)
  <2>1. "index" \in PageKeys
    BY DEF PageKeys
  <2>2. pages'["index"].body \in {index, pages["index"].body}
    BY <1>2, <2>1 DEF Fetched, Contents
  <2> QED BY <2>2 DEF WalkInv
<1> DEFINE chosen == {t \in linked : Resolved(t, down) \in answered}
           more == Matching(looked, chosen)
<1>6. /\ walk'.query = query /\ walk'.next = end /\ walk'.over = body
      /\ walk'.seen = earlier.seen \o more /\ walk'.missed = earlier.missed \cup gone
      /\ walk'.open = (indexUp /\ end < Len(candidates))
      /\ walk'.sound = (earlier.sound /\ indexUp /\ (listingToo \/ body = walk.over)
                          /\ answered = rows)
  BY <1>1
<1>7. ASSUME walk'.sound
      PROVE  /\ ShownUpTo(candidates, end, earlier.seen \o more, earlier.missed \cup gone)
             /\ walk'.open <=> end < Len(candidates)
  <2>1. earlier.sound /\ indexUp /\ (listingToo \/ body = walk.over) /\ answered = rows
    BY <1>6, <1>7
  <2>2. ShownUpTo(candidates, start, earlier.seen, earlier.missed)
    <3>1. CASE listingToo
      BY <1>4, <3>1, NothingShown DEF Idle
    <3>2. CASE ~listingToo
      BY <2>1, <3>2 DEF WalkInv
    <3> QED BY <3>1, <3>2
  <2>3. end \in start .. Len(candidates)
    <3>1. start \in 0 .. Len(candidates) /\ Len(candidates) \in Nat /\ Window \in Nat
      BY <1>4, <2>2, CatalogueAssumption, LenProperties DEF ShownUpTo, TitleList
    <3> HIDE DEF candidates
    <3> QED BY <3>1
  <2>4. ASSUME NEW t \in Titles, t \in Range(looked)
        PROVE  t \in chosen <=> (MediaOf[t] # <<>> /\ t \notin gone)
    <3>1. t \in chosen <=> t \in linked
      BY <2>1
    <3>2. t \in linked <=> Resolved(t, down).choices # <<>>
      BY <2>1, <2>4
    <3>3. t \notin gone <=> Reached(t, down)
      BY <2>4
    <3> QED BY <3>1, <3>2, <3>3, FoundOffers
  <2>5. gone \subseteq Range(looked)
    OBVIOUS
  <2> HIDE DEF chosen, gone, candidates, end, earlier
  <2>6. ShownUpTo(candidates, end, earlier.seen \o more, earlier.missed \cup gone)
    BY <1>4, <2>2, <2>3, <2>4, <2>5, WindowShown
  <2> QED BY <1>6, <2>1, <2>6
<1>8. TitleList(index)' /\ TitleList(pages["index"].body)' /\ TitleList(walk.over)'
  BY <1>2, <1>3, <1>5, <1>6 DEF WalkInv
<1> HIDE DEF end, more, gone, earlier
<1>9. walk'.sound =>
        /\ ShownUpTo(Matching(walk'.over, walk'.query), walk'.next, walk'.seen, walk'.missed)
        /\ walk'.open <=> walk'.next < Len(Matching(walk'.over, walk'.query))
  BY <1>6, <1>7
<1> QED BY <1>8, <1>9 DEF WalkInv

\* Nothing else moves the search; what the index lists without its first title is
\* a list, and so is no page at all.
LEMMA OthersWalk ==
  ASSUME WalkInv,
         \/ InstallSome
         \/ \E url \in Urls : SaveSources(url)
         \/ IndexChanges \/ TimePasses \/ RestartCatalogue \/ UNCHANGED catalogueVars
  PROVE  WalkInv'
<1>1. TitleList(Forgotten["index"].body)
  <2>1. Forgotten["index"].body = <<>>
    BY DEF Forgotten, PageKeys
  <2>2. <<>> \in Seq(Titles) /\ IsInjective(<<>>)
    BY DEF IsInjective
  <2> QED BY <2>1, <2>2 DEF TitleList
<1>2. CASE InstallSome
  BY <1>2 DEF InstallSome, Install, WalkInv, TitleList
<1>3. CASE \E url \in Urls : SaveSources(url)
  <2>1. index' = index /\ walk' = walk /\ pages' = Forgotten
    BY <1>3 DEF SaveSources
  <2> QED BY <1>1, <2>1 DEF WalkInv, TitleList
<1>4. CASE IndexChanges
  <2>1. index # <<>> /\ index' = Tail(index) /\ walk' = walk /\ pages' = pages
    BY <1>4 DEF IndexChanges
  <2>2. index \in Seq(Titles) /\ IsInjective(index)
    BY DEF WalkInv, TitleList
  <2>3. /\ Tail(index) \in Seq(Titles) /\ Len(Tail(index)) = Len(index) - 1 /\ Len(index) \in Nat
        /\ \A i \in 1 .. Len(Tail(index)) : Tail(index)[i] = index[i + 1]
    BY <2>1, <2>2, HeadTailProperties
  <2>4. IsInjective(Tail(index))
    <3> DEFINE n == Len(Tail(index))
    <3> SUFFICES ASSUME NEW i \in 1 .. n, NEW j \in 1 .. n, Tail(index)[i] = Tail(index)[j]
                 PROVE  i = j
      BY <2>3 DEF IsInjective
    <3>1. i + 1 \in DOMAIN index /\ j + 1 \in DOMAIN index /\ index[i + 1] = index[j + 1]
      BY <2>2, <2>3
    <3>2. i + 1 = j + 1
      BY <2>2, <3>1 DEF IsInjective
    <3> QED BY <3>2
  <2> QED BY <2>1, <2>3, <2>4 DEF WalkInv, TitleList
<1>5. CASE TimePasses
  BY <1>5 DEF TimePasses, WalkInv, TitleList
<1>6. CASE RestartCatalogue
  <2>1. index' = index /\ walk' = walk /\ pages' = Forgotten
    BY <1>6 DEF RestartCatalogue
  <2> QED BY <1>1, <2>1 DEF WalkInv, TitleList
<1>7. CASE UNCHANGED catalogueVars
  BY <1>7 DEF catalogueVars, WalkInv, TitleList
<1> QED BY <1>2, <1>3, <1>4, <1>5, <1>6, <1>7

\* Before the first search nothing was shown; the index lists every title once.
LEMMA WalkAtFirst == CatalogueInit => WalkInv
<1> SUFFICES ASSUME CatalogueInit PROVE WalkInv
  OBVIOUS
<1>1. TitleList(index)
  <2>1. \E f \in [1 .. Cardinality(Titles) -> Titles] : IsInjective(f)
    BY CatalogueAssumption, Enumerated
  <2>2. index \in [1 .. Cardinality(Titles) -> Titles] /\ IsInjective(index)
    BY <2>1 DEF CatalogueInit, SetToSeq
  <2>3. Cardinality(Titles) \in Nat
    BY CatalogueAssumption, FS_CardinalityType
  <2> QED BY <2>2, <2>3, SequenceOf DEF TitleList
<1>2. TitleList(<<>>)
  BY DEF TitleList, IsInjective
<1>3. pages["index"].body = <<>>
  BY DEF CatalogueInit, Forgotten, PageKeys
<1>4. /\ walk.over = <<>> /\ walk.query = {} /\ walk.next = 0 /\ walk.seen = <<>>
      /\ walk.missed = {} /\ walk.open = FALSE
  BY DEF CatalogueInit, Idle
<1> DEFINE empty == <<>>
           none == Matching(empty, {})
<1>5. TitleList(none) /\ Range(none) = {}
  <2>1. empty \in Seq(Titles) /\ IsInjective(empty)
    BY DEF IsInjective
  <2> HIDE DEF empty
  <2>2. /\ Matching(empty, {}) \in Seq(Titles)
        /\ Range(Matching(empty, {})) = Range(empty) \cap {}
        /\ IsInjective(empty) => IsInjective(Matching(empty, {}))
    BY <2>1, MatchingLists
  <2> QED BY <2>1, <2>2 DEF TitleList
<1> HIDE DEF none
<1>6. Len(none) = 0
  <2>1. none \in Seq(Titles) /\ \A k \in DOMAIN none : none[k] \in Range(none)
    BY <1>5 DEF TitleList, Range
  <2>2. DOMAIN none = 1 .. Len(none) /\ Len(none) \in Nat
    BY <2>1, LenProperties
  <2>3. 1 \notin 1 .. Len(none)
    BY <1>5, <2>1, <2>2
  <2> QED BY <2>2, <2>3
<1>7. ShownUpTo(none, 0, <<>>, {})
  BY <1>5, NothingShown
<1> QED BY <1>1, <1>2, <1>3, <1>4, <1>6, <1>7 DEF WalkInv, none, empty

\* "Choose Find more downloadable results [...]; repeat until the status says
\* that all matching catalogue entries have been checked" (README.md:506-509): by
\* then every title whose page could be read and links media was offered, once,
\* for an index of any length, windows of any size and pages that fail, as long as
\* the index stayed as it was and no answer was cut short.
THEOREM PagesReachEveryTitle == CatalogueSpec => []PagesCoverTheIndex
<1>1. CatalogueInit => CatalogueInv /\ WalkInv
  BY CatalogueAtFirst, WalkAtFirst
<1>2. CatalogueInv /\ WalkInv /\ [CatalogueNext]_catalogueVars => CatalogueInv' /\ WalkInv'
  <2> SUFFICES ASSUME CatalogueInv, WalkInv, [CatalogueNext]_catalogueVars PROVE WalkInv'
    BY CatalogueKept
  <2>1. CASE Search
    <3>1. PICK query \in {Titles \cup {"oids", "vroom"}, {"oids"}}, down \in Downs :
             SearchPage(query, 0, TRUE, down)
      BY <2>1 DEF Search
    <3> QED BY <3>1, SearchWalks
  <2>2. CASE FindMore
    <3>1. PICK down \in Downs : SearchPage(walk.query, walk.next, FALSE, down)
      BY <2>2 DEF FindMore
    <3> QED BY <3>1, SearchWalks
  <2>3. CASE \/ InstallSome
             \/ \E url \in Urls : SaveSources(url)
             \/ IndexChanges \/ TimePasses \/ RestartCatalogue \/ UNCHANGED catalogueVars
    BY <2>3, OthersWalk
  <2> QED BY <2>1, <2>2, <2>3 DEF CatalogueNext
<1>3. WalkInv => PagesCoverTheIndex
  <2> SUFFICES ASSUME WalkInv, walk.sound, ~walk.open
               PROVE  /\ IsInjective(walk.seen)
                      /\ Range(walk.seen) = {t \in Range(walk.over) :
                             t \in walk.query /\ MediaOf[t] # <<>> /\ t \notin walk.missed}
    BY DEF PagesCoverTheIndex
  <2> DEFINE all == Matching(walk.over, walk.query)
  <2>1. ShownUpTo(all, walk.next, walk.seen, walk.missed) /\ ~(walk.next < Len(all))
    BY DEF WalkInv
  <2>2. all \in Seq(Titles) /\ Range(all) = Range(walk.over) \cap walk.query
    BY MatchingLists DEF WalkInv, TitleList
  <2> HIDE DEF all
  <2>3. walk.next = Len(all) /\ DOMAIN all = 1 .. Len(all)
    BY <2>1, <2>2, LenProperties DEF ShownUpTo
  <2>4. FirstOf(all, walk.next) = Range(all)
    BY <2>3 DEF FirstOf, Range
  <2> QED BY <2>1, <2>2, <2>4 DEF ShownUpTo, TitleList
<1> QED BY <1>1, <1>2, <1>3, PTL DEF CatalogueSpec

-----------------------------------------------------------------------------
(***************************************************************************)
(* What the services promise together.                                     *)
(***************************************************************************)

\* Files that are copied, renamed, patched or staged together arrive whole or
\* not at all, and no two of them become one.
THEOREM TransfersKept ==
  TransferSpec /\ NamesSpec /\ PatchSpec /\ StagingSpec => []TransfersAreWhole
<1>1. TransfersAreWhole <=>
         TransferIsWhole /\ DistinctStayDistinct /\ PatchIsWhole /\ ConflictsAreReal
  BY DEF TransfersAreWhole
<1> QED BY <1>1, CopiesAreWhole, NamesStayDistinct, PatchesAreWhole, ReportedConflictsAreReal, PTL

\* What is written follows a check that is still true: the raw image, the
\* output of a recipe, and the item that a search offered.
THEOREM ChecksStillHold ==
  EditorSpec /\ RecipesSpec /\ CatalogueSpec => WritesFollowChecks
BY RawWritesAreCurrent, RunsPublishTheRecorded, InstallationsWereOffered DEF WritesFollowChecks
=============================================================================
