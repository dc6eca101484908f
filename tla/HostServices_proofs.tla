------------------------ MODULE HostServices_proofs ------------------------
(***************************************************************************)
(* The services that work outside the workspace.  The update of the        *)
(* application is safe with any number of threads and drives, whatever     *)
(* requests use the drives meanwhile, wherever it is cancelled, and        *)
(* whenever the process ends.  The content of an image survives its way    *)
(* out of the program: downloads of containers with any number of edits,   *)
(* and disks in any number of drives, of any number of tracks, written     *)
(* while the image is edited.                                              *)
(***************************************************************************)
EXTENDS AppUpdate, ImageExport, PhysicalMedia, FiniteSetTheorems, SequenceTheorems, TLAPS

(***************************************************************************)
(* Updates.                                                                *)
(***************************************************************************)

allVars == <<updateVars, inUse>>

\* One thread works at most, and the phase says whether one does.
OneWorks == \A t, u \in Threads : StillWorking(t) /\ StillWorking(u) => t = u
PhaseTells == Busy <=> \E t \in Threads : StillWorking(t)

\* A thread that has its package has one whose sum was compared, also while it
\* waits for the password.
PackageChecked ==
    \A t \in Threads : ThreadAt(t, "downloaded") \/ ThreadAt(t, "asking") => debFile = "verified"
InstalledChecked == appInstalled \in {"none", "verified"}

IInv == UpdateTypeOK /\ OneWorks /\ PhaseTells /\ PackageChecked /\ InstalledChecked
-----------------------------------------------------------------------------
\* What an update may do keeps the types.
LEMMA TypeKept == UpdateTypeOK /\ [AmongRequests]_allVars => UpdateTypeOK'
<1> SUFFICES ASSUME UpdateTypeOK, [AmongRequests]_allVars PROVE UpdateTypeOK'
  OBVIOUS
<1> USE DEF UpdateTypeOK, Phases, BusyPhases, Releases, Steps, Packages
<1>1. ASSUME NEW t \in Threads, StartCheck(t) \/ StartInstall(t) PROVE UpdateTypeOK'
  BY <1>1 DEF StartCheck, StartInstall, Become, Goes
<1>2. ASSUME NEW t \in Threads, EndCheck(t) \/ FetchBlock(t) \/ StopFetch(t) PROVE UpdateTypeOK'
  BY <1>2 DEF EndCheck, FetchBlock, StopFetch, Become, Goes
<1>3. ASSUME NEW t \in Threads, PackageArrives(t) \/ AskPassword(t) PROVE UpdateTypeOK'
  BY <1>3 DEF PackageArrives, AskPassword, Become, Goes
<1>4. ASSUME NEW t \in Threads, RefusePassword(t) \/ StartApt(t) PROVE UpdateTypeOK'
  BY <1>4 DEF RefusePassword, StartApt, Become, Goes
<1>8. ASSUME NEW t \in Threads, EndInstall(t) \/ GiveUpEvent(t) PROVE UpdateTypeOK'
  BY <1>8 DEF EndInstall, GiveUpEvent, Become, Goes
<1>5. CASE Cancel \/ AskRestart
  BY <1>5 DEF Cancel, AskRestart
<1>6. CASE EndProcess
  BY <1>6 DEF EndProcess
<1>7. CASE UNCHANGED updateVars
  BY <1>7 DEF updateVars
<1> QED
  BY <1>1, <1>2, <1>3, <1>4, <1>5, <1>6, <1>7, <1>8 DEF AmongRequests, UpdateNext, ThreadStep, allVars

\* Where one thread goes on, the others stay as they are.
LEMMA Others ==
  ASSUME UpdateTypeOK, NEW t \in Threads, NEW step \in Steps, Goes(t, step)
  PROVE  /\ thread'[t] = step
         /\ \A u \in Threads : u # t => thread'[u] = thread[u]
BY DEF UpdateTypeOK, Goes

\* Every step keeps the claims about the threads and the package.
LEMMA InvKept == IInv /\ [AmongRequests]_allVars => IInv'
<1> SUFFICES ASSUME IInv, [AmongRequests]_allVars PROVE IInv'
  OBVIOUS
<1>a. UpdateTypeOK'
  BY TypeKept DEF IInv
<1> USE DEF IInv, OneWorks, PhaseTells, PackageChecked, InstalledChecked, StillWorking, ThreadAt
<1>1. ASSUME NEW t \in Threads, StartCheck(t) PROVE IInv'
  <2>1. /\ thread'[t] = "checking"
        /\ \A u \in Threads : u # t => thread'[u] = thread[u]
    BY <1>1, Others DEF StartCheck, Steps
  <2> QED BY <1>1, <1>a, <2>1 DEF StartCheck, Become, Busy, BusyPhases
<1>2. ASSUME NEW t \in Threads, StartInstall(t) PROVE IInv'
  <2>1. /\ thread'[t] = "downloading"
        /\ \A u \in Threads : u # t => thread'[u] = thread[u]
    BY <1>2, Others DEF StartInstall, Steps
  <2> QED BY <1>2, <1>a, <2>1 DEF StartInstall, Become, Busy, BusyPhases
<1>3. ASSUME NEW t \in Threads, EndCheck(t) PROVE IInv'
  <2>1. /\ thread'[t] = "idle"
        /\ \A u \in Threads : u # t => thread'[u] = thread[u]
    BY <1>3, Others DEF EndCheck, Steps
  <2> QED BY <1>3, <1>a, <2>1 DEF EndCheck, Become, Busy, BusyPhases
<1>4. ASSUME NEW t \in Threads, FetchBlock(t) PROVE IInv'
  BY <1>4, <1>a DEF FetchBlock, Busy
<1>5. ASSUME NEW t \in Threads, StopFetch(t) PROVE IInv'
  <2>1. /\ thread'[t] = "ending"
        /\ \A u \in Threads : u # t => thread'[u] = thread[u]
    BY <1>5, Others DEF StopFetch, Steps
  <2> QED BY <1>5, <1>a, <2>1 DEF StopFetch, Become, Busy, BusyPhases
<1>6. ASSUME NEW t \in Threads, PackageArrives(t) PROVE IInv'
  <2>1. CASE debFile' = "verified" /\ Goes(t, "downloaded") /\ UNCHANGED <<phase, release>>
    <3>1. /\ thread'[t] = "downloaded"
          /\ \A u \in Threads : u # t => thread'[u] = thread[u]
      BY <2>1, Others DEF Steps
    <3> QED BY <1>6, <1>a, <2>1, <3>1 DEF PackageArrives, Busy
  <2>2. CASE debFile' = "none" /\ Goes(t, "ending") /\ Become("failed", release)
    <3>1. /\ thread'[t] = "ending"
          /\ \A u \in Threads : u # t => thread'[u] = thread[u]
      BY <2>2, Others DEF Steps
    <3> QED BY <1>6, <1>a, <2>2, <3>1 DEF PackageArrives, Become, Busy, BusyPhases
  <2> QED BY <1>6, <2>1, <2>2 DEF PackageArrives
<1>7. ASSUME NEW t \in Threads, AskPassword(t) PROVE IInv'
  <2>1. CASE Become("available", release) /\ Goes(t, "ending")
    <3>1. /\ thread'[t] = "ending"
          /\ \A u \in Threads : u # t => thread'[u] = thread[u]
      BY <2>1, Others DEF Steps
    <3> QED BY <1>7, <1>a, <2>1, <3>1 DEF AskPassword, Become, Busy, BusyPhases
  <2>2. CASE Become("installing", release) /\ Goes(t, "asking")
    <3>1. /\ thread'[t] = "asking"
          /\ \A u \in Threads : u # t => thread'[u] = thread[u]
      BY <2>2, Others DEF Steps
    <3> QED BY <1>7, <1>a, <2>2, <3>1 DEF AskPassword, Become, Busy, BusyPhases
  <2> QED BY <1>7, <2>1, <2>2 DEF AskPassword
<1>13. ASSUME NEW t \in Threads, RefusePassword(t) PROVE IInv'
  <2>1. /\ thread'[t] = "ending"
        /\ \A u \in Threads : u # t => thread'[u] = thread[u]
    BY <1>13, Others DEF RefusePassword, Steps
  <2> QED BY <1>13, <1>a, <2>1 DEF RefusePassword, Become, Busy, BusyPhases
<1>14. ASSUME NEW t \in Threads, StartApt(t) PROVE IInv'
  <2>1. /\ thread'[t] = "installing"
        /\ \A u \in Threads : u # t => thread'[u] = thread[u]
    BY <1>14, Others DEF StartApt, Steps
  <2> QED BY <1>14, <1>a, <2>1 DEF StartApt, Busy
<1>8. ASSUME NEW t \in Threads, EndInstall(t) PROVE IInv'
  <2>1. /\ thread'[t] = "ending"
        /\ \A u \in Threads : u # t => thread'[u] = thread[u]
    BY <1>8, Others DEF EndInstall, Steps
  <2> QED BY <1>8, <1>a, <2>1 DEF EndInstall, Become, Busy, BusyPhases
<1>9. ASSUME NEW t \in Threads, GiveUpEvent(t) PROVE IInv'
  <2>1. /\ thread'[t] = "idle"
        /\ \A u \in Threads : u # t => thread'[u] = thread[u]
    BY <1>9, Others DEF GiveUpEvent, Steps
  <2> QED BY <1>9, <1>a, <2>1 DEF GiveUpEvent, Busy
<1>10. CASE Cancel \/ AskRestart
  BY <1>10, <1>a DEF Cancel, AskRestart, Busy
<1>11. CASE EndProcess
  BY <1>11, <1>a DEF EndProcess, Busy, BusyPhases
<1>12. CASE UNCHANGED updateVars
  BY <1>12, <1>a DEF updateVars, Busy
<1> QED
  BY <1>1, <1>2, <1>3, <1>4, <1>5, <1>6, <1>7, <1>8, <1>9, <1>10, <1>11, <1>12, <1>13, <1>14
  DEF AmongRequests, UpdateNext, ThreadStep, allVars

\* A new process has no thread, so nothing contradicts the claims.
LEMMA InvAtFirst == UpdateInit => IInv
BY DEF UpdateInit, FreshProcess, IInv, UpdateTypeOK, OneWorks, PhaseTells, PackageChecked,
       InstalledChecked, StillWorking, ThreadAt, Busy, BusyPhases, Phases, Releases, Steps, Packages

\* The inductive invariant of the updater, whatever requests take drives and
\* wherever the process ends (Updater of app_update.py).
THEOREM Inductive == UpdateSpec => []IInv
<1>1. UpdateInit => IInv
  BY InvAtFirst
<1>2. IInv /\ [AmongRequests]_allVars => IInv'
  BY InvKept
<1> QED BY <1>1, <1>2, PTL DEF UpdateSpec, allVars
-----------------------------------------------------------------------------
\* The phase, the threads, the events and the package of the updater are always
\* of their types, whatever requests use drives (AppUpdater of app_update.py).
THEOREM TypeCorrect == UpdateSpec => []UpdateTypeOK
<1>1. IInv => UpdateTypeOK
  BY DEF IInv
<1> QED BY <1>1, Inductive, PTL

\* A set in which any two elements are the same has one at most.
LEMMA AtMostOne ==
  ASSUME NEW S, \A x, y \in S : x = y
  PROVE  Cardinality(S) <= 1
<1>1. CASE S = {}
  BY <1>1, FS_EmptySet
<1>2. CASE S # {}
  <2>1. PICK x : x \in S
    BY <1>2
  <2>2. S = {x}
    BY <2>1
  <2>3. Cardinality({x}) = 1
    BY FS_Singleton
  <2> QED BY <2>2, <2>3
<1> QED BY <1>1, <1>2

\* One thread at most works on an update, the phase shown in the About box says
\* whether one does, and apt is only ever given a package with the published sum
\* (install() and download() of app_update.py).
THEOREM UpdatesAreSafe == UpdateSpec => []UpdateIsSafe
<1>1. IInv => UpdateIsSafe
  <2> SUFFICES ASSUME IInv PROVE UpdateIsSafe
    OBVIOUS
  <2>1. Cardinality({t \in Threads : StillWorking(t)}) <= 1
    BY AtMostOne DEF IInv, OneWorks
  <2> QED BY <2>1 DEF IInv, PhaseTells, InstalledChecked, UpdateIsSafe
<1> QED BY <1>1, Inductive, PTL

(***************************************************************************)
(* Downloads.                                                              *)
(***************************************************************************)

\* What is in the working file, in the encoded containers and in the ZIP decodes,
\* and no file is younger than the clock.
Decodes ==
    /\ sectors.content \in EditNumbers /\ sectors.time <= clock
    /\ \A n \in ImageNames : exports[n] # NoFile => exports[n].content \in EditNumbers
    /\ archiveFile # NoFile => archiveFile.content \in EditNumbers

\* The ZIP of a plain image was built from the working file; where its time is
\* still that of the working file, so is its content.
PlainArchive ==
    containerFile = "plain" /\ archiveFile # NoFile =>
        /\ archiveFile.source = WorkingFile
        /\ archiveFile.time <= clock
        /\ archiveFile.time = sectors.time => archiveFile.content = sectors.content

ExportInv == ExportTypeOK /\ Decodes /\ PlainArchive /\ ExportIsCurrent
-----------------------------------------------------------------------------
UndoPoint == [content : EditNumbers, unsaved : BOOLEAN]

\* The undo stack gives back points of its type.
LEMMA UndoStack ==
  ASSUME NEW stack \in Seq(UndoPoint)
  PROVE  /\ \A p \in UndoPoint : Append(stack, p) \in Seq(UndoPoint)
         /\ stack # <<>> => Last(stack) \in UndoPoint /\ Front(stack) \in Seq(UndoPoint)
<1>1. \A p \in UndoPoint : Append(stack, p) \in Seq(UndoPoint)
  BY AppendProperties
<1>2. ASSUME stack # <<>>
      PROVE  Last(stack) \in UndoPoint /\ Front(stack) \in Seq(UndoPoint)
  <2>1. Len(stack) \in Nat \ {0}
    BY <1>2, EmptySeq, LenProperties
  <2>2. \A i \in 1 .. Len(stack) - 1 : stack[i] \in UndoPoint
    BY <2>1, ElementOfSeq
  <2>3. Front(stack) \in Seq(UndoPoint)
    BY <2>1, <2>2, SubSeqProperties DEF Front
  <2>4. Last(stack) \in UndoPoint
    BY <2>1, ElementOfSeq DEF Last
  <2> QED BY <2>3, <2>4
<1> QED BY <1>1, <1>2

\* A change of the sectors is younger than every file, and drops the pointer to
\* the encoded container.
LEMMA ChangeKept ==
  ASSUME ExportInv, Tick, NEW content \in EditNumbers,
         sectors' = [content |-> content, time |-> clock'],
         exported' = NoFile, exports' = exports, archiveFile' = archiveFile,
         containerFile' = containerFile, imageName' \in ImageNames,
         unsaved' \in BOOLEAN, undo' \in Seq(UndoPoint)
  PROVE  ExportInv'
<1>1. clock' \in EditNumbers /\ clock < clock' /\ clock \in Nat
  BY MaxClockAssumption DEF Tick, ExportInv, ExportTypeOK, EditNumbers
<1>2. ExportTypeOK'
  BY <1>1 DEF ExportInv, ExportTypeOK, File, UndoPoint
<1>3. Decodes'
  BY <1>1 DEF ExportInv, Decodes, EditNumbers
<1>4. PlainArchive'
  <2>1. CASE containerFile = "plain" /\ archiveFile # NoFile
    <3>1. archiveFile.time \in Nat /\ archiveFile.time <= clock /\ archiveFile.source = WorkingFile
      BY <2>1 DEF ExportInv, PlainArchive, ExportTypeOK, Archive, EditNumbers
    <3> QED BY <1>1, <3>1 DEF PlainArchive, EditNumbers
  <2>2. CASE ~(containerFile = "plain" /\ archiveFile # NoFile)
    BY <2>2 DEF PlainArchive
  <2> QED BY <2>1, <2>2
<1> QED BY <1>2, <1>3, <1>4 DEF ExportInv, ExportIsCurrent

\* Encoding leaves the sectors, and points at what decodes to them.
LEMMA EncodedKept == ASSUME ExportInv, PrepareEncoded PROVE ExportInv'
<1> DEFINE made == [content |-> sectors.content, time |-> clock']
<1>1. clock' \in EditNumbers /\ clock < clock' /\ clock \in Nat
  BY MaxClockAssumption DEF PrepareEncoded, Encoding, Tick, ExportInv, ExportTypeOK, EditNumbers
<1>2. /\ exports' = [exports EXCEPT ![imageName] = made]
      /\ containerFile' = containerFile /\ containerFile # "plain"
      /\ exported' = imageName /\ unsaved' = FALSE
      /\ UNCHANGED <<sectors, imageName, undo>>
  BY DEF PrepareEncoded, Encoding, Encoded
<1>3. made \in File /\ made.content \in EditNumbers
  BY <1>1 DEF ExportInv, Decodes, File
<1> HIDE DEF made
<1>4. /\ exports'[imageName] = made
      /\ exports' \in [ImageNames -> File \cup {NoFile}]
      /\ \A n \in ImageNames \ {imageName} : exports'[n] = exports[n]
  BY <1>2, <1>3 DEF ExportInv, ExportTypeOK
<1>5. archiveFile' = [name |-> imageName, source |-> imageName, time |-> made.time,
                      content |-> made.content]
  BY <1>4 DEF PrepareEncoded, Archived
<1>6. archiveFile' \in Archive /\ archiveFile'.content \in EditNumbers
  BY <1>3, <1>5 DEF ExportInv, ExportTypeOK, Archive, File, EditNumbers
<1>7. ExportTypeOK'
  BY <1>1, <1>2, <1>4, <1>6 DEF ExportInv, ExportTypeOK
<1>8. Decodes'
  BY <1>1, <1>2, <1>3, <1>4, <1>6 DEF ExportInv, Decodes, ExportTypeOK, File, EditNumbers
<1>9. PlainArchive'
  BY <1>2 DEF PlainArchive
<1>10. ExportIsCurrent'
  BY <1>2, <1>4 DEF ExportIsCurrent, made
<1> QED BY <1>7, <1>8, <1>9, <1>10 DEF ExportInv

\* An encoding that fails leaves what a roll-back leaves.
LEMMA FailedKept == ASSUME ExportInv, PrepareFails PROVE ExportInv'
<1>1. clock' \in EditNumbers /\ clock < clock' /\ clock \in Nat
  BY MaxClockAssumption DEF PrepareFails, Encoding, Tick, ExportInv, ExportTypeOK, EditNumbers
<1>2. /\ sectors' = [content |-> sectors.content, time |-> clock']
      /\ unsaved' = unsaved /\ exported' = NoFile
      /\ containerFile' = containerFile /\ containerFile # "plain"
      /\ UNCHANGED <<imageName, archiveFile, undo>>
  BY DEF PrepareFails, Encoding, PutBack
<1>3. PICK made \in File \cup {NoFile} :
        /\ made # NoFile => made.content \in EditNumbers
        /\ exports' = [exports EXCEPT ![imageName] = made]
  <2>1. [content |-> sectors.content, time |-> clock'] \in File
    BY <1>1 DEF ExportInv, Decodes, File
  <2> QED BY <2>1 DEF PrepareFails, Encoded, ExportInv, Decodes
<1>4. /\ exports' \in [ImageNames -> File \cup {NoFile}]
      /\ \A n \in ImageNames : exports'[n] # NoFile => exports'[n].content \in EditNumbers
  BY <1>3 DEF ExportInv, ExportTypeOK, Decodes
<1>5. ExportTypeOK'
  BY <1>1, <1>2, <1>4 DEF ExportInv, ExportTypeOK, Decodes, File
<1>6. Decodes'
  BY <1>1, <1>2, <1>4 DEF ExportInv, Decodes, EditNumbers
<1> QED BY <1>2, <1>5, <1>6 DEF ExportInv, PlainArchive, ExportIsCurrent

\* An image without changes is handed out as it is.
LEMMA UnchangedKept == ASSUME ExportInv, PrepareUnchanged PROVE ExportInv'
<1>1. PICK source \in ImageNames \cup {Original, WorkingFile} :
        /\ containerFile = "plain" => source = WorkingFile
        /\ FileOf(source) # NoFile
        /\ Archived(source, FileOf(source))
  <2>1. CASE containerFile = "plain"
    <3>1. FileOf(WorkingFile) = sectors
      BY DEF FileOf, Original, WorkingFile
    <3> QED BY <2>1, <3>1, SourcesAssumption
        DEF PrepareUnchanged, ExportInv, ExportTypeOK, WorkingFile
  <2>2. CASE containerFile # "plain" /\ exported # NoFile /\ exports[exported] # NoFile
    <3>1. exported \in ImageNames
      BY <2>2 DEF ExportInv, ExportTypeOK
    <3>2. FileOf(exported) = exports[exported]
      BY <3>1, SourcesAssumption DEF FileOf
    <3> QED BY <2>2, <3>1, <3>2 DEF PrepareUnchanged
  <2>3. CASE containerFile # "plain" /\ ~(exported # NoFile /\ exports[exported] # NoFile)
    <3>1. FileOf(Original) = JustOpened
      BY DEF FileOf, Original, WorkingFile
    <3>2. JustOpened \in File
      BY MaxClockAssumption DEF JustOpened, File, EditNumbers
    <3> QED BY <2>3, <3>1, <3>2, SourcesAssumption DEF PrepareUnchanged
  <2> QED BY <2>1, <2>2, <2>3
<1>2. /\ FileOf(source) \in File /\ FileOf(source).content \in EditNumbers
      /\ source = WorkingFile => FileOf(source) = sectors
  <2>1. CASE source = Original
    BY <2>1, MaxClockAssumption DEF FileOf, JustOpened, File, EditNumbers, Original, WorkingFile
  <2>2. CASE source = WorkingFile
    BY <2>2 DEF FileOf, Original, WorkingFile, ExportInv, ExportTypeOK, Decodes
  <2>3. CASE source \in ImageNames
    <3>1. FileOf(source) = exports[source] /\ source # WorkingFile
      BY <2>3, SourcesAssumption DEF FileOf
    <3> QED BY <2>3, <3>1, <1>1 DEF ExportInv, ExportTypeOK, Decodes
  <2> QED BY <2>1, <2>2, <2>3
<1> DEFINE given == FileOf(source)
<1>3. archiveFile' = [name |-> imageName, source |-> source, time |-> given.time,
                      content |-> given.content]
  BY <1>1 DEF Archived
<1>4. /\ given \in File /\ given.content \in EditNumbers
      /\ source = WorkingFile => given = sectors
  BY <1>2
<1> HIDE DEF given
<1>5. archiveFile' \in Archive /\ archiveFile'.content \in EditNumbers
  BY <1>3, <1>4 DEF ExportInv, ExportTypeOK, Archive, File, EditNumbers
<1>6. UNCHANGED <<containerFile, sectors, imageName, exported, exports, undo, clock>> /\ unsaved' = FALSE
  BY DEF PrepareUnchanged
<1>7. ExportTypeOK' /\ Decodes' /\ ExportIsCurrent'
  BY <1>5, <1>6 DEF ExportInv, ExportTypeOK, Decodes, ExportIsCurrent
<1>8. PlainArchive'
  <2>1. CASE containerFile = "plain"
    BY <1>1, <1>3, <1>4, <1>6, <2>1 DEF ExportInv, Decodes, PlainArchive
  <2>2. CASE containerFile # "plain"
    BY <1>6, <2>2 DEF PlainArchive
  <2> QED BY <2>1, <2>2
<1> QED BY <1>7, <1>8 DEF ExportInv

\* Every step keeps the claims about downloads.
LEMMA ExportKept == ExportInv /\ [ExportNext]_exportVars => ExportInv'
<1> SUFFICES ASSUME ExportInv, [ExportNext]_exportVars PROVE ExportInv'
  OBVIOUS
<1>1. /\ undo \in Seq(UndoPoint) /\ imageName \in ImageNames /\ unsaved \in BOOLEAN
      /\ sectors.content \in EditNumbers
  BY DEF ExportInv, ExportTypeOK, UndoPoint, Decodes
<1>2. CASE ChangeSectors
  <2>1. [content |-> sectors.content, unsaved |-> unsaved] \in UndoPoint
    BY <1>1 DEF UndoPoint
  <2>2. undo' \in Seq(UndoPoint)
    BY <1>1, <1>2, <2>1, UndoStack DEF ChangeSectors
  <2>3. clock' \in EditNumbers
    BY <1>2, MaxClockAssumption DEF ChangeSectors, Tick, ExportInv, ExportTypeOK, EditNumbers
  <2> QED BY <1>1, <1>2, <2>2, <2>3, ChangeKept DEF ChangeSectors
<1>3. CASE UndoChange
  <2>1. Last(undo) \in UndoPoint /\ Front(undo) \in Seq(UndoPoint)
    BY <1>1, <1>3, UndoStack DEF UndoChange
  <2>2. Last(undo).content \in EditNumbers /\ Last(undo).unsaved \in BOOLEAN
    BY <2>1 DEF UndoPoint
  <2> QED BY <1>1, <1>3, <2>1, <2>2, ChangeKept DEF UndoChange, PutBack
<1>4. CASE FailChange
  <2>1. sectors' = [content |-> sectors.content, time |-> clock'] /\ unsaved' = unsaved /\ exported' = NoFile
    BY <1>4 DEF FailChange, PutBack
  <2> QED BY <1>1, <1>4, <2>1, ChangeKept DEF FailChange
<1>5. CASE RenameImage
  BY <1>5 DEF RenameImage, ExportInv, ExportTypeOK, Decodes, PlainArchive, ExportIsCurrent
<1>6. CASE NoMoreDownloads \/ UNCHANGED exportVars
  BY <1>6 DEF NoMoreDownloads, exportVars, ExportInv, ExportTypeOK, Decodes, PlainArchive, ExportIsCurrent
<1> QED
  BY <1>2, <1>3, <1>4, <1>5, <1>6, EncodedKept, FailedKept, UnchangedKept DEF ExportNext

\* An image that has just been opened has neither a container nor a ZIP.
LEMMA ExportAtFirst == ExportInit => ExportInv
<1> SUFFICES ASSUME ExportInit PROVE ExportInv
  OBVIOUS
<1>1. JustOpened \in File /\ JustOpened.content \in EditNumbers /\ JustOpened.time = 0 /\ 0 \in EditNumbers
  BY MaxClockAssumption DEF JustOpened, File, EditNumbers
<1>2. undo \in Seq([content : EditNumbers, unsaved : BOOLEAN])
  BY EmptySeq DEF ExportInit
<1>3. ExportTypeOK
  BY <1>1, <1>2 DEF ExportInit, ExportTypeOK
<1> QED BY <1>1, <1>3 DEF ExportInit, ExportInv, Decodes, PlainArchive, ExportIsCurrent

\* The container a download would reuse holds the sectors on the screen, a ZIP that
\* is handed out decodes, and that of a plain image holds the image as it is, after
\* any edits, undos, failures and renames (prepare_download(),
\* prepared_download(), _mark_mutated(), restore_checkpoint(), rename_session()).
THEOREM DownloadsAreSound == ExportSpec => [](ServedIsSound /\ ExportIsCurrent)
<1>1. ExportInv => ServedIsSound /\ ExportIsCurrent
  <2> SUFFICES ASSUME ExportInv, Served
               PROVE  /\ archiveFile.content # Garbled
                      /\ containerFile = "plain" => archiveFile.content = sectors.content
    BY DEF ExportInv, ServedIsSound
  <2>1. archiveFile.content \in EditNumbers
    BY DEF Served, ExportInv, Decodes
  <2>2. archiveFile.content # Garbled
    BY <2>1, MaxClockAssumption DEF EditNumbers, Garbled
  <2>3. FileOf(WorkingFile) = sectors
    BY DEF FileOf, Original, WorkingFile
  <2> QED BY <2>2, <2>3 DEF Served, ExportInv, PlainArchive
<1> QED BY <1>1, ExportAtFirst, ExportKept, PTL DEF ExportSpec
-----------------------------------------------------------------------------
(***************************************************************************)
(* Disks in drives.                                                        *)
(***************************************************************************)

HoldsOne(tracks, v) == \A k \in Track : tracks[k] = v
Captured(tracks) == \A k \in Track : tracks[k] # NoContent

\* What a request has done to its drive so far: the tracks behind the head hold
\* the one copy it writes, or have been read.
DriveSound(d) ==
    /\ ~ JobAt(d, "idle") => outcome[d] = "running"
    /\ JobAt(d, "writing") =>
        snapshot[d] \in ImageVersions /\ \A k \in 1 .. job[d].track : driveDisk[d][k] = snapshot[d]
    /\ JobAt(d, "written") => snapshot[d] \in ImageVersions /\ HoldsOne(driveDisk[d], snapshot[d])
    /\ outcome[d] = "written" => \E v \in ImageVersions : HoldsOne(driveDisk[d], v)
    /\ d \in Controllers /\ JobAt(d, "reading") =>
        \A k \in 1 .. job[d].track : capture[d][k] # NoContent
    /\ d \in Controllers /\ JobAt(d, "read") => Captured(capture[d])
    /\ d \in Controllers /\ opened[d] # NoContent => Captured(opened[d])

MediaInv == MediaTypeOK /\ \A d \in Drives : DriveSound(d)
-----------------------------------------------------------------------------
\* A drive that no step touches stays sound.
LEMMA OtherDriveKept ==
  ASSUME NEW e \in Drives, DriveSound(e), job'[e] = job[e], outcome'[e] = outcome[e],
         snapshot'[e] = snapshot[e], driveDisk'[e] = driveDisk[e],
         capture'[e] = capture[e], opened'[e] = opened[e]
  PROVE  DriveSound(e)'
BY DEF DriveSound, JobAt, HoldsOne, Captured, ImageVersions, Track

\* A request that ends leaves the other drives; its own is sound when what it
\* says is.
LEMMA LeaveKept ==
  ASSUME MediaInv, NEW d \in Drives, NEW how \in Outcomes \ {"none", "running"},
         Leave(d, how), UNCHANGED <<imageContent, driveDisk>>,
         how = "written" => \E v \in ImageVersions : HoldsOne(driveDisk[d], v),
         NEW last, opened' = [opened EXCEPT ![d] = last],
         last \in [Track -> ImageVersions \cup {Foreign, NoContent}] \cup {NoContent},
         d \in Controllers /\ last # NoContent => Captured(last)
  PROVE  MediaInv'
<1>1. MediaTypeOK'
  <2>1. NoJob \in [step : JobSteps, track : 0 .. Tracks]
    BY MediaAssumption DEF NoJob, JobSteps
  <2>2. NoTracks \in [Track -> ImageVersions \cup {Foreign, NoContent}]
    BY DEF NoTracks
  <2>3. how \in Outcomes
    BY DEF Outcomes
  <2> QED BY <2>1, <2>2, <2>3 DEF MediaInv, MediaTypeOK, Leave, Leaves
<1>2. ASSUME NEW e \in Drives, e # d PROVE DriveSound(e)'
  BY <1>2, OtherDriveKept DEF MediaInv, MediaTypeOK, Leave
<1>3. DriveSound(d)'
  <2>1. job'[d].step = "idle" /\ outcome'[d] = how /\ opened'[d] = last
    BY DEF MediaInv, MediaTypeOK, Leave, NoJob
  <2>2. how # "running"
    OBVIOUS
  <2> QED BY <2>1, <2>2 DEF DriveSound, JobAt, HoldsOne, Captured, ImageVersions, Track
<1> QED BY <1>1, <1>2, <1>3 DEF MediaInv

\* The first report of a request.
LEMMA EnterKept ==
  ASSUME MediaInv, NEW d \in Drives, NEW step \in {"prepared", "probing"}, Enter(d, step),
         UNCHANGED <<imageContent, driveDisk, snapshot, capture, opened, abort>>
  PROVE  MediaInv'
<1>1. MediaTypeOK'
  <2>1. [step |-> step, track |-> 0] \in [step : JobSteps, track : 0 .. Tracks]
    BY MediaAssumption DEF JobSteps
  <2>2. "running" \in Outcomes
    BY DEF Outcomes
  <2> QED BY <2>1, <2>2 DEF MediaInv, MediaTypeOK, Enter, Enters, Proceed
<1>2. ASSUME NEW e \in Drives, e # d PROVE DriveSound(e)'
  BY <1>2, OtherDriveKept DEF MediaInv, MediaTypeOK, Enter, Proceed
<1>3. DriveSound(d)'
  <2>1. job'[d].step = step /\ outcome'[d] = "running"
    BY DEF MediaInv, MediaTypeOK, Enter, Proceed
  <2> QED BY <2>1 DEF MediaInv, DriveSound, JobAt, Captured, Track
<1> QED BY <1>1, <1>2, <1>3 DEF MediaInv

\* Only the copy, the capture and the disk of one drive change, within their types.
OnlyAt(d) ==
    /\ driveDisk' = [driveDisk EXCEPT ![d] = driveDisk'[d]]
    /\ driveDisk'[d] \in DiskContents
    /\ snapshot' = [snapshot EXCEPT ![d] = snapshot'[d]]
    /\ snapshot'[d] \in ImageVersions \cup {NoContent}
    /\ capture' = [capture EXCEPT ![d] = capture'[d]]
    /\ capture'[d] \in [Track -> ImageVersions \cup {Foreign, NoContent}]
    /\ UNCHANGED <<inUse, imageContent, opened, outcome, abort>>

\* A request goes on with the disk in its drive.
LEMMA JobKept ==
  ASSUME MediaInv, NEW d \in Drives, NEW step \in JobSteps \ {"idle"}, NEW track \in 0 .. Tracks,
         ~ JobAt(d, "idle"), Proceed(d, step, track), OnlyAt(d),
         step = "writing" =>
            snapshot'[d] \in ImageVersions /\ \A k \in 1 .. track : driveDisk'[d][k] = snapshot'[d],
         step = "written" => snapshot'[d] \in ImageVersions /\ HoldsOne(driveDisk'[d], snapshot'[d]),
         d \in Controllers /\ step = "reading" =>
            \A k \in 1 .. track : capture'[d][k] # NoContent,
         d \in Controllers /\ step = "read" => Captured(capture'[d])
  PROVE  MediaInv'
<1>1. MediaTypeOK'
  <2>1. [step |-> step, track |-> track] \in [step : JobSteps, track : 0 .. Tracks]
    OBVIOUS
  <2> QED BY <2>1 DEF MediaInv, MediaTypeOK, Proceed, OnlyAt
<1>2. ASSUME NEW e \in Drives, e # d PROVE DriveSound(e)'
  <2>1. /\ job'[e] = job[e] /\ driveDisk'[e] = driveDisk[e] /\ snapshot'[e] = snapshot[e]
        /\ capture'[e] = capture[e] /\ opened'[e] = opened[e] /\ outcome'[e] = outcome[e]
    BY <1>2 DEF MediaInv, MediaTypeOK, Proceed, OnlyAt
  <2> QED BY <2>1, OtherDriveKept DEF MediaInv
<1>3. DriveSound(d)'
  <2>1. job'[d].step = step /\ job'[d].track = track
    BY DEF MediaInv, MediaTypeOK, Proceed
  <2>2. outcome'[d] = "running" /\ opened'[d] = opened[d] /\ DriveSound(d)
    BY DEF MediaInv, DriveSound, OnlyAt
  <2> QED BY <2>1, <2>2 DEF DriveSound, JobAt, HoldsOne, Captured, ImageVersions, Track
<1> QED BY <1>1, <1>2, <1>3 DEF MediaInv

\* Writing and reading a disk.
LEMMA TransferKept ==
  ASSUME MediaInv, NEW d \in Drives,
         TakeSnapshot(d) \/ WriteTrack(d) \/ FinishTracks(d) \/ EndFlux(d)
           \/ ReadBootSector(d) \/ ReadTrack(d) \/ EndRead(d)
  PROVE  MediaInv'
<1>1. /\ driveDisk[d] \in DiskContents /\ snapshot[d] \in ImageVersions \cup {NoContent}
      /\ capture[d] \in [Track -> ImageVersions \cup {Foreign, NoContent}]
      /\ job[d].track \in 0 .. Tracks /\ imageContent \in ImageVersions
      /\ DriveSound(d)
  BY DEF MediaInv, MediaTypeOK
<1>2. /\ driveDisk = [driveDisk EXCEPT ![d] = driveDisk[d]]
      /\ snapshot = [snapshot EXCEPT ![d] = snapshot[d]]
      /\ snapshot \in [Drives -> ImageVersions \cup {NoContent}]
      /\ capture = [capture EXCEPT ![d] = capture[d]]
      /\ driveDisk \in [Drives -> DiskContents]
      /\ capture \in [Drives -> [Track -> ImageVersions \cup {Foreign, NoContent}]]
  BY DEF MediaInv, MediaTypeOK
<1>3. Tracks \in Nat \ {0} /\ NoContent \notin ImageVersions \cup {Foreign}
  BY MediaAssumption DEF ImageVersions, Foreign
<1>4. CASE TakeSnapshot(d)
  <2>1. ~ JobAt(d, "idle") /\ 0 \in 0 .. Tracks /\ "writing" \in JobSteps \ {"idle"}
        /\ Proceed(d, "writing", 0)
    BY <1>3, <1>4 DEF TakeSnapshot, JobAt, JobSteps
  <2>2. snapshot'[d] = imageContent /\ OnlyAt(d)
    BY <1>1, <1>2, <1>4 DEF TakeSnapshot, OnlyAt
  <2> QED BY <1>1, <2>1, <2>2, JobKept
<1>5. CASE WriteTrack(d)
  <2> DEFINE k == job[d].track + 1
  <2>1. ~ JobAt(d, "idle") /\ k \in 1 .. Tracks /\ k \in 0 .. Tracks
        /\ "writing" \in JobSteps \ {"idle"} /\ snapshot[d] \in ImageVersions
        /\ Proceed(d, "writing", k)
    BY <1>1, <1>3, <1>5 DEF WriteTrack, JobAt, JobSteps, DriveSound
  <2>2. driveDisk'[d] = [driveDisk[d] EXCEPT ![k] = snapshot[d]] /\ snapshot'[d] = snapshot[d]
    BY <1>2, <1>5 DEF WriteTrack
  <2>3. driveDisk'[d] \in DiskContents /\ \A i \in 1 .. k : driveDisk'[d][i] = snapshot'[d]
    BY <1>1, <1>3, <1>5, <2>1, <2>2 DEF WriteTrack, DriveSound, DiskContents, Track
  <2>4. OnlyAt(d)
    BY <1>1, <1>2, <1>5, <2>3 DEF WriteTrack, OnlyAt
  <2> HIDE DEF k
  <2> QED BY <2>1, <2>2, <2>3, <2>4, JobKept
<1>6. CASE FinishTracks(d)
  <2>1. ~ JobAt(d, "idle") /\ 0 \in 0 .. Tracks /\ "written" \in JobSteps \ {"idle"}
        /\ Proceed(d, "written", 0)
    BY <1>3, <1>6 DEF FinishTracks, JobAt, JobSteps
  <2>2. OnlyAt(d) /\ driveDisk'[d] = driveDisk[d] /\ snapshot'[d] = snapshot[d]
    BY <1>1, <1>2, <1>6 DEF FinishTracks, OnlyAt
  <2>3. snapshot[d] \in ImageVersions /\ HoldsOne(driveDisk[d], snapshot[d])
    BY <1>1, <1>6 DEF FinishTracks, JobAt, DriveSound, HoldsOne, Track
  <2> QED BY <2>1, <2>2, <2>3, JobKept
<1>10. CASE EndFlux(d)
  <2>1. ~ JobAt(d, "idle") /\ 0 \in 0 .. Tracks /\ "ended" \in JobSteps \ {"idle"}
        /\ Proceed(d, "ended", 0)
    BY <1>3, <1>10 DEF EndFlux, JobAt, JobSteps
  <2>2. OnlyAt(d)
    BY <1>1, <1>2, <1>10 DEF EndFlux, OnlyAt
  <2> QED BY <2>1, <2>2, JobKept
<1>7. CASE ReadBootSector(d)
  <2>1. ~ JobAt(d, "idle") /\ 0 \in 0 .. Tracks /\ "reading" \in JobSteps \ {"idle"}
        /\ Proceed(d, "reading", 0)
    BY <1>3, <1>7 DEF ReadBootSector, JobAt, JobSteps
  <2>2. OnlyAt(d)
    BY <1>1, <1>2, <1>7 DEF ReadBootSector, OnlyAt
  <2> QED BY <2>1, <2>2, JobKept
<1>8. CASE ReadTrack(d)
  <2> DEFINE k == job[d].track + 1
  <2>1. ~ JobAt(d, "idle") /\ k \in 1 .. Tracks /\ k \in 0 .. Tracks
        /\ "reading" \in JobSteps \ {"idle"} /\ Proceed(d, "reading", k)
    BY <1>1, <1>3, <1>8 DEF ReadTrack, JobAt, JobSteps
  <2>2. driveDisk[d][k] \in ImageVersions \cup {Foreign}
    BY <1>1, <2>1 DEF DiskContents, Track
  <2>3. PICK found \in {driveDisk[d][k], NoContent} :
            /\ found = NoContent => d \notin Controllers
            /\ capture' = [capture EXCEPT ![d][k] = found]
    BY <1>8 DEF ReadTrack
  <2>6. capture'[d] = [capture[d] EXCEPT ![k] = found]
    BY <1>2, <2>3
  <2>7. capture'[d] \in [Track -> ImageVersions \cup {Foreign, NoContent}]
    BY <1>1, <2>1, <2>2, <2>6 DEF Track
  <2>4. d \in Controllers => \A i \in 1 .. k : capture'[d][i] # NoContent
    BY <1>1, <1>3, <1>8, <2>1, <2>2, <2>3, <2>6 DEF ReadTrack, DriveSound, Track
  <2>5. OnlyAt(d)
    BY <1>1, <1>2, <1>8, <2>3, <2>6, <2>7 DEF ReadTrack, OnlyAt
  <2> HIDE DEF k
  <2> QED BY <2>1, <2>4, <2>5, JobKept
<1>9. CASE EndRead(d)
  <2>1. ~ JobAt(d, "idle") /\ 0 \in 0 .. Tracks /\ "read" \in JobSteps \ {"idle"}
        /\ Proceed(d, "read", 0)
    BY <1>3, <1>9 DEF EndRead, JobAt, JobSteps
  <2>2. OnlyAt(d) /\ capture'[d] = capture[d]
    BY <1>1, <1>2, <1>9 DEF EndRead, OnlyAt
  <2>3. d \in Controllers => Captured(capture[d])
    BY <1>1, <1>9 DEF EndRead, JobAt, DriveSound, Captured, Track
  <2> QED BY <2>1, <2>2, <2>3, JobKept
<1> QED BY <1>4, <1>5, <1>6, <1>7, <1>8, <1>9, <1>10

\* A request that ends, with an image or without.
LEMMA EndKept ==
  ASSUME MediaInv, NEW d \in Drives,
         CancelJob(d) \/ FailJob(d) \/ FinishWrite(d) \/ OpenCapture(d)
  PROVE  MediaInv'
<1>1. /\ opened = [opened EXCEPT ![d] = opened[d]]
      /\ opened[d] \in [Track -> ImageVersions \cup {Foreign, NoContent}] \cup {NoContent}
      /\ capture[d] \in [Track -> ImageVersions \cup {Foreign, NoContent}]
      /\ d \in Controllers /\ opened[d] # NoContent => Captured(opened[d])
      /\ DriveSound(d)
  BY DEF MediaInv, MediaTypeOK, DriveSound
<1>6. {"written", "unverified", "captured", "cancelled", "failed"} \subseteq Outcomes \ {"none", "running"}
  BY DEF Outcomes
<1>2. CASE CancelJob(d)
  BY <1>1, <1>2, <1>6, LeaveKept DEF CancelJob
<1>3. CASE FailJob(d)
  BY <1>1, <1>3, <1>6, LeaveKept DEF FailJob
<1>4. CASE FinishWrite(d)
  <2>1. CASE JobAt(d, "written") /\ Leave(d, "written")
    <3>1. \E v \in ImageVersions : HoldsOne(driveDisk[d], v)
      BY <1>1, <2>1 DEF DriveSound
    <3> QED BY <1>1, <1>4, <1>6, <2>1, <3>1, LeaveKept DEF FinishWrite
  <2>2. CASE Leave(d, "unverified")
    BY <1>1, <1>4, <1>6, <2>2, LeaveKept DEF FinishWrite
  <2> QED BY <1>4, <2>1, <2>2 DEF FinishWrite
<1>5. CASE OpenCapture(d)
  <2>1. d \in Controllers => Captured(capture[d])
    BY <1>1, <1>5 DEF OpenCapture, DriveSound
  <2> QED BY <1>1, <1>5, <1>6, <2>1, LeaveKept DEF OpenCapture
<1> QED BY <1>2, <1>3, <1>4, <1>5

\* The end of the process keeps what was said of finished disks.
LEMMA CutKept == ASSUME MediaInv, CutJobs PROVE MediaInv'
<1>1. MediaTypeOK'
  <2>1. NoJob \in [step : JobSteps, track : 0 .. Tracks]
    BY MediaAssumption DEF NoJob, JobSteps
  <2>2. NoTracks \in [Track -> ImageVersions \cup {Foreign, NoContent}]
    BY DEF NoTracks
  <2>3. "failed" \in Outcomes
    BY DEF Outcomes
  <2> QED BY <2>1, <2>2, <2>3 DEF MediaInv, MediaTypeOK, CutJobs
<1>2. ASSUME NEW d \in Drives PROVE DriveSound(d)'
  <2>1. job'[d].step = "idle" /\ (outcome'[d] = "written" => outcome[d] = "written")
        /\ driveDisk'[d] = driveDisk[d] /\ opened'[d] = opened[d] /\ DriveSound(d)
    BY <1>2 DEF MediaInv, CutJobs, NoJob
  <2> QED BY <2>1 DEF DriveSound, JobAt, HoldsOne, Captured, ImageVersions, Track
<1> QED BY <1>1, <1>2 DEF MediaInv

\* Every step keeps every drive sound.
LEMMA MediaKept ==
  MediaInv /\ [MediaNext(Drives) \/ CutJobs]_<<mediaVars, inUse>> => MediaInv'
<1> SUFFICES ASSUME MediaInv, [MediaNext(Drives) \/ CutJobs]_<<mediaVars, inUse>>
             PROVE  MediaInv'
  OBVIOUS
<1>1. CASE EditImage \/ (\E d \in Drives : AbortJob(d)) \/ UNCHANGED <<mediaVars, inUse>>
  <2>1. UNCHANGED <<inUse, driveDisk, job, snapshot, capture, opened, outcome>>
        /\ imageContent' \in ImageVersions /\ abort' \subseteq Drives
    BY <1>1, MediaAssumption
    DEF EditImage, AbortJob, mediaVars, MediaInv, MediaTypeOK, ImageVersions
  <2>2. MediaTypeOK'
    BY <2>1 DEF MediaInv, MediaTypeOK
  <2>3. ASSUME NEW d \in Drives PROVE DriveSound(d)'
    BY <2>1, <2>3, OtherDriveKept DEF MediaInv
  <2> QED BY <2>2, <2>3 DEF MediaInv
<1>2. CASE \E d \in Drives : StartWrite(d) \/ StartRead(d)
  BY <1>2, EnterKept DEF StartWrite, StartRead
<1>3. CASE \E d \in Drives :
             TakeSnapshot(d) \/ WriteTrack(d) \/ FinishTracks(d) \/ EndFlux(d)
               \/ ReadBootSector(d) \/ ReadTrack(d) \/ EndRead(d)
  BY <1>3, TransferKept
<1>4. CASE \E d \in Drives : CancelJob(d) \/ FailJob(d) \/ FinishWrite(d) \/ OpenCapture(d)
  BY <1>4, EndKept
<1>5. CASE CutJobs
  BY <1>5, CutKept
<1> QED BY <1>1, <1>2, <1>3, <1>4, <1>5 DEF MediaNext

\* At first nobody uses a drive.
LEMMA MediaAtFirst == MediaInit => MediaInv
<1> SUFFICES ASSUME MediaInit PROVE MediaInv
  OBVIOUS
<1>1. NoJob \in [step : JobSteps, track : 0 .. Tracks] /\ NoJob.step = "idle"
  BY MediaAssumption DEF NoJob, JobSteps
<1>2. NoTracks \in [Track -> ImageVersions \cup {Foreign, NoContent}]
  BY DEF NoTracks
<1>3. [k \in Track |-> Foreign] \in DiskContents
  BY DEF DiskContents
<1>4. MediaTypeOK
  BY <1>1, <1>2, <1>3, MediaAssumption DEF MediaInit, MediaTypeOK, ImageVersions, Outcomes
<1>5. ASSUME NEW d \in Drives PROVE DriveSound(d)
  BY <1>1, <1>5 DEF MediaInit, DriveSound, JobAt
<1> QED BY <1>4, <1>5 DEF MediaInv

\* However the image is edited, jobs are aborted, drives fail and the process
\* ends, a request that says its disk is written and checked left one content the
\* image had on every track, and a capture by a controller was opened with every
\* track read
\* (write_physical_floppy(), read_physical_floppy(), write_floppy_drive(),
\* read_floppy_drive()).
THEOREM FinishedDisksAreWhole == MediaSpec => []MediaIsWhole
<1>1. MediaInv => MediaIsWhole
  <2> SUFFICES ASSUME MediaInv, NEW d \in Drives
               PROVE  /\ d \in Controllers /\ opened[d] # NoContent =>
                            \A k \in Track : opened[d][k] # NoContent
                      /\ outcome[d] = "written" =>
                            Foreign # driveDisk[d][1] /\ OneContent(driveDisk[d])
    BY DEF MediaIsWhole
  <2>1. DriveSound(d)
    BY DEF MediaInv
  <2>2. ASSUME outcome[d] = "written"
        PROVE  Foreign # driveDisk[d][1] /\ OneContent(driveDisk[d])
    <3>1. PICK v \in ImageVersions : HoldsOne(driveDisk[d], v)
      BY <2>1, <2>2 DEF DriveSound
    <3>2. 1 \in Track /\ v # Foreign
      BY MediaAssumption DEF Track, ImageVersions, Foreign
    <3>3. driveDisk[d][1] = v /\ {driveDisk[d][k] : k \in Track} = {v}
      BY <3>1, <3>2 DEF HoldsOne
    <3> QED BY <3>2, <3>3, FS_Singleton DEF OneContent
  <2> QED BY <2>1, <2>2 DEF DriveSound, Captured
<1> QED BY <1>1, MediaAtFirst, MediaKept, PTL DEF MediaSpec
=============================================================================
