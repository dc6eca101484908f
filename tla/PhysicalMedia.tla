---------------------------- MODULE PhysicalMedia ----------------------------
(***************************************************************************)
(* Disks in real drives (src/app/routes/desktop.py, src/atari_floppy,      *)
(* src/atari_greaseweazle).  A request captures the disk in a drive as a   *)
(* new image, or writes an open image to it track by track.  It holds the  *)
(* Activity counter; it may be aborted wherever it reports progress, and   *)
(* the drive may fail on any track.  The image may be edited throughout:   *)
(* what is written is a copy made under the session lock.                  *)
(*                                                                         *)
(* A drive on a floppy controller is read and written here, block by       *)
(* block, and the size is compared.  For one behind a Greaseweazle the gw  *)
(* command does the work: what is known of it is its exit code and what it *)
(* has printed.                                                            *)
(*                                                                         *)
(* At most one request uses a drive: nothing in the code sees to that, the *)
(* dialog of the page does.                                                *)
(***************************************************************************)
EXTENDS Naturals, FiniteSets, MediaActivity

CONSTANTS
    Controllers,    \* drives on a floppy controller; the others use gw
    Tracks,         \* tracks of a disk
    MaxEdits,       \* bounds the edits of the image
    NoContent       \* nothing read, nothing captured

ASSUME MediaAssumption ==
    /\ Controllers \subseteq Drives
    /\ Tracks \in Nat \ {0} /\ MaxEdits \in Nat /\ NoContent \notin Nat

VARIABLES
    imageContent,   \* the working file of the open image
    driveDisk,           \* the tracks of the disk in each drive
    job,            \* the request using a drive: what it does, and its track
    snapshot,       \* the copy a request writes
    capture,        \* the tracks a request has read
    opened,         \* images opened from captures, by drive
    outcome,        \* what the operation of the last request says
    abort           \* the operation was aborted by the user

mediaVars ==
    <<imageContent, driveDisk, job, snapshot, capture, opened, outcome, abort>>
-----------------------------------------------------------------------------
Track == 1 .. Tracks
ImageVersions == 0 .. MaxEdits
Foreign == MaxEdits + 1          \* what was on the disk before
DiskContents == [Track -> ImageVersions \cup {Foreign}]
JobSteps == {"idle", "prepared", "writing", "written", "ended", "probing", "reading", "read"}
Outcomes == {"none", "running", "written", "unverified", "captured", "cancelled", "failed"}

MediaTypeOK ==
    /\ inUse \subseteq Drives
    /\ imageContent \in ImageVersions
    /\ driveDisk \in [Drives -> DiskContents]
    /\ job \in [Drives -> [step : JobSteps, track : 0 .. Tracks]]
    /\ snapshot \in [Drives -> ImageVersions \cup {NoContent}]
    /\ capture \in [Drives -> [Track -> ImageVersions \cup {Foreign, NoContent}]]
    /\ opened \in [Drives -> [Track -> ImageVersions \cup {Foreign, NoContent}] \cup {NoContent}]
    /\ outcome \in [Drives -> Outcomes]
    /\ abort \subseteq Drives

NoTracks == [k \in Track |-> NoContent]
NoJob == [step |-> "idle", track |-> 0]

MediaInit ==
    /\ inUse = {}
    /\ imageContent = 0
    /\ driveDisk = [d \in Drives |-> [k \in Track |-> Foreign]]
    /\ job = [d \in Drives |-> NoJob]
    /\ snapshot = [d \in Drives |-> NoContent]
    /\ capture = [d \in Drives |-> NoTracks]
    /\ opened = [d \in Drives |-> NoContent]
    /\ outcome = [d \in Drives |-> "none"]
    /\ abort = {}

JobAt(d, step) == job[d].step = step
Proceed(d, step, track) == job' = [job EXCEPT ![d] = [step |-> step, track |-> track]]
Aborted(d) == d \in abort

\* The request ends: its copy and its scratch folder go, the counter is given
\* back, and the operation says how it ended.
Leave(d, how) ==
    /\ outcome' = [outcome EXCEPT ![d] = how]
    /\ job' = [job EXCEPT ![d] = NoJob]
    /\ snapshot' = [snapshot EXCEPT ![d] = NoContent]
    /\ capture' = [capture EXCEPT ![d] = NoTracks]
    /\ Leaves(d)
    /\ abort' = abort \ {d}

\* The guard of a route, and the start of its operation.
Enter(d, step) ==
    /\ JobAt(d, "idle")
    /\ Enters(d)
    /\ outcome' = [outcome EXCEPT ![d] = "running"]
    /\ Proceed(d, step, 0)
-----------------------------------------------------------------------------
EditImage ==
    /\ imageContent < MaxEdits
    /\ imageContent' = imageContent + 1
    /\ UNCHANGED <<inUse, driveDisk, job, snapshot, capture, opened, outcome, abort>>

AbortJob(d) ==
    /\ outcome[d] = "running"
    /\ abort' = abort \cup {d}
    /\ UNCHANGED <<inUse, imageContent, driveDisk, job, snapshot, capture, opened, outcome>>

\* A progress report is where an abort takes effect.
CancelJob(d) ==
    /\ ~ JobAt(d, "idle") /\ Aborted(d)
    /\ Leave(d, "cancelled")
    /\ UNCHANGED <<imageContent, driveDisk, opened>>

\* A drive may fail on any track, and the limit of half an hour may run out.
FailJob(d) ==
    /\ ~ JobAt(d, "idle") /\ ~ JobAt(d, "written") /\ ~ JobAt(d, "ended")
    /\ Leave(d, "failed")
    /\ UNCHANGED <<imageContent, driveDisk, opened>>
-----------------------------------------------------------------------------
(***************************************************************************)
(* Writing: write_physical_floppy(), write_floppy_drive().                 *)
(***************************************************************************)

\* The download is prepared under the session lock ...
StartWrite(d) ==
    /\ Enter(d, "prepared")
    /\ UNCHANGED <<imageContent, driveDisk, snapshot, capture, opened, abort>>

\* Mistake: the image is read while it is being written to the disk.
WriteFromImage(d) ==
    /\ JobAt(d, "writing") /\ job[d].track < Tracks /\ ~ Aborted(d)
    /\ driveDisk' = [driveDisk EXCEPT ![d][job[d].track + 1] = imageContent]
    /\ Proceed(d, "writing", job[d].track + 1)
    /\ UNCHANGED <<inUse, imageContent, snapshot, capture, opened, outcome, abort>>

\* ... and copied under the lock, taken anew: an edit may come between.
TakeSnapshot(d) ==
    /\ JobAt(d, "prepared") /\ ~ Aborted(d)
    /\ snapshot' = [snapshot EXCEPT ![d] = imageContent]
    /\ Proceed(d, "writing", 0)
    /\ UNCHANGED <<inUse, imageContent, driveDisk, capture, opened, outcome, abort>>

WriteTrack(d) ==
    /\ JobAt(d, "writing") /\ job[d].track < Tracks /\ ~ Aborted(d)
    /\ driveDisk' = [driveDisk EXCEPT ![d][job[d].track + 1] = snapshot[d]]
    /\ Proceed(d, "writing", job[d].track + 1)
    /\ UNCHANGED <<inUse, imageContent, snapshot, capture, opened, outcome, abort>>

\* The file is flushed, or gw exits and its transcript confirms every track of
\* a sector image.
FinishTracks(d) ==
    /\ JobAt(d, "writing") /\ job[d].track = Tracks
    /\ Proceed(d, "written", 0)
    /\ UNCHANGED <<inUse, imageContent, driveDisk, snapshot, capture, opened, outcome, abort>>

\* gw exits after writing flux, which it cannot verify: its exit code says that
\* it is done, and nothing counts the tracks.
EndFlux(d) ==
    /\ d \notin Controllers /\ JobAt(d, "writing")
    /\ Proceed(d, "ended", 0)
    /\ UNCHANGED <<inUse, imageContent, driveDisk, snapshot, capture, opened, outcome, abort>>

\* The last report may still find the operation aborted.
FinishWrite(d) ==
    /\ ~ Aborted(d)
    /\ \/ JobAt(d, "written") /\ Leave(d, "written")
       \/ JobAt(d, "ended") /\ Leave(d, "unverified")
    /\ UNCHANGED <<imageContent, driveDisk, opened>>
-----------------------------------------------------------------------------
(***************************************************************************)
(* Capturing: read_physical_floppy(), read_floppy_drive().                 *)
(***************************************************************************)

StartRead(d) ==
    /\ Enter(d, "probing")
    /\ UNCHANGED <<imageContent, driveDisk, snapshot, capture, opened, abort>>

\* The boot sector, or the user, says what shape the disk has.
ReadBootSector(d) ==
    /\ JobAt(d, "probing") /\ ~ Aborted(d)
    /\ Proceed(d, "reading", 0)
    /\ UNCHANGED <<inUse, imageContent, driveDisk, snapshot, capture, opened, outcome, abort>>

\* A block from the controller, or a track that gw decodes or gives up on.
ReadTrack(d) ==
    /\ JobAt(d, "reading") /\ job[d].track < Tracks /\ ~ Aborted(d)
    /\ \E found \in {driveDisk[d][job[d].track + 1], NoContent} :
        /\ found = NoContent => d \notin Controllers
        /\ capture' = [capture EXCEPT ![d][job[d].track + 1] = found]
    /\ Proceed(d, "reading", job[d].track + 1)
    /\ UNCHANGED <<inUse, imageContent, driveDisk, snapshot, opened, outcome, abort>>

\* Mistake: a short read is taken for the end of the disk.
EndReadShort(d) ==
    /\ JobAt(d, "reading")
    /\ Proceed(d, "read", 0)
    /\ UNCHANGED <<inUse, imageContent, driveDisk, snapshot, capture, opened, outcome, abort>>

\* The drive returns nothing more: short of the size of the shape is a failure.
\* Of gw it takes only that it exits with no error and left a file with something
\* in it.
EndRead(d) ==
    /\ JobAt(d, "reading")
    /\ \/ job[d].track = Tracks
       \/ d \notin Controllers /\ job[d].track > 0
    /\ Proceed(d, "read", 0)
    /\ UNCHANGED <<inUse, imageContent, driveDisk, snapshot, capture, opened, outcome, abort>>

OpenCapture(d) ==
    /\ JobAt(d, "read") /\ ~ Aborted(d)
    /\ opened' = [opened EXCEPT ![d] = capture[d]]
    /\ Leave(d, "captured")
    /\ UNCHANGED <<imageContent, driveDisk>>

\* The process ends in the middle; the disks stay as they are.
CutJobs ==
    /\ inUse' = {}
    /\ job' = [d \in Drives |-> NoJob]
    /\ snapshot' = [d \in Drives |-> NoContent]
    /\ capture' = [d \in Drives |-> NoTracks]
    /\ outcome' = [d \in Drives |-> IF outcome[d] = "running" THEN "failed" ELSE outcome[d]]
    /\ abort' = {}
    /\ UNCHANGED <<imageContent, driveDisk, opened>>

MediaNext(drives) ==
    \/ EditImage
    \/ \E d \in drives :
        \/ AbortJob(d) \/ CancelJob(d) \/ FailJob(d)
        \/ StartWrite(d) \/ TakeSnapshot(d) \/ WriteTrack(d) \/ FinishTracks(d)
        \/ EndFlux(d) \/ FinishWrite(d)
        \/ StartRead(d) \/ ReadBootSector(d) \/ ReadTrack(d) \/ EndRead(d) \/ OpenCapture(d)

MediaSpec == MediaInit /\ [][MediaNext(Drives) \/ CutJobs]_<<mediaVars, inUse>>
-----------------------------------------------------------------------------
OneContent(tracks) == Cardinality({tracks[k] : k \in Track}) = 1

\* A write that says it is verified, or that a controller flushed, left a whole
\* disk: one content the image had, however it was edited meanwhile, and never
\* tracks of two.  A capture from a controller was opened with every track of the
\* disk; one by gw may lack some, and nothing is said of it.
MediaIsWhole ==
    \A d \in Drives :
        /\ d \in Controllers /\ opened[d] # NoContent =>
            \A k \in Track : opened[d][k] # NoContent
        /\ outcome[d] = "written" => Foreign # driveDisk[d][1] /\ OneContent(driveDisk[d])
=============================================================================
