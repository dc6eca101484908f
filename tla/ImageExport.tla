----------------------------- MODULE ImageExport -----------------------------
(***************************************************************************)
(* What a download of an image hands out (src/app/disk_service.py,         *)
(* flux_containers.py, download_archive.py, session_disk_service.py).      *)
(*                                                                         *)
(* An image is edited as plain sectors.  One opened from a flux container  *)
(* keeps the container it was opened from; an edited one is encoded anew   *)
(* when a download is prepared, and the session points at the result until *)
(* the next change.  Preparing also builds a ZIP; fetching it is a request *)
(* of its own that only compares the session with what the ZIP was built   *)
(* from.  Requests come one after another: preparing holds the session     *)
(* lock throughout, and ImageHistory covers overlapping changes.           *)
(***************************************************************************)
EXTENDS Naturals, SequencesExt

CONSTANTS
    ImageNames,     \* names the user gives the image
    NoFile,         \* no file, no pointer to one
    MaxClock        \* bounds the number of files written

ASSUME ImageNamesAssumption == ImageNames # {} /\ NoFile \notin ImageNames
ASSUME MaxClockAssumption == MaxClock \in Nat

VARIABLES
    containerFile,      \* what the image was opened from
    sectors,        \* the working file: its content and its modification time
    imageName,      \* session.name
    unsaved,        \* session.dirty
    exported,       \* session.hfe_export_path, by the name it was made under
    exports,        \* the encoded files in the folder of the session
    archiveFile,        \* download-ready.zip and download-ready.json
    undo,           \* the automatic checkpoints, oldest first
    clock           \* modification times given out

exportVars ==
    <<containerFile, sectors, imageName, unsaved, exported, exports, archiveFile, undo, clock>>
-----------------------------------------------------------------------------
Containers == {"plain", "flux", "read-only flux"}
Original == "original"
WorkingFile == "working file"

\* Contents are numbered in the order in which edits made them; 0 is the one
\* the image was opened with, and Garbled is a decode that differs.
EditNumbers == 0 .. MaxClock
Garbled == MaxClock + 1
File == [content : EditNumbers \cup {Garbled}, time : EditNumbers]
JustOpened == [content |-> 0, time |-> 0]

Archive ==
    [name : ImageNames, source : ImageNames \cup {Original, WorkingFile},
     time : EditNumbers, content : EditNumbers \cup {Garbled}]

ASSUME SourcesAssumption ==
    /\ Original \notin ImageNames /\ WorkingFile \notin ImageNames
    /\ NoFile \notin File /\ NoFile \notin Archive

ExportTypeOK ==
    /\ containerFile \in Containers
    /\ sectors \in File /\ imageName \in ImageNames /\ unsaved \in BOOLEAN
    /\ exported \in ImageNames \cup {NoFile}
    /\ exports \in [ImageNames -> File \cup {NoFile}]
    /\ archiveFile \in Archive \cup {NoFile}
    /\ undo \in Seq([content : EditNumbers, unsaved : BOOLEAN])
    /\ clock \in EditNumbers

ExportInit ==
    /\ containerFile \in Containers
    /\ sectors = JustOpened
    /\ imageName \in ImageNames
    /\ unsaved = FALSE
    /\ exported = NoFile
    /\ exports = [n \in ImageNames |-> NoFile]
    /\ archiveFile = NoFile
    /\ undo = <<>>
    /\ clock = 0

\* A write gives a file a modification time of its own.
Tick == clock < MaxClock /\ clock' = clock + 1
-----------------------------------------------------------------------------
\* require_writable_geometry(): media that cannot be encoded again are refused.
WritableGeometry == containerFile # "read-only flux"

\* Mistake: the encoded container of the last download is kept.
ChangeSectorsKeepExport ==
    /\ WritableGeometry
    /\ Tick
    /\ undo' = Append(undo, [content |-> sectors.content, unsaved |-> unsaved])
    /\ sectors' = [content |-> clock', time |-> clock']
    /\ unsaved' = TRUE
    /\ UNCHANGED <<containerFile, imageName, exported, exports, archiveFile>>

\* A change of the image: an undo point, the sectors, _mark_mutated().
ChangeSectors ==
    /\ WritableGeometry
    /\ Tick
    /\ undo' = Append(undo, [content |-> sectors.content, unsaved |-> unsaved])
    /\ sectors' = [content |-> clock', time |-> clock']
    /\ unsaved' = TRUE
    /\ exported' = NoFile
    /\ UNCHANGED <<containerFile, imageName, exports, archiveFile>>

\* Mistake: the copy keeps the time of the file it replaces.
PutBackUntouched(point) ==
    /\ sectors' = [content |-> point.content, time |-> sectors.time]
    /\ unsaved' = point.unsaved
    /\ exported' = NoFile

\* restore_checkpoint(): a copy of the file, the flag as it was, and nothing
\* that was derived from the image.
PutBack(point) ==
    /\ sectors' = [content |-> point.content, time |-> clock']
    /\ unsaved' = point.unsaved
    /\ exported' = NoFile

UndoChange ==
    /\ undo # <<>>
    /\ Tick
    /\ PutBack(Last(undo))
    /\ undo' = Front(undo)
    /\ UNCHANGED <<containerFile, imageName, exports, archiveFile>>

\* A request that fails is rolled back, whatever it had done.
FailChange ==
    /\ Tick
    /\ PutBack([content |-> sectors.content, unsaved |-> unsaved])
    /\ UNCHANGED <<containerFile, imageName, exports, archiveFile, undo>>

\* rename_session().
RenameImage ==
    /\ \E n \in ImageNames \ {imageName} : imageName' = n
    /\ exported' = NoFile
    /\ UNCHANGED <<containerFile, sectors, unsaved, exports, archiveFile, undo, clock>>
-----------------------------------------------------------------------------
(***************************************************************************)
(* Preparing a download.                                                   *)
(***************************************************************************)

FileOf(source) ==
    CASE source = Original -> JustOpened
      [] source = WorkingFile -> sectors
      [] OTHER -> exports[source]

\* build_download_archive() and mark_saved().
Archived(source, file) ==
    archiveFile' = [name |-> imageName, source |-> source, time |-> file.time,
                content |-> file.content]

\* An image without changes is handed out as it is: the sectors, the container
\* of an earlier download, or the container it was opened from.
PrepareUnchanged ==
    /\ containerFile = "plain" \/ ~ unsaved
    /\ LET source == IF containerFile = "plain" THEN WorkingFile
                     ELSE IF exported # NoFile /\ exports[exported] # NoFile THEN exported
                     ELSE Original
       IN  Archived(source, FileOf(source))
    /\ unsaved' = FALSE
    /\ UNCHANGED <<containerFile, sectors, imageName, exported, exports, undo, clock>>

\* encode_and_verify(): an external program encodes, and what it wrote is
\* decoded again and compared.
Encoding == containerFile = "flux" /\ unsaved /\ Tick

Encoded(content) ==
    exports' = [exports EXCEPT ![imageName] = [content |-> content, time |-> clock']]

\* Mistake: what the program wrote is not decoded again.
PrepareUnverified ==
    /\ Encoding
    /\ \E content \in {sectors.content, Garbled} : Encoded(content)
    /\ Archived(imageName, exports'[imageName])
    /\ exported' = imageName
    /\ unsaved' = FALSE
    /\ UNCHANGED <<containerFile, sectors, imageName, undo>>

PrepareEncoded ==
    /\ Encoding
    /\ Encoded(sectors.content)
    /\ Archived(imageName, exports'[imageName])
    /\ exported' = imageName
    /\ unsaved' = FALSE
    /\ UNCHANGED <<containerFile, sectors, imageName, undo>>

\* The program fails or its output differs: the output is removed; or the ZIP
\* cannot be written: the output stays.  The image is rolled back.
PrepareFails ==
    /\ Encoding
    /\ \/ exports' = [exports EXCEPT ![imageName] = NoFile]
       \/ Encoded(sectors.content)
    /\ PutBack([content |-> sectors.content, unsaved |-> unsaved])
    /\ UNCHANGED <<containerFile, imageName, archiveFile, undo>>

\* No download has to be asked for.
NoMoreDownloads == UNCHANGED exportVars

ExportNext ==
    \/ ChangeSectors \/ UndoChange \/ FailChange \/ RenameImage
    \/ PrepareUnchanged \/ PrepareEncoded \/ PrepareFails \/ NoMoreDownloads

ExportSpec == ExportInit /\ [][ExportNext]_exportVars
-----------------------------------------------------------------------------
(***************************************************************************)
(* Fetching the ZIP, and properties.                                       *)
(***************************************************************************)

\* prepared_download() hands the ZIP out.
Served ==
    /\ archiveFile # NoFile
    /\ archiveFile.name = imageName
    /\ FileOf(archiveFile.source) # NoFile
    /\ FileOf(archiveFile.source).time = archiveFile.time

\* A ZIP that is handed out holds contents that decode, never the output of an
\* encoding that differed; that of an image of plain sectors holds the image as
\* it is, whatever changed, failed or was undone or renamed since it was built.
ServedIsSound ==
    Served => /\ archiveFile.content # Garbled
              /\ containerFile = "plain" => archiveFile.content = sectors.content

\* "Return a complete archive only while it still matches this session": what
\* prepared_download() says of itself.  It compares the file the ZIP was built
\* from, which for a flux container is not the one that edits change.
ServedMatchesSession == Served => archiveFile.content = sectors.content

\* The container a download would reuse holds the sectors on the screen.
ExportIsCurrent ==
    exported # NoFile /\ exports[exported] # NoFile
        => exports[exported].content = sectors.content

\* "an unedited session downloads the bytes it was opened from, and an edited
\* one is only released after the new container decodes back to exactly the
\* sectors on screen" (disk_service.py:988-990).
PreparedIsOnScreen ==
    [][archiveFile' # archiveFile => archiveFile'.content = sectors.content]_exportVars
=============================================================================
