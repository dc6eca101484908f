----------------------------- MODULE FileEditor -----------------------------
(***************************************************************************)
(* Saving one file from the source editor, the file hex editor and the raw *)
(* image hex editor: the check that the file is still the one the editor   *)
(* opened, the read-only bit that is taken off for the write, and what the *)
(* write replaces (src/app/file_editor.py, src/app/hex_service.py).        *)
(*                                                                         *)
(* Requests run at the same time; each call into the volume takes the lock *)
(* of the session for itself, while the raw editor holds it from its check *)
(* to its write.  A failed request puts the image back (ImageHistory).     *)
(***************************************************************************)
EXTENDS Naturals

CONSTANTS
    Editors,        \* open editors, each with a request in flight at most
    Texts,          \* what the file may hold
    MaxTexts,       \* bound on what is written
    NoText          \* nothing opened, checked or replaced

ASSUME EditorAssumption == NoText \notin Texts /\ MaxTexts \in Nat

VARIABLES
    file,           \* what the file holds, and its read-only bit
    edits,          \* writes to the image so far: its size and time stamp
    seen,           \* what each editor opened
    stamp,          \* the image version each editor opened
    at,             \* where each editor's save is
    relock,         \* whether the save found the file read-only
    kept,           \* the checkpoint of the save
    sent            \* what each save writes

editorVars == <<file, edits, seen, stamp, at, relock, kept, sent>>
-----------------------------------------------------------------------------
EditorTypeOK ==
    /\ file \in [holds : Texts, readOnly : BOOLEAN]
    /\ edits \in 0..MaxTexts
    /\ seen \in [Editors -> Texts \cup {NoText}]
    /\ stamp \in [Editors -> 0..MaxTexts]
    /\ at \in [Editors -> {"open", "checked", "unlocked", "written"}]
    /\ relock \in [Editors -> BOOLEAN]
    /\ kept \in [Editors -> [holds : Texts, readOnly : BOOLEAN]]
    /\ sent \in [Editors -> Texts \cup {NoText}]

EditorInit ==
    /\ file \in [holds : Texts, readOnly : BOOLEAN]
    /\ edits = 0
    /\ seen = [e \in Editors |-> NoText] /\ stamp = [e \in Editors |-> 0]
    /\ at = [e \in Editors |-> "open"]
    /\ relock = [e \in Editors |-> FALSE]
    /\ kept = [e \in Editors |-> file]
    /\ sent = [e \in Editors |-> NoText]

\* inspect_editable_file(), raw_image_range(): the two views of the file are
\* loaded with the checksum of the file and the version of the image.
OpenEditor(e) ==
    /\ at[e] = "open" /\ seen[e] # file.holds
    /\ seen' = [seen EXCEPT ![e] = file.holds]
    /\ stamp' = [stamp EXCEPT ![e] = edits]
    /\ UNCHANGED <<file, edits, at, relock, kept, sent>>

\* The request has its checkpoint, the file is read and its checksum compared;
\* the row that names its attributes is read after that.
CheckFile(e) ==
    /\ at[e] = "open" /\ seen[e] = file.holds
    /\ kept' = [kept EXCEPT ![e] = file]
    /\ relock' = [relock EXCEPT ![e] = file.readOnly]
    /\ at' = [at EXCEPT ![e] = "checked"]
    /\ UNCHANGED <<file, edits, seen, stamp, sent>>

\* set_access(): a read-only file is unlocked for the write.
UnlockFile(e) ==
    /\ at[e] = "checked" /\ relock[e] /\ edits < MaxTexts
    /\ file' = [file EXCEPT !.readOnly = FALSE]
    /\ edits' = edits + 1
    /\ at' = [at EXCEPT ![e] = "unlocked"]
    /\ UNCHANGED <<seen, stamp, relock, kept, sent>>

MayPut(e) == at[e] = "unlocked" \/ (at[e] = "checked" /\ ~relock[e])

\* put(): the bytes, then the attributes the row had; a file that is read-only
\* again is refused.
PutFile(e) ==
    /\ MayPut(e) /\ edits < MaxTexts
    /\ ~file.readOnly
    /\ \E text \in Texts \ {file.holds} :
           /\ file' = [file EXCEPT !.holds = text]
           /\ sent' = [sent EXCEPT ![e] = text]
    /\ edits' = edits + 1
    /\ at' = [at EXCEPT ![e] = "written"]
    /\ UNCHANGED <<seen, stamp, relock, kept>>

LockAgain(e) ==
    /\ at[e] = "written"
    /\ file' = [file EXCEPT !.readOnly = @ \/ relock[e]]
    /\ edits' = IF relock[e] THEN edits + 1 ELSE edits
    /\ edits' <= MaxTexts
    /\ seen' = [seen EXCEPT ![e] = sent[e]]
    /\ at' = [at EXCEPT ![e] = "open"]
    /\ UNCHANGED <<stamp, relock, kept, sent>>

\* A call fails: the checkpoint comes back, a new file to the file system.
SaveFails(e) ==
    /\ at[e] # "open" /\ edits < MaxTexts
    /\ file' = kept[e]
    /\ edits' = edits + 1
    /\ at' = [at EXCEPT ![e] = "open"]
    /\ UNCHANGED <<seen, stamp, relock, kept, sent>>

\* Mistake: only the size of the image is compared, which an edit keeps.
WriteRawBySize(e) ==
    /\ at[e] = "open" /\ seen[e] # NoText /\ edits < MaxTexts
    /\ \E text \in Texts \ {seen[e]} :
           /\ file' = [file EXCEPT !.holds = text]
           /\ seen' = [seen EXCEPT ![e] = text]
    /\ edits' = edits + 1
    /\ stamp' = [stamp EXCEPT ![e] = edits']
    /\ UNCHANGED <<at, relock, kept, sent>>

\* write_raw_image(): version, changes and write under one lock.  The bytes of
\* the image are written whatever the attributes of the file say.
WriteRaw(e) ==
    /\ at[e] = "open" /\ seen[e] # NoText /\ edits < MaxTexts
    /\ stamp[e] = edits
    /\ \E text \in Texts \ {seen[e]} :
           /\ file' = [file EXCEPT !.holds = text]
           /\ seen' = [seen EXCEPT ![e] = text]
    /\ edits' = edits + 1
    /\ stamp' = [stamp EXCEPT ![e] = edits']
    /\ UNCHANGED <<at, relock, kept, sent>>

EditorNext ==
    \E e \in Editors :
        \/ OpenEditor(e) \/ CheckFile(e) \/ UnlockFile(e)
        \/ PutFile(e) \/ LockAgain(e) \/ SaveFails(e) \/ WriteRaw(e)
EditorSpec == EditorInit /\ [][EditorNext]_editorVars
-----------------------------------------------------------------------------
\* A write to the raw image with the hex editor changes exactly the bytes its
\* user saw (hex_service.py:259), however many other saves are in flight.
RawWriteIsCurrent ==
    [][\A e \in Editors :
           file.holds # file'.holds /\ at[e] = "open" /\ stamp'[e] = edits' /\ edits' > edits
               => file.holds = seen[e]]_editorVars

\* "The stale-file check prevents one editor from silently replacing a newer
\* change made elsewhere in the workspace" (docs/FILE-EDITOR-GUIDE.md:25).
SaveIsCurrent ==
    [][\A e \in Editors :
           at[e] \in {"checked", "unlocked"} /\ at'[e] = "written" => file.holds = seen[e]]_editorVars
=============================================================================
