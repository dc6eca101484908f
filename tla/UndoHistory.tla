----------------------------- MODULE UndoHistory -----------------------------
(***************************************************************************)
(* What the undo menu and the checkpoint dialog promise about one image:   *)
(* a document with the stack of its earlier contents, and contents that    *)
(* were kept under a name.  A change pushes the content it replaces, undo  *)
(* takes the newest back, a restore is a change to a content kept before.  *)
(* Only the newest Limit contents survive a change.                        *)
(***************************************************************************)
EXTENDS Naturals, SequencesExt

CONSTANTS
    Contents,   \* what an image can contain
    Limit       \* earlier contents a change leaves

VARIABLES
    doc,        \* the content of the image
    past,       \* its earlier contents, oldest first
    kept        \* the contents of the named checkpoints

Newest(s) == IF Len(s) <= Limit THEN s ELSE SubSeq(s, Len(s) - Limit + 1, Len(s))

Init == doc \in Contents /\ past = <<>> /\ kept = {}

Change ==
    /\ doc' \in Contents
    /\ past' = Newest(Append(past, doc))
    /\ UNCHANGED kept

Undo ==
    /\ past # <<>>
    /\ doc' = Last(past)
    /\ past' = Front(past)
    /\ UNCHANGED kept

\* Not limited: a restore only ever adds to the past.
Restore ==
    /\ doc' \in kept \cup ToSet(past) \cup {doc}
    /\ past' = Append(past, doc)
    /\ UNCHANGED kept

Keep == kept' = kept \cup {doc} /\ UNCHANGED <<doc, past>>

\* Deleting a checkpoint in the dialog.
Discard ==
    /\ UNCHANGED doc
    /\ \/ \E i \in 1 .. Len(past) : past' = RemoveAt(past, i) /\ UNCHANGED kept
       \/ kept' \in SUBSET kept /\ UNCHANGED past

Next == Change \/ Undo \/ Restore \/ Keep \/ Discard

Spec == Init /\ [][Next]_<<doc, past, kept>>
=============================================================================
