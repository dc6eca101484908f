----------------------- MODULE ImageHistoryRefinement -----------------------
(***************************************************************************)
(* When the requests on an image come one after another and the process    *)
(* does not die, ImageHistory implements UndoHistory.                      *)
(*                                                                         *)
(* While a request is in flight, the automatic point it took is not yet    *)
(* part of the past: it still is the document.  The request takes effect   *)
(* when it is finished; an undo takes effect when the image is replaced.   *)
(***************************************************************************)
EXTENDS ImageHistory, SequencesExt

\* Points, oldest first: before the i-th there are i - 1 older ones.
Older(p, ps) == {q \in ps : q.id < p.id}
Ordered(ps) ==
    [i \in 1 .. Cardinality(ps) |-> CHOOSE p \in ps : Cardinality(Older(p, ps)) = i - 1]
Images(ps) == [i \in 1 .. Cardinality(ps) |-> Ordered(ps)[i].image]

InDoubt == \E r \in InFlight : kind[r] \in Changing \cup {"save", "restore"}
Undoing == \E r \in InFlight : kind[r] = "undo"
Newest == CHOOSE p \in points : Latest(p)

Doc == IF InDoubt THEN Newest.image ELSE image
Past == Images(IF InDoubt \/ Undoing THEN Autos(points) \ {Newest} ELSE Autos(points))
NamedContents == {p.image : p \in points \ Autos(points)}

History == INSTANCE UndoHistory WITH
    Limit <- AutoLimit, doc <- Doc, past <- Past, kept <- NamedContents

\* Edits, failed requests, undo, restore and named checkpoints together behave
\* as a document with a stack of earlier contents: a failed request and one
\* that changed nothing leave no trace in the stack.
ImplementsUndoHistory == History!Spec

\* Requests differ in nothing but their names.
Symmetric == Permutations(Requests)
=============================================================================
