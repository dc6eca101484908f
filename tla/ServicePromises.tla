-------------------------- MODULE ServicePromises ---------------------------
(***************************************************************************)
(* What several services promise together.  Each of them keeps its part in *)
(* a state of its own, so a promise holds when every one of them keeps its *)
(* part.                                                                   *)
(***************************************************************************)
EXTENDS ImagePatch, NamePolicy, VolumeTransfer, Staging, SessionStore, Emulator,
        FileEditor, Recipes, Catalogue

\* What a browser was answered is there after any restart, as the kind its
\* bytes have, and a running emulator has the medium it was started with.
SessionsAnswerAsKept == AnsweredIsKept /\ KindFollowsBytes /\ RunsKeepTheirMedia

\* Files that are copied, renamed, patched or staged together arrive whole or
\* not at all, and no two of them become one.
TransfersAreWhole ==
    TransferIsWhole /\ DistinctStayDistinct /\ PatchIsWhole /\ ConflictsAreReal

\* What is written follows a check that is still true: the raw image, the
\* output of a recipe, and the item that a search offered.
WritesFollowChecks == RawWriteIsCurrent /\ PublishedIsRecorded /\ InstalledWasOffered
=============================================================================
