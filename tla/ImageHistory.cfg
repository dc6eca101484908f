SPECIFICATION Spec
CONSTANTS
    NoRequest = NoRequest
    Requests = {r1, r2, r3, r4}
    Names = {"old", "new"}
    AutoLimit = 2
    Kinds <- AllKinds
    Concurrent = FALSE
    MayCrash = FALSE
SYMMETRY Symmetric
INVARIANTS TypeOK CleanMeansSaved StoredIsCurrent FailedEditIsGone
PROPERTIES FinishedEditKept ImplementsUndoHistory
