SPECIFICATION Spec
CONSTANTS
    NoRequest = NoRequest
    Requests = {r1, r2, r3}
    Names = {"old"}
    AutoLimit = 3
    Kinds = {"edit", "undo"}
    Concurrent = TRUE
    MayCrash = FALSE
SYMMETRY Symmetric
INVARIANT FailedEditIsGone
