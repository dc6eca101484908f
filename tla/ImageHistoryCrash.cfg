SPECIFICATION Spec
CONSTANTS
    NoRequest = NoRequest
    Requests = {r1, r2, r3}
    Names = {"old"}
    AutoLimit = 3
    Kinds = {"edit", "save", "restore", "named"}
    Concurrent = TRUE
    MayCrash = TRUE
SYMMETRY Symmetric
INVARIANT EveryEditUndoable
