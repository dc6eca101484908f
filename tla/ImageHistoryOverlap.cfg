SPECIFICATION Spec
CONSTANTS
    NoRequest = NoRequest
    Requests = {r1, r2, r3}
    Names = {"old", "new"}
    AutoLimit = 1
    Kinds <- AllKinds
    Concurrent = TRUE
    MayCrash = FALSE
SYMMETRY Symmetric
INVARIANT NamesFollowImage
PROPERTY NamedPointKept
