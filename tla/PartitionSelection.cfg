SPECIFICATION Spec
CONSTANTS
    Requests = {r1, r2, r3}
    Table = Table
    Unsaid = Unsaid
    Beyond = Beyond
    NoFile = NoFile
    Parts = {0, 1}
    Kinds = {"edit", "delete", "list", "search", "undo"}
    Concurrent = FALSE
SYMMETRY Symmetric
INVARIANTS TypeOK StoredIsCurrent
PROPERTIES EditsLandWhereMeant ListingShowsMeant SelectionPutBack AnswerDescribesNamed
