SPECIFICATION Spec
CONSTANTS
    Requests = {r1, r2, r3}
    Table = Table
    Unsaid = Unsaid
    Beyond = Beyond
    NoFile = NoFile
    Parts = {0, 1}
    Kinds = {"delete", "list"}
    Concurrent = FALSE
SYMMETRY Symmetric

PROPERTY EditsLandWhereNamed
