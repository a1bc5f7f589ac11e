SPECIFICATION Spec
CONSTANTS
    c1 = c1
    c2 = c2
    a = a
    b = b
    k = k
    x = x
    score = score
    sheet = sheet
    Clients = {c1, c2}
    Names = {a, b, k, x}
    Items = {score, sheet}
    NameOf <- MCNameOf
    IsSource <- MCIsSource
    InitialTree <- MCTree
    Root = 1
    OpenAt <- MCOpenAt
    Workers = 1
    None = None
    MaxMoves = 2
INVARIANTS
    TypeOK
    UncrossedMovesKeepTheTree
PROPERTIES
    OverwritesWhatIsNamed
    BatchesSettle
CHECK_DEADLOCK FALSE
