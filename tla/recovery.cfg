SPECIFICATION Spec
CONSTANTS
    Members = {m1, m2}
    MaxGrants = 2
    MaxAttempts = 2
    Calls = {c1, c2, c3}
    None = None
SYMMETRY Symmetry
INVARIANTS
    TypeOK
    OnlyLatestValid
    NoSecondSignIn
    MismatchesCounted
PROPERTIES
    DeadStaysDead
    ValidUntilSpent
