SPECIFICATION Spec
CONSTANTS
    None = None
    Slots = {1, 2}
    MovesOf <- MCMovesOf
    MaxRetries = 1
INVARIANTS
    TypeOK
    OwnChangesAreShown
PROPERTIES
    NothingIsAskedTwice
    SavingSettles
CHECK_DEADLOCK FALSE
