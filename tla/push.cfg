SPECIFICATION Spec
CONSTANTS
    m1 = m1
    m2 = m2
    b1 = b1
    Members = {m1, m2}
    Browsers = {b1}
    HomeOf <- MCHomeOf
    None = None
    MaxSerial = 7
    MaxMoves = 4
INVARIANTS
    TypeOK
PROPERTIES
    EnablingRestoresDelivery
    EnablingSettles
CHECK_DEADLOCK FALSE
