SPECIFICATION Spec
CONSTANTS
    m1 = m1
    m2 = m2
    b1 = b1
    Members = {m1, m2}
    Browsers = {b1}
    HomeOf <- MCHomeOf
    None = None
    MaxSerial = 3
    MaxMoves = 1
PROPERTIES
    DeadDevicesReconnect
CHECK_DEADLOCK FALSE
