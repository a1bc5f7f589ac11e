SPECIFICATION Spec
CONSTANTS
    Accounts = {a1, a2, a3}
    SignedIn = {a1, a2, a3}
    Chosen = a1
    Tabs = {t1, t2}
    NoAccount = NoAccount
    MaxMoves = 2
INVARIANTS
    TypeOK
    UndisturbedTabIsOneAccount
PROPERTIES
    OnlyTheShownSignsOut
    TabsConverge
