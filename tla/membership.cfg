SPECIFICATION Spec
CONSTANTS
    Members = {m1, m2}
    Addresses <- MCAddresses
    Lower <- MCLower
    HelloAssoItems = {h1}
    CercleItems = {c1}
    MaxSold = 1
    MaxReports = 2
    MaxSeason = 1
    MayGiveUp = TRUE
    None = None
SYMMETRY Symmetry
INVARIANTS
    TypeOK
    NoMissedLink
    SeasonIsTheSources
PROPERTIES
    LinksAreKept
    LinkedByAddress
