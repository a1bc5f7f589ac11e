SPECIFICATION Spec
CONSTANTS
    Members = {m1, m2}
    Events = {e1}
    Cooldown <- MCCooldown
    MaxTime <- MCMaxTime
    None = None
INVARIANTS
    TypeOK
    LogIsAStory
    WithdrawalsAreTold
PROPERTY
    LogIsTheHistory
