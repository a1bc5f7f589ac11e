SPECIFICATION FairSpec
CONSTANTS
    score = score
    bombard = bombard
    None = None
    Source = Source
    Containers = {c1}
    MaxUploads = 3
    Parts = {score, bombard}
    PartsOf <- MCPartsOf
    MaxFaults = 1
INVARIANTS
    TypeOK
    LiveRowsServable
    UnsettledHasWorker
    NoStaleOutputs
    CompletedIsWhole
    OutputsAccountedFor
PROPERTY PendingIsSettled
\* Every upload is spent in the end: the bound, not the system, stops.
CHECK_DEADLOCK FALSE
