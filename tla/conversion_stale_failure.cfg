SPECIFICATION FairSpec
CONSTANTS
    score = score
    bombard = bombard
    None = None
    Source = Source
    Containers = {c1}
    MaxUploads = 2
    Parts = {score, bombard}
    PartsOf <- MCPartsOf
    MaxFaults = 0
INVARIANT FailureIsOfCurrentSource
\* Every upload is spent in the end.
CHECK_DEADLOCK FALSE
