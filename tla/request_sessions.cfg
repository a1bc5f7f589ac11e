SPECIFICATION FairSpec
CONSTANTS
    None = None
    Objects = {"one"}
    PoolThreads = 2
    Requests <- MCRequests
    Route <- MCRoute
    Subject <- MCSubject
    KeyOf <- MCKeyOf
INVARIANTS
    LoopTypeOK
    LoopWaitsForThreadsOnly
PROPERTY AnsweredIsCommitted
