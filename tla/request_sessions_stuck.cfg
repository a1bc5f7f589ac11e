SPECIFICATION FairSpec
CONSTANTS
    None = None
    Objects = {"one"}
    PoolThreads = 3
    Requests <- SaveRequests
    Route <- SaveRoute
    Subject <- SaveSubject
    KeyOf <- SaveKeyOf
PROPERTY AnsweredIsCommitted
CHECK_DEADLOCK FALSE
