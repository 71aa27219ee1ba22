SPECIFICATION FairSpec
CONSTANTS
    Jobs <- MCJobs
    KindOf <- MCKindOf
    Plans <- MCPlans
    MaxGather = 2
    MaxJobs = 3
INVARIANTS TypeOK OpenSocketsOwned ListedOpen CloseJoinsGathering
PROPERTIES FollowsCycle  
CHECK_DEADLOCK FALSE
