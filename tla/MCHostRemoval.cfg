SPECIFICATION FairSpec
CONSTANTS
    Provisioners = {p1}
    Keys = {1}
    Steps = 1
    WriteSteps = {1}
    RetryLimit = 1
    MaxAttempts = 2
    MaxJobs = 2
    MaxBots = 1
CHECK_DEADLOCK FALSE
INVARIANTS
    RemovalIsPending
PROPERTIES
    RemovedOnlyWhenCleaned
    TeardownSettles
