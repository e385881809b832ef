SPECIFICATION Spec
CONSTANTS
    Provisioners = {p1, p2}
    Keys = {1, 2}
    Steps = 2
    WriteSteps = {2}
    RetryLimit = 0
    MaxAttempts = 2
    MaxJobs = 1
    MaxBots = 1
SYMMETRY Symmetry
CHECK_DEADLOCK FALSE
INVARIANTS
    TypeOK
    TrustedKeyInUse
    StepOfLatestAttempt
    BotsKeepTheirHost
PROPERTIES
    FinishedByItsHolder
    FailureKeepsItsStep
    ClaimIsAFencedLease
