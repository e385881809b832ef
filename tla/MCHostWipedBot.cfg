SPECIFICATION Spec
CONSTANTS
    Provisioners = {p1}
    Keys = {1, 2}
    Steps = 1
    WriteSteps = {1}
    RetryLimit = 1
    MaxAttempts = 2
    MaxJobs = 2
    MaxBots = 1
CHECK_DEADLOCK FALSE
INVARIANT NoBotOnAHostBeingCleaned
