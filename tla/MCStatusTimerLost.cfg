SPECIFICATION FairSpec
CONSTANTS
    Server = server
    Workers = {w1}
    Grace = 1
    BatchLines = 2
    FlapLosses = 2
    FlapWindow = 2
    RetryLimit = 0
    MaxSignals = 2
    MaxIncidents = 2
    MaxAfresh = 1
    Horizon = 2
PROPERTY InterruptedSettles
CHECK_DEADLOCK FALSE
