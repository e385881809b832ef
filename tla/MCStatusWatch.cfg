SPECIFICATION Spec
CONSTANTS
    Server = server
    Workers = {w1}
    Grace = 1
    BatchLines = 2
    FlapLosses = 2
    FlapWindow = 2
    RetryLimit = 1
    MaxSignals = 3
    MaxIncidents = 2
    MaxAfresh = 1
    Horizon = 2
INVARIANTS
    ConditionIsCarried
    AlertsHaveCauses
    CaughtUpIsRight
PROPERTIES
    ClosedStaysQuiet
CHECK_DEADLOCK FALSE
