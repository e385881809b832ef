SPECIFICATION FairSpec
CONSTANTS
    Events = {e1, e2}
    Dests = {d1}
    Announcers = {a1}
    Workers = {w1, w2}
    Serves <- SharedQueue
    RetryLimit = 2
    MaxRetries = 0
    MaxFaults = 0
INVARIANTS
    HealthIsLatest
PROPERTIES
    QueuedSettles
CHECK_DEADLOCK FALSE
