SPECIFICATION Spec
CONSTANTS
    Events = {e1, e2}
    Dests = {d1}
    Announcers = {a1, a2}
    Workers = {w1}
    Serves <- SharedQueue
    RetryLimit = 2
    MaxRetries = 2
    MaxFaults = 1
SYMMETRY Symmetry
INVARIANTS
    AlertsAreKept
PROPERTIES
    DeliveredIsFinal
CHECK_DEADLOCK FALSE
