SPECIFICATION Spec
CONSTANTS
    Calls = {c1, c2}
    Wanted = {"start", "restart", "stop", "remove", "save", "signin", "complete", "cancel"}
    MaxIds = 3
    Stalls = FALSE
    MayCrash = TRUE
SYMMETRY Symmetries
INVARIANTS
    OneChangeAtATime
    HostAsReported
CHECK_DEADLOCK FALSE
