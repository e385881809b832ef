SPECIFICATION Spec
CONSTANTS
    Calls = {c1, c2}
    Wanted = {"save"}
    MaxIds = 3
    Stalls = TRUE
    MayCrash = TRUE
PROPERTIES
    SavesBuildOnTheLatest
CHECK_DEADLOCK FALSE
