SPECIFICATION OperatorSpec
CONSTRAINT Apart
SYMMETRY Alike
CONSTANTS
    Ticks = {a1, a2}
    Zone <- ChangingZone
    Variants <- AllVariants
    Steps = 1
    Grace = 1
    SignalCatchUp = 1
    AbandonAfter = 0
    RunRetention = 2
    SignalRetention = 2
    Rounds = 2
    JournalMax = 1
    TickMax = 1
    MaxJoins = 2
    MaxStops = 1
    MaxTaskEdits = 2
    MaxCrashes = 1
    People = {p1, p2}
    Invites = {m1, m2}
    AccessRequests = {a1, a2}
    MaxUsers = 3
    MaxCallsMade = 5
    MaxAccessFaults = 1
    AlertPages = {a1, a2}
    Dests = {d1}
    Existing = d1
    Messages = {m1, m2}
    Addresses <- PlainAddress
    Kinds = {"webhook"}
    TeamsHosts = {}
    Overlap = 1
    TestWindow = 0
    TestsPerWindow = 1
    TestsPerOrganisation = 2
    FailuresPerPage = 1
    MaxAlertTime = 2
    MaxKeys = 3
    MaxPresses = 4
    TaskPages = {a1, a2}
    Lines = {"say", "token"}
    Unsendable = {"token"}
    Signals = {"login"}
    WeekDays = {1}
    MaxSteps = 2
    MaxTimes = 1
    MaxTasks = 3
    MaxTyped = 4
    MaxSent = 2
    MaxLost = 1
INVARIANTS
    TasksRunAndAreRecorded
    TasksAreAsEdited
    AccessIsKept
    DestinationsAreKept
CHECK_DEADLOCK FALSE
