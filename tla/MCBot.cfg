SPECIFICATION BotSpec
CONSTRAINT Apart
SYMMETRY ActorsAlike
CONSTANTS
    LocalTime <- ChangingDays
    CommandTimes <- TwoTimes
    CatchUpGrace = 2
    Windows = {"night", "noon"}
    SleepCalls = {a1, a2}
    MaxVersions = 2
    MaxFailures = 2
    Collectors = {a1, a2}
    ListNames = {l1, l2}
    Replays = {r1}
    Usable = {r1}
    MaxChunk = 1
    KeptPerKind = 1
    MaxEntries = 2
    MaxRenames = 1
    MaxSweeps = 2
    Viewers = {"ann", "ben"}
    Tabs <- OpenTabs
    SettingsFields = {sf}
    BotFields = {bf}
    MaxConfigs = 3
    MaxEdits = 2
    MaxPresses = 3
    MaxFormFaults = 1
    SetupBots = {b1}
    Managed = {"login", "password"}
    Fixed = {"sentry"}
    Operated = {"file"}
    SecretKeys = {"password"}
    Expanding = {"file"}
    MaxTampers = 1
    MaxSaves = 1
    MaxChecks = 2
    Readers = {a1, a2}
    ChannelLimit = 1
    MaxOpens = 2
    MaxIdentity = 2
    MaxReads = 5
    PollEvery = 1
    Second = 2
    SuspectToDown = 2
    OfflineAfter = 3
    BucketSize = 2
    BucketCount = 3
    MaxPollTime = 6
    MaxStatusFaults = 1
    MaxPollRestarts = 1
    MaxHostTurns = 3
    LiveSlots = {a1, a2}
    ItemSlots = {9, 36}
    Hotbar = {36}
    MaxAge = 1
    MaxLiveTime = 2
    MaxPressed = 3
    MaxUnitStops = 2
    HexDigits = 1
    MaxCharacters = 5
INVARIANTS
    ScheduledAsSet
    NothingLostUncollected
    OnlyEditsAreSaved
    CheckIsHonest
    ConnectionsAreSound
    ReachabilityIsHonest
    ConsoleIsSound
CHECK_DEADLOCK FALSE
