SPECIFICATION OnboardingSpec
CONSTRAINT Apart
SYMMETRY Alike
CONSTANTS
    Machines <- NearMachines
    Runs = {a1, a2}
    MaxRuns = 2
    HostAddresses = {h1}
    SshKeys = {k1}
    Accounts = {u1}
    Prints = {f1, f2}
    Blank = Blank
    MaxSwaps = 1
    MaxEdits = 3
    MaxCalls = 4
    Administrators = {a1, a2}
    MaxScripts = 3
    MaxOutside = 1
    CheckInterval = 4
    MaxVersion = 3
    MaxUpdateTime = 5
    MaxUpdateFaults = 1
    MaxBlocks = 3
    MaxLines = 4
    ByteBits = 2
    NeverRanges <- NeverHere
    SoftRanges <- SoftHere
    GlobalRange <- GlobalHere
    AllowHttp = TRUE
    AllowedHosts = {"inside"}
    AllowedRanges <- AllowedHere
    Settings <- SomeSettings
    DnsAnswers <- SomeAnswers
    Recipients = 2
    MaxTurns = 2
    MaxTries = 2
    Servers = {a1, a2}
    Builds = {m1, m2}
    NoBuild = NoBuild
    StaleAfter = 0
    MaxFleetTime = 1
    MaxBoots = 3
    MaxBroken = 1
INVARIANTS
    PreparationIsHonest
    EnrolmentIsVetted
    SelfHostKeepsItsWord
    UpdatesAreOffered
    NotesAreWhole
    ControlPlaneIsSound
    SendsAreSafe
CHECK_DEADLOCK FALSE
