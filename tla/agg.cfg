SPECIFICATION FairSpec
CONSTANTS
    None = None
    h1 = h1
    r1 = r1
    Hosts = {h1}
    Requests = {r1}
    DoAdd = FALSE
    Granularity = 1
    Timeout = 1
    Recent = 1
    Ahead = 0
    Late = 0
    Retention = 2
    StashTimeout = 1
    LoadRetry = 0
    SaveInterval = 1
    FirstSecond = 3
    LastSecond = 6
    LostOps = {"get"}
    FailOps = {"put"}
    MaxFaults = 1
    MaxCommands = 2
    MaxCmds = 2
    MaxCrashes = 1
INVARIANTS
    Engaged
PROPERTIES
    NoClobber
    RequestsAnswered
CHECK_DEADLOCK FALSE
