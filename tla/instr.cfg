SPECIFICATION Spec
CONSTANTS
    dt = dt
    zf = zf
    zg = zg
    pr = pr
    Backend <- BackendOf
    Uses <- Reads
    StaleAfter <- Stale
    Cols <- Columns
    Insts = {dt, zf, zg, pr}
    Progs = {"p1", "p2"}
    Unsupported = {}
    Grans = {3, 4}
    GranularityMax = 2
    FirstSecond = 4
    LastSecond = 6
    MaxLives = 1
    MaxEnablings = 3
INVARIANTS
    Conserved
    AckTruth
    ProcAttended
CHECK_DEADLOCK FALSE
