SPECIFICATION Spec
CONSTANTS
    t1 = t1
    t2 = t2
    z1 = z1
    z2 = z2
    Threads = {t1, t2}
    ZoneOf <- ZoneOfThread
    Programs <- Sane
    MaxOps = 2
    Args = {1, 2}
    Second = {"fop_read", "fop_open"}
INVARIANTS ScriptsSound CountedOnce NothingLeft
CHECK_DEADLOCK FALSE
