SPECIFICATION FairSpec
CONSTANTS
    Junk = Junk
    None = None
    Longer <- Apart
    Buckets = {b1, b2}
    Vals = {v1, v2}
    Rands = {1, 2}
    MaxRequests = 3
    MaxCrashes = 2
    MaxErrors = 1
INVARIANTS
    Bootable
PROPERTIES
    Atomic
    Answered
    OkMeansDone
CHECK_DEADLOCK FALSE
