SPECIFICATION Spec
CONSTANTS
    Undefined = Undefined
    h1 = h1
    h2 = h2
    k1 = k1
    k2 = k2
    NaN = NaN
    Invalid = Invalid
    Transforms = {"geolocate", "reversedns", "failing"}
    Allowed = {"reversedns", "failing"}
    Broken = {"failing"}
    RawDuration = 1
    ImageDuration = 3
    Instns <- Shapes
    Granularity = 2
    Hosts = {h1, h2}
    Keys = {k1, k2}
    Los = {0, 10}
    FirstTime = 3
    LastTime = 4
    MaxUpdates = 2
    MaxExpires = 1
    MaxCrashes = 1
    MaxLoads = 1
INVARIANTS
    Accurate
    ImageWhole
    Consistent
    ReportingTrue
CHECK_DEADLOCK FALSE
SYMMETRY Symmetry
