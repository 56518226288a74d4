SPECIFICATION Spec
CONSTANTS
    key = key
    Keys = {own, key}
    Own = own
    Confs <- ServiceAndTools
    Untimed = {1}
    Base = 2
INVARIANTS BoundWhenUp TableExact
PROPERTIES RemoteCalls Recovers
CHECK_DEADLOCK FALSE
