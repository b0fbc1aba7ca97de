SPECIFICATION Spec
CONSTANTS
    Thread = {t1, t2}
    NoOwner = NoOwner
    DiskLen = 5
    BlockSize = 2
    Request <- MCRequest
    Backing = {"cursor"}
    MaxCalls = 2
    MaxFaults = 0
    MaxPanics = 1
INVARIANT NeverWedged
CHECK_DEADLOCK FALSE
