SPECIFICATION FairSpec
CONSTANTS
    Thread = {t1, t2}
    NoOwner = NoOwner
    DiskLen = 5
    BlockSize = 2
    Request <- MCRequest
    Backing = {"positioned", "cursor"}
    MaxCalls = 2
    MaxFaults = 1
    MaxPanics = 2
INVARIANTS TypeOK ReaderIsOwned BackingUncontended OwnBytes FailuresAreOwn
PROPERTIES CallsReturn SourceIsPositioned
CHECK_DEADLOCK FALSE
