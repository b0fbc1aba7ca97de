SPECIFICATION AuditSpec
CONSTANTS
    ContainerLen = 4
    OffsetEnd = 10
    MaxAlloc = 5
    SectorLen = 2
    LogLen = 3
    MaxRead = 2
    MaxSeq = 2
    Byte <- MCByte
    ZeroByte = 0
    Disk <- MCDisk
    Guid = {g, h}
    g = g
    h = h
    NoGuid = NoGuid
    NoEntry = NoEntry
    Header <- MCHeader
    Entry <- MCOverrun
INVARIANT NeverPanics
CHECK_DEADLOCK FALSE
