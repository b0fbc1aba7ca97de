SPECIFICATION FairSpec
CONSTANTS
    Mib = 8
    BitsPerByte = 4
    SectorsPerBitmap = 8
    Chain <- MCChain
    ReadLen = {1, 5, 11}
    Offset <- MCOffset
    I64Max = 31
    Unreliable <- MCUnreliable
    MaxFaults = 2
INVARIANTS TypeOK CallsNest ParentOnlyForAbsent BitIsTheSectors
PROPERTIES CallsReturn ReaderIsDisk
