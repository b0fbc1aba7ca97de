SPECIFICATION FairSpec
CONSTANTS
    Kind = {"file", "sub", "mem", "reader"}
    Base = 1
    Size <- MCSize
    Request <- MCRequest
    MaxFaults = 2
    MaxResizes = 2
INVARIANTS TypeOK OwnBytesOnly ShortOnlyAtEnd RegionIsWhole
PROPERTY CallsReturn
