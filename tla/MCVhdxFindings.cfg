SPECIFICATION Spec
CONSTANTS
    Mib = 2
    BitsPerByte = 1
    SectorsPerBitmap = 4
    Image <- MCImage
    WordsPerCell = 1
    ReservedEnd = 1
    BlockSizes = {2, 4}
    SectorSizes = {2, 4}
    DefaultSector = 2
    MaxDisk = 24
    AnalyserItems = 3
    ComparedItems = 4
INVARIANTS GeometryAgrees QuietMeansReadable CoverageBrackets SharedPlaceReported ItemOverlapReported SlotsAgree RemnantsReported
CHECK_DEADLOCK FALSE
