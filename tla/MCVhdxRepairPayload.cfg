SPECIFICATION ReopenSpec
CONSTANTS
    Units = 6
    Words = 5
    Blocks = 3
    ChunkRatio = 2
    Case <- MCDisagreeCase
    MaxAttempts = 1
INVARIANT PayloadNeverAltered
CHECK_DEADLOCK FALSE
