SPECIFICATION ReopenSpec
CONSTANTS
    Units = 6
    Words = 5
    Blocks = 3
    ChunkRatio = 2
    Case <- MCCase
    MaxAttempts = 2
INVARIANTS ChoiceKept OnlyDamageChanges DamageIsTheLogs RepairIsStable QuietCopiesInterchange PathsOpenAlike OpensCommitted
CHECK_DEADLOCK FALSE
