SPECIFICATION Spec
CONSTANTS
    INODES = 5
    BLOCKS = 6
    DATA_START = 2
    BLOCK_SIZE = 2
    DIRECT = 2
    MAX_FILES = 1
    Names <- EqualNames
    Values <- TwoValues
    MaxCount = 2
    MaxCrashes = 1
    CrashAt <- NotInFormat
INVARIANTS EntriesValid BlocksOwned ContentKept  NothingLeaks
