SPECIFICATION Spec
CONSTANTS
    LINE = 4
    HISTORY_MAX = 2
    MAX_ARGS = 1
    Chars <- AAndSpace
    SPACE = " "
    NUL = "0"
    Junk <- EndsInNul
    MaxKeys = 12
INVARIANT StringsEnd
PROPERTY RefinesEditor
CHECK_DEADLOCK FALSE
