SPECIFICATION ProgSpec
CONSTANTS
    MAX_TASKS = 2
    Family = 1
    MaxPid = 3
    Calls <- AllCalls
    WaitPids <- NoPids
    PreemptAt <- OutsideRaces
    MAX_SEMS = 1
    MAX_MSGQUEUES = 1
    MSGQUEUE_SIZE = 2
    MSG_MAX_DATA = 2
    MaxIds = 1
    MaxValue = 1
    SemInits <- One
    Payloads <- OneMessage
    SendLens <- WithinLen
INVARIANT StackKept
CHECK_DEADLOCK FALSE
