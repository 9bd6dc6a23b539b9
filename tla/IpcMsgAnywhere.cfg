SPECIFICATION IpcSpec
CONSTANTS
    MAX_TASKS = 2
    Family = 2
    MaxPid = 2
    Calls <- MsgChaos
    WaitPids <- NoPids
    PreemptAt <- Everywhere
    MAX_SEMS = 0
    MAX_MSGQUEUES = 1
    MSGQUEUE_SIZE = 2
    MSG_MAX_DATA = 2
    MaxIds = 2
    MaxValue = 1
    SemInits <- Binary
    Payloads <- OneMessage
    SendLens <- LongLen
INVARIANTS IpcTypeOK 
 
CHECK_DEADLOCK FALSE
