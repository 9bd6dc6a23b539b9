SPECIFICATION WorkSpec
CONSTANTS
    MAX_TASKS = 4
    Family = 4
    MaxPid = 4
    Calls <- Work
    WaitPids <- NoPids
    PreemptAt <- OutsideRaces
    MAX_SEMS = 1
    MAX_MSGQUEUES = 1
    MSGQUEUE_SIZE = 2
    MSG_MAX_DATA = 2
    MaxIds = 1
    MaxValue = 2
    SemInits <- NegativeOrOne
    Payloads <- OneMessage
    SendLens <- WithinLen
INVARIANTS SemAccounting ReadyQueueExact NoWaiterWithUnits NoLostMessageWakeup
PROPERTIES MessageGetsThrough
