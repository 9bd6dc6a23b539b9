SPECIFICATION Spec
CONSTANTS
    MAX_TASKS = 3
    MaxPid = 4
    Calls <- InitStays
    WaitPids <- AnyChild
    PreemptAt <- Everywhere
INVARIANTS TypeOK RunningIsCurrent
CHECK_DEADLOCK FALSE
