SPECIFICATION FairSpec
CONSTANTS
    MAX_TASKS = 3
    MaxPid = 5
    Calls <- InitStays
    WaitPids <- AnyOrFirst
    PreemptAt <- OutsideRaces
INVARIANTS ReadyQueueExact TableExact NoLostWakeup
PROPERTIES  ZombieUntilReaped ReadyEventuallyRuns WaitReturns
