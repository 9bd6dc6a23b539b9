SPECIFICATION Spec
CONSTANTS
    HEAP_SIZE = 64
    U32 = 256
    Callers <- OneCaller
    Sizes <- SomeSizes
    Junk <- Tags
    Preempt = FALSE
INVARIANTS HeapTiled OwnedDisjoint NothingLost
PROPERTIES NullOnlyWhenFull
