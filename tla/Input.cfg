SPECIFICATION FairSpec
CONSTANTS
    KEYBOARD_BUFFER_SIZE = 3
    MOUSE_BUFFER_SIZE = 2
    KeyQueue = 1
    Keys <- SomeKeys
    Packets <- SomePackets
    Readers <- OneReader
    ReadLens <- Lengths
    MousePreempt = FALSE
INVARIANTS KeysInOrder ReadsOldest
PROPERTIES PacketsStayWhole KeyEndsWait
