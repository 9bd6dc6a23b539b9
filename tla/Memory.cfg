SPECIFICATION Spec
CONSTANTS
    MAX_TASKS = 3
    PAGE_SIZE = 2
    PTES = 3
    USER_STACK_PAGES = 1
    NFRAMES = 24
    BOOT_FRAMES = 4
    PROG_PD = 2
    STACK_PD = 8
    DEVICE_PD = 9
    NicPages = {1, 2}
    FbPages = 3
    Programs <- Files
    Touched <- OneTouched
    Writes <- OneWord
    Hardware <- AllMachines
    MaxCalls = 3
    PreemptAt <- OutsideRaces
INVARIANTS FramesHeldOnce DevicesReachable FaultsOnlyOnFrameBuffer
PROPERTY RefinesSpaces
CHECK_DEADLOCK FALSE
