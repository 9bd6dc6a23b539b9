SPECIFICATION Spec
CONSTANTS
    FB_WIDTH = 5
    FB_HEIGHT = 4
    CURSOR_WIDTH = 2
    CURSOR_HEIGHT = 2
    Ink <- Arrow
    WM_MAX_WINDOWS = 3
    WM_BORDER_WIDTH = 1
    WM_TITLE_HEIGHT = 1
    WM_CLOSE_BTN_W = 1
    WM_CLOSE_BTN_H = 1
    WM_CLOSE_BTN_MARG = 0
    Boot <- ThreeWindows
    Geo <- Overlapping
    Moves <- Steps
    MaxBatch = 2
    MaxZ = 9
INVARIANTS StackSound SeenIsClicked NoCursorTrail
PROPERTIES ClosesOnlyPressed
