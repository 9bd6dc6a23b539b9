------------------------------ MODULE Windows ------------------------------
(***************************************************************************)
(* The window manager and the software cursor (drivers/window.c,           *)
(* drivers/cursor.c) on the linear framebuffer.                            *)
(*                                                                         *)
(* Windows are created while the kernel boots (kernel/kernel.c); from then *)
(* on everything happens in wm_update, called by the timer's handler with  *)
(* interrupts off.  The framebuffer is modelled pixel by pixel on a small  *)
(* screen: a pixel is what was last drawn there.  Nothing clears the       *)
(* screen behind a closed window until the last one is gone; that branch   *)
(* of wm_composite also leaves fb.addr behind the end of the screen.       *)
(***************************************************************************)
EXTENDS Integers, Sequences, FiniteSets, SequencesExt

CONSTANTS
    FB_WIDTH, FB_HEIGHT,
    CURSOR_WIDTH, CURSOR_HEIGHT,
    Ink,                 \* the opaque places of the cursor sprite
    WM_MAX_WINDOWS, WM_BORDER_WIDTH, WM_TITLE_HEIGHT,
    WM_CLOSE_BTN_W, WM_CLOSE_BTN_H, WM_CLOSE_BTN_MARG,
    Boot,                \* the windows kernel_after_paging creates, in order
    Geo,                 \* Geo[w]: its x, y, content_w and content_h
    Moves,               \* displacements of mouse events
    MaxBatch,            \* bound: events one wm_update reads
    MaxZ                 \* bound: no button is pressed beyond this z_order

Windows == Range(Boot)

NULL == "null"

ASSUME WindowsAssumption ==
    /\ FB_WIDTH \in Nat /\ FB_HEIGHT \in Nat
    /\ CURSOR_WIDTH \in 1 .. FB_WIDTH /\ CURSOR_HEIGHT \in 1 .. FB_HEIGHT
    /\ Ink \subseteq (0 .. CURSOR_WIDTH - 1) \X (0 .. CURSOR_HEIGHT - 1)
    /\ WM_MAX_WINDOWS \in Nat
    /\ Boot \in Seq(Windows) /\ NULL \notin Windows
    /\ \A i, j \in 1 .. Len(Boot) : Boot[i] = Boot[j] => i = j
    /\ \A w \in Windows : Geo[w].cw \in Nat /\ Geo[w].ch \in Nat
    /\ \A d \in Moves : d[1] \in Int /\ d[2] \in Int
    /\ MaxBatch \in Nat /\ MaxZ \in Nat /\ MaxZ >= 2 * Len(Boot)

VARIABLES
    windows,    \* g_wm.windows, the list from bottom to top
    z,          \* z_order of every window
    focused,    \* g_wm.focused
    flagged,    \* the windows whose own focused flag is set
    count, needs_composite,
    cursor,     \* g_cursor.x, g_cursor.y
    saved_bg,
    base,       \* screens by which fb.addr is past the start of the framebuffer
    scr,        \* the pixels of the screen
    phase,      \* where the kernel is: boot, idle (no update runs), update, click
    n, clicked, \* events read by this wm_update, click_handled
    last,       \* wm_buttons_last, the left button
    before, ev  \* history: the button in the last two events

wmVars   == <<windows, z, focused, flagged, count>>
drawVars == <<cursor, saved_bg, base, scr>>
vars == <<windows, z, focused, flagged, count, needs_composite, cursor, saved_bg, base,
          scr, phase, n, clicked, last, before, ev>>

Screen == (0 .. FB_WIDTH - 1) \X (0 .. FB_HEIGHT - 1)
Sprite == (0 .. CURSOR_WIDTH - 1) \X (0 .. CURSOR_HEIGHT - 1)

Pixel(win, part) == [win |-> win, part |-> part]
Desktop == Pixel(NULL, "desktop")
Text    == Pixel(NULL, "text")
Pointer == Pixel(NULL, "cursor")
Junk    == Pixel(NULL, "junk")

-----------------------------------------------------------------------------
(* Geometry.                                                                 *)

Width(w)  == Geo[w].cw + WM_BORDER_WIDTH * 2
Height(w) == Geo[w].ch + WM_TITLE_HEIGHT + WM_BORDER_WIDTH

InRect(p, x, y, wd, ht) == p[1] \in x .. x + wd - 1 /\ p[2] \in y .. y + ht - 1

window_contains(w, p) == InRect(p, Geo[w].x, Geo[w].y, Width(w), Height(w))

InContent(w, p) ==
    InRect(p, Geo[w].x + WM_BORDER_WIDTH, Geo[w].y + WM_BORDER_WIDTH + WM_TITLE_HEIGHT,
           Geo[w].cw, Geo[w].ch)

wm_is_in_close_btn(w, p) ==
    InRect(p, Geo[w].x + Width(w) - WM_BORDER_WIDTH - WM_CLOSE_BTN_MARG - WM_CLOSE_BTN_W,
           Geo[w].y + WM_BORDER_WIDTH + ((WM_TITLE_HEIGHT - WM_CLOSE_BTN_H) \div 2),
           WM_CLOSE_BTN_W, WM_CLOSE_BTN_H)

\* What draw_window_frame and then draw_window_content leave at p.
Drawn(w, flags, p) ==
    Pixel(w, IF InContent(w, p) THEN "content"
             ELSE IF wm_is_in_close_btn(w, p) THEN "close"
             ELSE IF w \in flags THEN "active" ELSE "inactive")

\* Mutation of wm_get_window_at: the first window that matches.
LowestAt(l, p) ==
    LET i == SelectInSeq(l, LAMBDA w : window_contains(w, p))
    IN  IF i = 0 THEN NULL ELSE l[i]

\* The last window of the list that contains p.
wm_get_window_at(l, p) ==
    LET i == SelectLastInSeq(l, LAMBDA w : window_contains(w, p))
    IN  IF i = 0 THEN NULL ELSE l[i]

-----------------------------------------------------------------------------
(* The list.                                                                 *)

insert_sorted(l, zo, w) ==
    IF l = << >> \/ zo[w] < zo[l[1]] THEN <<w>> \o l
    ELSE LET ends == {i \in 2 .. Len(l) + 1 : i = Len(l) + 1 \/ zo[l[i]] > zo[w]}
         IN  InsertAt(l, CHOOSE i \in ends : \A j \in ends : i <= j, w)

remove_from_list(l, w) == RemoveFirst(l, w)

MaxZOf(l, zo) == LET zs == {0} \cup {zo[v] : v \in Range(l)}
                 IN  CHOOSE m \in zs : \A v \in zs : v <= m

\* Mutation of get_next_z_order: the highest value is given again.
SameZOrder(l, zo) == MaxZOf(l, zo)

get_next_z_order(l, zo) == MaxZOf(l, zo) + 1

\* wm_focus_window, on the list l and the z_order zo.
FocusVars(w, l, zo) ==
    IF focused = w
    THEN /\ flagged' = flagged \cup {w} /\ windows' = l /\ z' = zo
         /\ UNCHANGED focused
    ELSE LET zo1 == [zo EXCEPT ![w] = get_next_z_order(l, zo)]
         IN  /\ flagged' = (flagged \ {focused}) \cup {w}
             /\ focused' = w
             /\ z' = zo1
             /\ windows' = insert_sorted(remove_from_list(l, w), zo1, w)

-----------------------------------------------------------------------------
(* The framebuffer and the cursor.                                           *)

\* m with the pixels of f drawn over it, through fb.addr.
Paint(m, f) == [p \in Screen |-> IF base = 0 /\ p \in DOMAIN f THEN f[p] ELSE m[p]]

Shift(p, o) == <<p[1] + o[1], p[2] + o[2]>>

\* The block saved under the cursor, as pixels of the screen.
SavedAt(at, s) == [p \in {Shift(at, o) : o \in Sprite} |-> s[<<p[1] - at[1], p[2] - at[2]>>]]

InkAt(at) == [p \in {Shift(at, o) : o \in Ink} |-> Pointer]

\* Places outside the screen keep what was saved before.
save_background(m, at, b) ==
    [o \in Sprite |-> IF Shift(at, o) \notin Screen THEN saved_bg[o]
                      ELSE IF b = 0 THEN m[Shift(at, o)] ELSE Junk]

clamp_position(p) ==
    LET within(v, size, room) == IF v < 0 THEN 0 ELSE IF v + size > room THEN room - size ELSE v
    IN  <<within(p[1], CURSOR_WIDTH, FB_WIDTH), within(p[2], CURSOR_HEIGHT, FB_HEIGHT)>>

\* cursor_move: nothing happens unless the position changes.
CursorMove(d) ==
    LET at   == clamp_position(Shift(cursor, d))
        bare == Paint(scr, SavedAt(cursor, saved_bg))
    IN  IF at = cursor THEN UNCHANGED drawVars
        ELSE /\ cursor' = at
             /\ saved_bg' = save_background(bare, at, base)
             /\ scr' = Paint(bare, InkAt(at))
             /\ UNCHANGED base

\* Mutation of Bared: the cursor is not removed before windows are drawn.
BaredNot == scr

\* cursor_remove.
Bared == Paint(scr, SavedAt(cursor, saved_bg))

LastClosed(l) == Len(l) = 0

\* The windows of l drawn over m, one over the other.
DrawAll(m, l, flags) ==
    LET drawn[i \in 0 .. Len(l)] ==
            IF i = 0 THEN m
            ELSE Paint(drawn[i - 1], [p \in {q \in Screen : window_contains(l[i], q)} |-> Drawn(l[i], flags, p)])
    IN  drawn[Len(l)]

\* wm_composite with the windows l, of which flags are focused.  Without windows
\* rep stosl clears the screen and fb.addr is left where it ended.
Composite(l, flags) ==
    LET m == IF LastClosed(l) THEN Paint(Bared, [p \in Screen |-> Desktop])
                              ELSE DrawAll(Bared, l, flags)
        b == IF LastClosed(l) THEN base + 1 ELSE base
    IN  /\ needs_composite' = FALSE
        /\ base' = b
        /\ saved_bg' = save_background(m, cursor, b)
        /\ scr' = IF b = 0 THEN Paint(m, InkAt(cursor)) ELSE m
        /\ UNCHANGED cursor

-----------------------------------------------------------------------------
(* cursor_init and wm_init, on a screen with the boot messages.              *)

Centre == clamp_position(<<FB_WIDTH \div 2, FB_HEIGHT \div 2>>)

Init ==
    /\ windows = << >> /\ z = [w \in Windows |-> 0]
    /\ focused = NULL /\ flagged = {} /\ count = 0
    /\ needs_composite = TRUE
    /\ cursor = Centre
    /\ saved_bg = [o \in Sprite |-> Text]
    /\ base = 0
    /\ scr = [p \in Screen |-> IF p \in DOMAIN InkAt(Centre) THEN Pointer ELSE Text]
    /\ phase = [at |-> "boot", next |-> 1]
    /\ n = 0 /\ clicked = FALSE
    /\ last = FALSE /\ before = FALSE /\ ev = FALSE

Booting == phase.at = "boot"
At(l) == phase.at = l
Goto(l) == phase' = [at |-> l, next |-> 0]

\* wm_create_window; the window's text goes to its own buffer.
CreateWindow ==
    LET w == Boot[phase.next]
        zo == [z EXCEPT ![w] = get_next_z_order(windows, z)]
    IN  /\ Booting /\ phase.next <= Len(Boot) /\ count < WM_MAX_WINDOWS
        /\ FocusVars(w, insert_sorted(windows, zo, w), zo)
        /\ count' = count + 1
        /\ needs_composite' = TRUE
        /\ phase' = [phase EXCEPT !.next = @ + 1]
        /\ UNCHANGED <<drawVars, n, clicked, last, before, ev>>

\* No room in the table, or no memory for the window or its buffer.
CreateFails ==
    /\ Booting /\ phase.next <= Len(Boot)
    /\ phase' = [phase EXCEPT !.next = @ + 1]
    /\ UNCHANGED <<wmVars, needs_composite, drawVars, n, clicked, last, before, ev>>

\* The first wm_composite, before interrupts are enabled.
FirstComposite ==
    /\ Booting /\ phase.next > Len(Boot)
    /\ Composite(windows, flagged)
    /\ Goto("idle")
    /\ UNCHANGED <<wmVars, n, clicked, last, before, ev>>

-----------------------------------------------------------------------------
(* wm_update.                                                                *)

Update ==
    /\ At("idle")
    /\ Goto("update")
    /\ UNCHANGED <<wmVars, needs_composite, drawVars, n, clicked, last, before, ev>>

\* Mutation of NewPress: no comparison with the previous state of the button.
NewPressAlways(left) == left /\ ~clicked

NewPress(left) == left /\ ~last /\ ~clicked

\* An event: the cursor moves; a new press goes on to wm_handle_click.
MouseEvent(d, left) ==
    /\ At("update") /\ n < MaxBatch
    /\ left => get_next_z_order(windows, z) <= MaxZ
    /\ CursorMove(d)
    /\ n' = n + 1
    /\ before' = ev /\ ev' = left
    /\ \/ NewPress(left) /\ Goto("click") /\ UNCHANGED last
       \/ ~NewPress(left) /\ last' = left /\ UNCHANGED phase
    /\ UNCHANGED <<wmVars, needs_composite, clicked>>

Clicked ==
    /\ At("click")
    /\ Goto("update")
    /\ clicked' = TRUE /\ last' = TRUE
    /\ UNCHANGED <<n, before, ev>>

Target == wm_get_window_at(windows, cursor)

ClickDesktop ==
    /\ Clicked /\ Target = NULL
    /\ UNCHANGED <<wmVars, needs_composite, drawVars>>

\* wm_destroy_window and wm_composite.
ClickClose ==
    LET l == remove_from_list(windows, Target)
    IN  /\ Clicked /\ Target # NULL /\ wm_is_in_close_btn(Target, cursor)
        /\ windows' = l
        /\ focused' = IF focused = Target THEN NULL ELSE focused
        /\ flagged' = flagged \ {Target}
        /\ count' = count - 1
        /\ Composite(l, flagged)
        /\ UNCHANGED z

\* wm_focus_window and wm_composite.
ClickFocus ==
    /\ Clicked /\ Target # NULL /\ ~wm_is_in_close_btn(Target, cursor)
    /\ FocusVars(Target, windows, z)
    /\ Composite(windows', flagged')
    /\ UNCHANGED count

\* The ring is empty; without a click a pending composite is done.
UpdateEnd ==
    /\ At("update")
    /\ Goto("idle")
    /\ IF ~clicked /\ needs_composite THEN Composite(windows, flagged)
       ELSE UNCHANGED <<needs_composite, drawVars>>
    /\ n' = 0 /\ clicked' = FALSE
    /\ UNCHANGED <<wmVars, last, before, ev>>

Next ==
    \/ CreateWindow \/ CreateFails \/ FirstComposite
    \/ Update \/ (\E d \in Moves, left \in BOOLEAN : MouseEvent(d, left))
    \/ ClickDesktop \/ ClickClose \/ ClickFocus \/ UpdateEnd

Spec == Init /\ [][Next]_vars

-----------------------------------------------------------------------------
\* Every variable keeps its type; the whole cursor stays on the screen.
TypeOK ==
    /\ Range(windows) \subseteq Windows /\ flagged \subseteq Windows
    /\ z \in [Windows -> 0 .. MaxZ] /\ focused \in Windows \cup {NULL}
    /\ count \in 0 .. WM_MAX_WINDOWS /\ needs_composite \in BOOLEAN
    /\ cursor[1] \in 0 .. FB_WIDTH - CURSOR_WIDTH
    /\ cursor[2] \in 0 .. FB_HEIGHT - CURSOR_HEIGHT
    /\ base \in Nat /\ n \in 0 .. MaxBatch

\* The list is strictly ascending in z_order and has count members; the focused
\* window is its last one and the only one drawn as focused.  get_next_z_order,
\* insert_sorted and wm_focus_window rely on each other for this.
StackSound ==
    /\ TypeOK
    /\ \A i, j \in 1 .. Len(windows) : i < j => z[windows[i]] < z[windows[j]]
    /\ count = Len(windows)
    /\ focused # NULL => windows # << >> /\ windows[Len(windows)] = focused
    /\ flagged = {focused} \ {NULL}

\* What is on the screen at p when the cursor is taken away.
Behind(p) ==
    IF p \in DOMAIN SavedAt(cursor, saved_bg) THEN SavedAt(cursor, saved_bg)[p] ELSE scr[p]

\* Between updates, every point of an open window shows the window that a click
\* there would reach, in the colours of its focus; where no window is open the
\* screen may still show a closed one.
SeenIsClicked ==
    (At("idle") /\ count > 0) =>
        \A p \in Screen :
            LET w == wm_get_window_at(windows, p)
            IN  w # NULL => Behind(p) = Drawn(w, {focused}, p)

\* While a window is open the cursor is drawn exactly where it is: moves and
\* composites leave no cursor pixel behind, nor save one as background.
NoCursorTrail ==
    (count > 0 /\ ~Booting) =>
        /\ {p \in Screen : scr[p] = Pointer} = DOMAIN InkAt(cursor)
        /\ \A o \in Sprite : saved_bg[o] # Pointer

\* cursor_restore, "save the background at the cursor's position and draw it again
\* (called after compositing)": once there have been windows, the cursor is on the
\* screen between updates.
CursorRestored ==
    (At("idle") /\ \E w \in Windows : z[w] > 0) =>
        {p \in Screen : scr[p] = Pointer} = DOMAIN InkAt(cursor)

\* A window is destroyed only by a button that has just gone down on its own
\* close button, at a point where it is on top: not by a button held while the
\* cursor moves, nor by the same press twice.
ClosesOnlyPressed ==
    [][\A w \in Range(windows) \ Range(windows') :
          /\ ev /\ ~before
          /\ wm_is_in_close_btn(w, cursor) /\ w = wm_get_window_at(windows, cursor)]_vars
=============================================================================
