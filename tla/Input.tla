------------------------------- MODULE Input -------------------------------
(***************************************************************************)
(* Keyboard and mouse: the PS/2 controller, the interrupt handlers         *)
(* (kernel/irq.c, drivers/keyboard.c, drivers/mouse.c), the two ring       *)
(* buffers and the system calls that read them (kernel/syscall.c).         *)
(*                                                                         *)
(* Both devices share the controller's one-byte output buffer.  A keyboard *)
(* byte in it raises IRQ1; a mouse byte raises nothing and stays until the *)
(* timer's handler polls for it, and no key gets through before that.      *)
(* Handlers run with interrupts off and are one step each; the steps of a  *)
(* system call interleave with them.                                       *)
(***************************************************************************)
EXTENDS Integers, Sequences

CONSTANTS
    KEYBOARD_BUFFER_SIZE, MOUSE_BUFFER_SIZE,
    KeyQueue,     \* bytes the keyboard holds back
    Keys,         \* the keys the user presses
    Packets,      \* mouse packets: [id, ovf, bit3, top]
    Readers,      \* tasks that read the keyboard
    ReadLens,     \* lengths passed to SYS_READ
    MousePreempt  \* may a tick arrive inside mouse_read?

ASSUME InputAssumption ==
    /\ KEYBOARD_BUFFER_SIZE \in Nat \ {0, 1} /\ MOUSE_BUFFER_SIZE \in Nat \ {0, 1}
    /\ KeyQueue \in Nat \ {0} /\ ReadLens \subseteq Nat /\ MousePreempt \in BOOLEAN
    /\ \A p \in Packets : {p.ovf, p.bit3, p.top} \subseteq BOOLEAN

VARIABLES
    kq, mq,       \* bytes the keyboard and the mouse have still to hand over
    obf,          \* the controller's output buffer
    irq1,         \* IRQ1 is latched in the PIC
    stale,        \* what port 0x60 yields while the output buffer is empty
    mods,         \* shift_pressed, ctrl_pressed, caps_lock_active
    kbd,          \* kbd_buffer, kbd_buffer_head, kbd_buffer_tail
    packet,       \* mouse_packet[0 .. mouse_cycle - 1]
    mouse,        \* mouse_buffer, mouse_buf_head, mouse_buf_tail
    rd,           \* the keyboard reader's place, call, room left and character
    md,           \* the place of the task in SYS_MOUSE_READ
    held, capsOn, \* history: the shift keys that are down, the lock as the user set it
    owed,         \* history: what the keys in kbd_buffer were meant to be
    evs,          \* history: the packets mouse_buffer should hold
    wm            \* history: the last wm_update got the packets due, if in step

keyVars   == <<mods, kbd, owed>>
mouseVars == <<packet, mouse, evs>>
userVars  == <<held, capsOn>>
vars == <<kq, mq, obf, irq1, stale, mods, kbd, packet, mouse, rd, md, held, capsOn, owed, evs, wm>>

-----------------------------------------------------------------------------
(* Scan codes, one per class the handler tells apart, and their tables.      *)

NUL == "nul"

Shifts == {"lshift", "rshift"}
CharCodes == {"a", "1", "up", "f1"}
Codes == Shifts \cup {"ctrl", "caps"} \cup CharCodes

kbd_us_normal == [c \in Codes |-> CASE c = "a" -> "a" [] c = "1" -> "1" [] OTHER -> NUL]
kbd_us_shift  == [c \in Codes |-> CASE c = "a" -> "A" [] c = "1" -> "!" [] OTHER -> NUL]

Arrow(c) == IF c = "up" THEN "UP" ELSE NUL

SwapCase(ch) == CASE ch = "a" -> "A" [] ch = "A" -> "a" [] OTHER -> ch

ASSUME KeysAssumption == Keys \subseteq Codes

\* The character of a pressed key, NUL when it has none.
Translated(c) ==
    LET ch == IF mods.shift THEN kbd_us_shift[c] ELSE kbd_us_normal[c]
    IN  IF ch = NUL THEN Arrow(c) ELSE IF mods.caps THEN SwapCase(ch) ELSE ch

\* What the user means by the key, from the keys held and the lock.
Meant(c) ==
    CASE c = "a"  -> IF (held # {}) # capsOn THEN "A" ELSE "a"
      [] c = "1"  -> IF held # {} THEN "!" ELSE "1"
      [] c = "up" -> "UP"
      [] OTHER    -> NUL

KeyByte(make, c, meant) == [src |-> "kbd", make |-> make, code |-> c, meant |-> meant]
MouseByte(p, pos) == [src |-> "aux", pkt |-> p, pos |-> pos]
NoByte == [src |-> "none"]

\* 0xFA, to the keyboard handler the release of an unknown key.
ACK == KeyByte(FALSE, "f1", NUL)

\* Bit 3 and the overflow bits of a byte; in displacements they are part of a number.
Bit3(b) == b.pos = 1 \/ b.pkt.bit3
Overflow(b) == IF b.pos = 1 THEN b.pkt.ovf ELSE b.pkt.top

-----------------------------------------------------------------------------
(* Ring buffers: one place stays empty.                                      *)

Ring(size, nil) == [buf |-> [i \in 0 .. size - 1 |-> nil], head |-> 0, tail |-> 0]

HasData(r) == r.head # r.tail

\* Mutation of Room: the ring is never found full.
RoomAlways(r, size) == TRUE

Room(r, size) == (r.head + 1) % size # r.tail

Put(r, size, x) ==
    IF Room(r, size)
    THEN [r EXCEPT !.buf[r.head] = x, !.head = (r.head + 1) % size]
    ELSE r

\* The place read is not read again before it is written: its value is dropped.
Advanced(r, size, nil) == [r EXCEPT !.buf[r.tail] = nil, !.tail = (r.tail + 1) % size]

Contents(r, size) ==
    [i \in 1 .. (r.head - r.tail + size) % size |-> r.buf[(r.tail + i - 1) % size]]

-----------------------------------------------------------------------------
(* After mouse_init, at sti.  A key pressed during boot leaves IRQ1 latched; *)
(* mouse_init's flushes took its byte, and may have cut a packet in two.     *)

Init ==
    /\ kq = << >>
    /\ mq \in {<< >>} \cup {<<MouseByte(p, 2), MouseByte(p, 3)>> : p \in Packets}
              \cup {<<MouseByte(p, 3)>> : p \in Packets}
    /\ obf = NoByte
    /\ irq1 \in BOOLEAN
    /\ stale \in {ACK} \cup IF irq1 THEN {KeyByte(TRUE, "a", "a")} ELSE {}
    /\ mods = [shift |-> FALSE, ctrl |-> FALSE, caps |-> FALSE]
    /\ kbd = Ring(KEYBOARD_BUFFER_SIZE, NUL)
    /\ packet = << >>
    /\ mouse = Ring(MOUSE_BUFFER_SIZE, NoByte)
    /\ rd = [r \in Readers |-> [pc |-> "user", op |-> NUL, left |-> 0, c |-> NUL]]
    /\ md = "user"
    /\ held = {} /\ capsOn = FALSE
    /\ owed = << >> /\ evs = << >>
    /\ wm = TRUE

-----------------------------------------------------------------------------
(* The user and the devices.                                                 *)

\* A key goes down; one shift key at a time.
KeyDown(c) ==
    /\ Len(kq) < KeyQueue
    /\ c \in Shifts => held = {}
    /\ kq' = Append(kq, KeyByte(TRUE, c, Meant(c)))
    /\ held' = IF c \in Shifts THEN {c} ELSE held
    /\ capsOn' = (capsOn # (c = "caps"))
    /\ UNCHANGED <<mq, obf, irq1, stale, keyVars, mouseVars, rd, md, wm>>

KeyUp(c) ==
    /\ Len(kq) < KeyQueue
    /\ c \in Shifts => c \in held
    /\ kq' = Append(kq, KeyByte(FALSE, c, NUL))
    /\ held' = held \ {c}
    /\ UNCHANGED <<mq, obf, irq1, stale, keyVars, mouseVars, rd, md, capsOn, wm>>

\* The mouse moves or a button changes: a packet of three bytes.
MouseMove(p) ==
    /\ mq = << >>
    /\ mq' = [i \in 1 .. 3 |-> MouseByte(p, i)]
    /\ UNCHANGED <<kq, obf, irq1, stale, keyVars, mouseVars, rd, md, userVars, wm>>

\* The controller takes a byte from either device.
LoadKey ==
    /\ obf = NoByte /\ kq # << >>
    /\ obf' = Head(kq) /\ kq' = Tail(kq)
    /\ irq1' = TRUE
    /\ UNCHANGED <<mq, stale, keyVars, mouseVars, rd, md, userVars, wm>>

LoadMouse ==
    /\ obf = NoByte /\ mq # << >>
    /\ obf' = Head(mq) /\ mq' = Tail(mq)
    /\ UNCHANGED <<kq, irq1, stale, keyVars, mouseVars, rd, md, userVars, wm>>

-----------------------------------------------------------------------------
(* The handlers.                                                             *)

\* An interrupt ends hlt.
Woken == [r \in Readers |-> IF rd[r].pc = "halted" THEN [rd[r] EXCEPT !.pc = "test"] ELSE rd[r]]

Event(s) == [buttons |-> s[1], dx |-> s[2], dy |-> s[3]]

\* Mutation of Received: an overflow leaves mouse_cycle at 2.
ReceivedNoReset(b) ==
    CASE Len(packet) = 0 -> IF Bit3(b) THEN <<b>> ELSE << >>
      [] Len(packet) = 1 -> Append(packet, b)
      [] OTHER           -> IF Overflow(packet[1]) THEN packet ELSE << >>

\* mouse_packet and mouse_cycle after the byte b.
Received(b) ==
    CASE Len(packet) = 0 -> IF Bit3(b) THEN <<b>> ELSE << >>
      [] Len(packet) = 1 -> Append(packet, b)
      [] OTHER           -> << >>

\* mouse_buffer after the byte b: a third byte makes an event, unless the first
\* one has an overflow bit.
Assembled(b) ==
    IF Len(packet) = 2 /\ ~Overflow(packet[1])
    THEN Put(mouse, MOUSE_BUFFER_SIZE, Event(Append(packet, b))) ELSE mouse

\* Where the next byte of the mouse stands in its packet.
NextPos == IF obf.src = "aux" THEN obf.pos ELSE IF mq # << >> THEN mq[1].pos ELSE 1

\* mouse_handler is in step with the packets.
Aligned == NextPos = Len(packet) + 1

\* History: a packet that ends in step, with b, is due.
Due(b) ==
    IF Aligned /\ b.pos = 3 /\ ~b.pkt.ovf /\ Len(evs) < MOUSE_BUFFER_SIZE - 1
    THEN Append(evs, Event([i \in 1 .. 3 |-> MouseByte(b.pkt, i)])) ELSE evs

\* The modifiers after the byte b.
Modified(b) ==
    [shift |-> IF b.code \in Shifts THEN b.make ELSE mods.shift,
     ctrl  |-> IF b.code = "ctrl" THEN b.make ELSE mods.ctrl,
     caps  |-> mods.caps # (b.code = "caps" /\ b.make)]

\* The part of keyboard_handler behind the test for a mouse byte; tables hold
\* nothing for the modifiers, which return before the translation.
Keyed(b) ==
    LET ch == IF b.make THEN Translated(b.code) ELSE NUL
    IN  /\ mods' = Modified(b)
        /\ kbd' = IF ch # NUL THEN Put(kbd, KEYBOARD_BUFFER_SIZE, ch) ELSE kbd
        /\ owed' = IF b.meant # NUL /\ Len(owed) < KEYBOARD_BUFFER_SIZE - 1
                   THEN Append(owed, b.meant) ELSE owed

\* IRQ1: keyboard_handler, which passes a mouse byte on to mouse_handler.
Irq1 ==
    /\ irq1 /\ irq1' = FALSE
    /\ obf' = NoByte /\ stale' = ACK
    /\ \/ /\ obf.src = "aux"
          /\ packet' = Received(obf) /\ mouse' = Assembled(obf) /\ evs' = Due(obf)
          /\ UNCHANGED keyVars
       \/ /\ obf.src # "aux"
          /\ Keyed(IF obf.src = "kbd" THEN obf ELSE stale)
          /\ UNCHANGED mouseVars
    /\ rd' = Woken
    /\ UNCHANGED <<kq, mq, md, userVars, wm>>

\* Mutation of Polls: the timer's handler leaves mouse bytes alone.
PollsNever == FALSE

Polls == obf.src = "aux"

\* wm_update reads every event of the ring r, of which due was expected.
WmUpdate(r, due) ==
    /\ wm' = (Aligned => Contents(r, MOUSE_BUFFER_SIZE) = due)
    /\ mouse' = [Ring(MOUSE_BUFFER_SIZE, NoByte) EXCEPT !.head = r.head, !.tail = r.head]
    /\ evs' = << >>

\* IRQ0: timer_handler polls for one mouse byte, then wm_update.
Tick ==
    /\ MousePreempt \/ md = "user"
    /\ \/ /\ Polls
          /\ obf' = NoByte /\ packet' = Received(obf)
          /\ WmUpdate(Assembled(obf), Due(obf))
       \/ /\ ~Polls
          /\ WmUpdate(mouse, evs)
          /\ UNCHANGED <<obf, packet>>
    /\ rd' = Woken
    /\ UNCHANGED <<kq, mq, irq1, stale, keyVars, md, userVars>>

-----------------------------------------------------------------------------
(* The system calls.  has_data, the test inside kbd_buffer_get with the load *)
(* of the character, and the store of the tail are steps of their own.       *)

Same == UNCHANGED <<kq, mq, obf, irq1, stale, mods, mouseVars, md, userVars, wm>>

\* A reader at the test of the loop, with room for left characters.
Reading(op, left) == [pc |-> "test", op |-> op, left |-> left, c |-> NUL]

SysGetchar(r) ==
    /\ rd[r].pc = "user"
    /\ rd' = [rd EXCEPT ![r] = Reading("getchar", 1)]
    /\ UNCHANGED <<kbd, owed>> /\ Same

SysRead(r, len) ==
    /\ rd[r].pc = "user"
    /\ rd' = [rd EXCEPT ![r] = Reading("read", len)]
    /\ UNCHANGED <<kbd, owed>> /\ Same

Returned(r) == [rd EXCEPT ![r] = [pc |-> "user", op |-> NUL, left |-> 0, c |-> NUL]]

\* Round the loop: SYS_READ returns what it has, SYS_GETCHAR halts.
Test(r) ==
    /\ rd[r].pc = "test"
    /\ \/ /\ HasData(kbd) /\ rd[r].left > 0
          /\ rd' = [rd EXCEPT ![r].pc = "get"]
       \/ /\ ~HasData(kbd) /\ rd[r].op = "getchar"
          /\ rd' = [rd EXCEPT ![r].pc = "hlt"]
       \/ /\ ~HasData(kbd) \/ rd[r].left = 0
          /\ rd[r].op = "read"
          /\ rd' = Returned(r)
    /\ UNCHANGED <<kbd, owed>> /\ Same

Hlt(r) ==
    /\ rd[r].pc = "hlt"
    /\ rd' = [rd EXCEPT ![r].pc = "halted"]
    /\ UNCHANGED <<kbd, owed>> /\ Same

\* A character is stored in the caller's buffer, or returned.
Store(r) ==
    IF rd[r].op = "read" THEN [rd EXCEPT ![r] = Reading("read", rd[r].left - 1)]
                         ELSE Returned(r)

\* Mutation of Get: the newest character is loaded.
GetNewest(r) ==
    /\ rd[r].pc = "get"
    /\ rd' = [rd EXCEPT ![r].pc = "advance",
                        ![r].c = kbd.buf[(kbd.head + KEYBOARD_BUFFER_SIZE - 1) % KEYBOARD_BUFFER_SIZE]]
    /\ UNCHANGED <<kbd, owed>> /\ Same

\* kbd_buffer_get: an empty ring yields 0.
Get(r) ==
    /\ rd[r].pc = "get"
    /\ rd' = IF HasData(kbd) THEN [rd EXCEPT ![r].pc = "advance", ![r].c = kbd.buf[kbd.tail]]
                             ELSE Store(r)
    /\ UNCHANGED <<kbd, owed>> /\ Same

Advance(r) ==
    /\ rd[r].pc = "advance"
    /\ kbd' = Advanced(kbd, KEYBOARD_BUFFER_SIZE, NUL)
    /\ owed' = IF owed = << >> THEN owed ELSE Tail(owed)
    /\ rd' = Store(r)
    /\ Same

\* SYS_MOUSE_READ, mouse_read: with no event the caller gets zeros.
SysMouseRead ==
    /\ md = "user" /\ HasData(mouse)
    /\ md' = "advance"
    /\ UNCHANGED <<kq, mq, obf, irq1, stale, keyVars, mouseVars, rd, userVars, wm>>

MouseAdvance ==
    /\ md = "advance"
    /\ md' = "user"
    /\ mouse' = Advanced(mouse, MOUSE_BUFFER_SIZE, NoByte)
    /\ evs' = IF evs = << >> THEN evs ELSE Tail(evs)
    /\ UNCHANGED <<kq, mq, obf, irq1, stale, keyVars, packet, rd, userVars, wm>>

-----------------------------------------------------------------------------
ReaderStep(r) == Test(r) \/ Hlt(r) \/ Get(r) \/ Advance(r)

Next ==
    \/ \E c \in Keys : KeyDown(c) \/ KeyUp(c)
    \/ \E p \in Packets : MouseMove(p)
    \/ LoadKey \/ LoadMouse \/ Irq1 \/ Tick
    \/ \E r \in Readers : \/ SysGetchar(r) \/ ReaderStep(r)
                         \/ \E len \in ReadLens : SysRead(r, len)
    \/ SysMouseRead \/ MouseAdvance

Spec == Init /\ [][Next]_vars

\* Interrupts stay pending until they are taken and the timer is periodic; the
\* controller does not serve the mouse for ever while a key byte waits; a task
\* inside a system call is scheduled again.  Users and programs owe nothing.
Fairness ==
    /\ WF_vars(Irq1) /\ WF_vars(Tick) /\ SF_vars(LoadKey) /\ WF_vars(MouseAdvance)
    /\ \A r \in Readers : WF_vars(ReaderStep(r))

FairSpec == Spec /\ Fairness

-----------------------------------------------------------------------------
RingType(r, size) == r.head \in 0 .. size - 1 /\ r.tail \in 0 .. size - 1

\* Every variable keeps its type; the heads and tails stay inside their rings.
TypeOK ==
    /\ Len(kq) <= KeyQueue /\ Len(mq) <= 3
    /\ irq1 \in BOOLEAN /\ mods \in [shift : BOOLEAN, ctrl : BOOLEAN, caps : BOOLEAN]
    /\ RingType(kbd, KEYBOARD_BUFFER_SIZE) /\ RingType(mouse, MOUSE_BUFFER_SIZE)
    /\ Len(packet) <= 2
    /\ \A r \in Readers : rd[r].pc \in {"user", "test", "hlt", "halted", "get", "advance"}
    /\ md \in {"user", "advance"}

\* kbd_buffer holds what the user meant by the keys not yet read, in the order
\* they were pressed, as shift and caps lock were at that moment, however late
\* the handler saw the bytes; only a full ring drops a key.
KeysInOrder == TypeOK /\ Contents(kbd, KEYBOARD_BUFFER_SIZE) = owed

\* A reader that got past the test in SYS_GETCHAR or SYS_READ finds a character,
\* and the one it loads is the oldest: SYS_GETCHAR never returns 0.
ReadsOldest ==
    \A r \in Readers :
        /\ rd[r].pc = "get" => HasData(kbd)
        /\ rd[r].pc = "advance" => owed # << >> /\ rd[r].c = Head(owed)

\* Once mouse_handler is in step with the packets it stays in step, overflow
\* packets included, and wm_update gets exactly the packets completed since then.
PacketsStayWhole == [][Aligned => Aligned' /\ wm']_vars

\* A character key pressed while a task waits in SYS_GETCHAR ends the wait, with
\* mouse bytes in front of it or an interrupt between the test and hlt.
KeyEndsWait ==
    \A r \in Readers :
        (/\ rd[r].op = "getchar"
         /\ \/ obf.src = "kbd" /\ obf.meant # NUL
            \/ \E i \in 1 .. Len(kq) : kq[i].meant # NUL)
        ~> (rd[r].pc = "user")
=============================================================================
