---------------------------- MODULE InputProofs ----------------------------
(***************************************************************************)
(* The keyboard and the mouse for every size of the rings and queues and   *)
(* every user.                                                             *)
(***************************************************************************)
EXTENDS Input, TLAPS, SequenceTheorems

-----------------------------------------------------------------------------
(* Ring buffers.                                                             *)

Wrapped(k, S) == IF k < S THEN k ELSE k - S

LEMMA ModIsWrapped ==
    ASSUME NEW S \in Nat \ {0}, NEW k \in 0 .. 2 * S - 1
    PROVE  k % S = Wrapped(k, S) /\ Wrapped(k, S) \in 0 .. S - 1
<1>1. CASE k < S
  BY <1>1 DEF Wrapped
<1>2. CASE k >= S
  <2>1. k = 1 * S + (k - S) /\ k - S \in 0 .. S - 1
    BY <1>2
  <2>2. k % S = k - S
    BY <2>1, SMTT(30)
  <2>3. QED
    BY <1>2, <2>1, <2>2 DEF Wrapped
<1>3. QED
  BY <1>1, <1>2

\* The arithmetic of a ring of S places with head h and tail t, n of them in use.
Arithmetic(S, h, t, n) ==
    /\ S \in Nat \ {0, 1} /\ h \in 0 .. S - 1 /\ t \in 0 .. S - 1
    /\ n \in 0 .. S - 1 /\ (h - t + S) % S = n /\ h = Wrapped(t + n, S)
    /\ h = t <=> n = 0
    /\ (h + 1) % S = Wrapped(h + 1, S) /\ Wrapped(h + 1, S) \in 0 .. S - 1
    /\ (t + 1) % S = Wrapped(t + 1, S) /\ Wrapped(t + 1, S) \in 0 .. S - 1
    /\ Wrapped(h + 1, S) # t <=> n < S - 1
    /\ n < S - 1 => Wrapped(Wrapped(h + 1, S) - t + S, S) = n + 1
    /\ n > 0 => Wrapped(h - Wrapped(t + 1, S) + S, S) = n - 1
    /\ \A i \in 1 .. S : /\ (t + i - 1) % S = Wrapped(t + i - 1, S)
                        /\ Wrapped(t + i - 1, S) \in 0 .. S - 1
    /\ \A i \in 1 .. n : Wrapped(t + i - 1, S) # h
    /\ \A i \in 1 .. n - 1 : /\ Wrapped(Wrapped(t + 1, S) + i - 1, S) = Wrapped(t + (i + 1) - 1, S)
                            /\ Wrapped(t + (i + 1) - 1, S) # t

LEMMA Places ==
    ASSUME NEW S \in Nat \ {0, 1}, NEW h \in 0 .. S - 1, NEW t \in 0 .. S - 1
    PROVE  Arithmetic(S, h, t, Wrapped(h - t + S, S))
<1> DEFINE n == Wrapped(h - t + S, S)
<1>1. h - t + S \in 0 .. 2 * S - 1 /\ h + 1 \in 0 .. 2 * S - 1 /\ t + 1 \in 0 .. 2 * S - 1
  OBVIOUS
<1>2. /\ n \in 0 .. S - 1 /\ (h - t + S) % S = n
      /\ (h + 1) % S = Wrapped(h + 1, S) /\ Wrapped(h + 1, S) \in 0 .. S - 1
      /\ (t + 1) % S = Wrapped(t + 1, S) /\ Wrapped(t + 1, S) \in 0 .. S - 1
  BY <1>1, ModIsWrapped
<1>3. ASSUME NEW i \in 1 .. S
      PROVE  /\ (t + i - 1) % S = Wrapped(t + i - 1, S) /\ Wrapped(t + i - 1, S) \in 0 .. S - 1
  <2>1. t + i - 1 \in 0 .. 2 * S - 1
    OBVIOUS
  <2>2. QED
    BY <2>1, ModIsWrapped
<1>4. /\ h = Wrapped(t + n, S) /\ (h = t <=> n = 0) /\ (Wrapped(h + 1, S) # t <=> n < S - 1)
      /\ n < S - 1 => Wrapped(Wrapped(h + 1, S) - t + S, S) = n + 1
      /\ n > 0 => Wrapped(h - Wrapped(t + 1, S) + S, S) = n - 1
  BY DEF Wrapped
<1>5. \A i \in 1 .. n : Wrapped(t + i - 1, S) # h
  BY <1>2 DEF Wrapped
<1>6. \A i \in 1 .. n - 1 : /\ Wrapped(Wrapped(t + 1, S) + i - 1, S) = Wrapped(t + (i + 1) - 1, S)
                            /\ Wrapped(t + (i + 1) - 1, S) # t
  BY <1>2 DEF Wrapped
<1> HIDE DEF n
<1>7. QED
  BY <1>2, <1>3, <1>4, <1>5, <1>6 DEF Arithmetic, n

RingOf(r, S, T) ==
    /\ S \in Nat \ {0, 1}
    /\ r \in [buf : [0 .. S - 1 -> T], head : 0 .. S - 1, tail : 0 .. S - 1]

\* How many places are in use.
Used(r, S) == Wrapped(r.head - r.tail + S, S)

LEMMA RingArithmetic ==
    ASSUME NEW r, NEW S, NEW T, RingOf(r, S, T)
    PROVE  Arithmetic(S, r.head, r.tail, Used(r, S))
BY Places DEF RingOf, Used

LEMMA ContentsAre ==
    ASSUME NEW r, NEW S, NEW T, RingOf(r, S, T)
    PROVE  /\ Used(r, S) \in 0 .. S - 1
           /\ Contents(r, S) = [i \in 1 .. Used(r, S) |-> r.buf[Wrapped(r.tail + i - 1, S)]]
           /\ \A i \in 1 .. S : Wrapped(r.tail + i - 1, S) \in 0 .. S - 1
           /\ Contents(r, S) \in Seq(T) /\ Len(Contents(r, S)) = Used(r, S)
           /\ r.head = Wrapped(r.tail + Used(r, S), S)
           /\ HasData(r) <=> Used(r, S) # 0
           /\ Room(r, S) <=> Used(r, S) < S - 1
<1>0. /\ S \in Nat \ {0, 1} /\ r.head \in 0 .. S - 1 /\ r.tail \in 0 .. S - 1
      /\ r.buf \in [0 .. S - 1 -> T]
  BY DEF RingOf
<1>1. /\ (r.head - r.tail + S) % S = Used(r, S) /\ Used(r, S) \in 0 .. S - 1
  BY <1>0, RingArithmetic DEF Arithmetic
<1>2. ASSUME NEW i \in 1 .. S
      PROVE  /\ (r.tail + i - 1) % S = Wrapped(r.tail + i - 1, S)
             /\ Wrapped(r.tail + i - 1, S) \in 0 .. S - 1
  BY <1>0, RingArithmetic DEF Arithmetic
<1>3. \A i \in 1 .. Used(r, S) : i \in 1 .. S
  BY <1>0, <1>1
<1>4. Contents(r, S) = [i \in 1 .. Used(r, S) |-> r.buf[Wrapped(r.tail + i - 1, S)]]
  BY <1>1, <1>2, <1>3 DEF Contents
<1>5. Contents(r, S) \in Seq(T) /\ Len(Contents(r, S)) = Used(r, S)
  <2>1. \A i \in 1 .. Used(r, S) : r.buf[Wrapped(r.tail + i - 1, S)] \in T
    BY <1>0, <1>2, <1>3
  <2>2. QED
    BY <1>1, <1>4, <2>1
<1>6. r.head = Wrapped(r.tail + Used(r, S), S)
  BY <1>0, RingArithmetic DEF Arithmetic
<1>7. HasData(r) <=> Used(r, S) # 0
  BY <1>0, RingArithmetic DEF HasData, Arithmetic
<1>8. Room(r, S) <=> Used(r, S) < S - 1
  BY <1>0, RingArithmetic DEF Room, Arithmetic
<1>9. QED
  BY <1>1, <1>2, <1>4, <1>5, <1>6, <1>7, <1>8

\* kbd_buffer_put and mouse_buffer_put: append if there is room.
LEMMA PutAppends ==
    ASSUME NEW r, NEW S, NEW T, RingOf(r, S, T), NEW x \in T
    PROVE  /\ RingOf(Put(r, S, x), S, T)
           /\ Contents(Put(r, S, x), S) = IF Len(Contents(r, S)) < S - 1
                                          THEN Append(Contents(r, S), x) ELSE Contents(r, S)
           /\ HasData(r) => HasData(Put(r, S, x))
<1> DEFINE p == Put(r, S, x)  c == Contents(r, S)  n == Used(r, S)
<1>0. /\ S \in Nat \ {0, 1} /\ r.head \in 0 .. S - 1 /\ r.tail \in 0 .. S - 1
      /\ r.buf \in [0 .. S - 1 -> T]
      /\ r \in [buf : [0 .. S - 1 -> T], head : 0 .. S - 1, tail : 0 .. S - 1]
  BY DEF RingOf
<1>1. /\ n \in 0 .. S - 1 /\ Len(c) = n /\ c \in Seq(T)
      /\ c = [i \in 1 .. n |-> r.buf[Wrapped(r.tail + i - 1, S)]]
      /\ HasData(r) <=> n # 0
      /\ Room(r, S) <=> n < S - 1
      /\ r.head = Wrapped(r.tail + n, S)
  BY ContentsAre
<1>2. CASE ~(n < S - 1)
  <2>1. p = r
    BY <1>1, <1>2 DEF Put
  <2>2. QED
    BY <1>1, <1>2, <2>1
<1>3. CASE n < S - 1
  <2>1. (r.head + 1) % S = Wrapped(r.head + 1, S) /\ Wrapped(r.head + 1, S) \in 0 .. S - 1
    BY <1>0, RingArithmetic DEF Arithmetic
  <2>2. p = [r EXCEPT !.buf[r.head] = x, !.head = Wrapped(r.head + 1, S)]
    BY <1>0, <1>1, <1>3, <2>1 DEF Put
  <2>3. /\ p.buf = [r.buf EXCEPT ![r.head] = x] /\ p.head = Wrapped(r.head + 1, S)
        /\ p.tail = r.tail
        /\ p.buf \in [0 .. S - 1 -> T]
    BY <1>0, <2>2
  <2>4. RingOf(p, S, T)
    BY <1>0, <2>1, <2>2 DEF RingOf
  <2>5. Used(p, S) = n + 1
    <3>1. Used(p, S) = Wrapped(Wrapped(r.head + 1, S) - r.tail + S, S)
      BY <2>3 DEF Used
    <3>2. QED
      BY <1>3, <3>1, RingArithmetic DEF Arithmetic
  <2>6. Contents(p, S) = [i \in 1 .. n + 1 |-> p.buf[Wrapped(p.tail + i - 1, S)]]
    BY <2>4, <2>5, ContentsAre
  <2>7. ASSUME NEW i \in 1 .. n + 1
        PROVE  p.buf[Wrapped(p.tail + i - 1, S)] = Append(c, x)[i]
    <3>1. Wrapped(r.tail + i - 1, S) \in 0 .. S - 1
      <4>1. i \in 1 .. S
        BY <1>0, <1>1, <1>3
      <4>2. QED
        BY <4>1, RingArithmetic DEF Arithmetic
    <3>2. CASE i = n + 1
      <4>1. Wrapped(r.tail + i - 1, S) = r.head
        BY <1>0, <1>1, <3>2
      <4>2. Append(c, x)[i] = x
        BY <1>1, <3>2
      <4>3. QED
        BY <1>0, <2>3, <4>1, <4>2
    <3>3. CASE i # n + 1
      <4>0. i \in 1 .. n
        BY <1>1, <3>3
      <4>1. i \in 1 .. n /\ Wrapped(r.tail + i - 1, S) # r.head
        BY <1>0, <4>0, RingArithmetic DEF Arithmetic
      <4>2. Append(c, x)[i] = c[i]
        BY <1>1, <4>1
      <4>3. c[i] = r.buf[Wrapped(r.tail + i - 1, S)]
        BY <1>1, <4>1
      <4>4. p.buf[Wrapped(r.tail + i - 1, S)] = r.buf[Wrapped(r.tail + i - 1, S)]
        BY <1>0, <2>3, <3>1, <4>1
      <4>5. QED
        BY <2>3, <4>2, <4>3, <4>4
    <3>4. QED
      BY <3>2, <3>3
  <2>8. Append(c, x) \in Seq(T) /\ Len(Append(c, x)) = n + 1
    BY <1>1
  <2> DEFINE a == Append(c, x)
  <2>9. a = [i \in 1 .. n + 1 |-> a[i]]
    <3> HIDE DEF a, n
    <3>1. a \in Seq(T) /\ Len(a) = n + 1
      BY <2>8 DEF a
    <3>2. QED
      BY <3>1
  <2> HIDE DEF p, c, n
  <2>10. Contents(p, S) = Append(c, x)
    BY <2>6, <2>7, <2>9
  <2>11. HasData(p)
    BY <1>1, <2>4, <2>5, ContentsAre
  <2>12. QED
    BY <1>1, <1>3, <2>4, <2>10, <2>11 DEF p, c
<1>4. QED
  BY <1>2, <1>3

\* Moving the tail of a ring that has data drops the oldest element.
LEMMA AdvancedIsTail ==
    ASSUME NEW r, NEW S, NEW T, RingOf(r, S, T), NEW nil \in T, HasData(r)
    PROVE  /\ RingOf(Advanced(r, S, nil), S, T)
           /\ Contents(r, S) # << >>
           /\ r.buf[r.tail] = Head(Contents(r, S))
           /\ Contents(Advanced(r, S, nil), S) = Tail(Contents(r, S))
<1> DEFINE p == Advanced(r, S, nil)  c == Contents(r, S)  n == Used(r, S)
<1>0. /\ S \in Nat \ {0, 1} /\ r.head \in 0 .. S - 1 /\ r.tail \in 0 .. S - 1
      /\ r.buf \in [0 .. S - 1 -> T]
      /\ r \in [buf : [0 .. S - 1 -> T], head : 0 .. S - 1, tail : 0 .. S - 1]
  BY DEF RingOf
<1>1. /\ n \in 1 .. S - 1 /\ Len(c) = n /\ c \in Seq(T)
      /\ c = [i \in 1 .. n |-> r.buf[Wrapped(r.tail + i - 1, S)]]
      /\ r.head = Wrapped(r.tail + n, S)
  BY ContentsAre
<1>2. c # << >> /\ Head(c) = r.buf[r.tail]
  <2>1. c # << >> /\ Head(c) = c[1]
    BY <1>1
  <2>2. c[1] = r.buf[Wrapped(r.tail + 1 - 1, S)] /\ Wrapped(r.tail + 1 - 1, S) = r.tail
    BY <1>0, <1>1 DEF Wrapped
  <2>3. QED
    BY <2>1, <2>2
<1>3. (r.tail + 1) % S = Wrapped(r.tail + 1, S) /\ Wrapped(r.tail + 1, S) \in 0 .. S - 1
  BY <1>0, RingArithmetic DEF Arithmetic
<1>4. p = [r EXCEPT !.buf[r.tail] = nil, !.tail = Wrapped(r.tail + 1, S)]
  BY <1>3 DEF Advanced
<1>5. /\ p.buf = [r.buf EXCEPT ![r.tail] = nil] /\ p.tail = Wrapped(r.tail + 1, S)
      /\ p.head = r.head
      /\ p.buf \in [0 .. S - 1 -> T]
  BY <1>0, <1>4
<1>6. RingOf(p, S, T)
  BY <1>0, <1>3, <1>4 DEF RingOf
<1>7. Used(p, S) = n - 1
  <2>1. Used(p, S) = Wrapped(r.head - Wrapped(r.tail + 1, S) + S, S)
    BY <1>5 DEF Used
  <2>2. QED
    BY <1>1, <2>1, RingArithmetic DEF Arithmetic
<1>8. Contents(p, S) = [i \in 1 .. n - 1 |-> p.buf[Wrapped(p.tail + i - 1, S)]]
  BY <1>6, <1>7, ContentsAre
<1>9. /\ Tail(c) \in Seq(T) /\ Len(Tail(c)) = n - 1
      /\ \A i \in 1 .. n - 1 : Tail(c)[i] = c[i + 1]
  BY <1>1, <1>2, HeadTailProperties
<1>10. ASSUME NEW i \in 1 .. n - 1
       PROVE  p.buf[Wrapped(p.tail + i - 1, S)] = Tail(c)[i]
  <2>1. /\ Wrapped(p.tail + i - 1, S) = Wrapped(r.tail + (i + 1) - 1, S)
        /\ Wrapped(p.tail + i - 1, S) # r.tail /\ Wrapped(p.tail + i - 1, S) \in 0 .. S - 1
        /\ i + 1 \in 1 .. n
    <3>1. i + 1 \in 1 .. n /\ i + 1 \in 1 .. S
      BY <1>0, <1>1
    <3>2. Arithmetic(S, r.head, r.tail, n)
      BY RingArithmetic
    <3> HIDE DEF n, p
    <3>3. /\ Wrapped(Wrapped(r.tail + 1, S) + i - 1, S) = Wrapped(r.tail + (i + 1) - 1, S)
          /\ Wrapped(r.tail + (i + 1) - 1, S) # r.tail
          /\ Wrapped(r.tail + (i + 1) - 1, S) \in 0 .. S - 1
      BY <3>1, <3>2 DEF Arithmetic
    <3>4. QED
      BY <1>5, <3>1, <3>3
  <2>2. c[i + 1] = r.buf[Wrapped(r.tail + (i + 1) - 1, S)]
    BY <1>1, <2>1
  <2>3. p.buf[Wrapped(p.tail + i - 1, S)] = r.buf[Wrapped(p.tail + i - 1, S)]
    BY <1>0, <1>5, <2>1
  <2>4. QED
    BY <1>9, <2>1, <2>2, <2>3
<1>11. Tail(c) = [i \in 1 .. n - 1 |-> Tail(c)[i]]
  BY <1>1, <1>9
<1> HIDE DEF p, c, n
<1>12. Contents(p, S) = Tail(c)
  BY <1>8, <1>10, <1>11
<1>13. QED
  BY <1>2, <1>6, <1>12 DEF p, c

-----------------------------------------------------------------------------
(* Types.                                                                    *)

Chars == {NUL, "a", "A", "1", "!", "UP"}
KeyBytes == [src : {"kbd"}, make : BOOLEAN, code : Codes, meant : Chars]
MouseBytes == [src : {"aux"}, pkt : Packets, pos : 1 .. 3]
Events == [buttons : MouseBytes, dx : MouseBytes, dy : MouseBytes]

ReaderPlaces == {"user", "test", "hlt", "halted", "get", "advance"}

\* Where the bytes of both devices are, and what the handlers keep.
DeviceTypes ==
    /\ kq \in Seq(KeyBytes) /\ Len(kq) <= KeyQueue
    /\ mq \in Seq(MouseBytes) /\ Len(mq) <= 3
    /\ obf \in KeyBytes \cup MouseBytes \cup {NoByte}
    /\ irq1 \in BOOLEAN /\ stale \in KeyBytes
    /\ held \in SUBSET Shifts /\ capsOn \in BOOLEAN

KeyTypes ==
    /\ mods \in [shift : BOOLEAN, ctrl : BOOLEAN, caps : BOOLEAN]
    /\ RingOf(kbd, KEYBOARD_BUFFER_SIZE, Chars)
    /\ owed \in Seq(Chars)
    /\ rd \in [Readers -> [pc : ReaderPlaces, op : {NUL, "getchar", "read"}, left : Int, c : Chars]]

MouseTypes ==
    /\ packet \in Seq(MouseBytes) /\ Len(packet) <= 2
    /\ RingOf(mouse, MOUSE_BUFFER_SIZE, Events \cup {NoByte})
    /\ evs \in Seq(Events)
    /\ md \in {"user", "advance"}

InputTypes == DeviceTypes /\ KeyTypes /\ MouseTypes

LEMMA TypesImplyTypeOK == InputTypes => TypeOK
BY DEF InputTypes, DeviceTypes, KeyTypes, MouseTypes, TypeOK, RingOf, RingType, ReaderPlaces

LEMMA KeyByteType ==
    ASSUME NEW b \in BOOLEAN, NEW c \in Codes, NEW x \in Chars
    PROVE  KeyByte(b, c, x) \in KeyBytes
BY DEF KeyByte, KeyBytes

LEMMA MouseByteType ==
    ASSUME NEW p \in Packets, NEW i \in 1 .. 3
    PROVE  /\ MouseByte(p, i) \in MouseBytes
           /\ MouseByte(p, i).pos = i /\ MouseByte(p, i).pkt = p /\ MouseByte(p, i).src = "aux"
BY DEF MouseByte, MouseBytes

\* A byte tells which device it comes from.
LEMMA Sources ==
    /\ \A b \in KeyBytes : b.src = "kbd"
    /\ \A b \in MouseBytes : b.src = "aux"
    /\ NoByte.src = "none"
    /\ ACK \in KeyBytes
BY DEF KeyBytes, MouseBytes, NoByte, ACK, KeyByte, Codes, Shifts, CharCodes, Chars, NUL

LEMMA InTheBuffer ==
    ASSUME obf \in KeyBytes \cup MouseBytes \cup {NoByte}
    PROVE  /\ obf.src = "aux" <=> obf \in MouseBytes
           /\ obf.src = "kbd" <=> obf \in KeyBytes
           /\ obf.src \notin {"aux", "kbd"} <=> obf = NoByte
BY Sources

LEMMA EmptyAt ==
    ASSUME NEW S \in Nat \ {0, 1}, NEW T, NEW nil \in T, NEW h \in 0 .. S - 1,
           NEW r, r = [buf |-> [i \in 0 .. S - 1 |-> nil], head |-> h, tail |-> h]
    PROVE  RingOf(r, S, T) /\ Contents(r, S) = << >> /\ ~HasData(r)
<1>1. RingOf(r, S, T) /\ ~HasData(r)
  BY DEF RingOf, HasData
<1>2. Contents(r, S) \in Seq(T) /\ Len(Contents(r, S)) = 0
  BY <1>1, ContentsAre
<1>3. QED
  BY <1>1, <1>2

LEMMA EmptyRing ==
    ASSUME NEW S \in Nat \ {0, 1}, NEW T, NEW nil \in T, NEW h \in 0 .. S - 1,
           NEW r, r = [Ring(S, nil) EXCEPT !.head = h, !.tail = h]
    PROVE  RingOf(r, S, T) /\ Contents(r, S) = << >> /\ ~HasData(r)
<1>1. r = [buf |-> [i \in 0 .. S - 1 |-> nil], head |-> h, tail |-> h]
  BY DEF Ring
<1>2. QED
  BY <1>1, EmptyAt

LEMMA AdvancedRing ==
    ASSUME NEW r, NEW S, NEW T, RingOf(r, S, T), NEW nil \in T
    PROVE  RingOf(Advanced(r, S, nil), S, T)
<1>1. /\ S \in Nat \ {0, 1} /\ r \in [buf : [0 .. S - 1 -> T], head : 0 .. S - 1, tail : 0 .. S - 1]
      /\ (r.tail + 1) % S \in 0 .. S - 1
  BY RingArithmetic DEF RingOf, Arithmetic
<1>2. QED
  BY <1>1 DEF RingOf, Advanced

LEMMA InitTypes == Init => InputTypes
<1> SUFFICES ASSUME Init PROVE InputTypes
  OBVIOUS
<1>1. NUL \in Chars /\ "a" \in Chars /\ "a" \in Codes
  BY DEF Chars, Codes, CharCodes
<1>2. DeviceTypes
  <2>1. ASSUME NEW p \in Packets
        PROVE  /\ <<MouseByte(p, 2), MouseByte(p, 3)>> \in Seq(MouseBytes)
               /\ Len(<<MouseByte(p, 2), MouseByte(p, 3)>>) = 2
               /\ <<MouseByte(p, 3)>> \in Seq(MouseBytes) /\ Len(<<MouseByte(p, 3)>>) = 1
    <3>1. MouseByte(p, 2) \in MouseBytes /\ MouseByte(p, 3) \in MouseBytes
      BY MouseByteType
    <3> HIDE DEF MouseByte
    <3>2. QED
      BY <3>1
  <2>2. mq \in Seq(MouseBytes) /\ Len(mq) <= 3
    <3>1. CASE mq = << >>
      BY <3>1
    <3>2. CASE \E p \in Packets : mq = <<MouseByte(p, 2), MouseByte(p, 3)>> \/ mq = <<MouseByte(p, 3)>>
      <4>1. PICK p \in Packets : mq = <<MouseByte(p, 2), MouseByte(p, 3)>> \/ mq = <<MouseByte(p, 3)>>
        BY <3>2
      <4> HIDE DEF MouseByte
      <4> DEFINE two == <<MouseByte(p, 2), MouseByte(p, 3)>>  one == <<MouseByte(p, 3)>>
      <4>2. /\ two \in Seq(MouseBytes) /\ Len(two) = 2 /\ one \in Seq(MouseBytes) /\ Len(one) = 1
            /\ mq = two \/ mq = one
        BY <2>1, <4>1
      <4> HIDE DEF one, two
      <4>3. QED
        BY <4>2
    <3>3. QED
      BY <3>1, <3>2, Zenon DEF Init
  <2>3. stale \in KeyBytes /\ irq1 \in BOOLEAN
    BY <1>1, Sources, KeyByteType DEF Init
  <2>4. kq \in Seq(KeyBytes) /\ Len(kq) <= KeyQueue
    BY InputAssumption DEF Init
  <2>5. QED
    BY <2>2, <2>3, <2>4 DEF DeviceTypes, Init
<1>3. /\ RingOf(kbd, KEYBOARD_BUFFER_SIZE, Chars)
      /\ RingOf(mouse, MOUSE_BUFFER_SIZE, Events \cup {NoByte})
  BY <1>1, InputAssumption DEF Init, Ring, RingOf
<1>4. KeyTypes
  BY <1>1, <1>3 DEF KeyTypes, Init, ReaderPlaces
<1>5. MouseTypes
  BY <1>3 DEF MouseTypes, Init
<1>6. QED
  BY <1>2, <1>4, <1>5 DEF InputTypes

\* A pressed key means one character, or none.
LEMMA MeantType == ASSUME NEW c \in Codes PROVE Meant(c) \in Chars
BY DEF Meant, Chars

LEMMA TranslatedType == ASSUME NEW c \in Codes PROVE Translated(c) \in Chars
BY DEF Translated, Chars, kbd_us_shift, kbd_us_normal, Arrow, SwapCase, NUL

\* The steps of the user and the devices.
LEMMA DeviceStepTypes ==
    ASSUME InputTypes,
           \/ \E c \in Keys : KeyDown(c) \/ KeyUp(c)
           \/ \E p \in Packets : MouseMove(p)
           \/ LoadKey \/ LoadMouse
    PROVE  InputTypes'
<1>1. KeyTypes' /\ MouseTypes'
  BY DEF InputTypes, KeyTypes, MouseTypes, KeyDown, KeyUp, MouseMove, LoadKey, LoadMouse,
         keyVars, mouseVars, RingOf
<1>2. NUL \in Chars
  BY DEF Chars
<1>3. ASSUME NEW c \in Keys, KeyDown(c) \/ KeyUp(c) PROVE DeviceTypes'
  <2>1. c \in Codes /\ Meant(c) \in Chars
    BY KeysAssumption, MeantType
  <2>2. PICK b \in KeyBytes : kq' = Append(kq, b) /\ Len(kq) < KeyQueue
    BY <1>2, <1>3, <2>1, KeyByteType DEF KeyDown, KeyUp
  <2>3. kq' \in Seq(KeyBytes) /\ Len(kq') <= KeyQueue
    BY <2>2, InputAssumption DEF InputTypes, DeviceTypes
  <2>4. QED
    BY <1>3, <2>3 DEF InputTypes, DeviceTypes, KeyDown, KeyUp
<1>4. ASSUME NEW p \in Packets, MouseMove(p) PROVE DeviceTypes'
  <2>1. mq' = [i \in 1 .. 3 |-> MouseByte(p, i)] /\ \A i \in 1 .. 3 : MouseByte(p, i) \in MouseBytes
    BY <1>4, MouseByteType DEF MouseMove
  <2>2. mq' \in Seq(MouseBytes) /\ Len(mq') <= 3
    BY <2>1
  <2>3. QED
    BY <1>4, <2>2 DEF InputTypes, DeviceTypes, MouseMove, userVars
<1>5. CASE LoadKey
  <2>1. kq \in Seq(KeyBytes) /\ kq # << >> /\ Len(kq) <= KeyQueue
    BY <1>5 DEF InputTypes, DeviceTypes, LoadKey
  <2>2. kq' \in Seq(KeyBytes) /\ Len(kq') <= KeyQueue /\ obf' \in KeyBytes
    BY <1>5, <2>1, InputAssumption, HeadTailProperties DEF LoadKey
  <2>3. QED
    BY <1>1, <1>5, <2>2 DEF InputTypes, DeviceTypes, LoadKey, userVars
<1>6. CASE LoadMouse
  BY <1>1, <1>6 DEF InputTypes, DeviceTypes, LoadMouse, userVars
<1>7. QED
  BY <1>1, <1>3, <1>4, <1>5, <1>6 DEF InputTypes

\* A sequence of one or two elements and one more.
LEMMA Longer ==
    ASSUME NEW T, NEW s \in Seq(T), NEW x \in T
    PROVE  /\ Len(s) = 1 => /\ Append(s, x) \in Seq(T) /\ Len(Append(s, x)) = 2
                            /\ Append(s, x)[1] = s[1] /\ Append(s, x)[2] = x /\ s[1] \in T
           /\ Len(s) = 2 => /\ Append(s, x) \in Seq(T) /\ Append(s, x)[1] = s[1]
                            /\ Append(s, x)[2] = s[2] /\ Append(s, x)[3] = x
                            /\ s[1] \in T /\ s[2] \in T
<1>1. PICK a : /\ a = Append(s, x) /\ a \in Seq(T) /\ Len(a) = Len(s) + 1
               /\ \A i \in 1 .. Len(s) : a[i] = s[i]
               /\ a[Len(s) + 1] = x
  BY AppendProperties
<1>2. Len(s) = 1 => a \in Seq(T) /\ Len(a) = 2 /\ a[1] = s[1] /\ a[2] = x /\ s[1] \in T
  BY <1>1
<1>3. Len(s) = 2 => a \in Seq(T) /\ a[1] = s[1] /\ a[2] = s[2] /\ a[3] = x /\ s[1] \in T /\ s[2] \in T
  BY <1>1
<1>4. QED
  BY <1>1, <1>2, <1>3, Zenon

LEMMA Shorter ==
    ASSUME NEW T, NEW x \in T
    PROVE  << >> \in Seq(T) /\ Len(<< >>) <= 2 /\ <<x>> \in Seq(T) /\ Len(<<x>>) = 1
OBVIOUS

LEMMA OneMore ==
    ASSUME NEW T, NEW s \in Seq(T), NEW x \in T, NEW r,
           Len(s) = 1 => r = Append(s, x), Len(s) # 1 => r = << >> \/ r = <<x>>
    PROVE  r \in Seq(T) /\ Len(r) <= 2
<1>1. CASE Len(s) = 1
  <2>0. r = Append(s, x)
    BY <1>1
  <2>1. Append(s, x) \in Seq(T) /\ Len(Append(s, x)) = 2
    BY <1>1, Longer
  <2>2. QED
    BY <2>0, <2>1, SMT
<1>2. CASE r = << >>
  BY <1>2
<1>3. CASE r = <<x>>
  BY <1>3
<1>4. QED
  BY <1>1, <1>2, <1>3

\* What a byte of the mouse does to the packet, the ring and the packets due.
LEMMA ByteTypes ==
    ASSUME InputTypes, obf \in MouseBytes
    PROVE  /\ Received(obf) \in Seq(MouseBytes) /\ Len(Received(obf)) <= 2
           /\ RingOf(Assembled(obf), MOUSE_BUFFER_SIZE, Events \cup {NoByte})
           /\ Due(obf) \in Seq(Events)
<1>1. packet \in Seq(MouseBytes) /\ Len(packet) <= 2
  BY DEF InputTypes, MouseTypes
<1>2. Received(obf) \in Seq(MouseBytes) /\ Len(Received(obf)) <= 2
  <2>1. Len(packet) = 1 => Received(obf) = Append(packet, obf)
    BY DEF Received
  <2>2. Len(packet) # 1 => Received(obf) = << >> \/ Received(obf) = <<obf>>
    BY DEF Received
  <2>3. QED
    BY <1>1, <2>1, <2>2, OneMore
<1>3. ASSUME Len(packet) = 2 PROVE Event(Append(packet, obf)) \in Events
  <2>1. PICK x, y, z \in MouseBytes :
           Append(packet, obf)[1] = x /\ Append(packet, obf)[2] = y /\ Append(packet, obf)[3] = z
    BY <1>1, <1>3, Longer, Zenon
  <2>2. Event(Append(packet, obf)) = [buttons |-> x, dx |-> y, dy |-> z]
    BY <2>1, Zenon DEF Event
  <2>3. QED
    BY <2>2 DEF Events
<1>4. RingOf(Assembled(obf), MOUSE_BUFFER_SIZE, Events \cup {NoByte})
  BY <1>3, PutAppends DEF Assembled, InputTypes, MouseTypes
<1>5. Event([i \in 1 .. 3 |-> MouseByte(obf.pkt, i)]) \in Events
  <2>1. obf.pkt \in Packets
    BY DEF MouseBytes
  <2>2. QED
    BY <2>1, MouseByteType DEF Event, Events
<1>6. Due(obf) \in Seq(Events)
  BY <1>5 DEF Due, InputTypes, MouseTypes
<1>7. QED
  BY <1>2, <1>4, <1>6

LEMMA WokenType ==
    ASSUME KeyTypes
    PROVE  Woken \in [Readers -> [pc : ReaderPlaces, op : {NUL, "getchar", "read"}, left : Int, c : Chars]]
BY DEF KeyTypes, Woken, ReaderPlaces

LEMMA KeyedTypes ==
    ASSUME KeyTypes, NEW b \in KeyBytes, Keyed(b)
    PROVE  /\ mods' \in [shift : BOOLEAN, ctrl : BOOLEAN, caps : BOOLEAN]
           /\ RingOf(kbd', KEYBOARD_BUFFER_SIZE, Chars)
           /\ owed' \in Seq(Chars)
<1>1. /\ b.make \in BOOLEAN /\ b.code \in Codes /\ b.meant \in Chars
      /\ mods \in [shift : BOOLEAN, ctrl : BOOLEAN, caps : BOOLEAN]
      /\ RingOf(kbd, KEYBOARD_BUFFER_SIZE, Chars) /\ owed \in Seq(Chars)
  BY DEF KeyBytes, KeyTypes
<1>2. mods' \in [shift : BOOLEAN, ctrl : BOOLEAN, caps : BOOLEAN]
  BY <1>1 DEF Keyed, Modified
<1>3. owed' \in Seq(Chars)
  BY <1>1 DEF Keyed
<1>4. RingOf(kbd', KEYBOARD_BUFFER_SIZE, Chars)
  <2> DEFINE ch == IF b.make THEN Translated(b.code) ELSE NUL
  <2>1. ch \in Chars
    BY <1>1, TranslatedType DEF Chars
  <2>2. kbd' = IF ch # NUL THEN Put(kbd, KEYBOARD_BUFFER_SIZE, ch) ELSE kbd
    BY DEF Keyed
  <2> HIDE DEF ch
  <2>3. QED
    BY <1>1, <2>1, <2>2, PutAppends
<1>5. QED
  BY <1>2, <1>3, <1>4

LEMMA Irq1Types == ASSUME InputTypes, Irq1 PROVE InputTypes'
<1>0. /\ DeviceTypes /\ KeyTypes /\ MouseTypes
      /\ obf \in KeyBytes \cup MouseBytes \cup {NoByte} /\ stale \in KeyBytes
  BY DEF InputTypes, DeviceTypes
<1>1. DeviceTypes'
  BY <1>0, Sources DEF DeviceTypes, Irq1, userVars
<1>2. rd' \in [Readers -> [pc : ReaderPlaces, op : {NUL, "getchar", "read"}, left : Int, c : Chars]]
  BY <1>0, WokenType DEF Irq1
<1>3. md' = md
  BY DEF Irq1
<1>4. CASE obf.src = "aux"
  <2>1. obf \in MouseBytes
    BY <1>0, <1>4, InTheBuffer
  <2>2. /\ packet' = Received(obf) /\ mouse' = Assembled(obf) /\ evs' = Due(obf)
        /\ mods' = mods /\ kbd' = kbd /\ owed' = owed
    BY <1>4 DEF Irq1, keyVars
  <2>3. MouseTypes'
    BY <1>0, <1>3, <2>1, <2>2, ByteTypes DEF MouseTypes
  <2>4. KeyTypes'
    BY <1>0, <1>2, <2>2 DEF KeyTypes
  <2>5. QED
    BY <1>1, <2>3, <2>4 DEF InputTypes
<1>5. CASE obf.src # "aux"
  <2>1. PICK b \in KeyBytes : Keyed(b) /\ packet' = packet /\ mouse' = mouse /\ evs' = evs
    BY <1>0, <1>5, InTheBuffer, Zenon DEF Irq1, mouseVars
  <2>2. KeyTypes'
    BY <1>0, <1>2, <2>1, KeyedTypes DEF KeyTypes
  <2>3. MouseTypes'
    BY <1>0, <1>3, <2>1 DEF MouseTypes
  <2>4. QED
    BY <1>1, <2>2, <2>3 DEF InputTypes
<1>6. QED
  BY <1>4, <1>5

\* wm_update leaves an empty ring.
LEMMA WmUpdateEmpties ==
    ASSUME NEW r, NEW due, RingOf(r, MOUSE_BUFFER_SIZE, Events \cup {NoByte}), WmUpdate(r, due)
    PROVE  /\ RingOf(mouse', MOUSE_BUFFER_SIZE, Events \cup {NoByte})
           /\ Contents(mouse', MOUSE_BUFFER_SIZE) = << >> /\ ~HasData(mouse')
           /\ evs' = << >>
<1>1. /\ MOUSE_BUFFER_SIZE \in Nat \ {0, 1} /\ r.head \in 0 .. MOUSE_BUFFER_SIZE - 1
      /\ mouse' = [Ring(MOUSE_BUFFER_SIZE, NoByte) EXCEPT !.head = r.head, !.tail = r.head]
  BY InputAssumption DEF WmUpdate, RingOf
<1>2. QED
  BY <1>1, EmptyRing DEF WmUpdate

LEMMA TickTypes == ASSUME InputTypes, Tick PROVE InputTypes'
<1>0. /\ DeviceTypes /\ KeyTypes /\ MouseTypes
      /\ obf \in KeyBytes \cup MouseBytes \cup {NoByte}
  BY DEF InputTypes, DeviceTypes
<1>1. DeviceTypes'
  BY <1>0 DEF DeviceTypes, Tick, userVars
<1>2. KeyTypes'
  BY <1>0, WokenType DEF KeyTypes, Tick, keyVars
<1>3. MouseTypes'
  <2>1. md' = md
    BY DEF Tick
  <2>2. CASE Polls
    <3>1. obf \in MouseBytes
      BY <1>0, <2>2, InTheBuffer DEF Polls
    <3>2. packet' = Received(obf) /\ WmUpdate(Assembled(obf), Due(obf))
      BY <2>2 DEF Tick
    <3>3. /\ RingOf(mouse', MOUSE_BUFFER_SIZE, Events \cup {NoByte}) /\ evs' = << >>
      BY <3>1, <3>2, ByteTypes, WmUpdateEmpties
    <3>4. QED
      BY <1>0, <2>1, <3>1, <3>2, <3>3, ByteTypes DEF MouseTypes
  <2>3. CASE ~Polls
    <3>1. packet' = packet /\ WmUpdate(mouse, evs)
      BY <2>3 DEF Tick
    <3>2. /\ RingOf(mouse', MOUSE_BUFFER_SIZE, Events \cup {NoByte}) /\ evs' = << >>
      BY <1>0, <3>1, WmUpdateEmpties DEF MouseTypes
    <3>3. QED
      BY <1>0, <2>1, <3>1, <3>2 DEF MouseTypes
  <2>4. QED
    BY <2>2, <2>3
<1>4. QED
  BY <1>1, <1>2, <1>3 DEF InputTypes

\* The system calls of a reader.
ReaderCall(r) ==
    SysGetchar(r) \/ ReaderStep(r) \/ \E len \in ReadLens : SysRead(r, len)

LEMMA ReaderTypes == ASSUME InputTypes, NEW r \in Readers, ReaderCall(r) PROVE InputTypes'
<1> DEFINE RD == [pc : ReaderPlaces, op : {NUL, "getchar", "read"}, left : Int, c : Chars]
<1>0. /\ DeviceTypes /\ KeyTypes /\ MouseTypes /\ rd \in [Readers -> RD] /\ rd[r] \in RD
      /\ RingOf(kbd, KEYBOARD_BUFFER_SIZE, Chars) /\ owed \in Seq(Chars) /\ NUL \in Chars
  BY DEF InputTypes, KeyTypes, Chars
<1>1. Same
  BY DEF ReaderCall, ReaderStep, SysGetchar, SysRead, Test, Hlt, Get, Advance
<1>2. DeviceTypes' /\ MouseTypes'
  BY <1>0, <1>1 DEF DeviceTypes, MouseTypes, Same, mouseVars, userVars
<1>3. RingOf(kbd', KEYBOARD_BUFFER_SIZE, Chars) /\ owed' \in Seq(Chars)
  <2>1. CASE kbd' = kbd /\ owed' = owed
    BY <1>0, <2>1
  <2>2. CASE Advance(r)
    BY <1>0, <2>2, AdvancedRing DEF Advance
  <2>3. QED
    BY <2>1, <2>2 DEF ReaderCall, ReaderStep, SysGetchar, SysRead, Test, Hlt, Get
<1>4. Returned(r) \in [Readers -> RD]
  BY <1>0 DEF Returned, ReaderPlaces
<1>5. Store(r) \in [Readers -> RD]
  <2>1. "test" \in ReaderPlaces /\ rd[r].left - 1 \in Int
    BY <1>0 DEF ReaderPlaces
  <2>2. [rd EXCEPT ![r] = Reading("read", rd[r].left - 1)] \in [Readers -> RD]
    BY <1>0, <2>1 DEF Reading
  <2>3. QED
    BY <1>4, <2>2 DEF Store
<1>6. HasData(kbd) => kbd.buf[kbd.tail] \in Chars
  BY <1>0 DEF RingOf
<1>7. rd' \in [Readers -> RD]
  <2>0. "test" \in ReaderPlaces /\ 1 \in Int /\ \A len \in ReadLens : len \in Int
    BY InputAssumption DEF ReaderPlaces
  <2>1. CASE SysGetchar(r)
    BY <1>0, <2>1, <2>0 DEF SysGetchar, Reading
  <2>2. ASSUME NEW len \in ReadLens, SysRead(r, len) PROVE rd' \in [Readers -> RD]
    BY <1>0, <2>0, <2>2 DEF SysRead, Reading
  <2>3. CASE Test(r)
    <3>1. CASE rd' = Returned(r)
      BY <1>4, <3>1
    <3>2. CASE rd' = [rd EXCEPT ![r].pc = "get"] \/ rd' = [rd EXCEPT ![r].pc = "hlt"]
      BY <1>0, <3>2 DEF ReaderPlaces
    <3>3. QED
      BY <2>3, <3>1, <3>2 DEF Test
  <2>4. CASE Hlt(r)
    BY <1>0, <2>4 DEF Hlt, ReaderPlaces
  <2>5. CASE Get(r)
    BY <1>0, <1>5, <1>6, <2>5 DEF Get, ReaderPlaces
  <2>6. CASE Advance(r)
    BY <1>5, <2>6 DEF Advance
  <2>7. QED
    BY <2>1, <2>2, <2>3, <2>4, <2>5, <2>6 DEF ReaderCall, ReaderStep
<1>8. mods' = mods
  BY <1>1 DEF Same
<1>9. QED
  BY <1>0, <1>2, <1>3, <1>7, <1>8 DEF InputTypes, KeyTypes

LEMMA MouseReadTypes == ASSUME InputTypes, SysMouseRead \/ MouseAdvance PROVE InputTypes'
<1>0. DeviceTypes /\ KeyTypes /\ MouseTypes
  BY DEF InputTypes
<1>1. DeviceTypes' /\ KeyTypes'
  BY <1>0 DEF DeviceTypes, KeyTypes, SysMouseRead, MouseAdvance, keyVars, userVars
<1>2. CASE SysMouseRead
  BY <1>0, <1>1, <1>2 DEF MouseTypes, SysMouseRead, mouseVars, InputTypes
<1>3. CASE MouseAdvance
  <2>1. RingOf(mouse', MOUSE_BUFFER_SIZE, Events \cup {NoByte})
    BY <1>0, <1>3, AdvancedRing DEF MouseAdvance, MouseTypes
  <2>2. QED
    BY <1>0, <1>1, <1>3, <2>1 DEF MouseTypes, MouseAdvance, InputTypes
<1>4. QED
  BY <1>2, <1>3

LEMMA StepTypes == ASSUME InputTypes, [Next]_vars PROVE InputTypes'
<1>1. CASE UNCHANGED vars
  BY <1>1 DEF vars, InputTypes, DeviceTypes, KeyTypes, MouseTypes
<1>2. CASE Next
  BY <1>2, DeviceStepTypes, Irq1Types, TickTypes, ReaderTypes, MouseReadTypes DEF Next, ReaderCall
<1>3. QED
  BY <1>1, <1>2

\* TypeOK: every variable keeps its type, whatever the user and the tasks do.
THEOREM InputTypeCorrect == Spec => []TypeOK
<1>1. Init => InputTypes
  BY InitTypes
<1>2. InputTypes /\ [Next]_vars => InputTypes'
  BY StepTypes
<1>3. InputTypes => TypeOK
  BY TypesImplyTypeOK
<1>4. QED
  BY <1>1, <1>2, <1>3, PTL DEF Spec

-----------------------------------------------------------------------------
(* The keyboard.                                                             *)

\* One task reads the keyboard.
OnlyReader == \A q, r \in Readers : q = r

Flags == [shift : BOOLEAN, caps : BOOLEAN]

\* What a byte makes of the flags, and what its key means under them.
After(b, f) ==
    [shift |-> IF b.code \in Shifts THEN b.make ELSE f.shift,
     caps  |-> f.caps # (b.code = "caps" /\ b.make)]

MeantUnder(f, c) ==
    CASE c = "a"  -> IF f.shift # f.caps THEN "A" ELSE "a"
      [] c = "1"  -> IF f.shift THEN "!" ELSE "1"
      [] c = "up" -> "UP"
      [] OTHER    -> NUL

\* A byte was sent under the flags f.
SentUnder(b, f) == b.meant = IF b.make THEN MeantUnder(f, b.code) ELSE NUL

\* The bytes q, each sent under the flags the ones before it leave, lead from
\* the flags a to the flags z.
Leads(a, q, z) ==
    \E f \in [0 .. Len(q) -> Flags] :
        /\ f[0] = a /\ f[Len(q)] = z
        /\ \A i \in 1 .. Len(q) : f[i] = After(q[i], f[i - 1]) /\ SentUnder(q[i], f[i - 1])

HandlerFlags == [shift |-> mods.shift, caps |-> mods.caps]
UserFlags == [shift |-> held # {}, caps |-> capsOn]

\* The flags once the handler has seen the byte in the output buffer.
Pending == IF obf.src = "kbd" THEN After(obf, HandlerFlags) ELSE HandlerFlags

\* The handler lags behind the user by the bytes it has not seen yet, and they
\* take it to the flags the user sees.
UserInv ==
    /\ Leads(Pending, kq, UserFlags)
    /\ obf.src = "kbd" => SentUnder(obf, HandlerFlags)
    /\ SentUnder(stale, HandlerFlags) /\ stale.code \notin Shifts \cup {"caps"}
    /\ held = {} \/ \E c \in Shifts : held = {c}

RingInv == Contents(kbd, KEYBOARD_BUFFER_SIZE) = owed /\ ReadsOldest

KeyInv == InputTypes /\ UserInv /\ RingInv

LEMMA AfterType == ASSUME NEW b \in KeyBytes, NEW f \in Flags PROVE After(b, f) \in Flags
BY DEF After, KeyBytes, Flags

\* One more byte from the user.
LEMMA LeadsAppend ==
    ASSUME NEW a, NEW q \in Seq(KeyBytes), NEW z, Leads(a, q, z),
           NEW b \in KeyBytes, SentUnder(b, z)
    PROVE  Leads(a, Append(q, b), After(b, z))
<1>1. PICK f \in [0 .. Len(q) -> Flags] :
        /\ f[0] = a /\ f[Len(q)] = z
        /\ \A i \in 1 .. Len(q) : f[i] = After(q[i], f[i - 1]) /\ SentUnder(q[i], f[i - 1])
  BY DEF Leads
<1>2. PICK n \in Nat : n = Len(q)
  OBVIOUS
<1>3. PICK s : /\ s = Append(q, b) /\ Len(s) = n + 1 /\ s[n + 1] = b
               /\ \A i \in 1 .. n : s[i] = q[i]
  BY <1>2, AppendProperties
<1> DEFINE g == [i \in 0 .. n + 1 |-> IF i = n + 1 THEN After(b, z) ELSE f[i]]
<1>4. z \in Flags /\ After(b, z) \in Flags
  BY <1>1, <1>2, AfterType
<1>5. /\ g \in [0 .. n + 1 -> Flags] /\ g[0] = a /\ g[n + 1] = After(b, z)
      /\ \A i \in 0 .. n : g[i] = f[i]
  BY <1>1, <1>2, <1>4
<1> HIDE DEF g
<1>6. ASSUME NEW i \in 1 .. n + 1
      PROVE  g[i] = After(s[i], g[i - 1]) /\ SentUnder(s[i], g[i - 1])
  <2>1. CASE i = n + 1
    <3>1. g[i - 1] = z /\ s[i] = b /\ g[i] = After(b, z)
      BY <1>1, <1>2, <1>3, <1>5, <2>1
    <3>2. QED
      BY <3>1
  <2>2. CASE i \in 1 .. n
    <3>1. g[i - 1] = f[i - 1] /\ s[i] = q[i] /\ g[i] = f[i]
      BY <1>2, <1>3, <1>5, <2>2
    <3>2. QED
      BY <1>1, <1>2, <2>2, <3>1
  <2>3. QED
    BY <1>2, <2>1, <2>2
<1>7. QED
  BY <1>3, <1>5, <1>6 DEF Leads

\* The first byte goes to the controller.
LEMMA LeadsTail ==
    ASSUME NEW a, NEW q \in Seq(KeyBytes), NEW z, Leads(a, q, z), q # << >>
    PROVE  SentUnder(Head(q), a) /\ Leads(After(Head(q), a), Tail(q), z)
<1>1. PICK f \in [0 .. Len(q) -> Flags] :
        /\ f[0] = a /\ f[Len(q)] = z
        /\ \A i \in 1 .. Len(q) : f[i] = After(q[i], f[i - 1]) /\ SentUnder(q[i], f[i - 1])
  BY DEF Leads
<1>2. PICK n \in Nat : n + 1 = Len(q)
  <2>1. Len(q) \in Nat \ {0}
    OBVIOUS
  <2>2. QED
    BY <2>1
<1>3. PICK s : s = Tail(q) /\ Len(s) = n /\ \A i \in 1 .. n : s[i] = q[i + 1]
  BY <1>2, HeadTailProperties
<1>4. Head(q) = q[1]
  BY <1>2
<1>5. f[1] = After(q[1], a) /\ SentUnder(q[1], a)
  <2>1. 1 \in 1 .. Len(q) /\ 1 - 1 = 0
    BY <1>2
  <2>2. QED
    BY <1>1, <2>1
<1> DEFINE g == [i \in 0 .. n |-> f[i + 1]]
<1>6. /\ g \in [0 .. n -> Flags] /\ g[0] = f[1] /\ g[n] = z
      /\ \A i \in 0 .. n : g[i] = f[i + 1]
  BY <1>1, <1>2
<1> HIDE DEF g
<1>7. ASSUME NEW i \in 1 .. n
      PROVE  g[i] = After(s[i], g[i - 1]) /\ SentUnder(s[i], g[i - 1])
  <2>1. i + 1 \in 1 .. Len(q) /\ i + 1 - 1 = i
    BY <1>2
  <2>2. f[i + 1] = After(q[i + 1], f[i]) /\ SentUnder(q[i + 1], f[i])
    BY <1>1, <2>1
  <2>3. g[i - 1] = f[i] /\ g[i] = f[i + 1] /\ s[i] = q[i + 1]
    BY <1>3, <1>6
  <2>4. QED
    BY <2>2, <2>3
<1>8. QED
  BY <1>3, <1>4, <1>5, <1>6, <1>7 DEF Leads

LEMMA FlagTypes == ASSUME InputTypes PROVE HandlerFlags \in Flags /\ UserFlags \in Flags
BY DEF InputTypes, DeviceTypes, KeyTypes, HandlerFlags, UserFlags, Flags

\* The tables and the caps lock give what the user means under the same flags.
LEMMA TranslatedIs ==
    ASSUME InputTypes, NEW c \in Codes
    PROVE  Translated(c) = MeantUnder(HandlerFlags, c)
<1>1. mods.shift \in BOOLEAN /\ mods.caps \in BOOLEAN
  BY DEF InputTypes, KeyTypes
<1>2. QED
  BY <1>1 DEF Translated, MeantUnder, HandlerFlags, kbd_us_shift, kbd_us_normal, Arrow, SwapCase, NUL,
              Codes, Shifts, CharCodes

LEMMA MeantIs ==
    ASSUME InputTypes, NEW c \in Codes
    PROVE  Meant(c) = MeantUnder(UserFlags, c)
BY DEF Meant, MeantUnder, UserFlags

\* keyboard_handler on a byte sent under its flags: the flags follow, and the
\* ring gets what the user meant.
LEMMA KeyedFollows ==
    ASSUME InputTypes, RingInv, NEW b \in KeyBytes, SentUnder(b, HandlerFlags), Keyed(b)
    PROVE  /\ HandlerFlags' = After(b, HandlerFlags)
           /\ Contents(kbd', KEYBOARD_BUFFER_SIZE) = owed'
           /\ HasData(kbd) => HasData(kbd')
           /\ owed # << >> => owed' # << >> /\ Head(owed') = Head(owed)
<1>1. /\ b.make \in BOOLEAN /\ b.code \in Codes /\ b.meant \in Chars
      /\ RingOf(kbd, KEYBOARD_BUFFER_SIZE, Chars) /\ owed \in Seq(Chars)
  BY DEF KeyBytes, InputTypes, KeyTypes
<1>2. (IF b.make THEN Translated(b.code) ELSE NUL) = b.meant
  BY <1>1, TranslatedIs DEF SentUnder
<1>3. kbd' = IF b.meant # NUL THEN Put(kbd, KEYBOARD_BUFFER_SIZE, b.meant) ELSE kbd
  BY <1>2 DEF Keyed
<1>4. HandlerFlags' = After(b, HandlerFlags)
  BY DEF Keyed, Modified, After, HandlerFlags
<1>5. owed' = IF b.meant # NUL /\ Len(owed) < KEYBOARD_BUFFER_SIZE - 1
              THEN Append(owed, b.meant) ELSE owed
  BY DEF Keyed
<1>6. Contents(kbd, KEYBOARD_BUFFER_SIZE) = owed
  BY DEF RingInv
<1>7. Contents(kbd', KEYBOARD_BUFFER_SIZE) = owed' /\ (HasData(kbd) => HasData(kbd'))
  BY <1>1, <1>3, <1>5, <1>6, PutAppends
<1>8. owed # << >> => owed' # << >> /\ Head(owed') = Head(owed)
  BY <1>1, <1>5
<1>9. QED
  BY <1>4, <1>7, <1>8

LEMMA InitKeys == Init => KeyInv
<1> SUFFICES ASSUME Init PROVE KeyInv
  OBVIOUS
<1>1. InputTypes
  BY InitTypes
<1>2. UserInv
  <2>1. /\ HandlerFlags = [shift |-> FALSE, caps |-> FALSE]
        /\ UserFlags = [shift |-> FALSE, caps |-> FALSE] /\ Pending = HandlerFlags
    BY DEF Init, HandlerFlags, UserFlags, Pending, NoByte
  <2>2. Leads(Pending, kq, UserFlags)
    <3>1. kq = << >> /\ Len(kq) = 0
      BY DEF Init
    <3>2. [i \in 0 .. 0 |-> Pending] \in [0 .. 0 -> Flags]
      BY <1>1, <2>1, FlagTypes
    <3>3. PICK f : f = [i \in 0 .. 0 |-> Pending]
      OBVIOUS
    <3>4. f \in [0 .. Len(kq) -> Flags] /\ f[0] = Pending /\ f[Len(kq)] = UserFlags /\ 1 .. Len(kq) = {}
      BY <2>1, <3>1, <3>2, <3>3
    <3>5. QED
      BY <3>4 DEF Leads
  <2>3. SentUnder(stale, HandlerFlags) /\ stale.code \notin Shifts \cup {"caps"}
    BY <2>1 DEF Init, SentUnder, MeantUnder, ACK, KeyByte, Shifts
  <2>4. QED
    BY <2>2, <2>3 DEF UserInv, Init, NoByte
<1>3. RingInv
  <2>1. Contents(kbd, KEYBOARD_BUFFER_SIZE) = << >>
    <3>1. KEYBOARD_BUFFER_SIZE \in Nat \ {0, 1} /\ 0 \in 0 .. KEYBOARD_BUFFER_SIZE - 1
      BY InputAssumption
    <3>2. kbd = [buf |-> [i \in 0 .. KEYBOARD_BUFFER_SIZE - 1 |-> NUL], head |-> 0, tail |-> 0]
      BY DEF Init, Ring
    <3>3. NUL \in Chars
      BY DEF Chars
    <3>4. QED
      BY <3>1, <3>2, <3>3, EmptyAt
  <2>2. QED
    BY <2>1 DEF RingInv, ReadsOldest, Init
<1>4. QED
  BY <1>1, <1>2, <1>3 DEF KeyInv

\* A key goes down or up.
LEMMA KeyUser ==
    ASSUME InputTypes, UserInv, NEW c \in Keys, KeyDown(c) \/ KeyUp(c)
    PROVE  UserInv'
<1>0. /\ c \in Codes /\ kq \in Seq(KeyBytes) /\ capsOn \in BOOLEAN /\ NUL \in Chars
      /\ Leads(Pending, kq, UserFlags)
      /\ obf' = obf /\ stale' = stale /\ mods' = mods
  BY KeysAssumption DEF InputTypes, DeviceTypes, UserInv, Chars, KeyDown, KeyUp, keyVars
<1>1. HandlerFlags' = HandlerFlags /\ Pending' = Pending
  BY <1>0 DEF HandlerFlags, Pending
<1>2. held' = {} \/ \E d \in Shifts : held' = {d}
  BY DEF UserInv, KeyDown, KeyUp
<1>3. Leads(Pending', kq', UserFlags')
  <2>1. CASE KeyDown(c)
    <3> DEFINE b == KeyByte(TRUE, c, Meant(c))
    <3>1. b \in KeyBytes /\ kq' = Append(kq, b)
      BY <1>0, <2>1, MeantType, KeyByteType DEF KeyDown
    <3>2. SentUnder(b, UserFlags)
      BY <1>0, MeantIs DEF SentUnder, KeyByte
    <3>3. UserFlags' = After(b, UserFlags)
      BY <1>0, <2>1 DEF KeyDown, UserFlags, After, KeyByte, Shifts
    <3> HIDE DEF b
    <3>4. QED
      BY <1>0, <1>1, <3>1, <3>2, <3>3, LeadsAppend
  <2>2. CASE KeyUp(c)
    <3> DEFINE b == KeyByte(FALSE, c, NUL)
    <3>1. b \in KeyBytes /\ kq' = Append(kq, b)
      BY <1>0, <2>2, KeyByteType DEF KeyUp
    <3>2. SentUnder(b, UserFlags)
      BY DEF SentUnder, KeyByte
    <3>3. c \in Shifts => held' = {}
      BY <2>2 DEF KeyUp, UserInv
    <3>4. c \notin Shifts => held' = held
      BY <2>2 DEF KeyUp, UserInv
    <3>5. UserFlags' = After(b, UserFlags)
      BY <1>0, <2>2, <3>3, <3>4 DEF KeyUp, UserFlags, After, KeyByte
    <3> HIDE DEF b
    <3>6. QED
      BY <1>0, <1>1, <3>1, <3>2, <3>5, LeadsAppend
  <2>3. QED
    BY <2>1, <2>2
<1>4. QED
  BY <1>0, <1>1, <1>2, <1>3 DEF UserInv

LEMMA LoadUser == ASSUME InputTypes, UserInv, LoadKey \/ LoadMouse PROVE UserInv'
<1>0. /\ kq \in Seq(KeyBytes) /\ mq \in Seq(MouseBytes) /\ obf = NoByte /\ obf.src = "none"
      /\ Leads(Pending, kq, UserFlags)
      /\ stale' = stale /\ mods' = mods /\ held' = held /\ capsOn' = capsOn
  BY Sources DEF InputTypes, DeviceTypes, UserInv, LoadKey, LoadMouse, keyVars, userVars
<1>1. HandlerFlags' = HandlerFlags /\ UserFlags' = UserFlags /\ Pending = HandlerFlags
  BY <1>0 DEF HandlerFlags, UserFlags, Pending
<1>2. CASE LoadKey
  <2>1. kq # << >> /\ obf' = Head(kq) /\ kq' = Tail(kq) /\ Head(kq) \in KeyBytes
    BY <1>0, <1>2 DEF LoadKey
  <2>2. Pending' = After(Head(kq), HandlerFlags)
    BY <1>1, <2>1, Sources DEF Pending
  <2>3. SentUnder(Head(kq), HandlerFlags) /\ Leads(Pending', kq', UserFlags')
    BY <1>0, <1>1, <2>1, <2>2, LeadsTail
  <2>4. QED
    BY <1>0, <1>1, <2>1, <2>3 DEF UserInv
<1>3. CASE LoadMouse
  <2>1. kq' = kq /\ obf' \in MouseBytes
    BY <1>0, <1>3 DEF LoadMouse
  <2>2. obf'.src = "aux" /\ Pending' = Pending
    BY <1>1, <2>1, Sources DEF Pending
  <2>3. QED
    BY <1>0, <1>1, <2>1, <2>2 DEF UserInv
<1>4. QED
  BY <1>2, <1>3

\* 0xFA does not touch the flags.
LEMMA AckIsSent ==
    /\ \A f : SentUnder(ACK, f)
    /\ ACK.code \notin Shifts \cup {"caps"}
BY DEF SentUnder, ACK, KeyByte, Shifts

LEMMA Irq1User == ASSUME InputTypes, UserInv, RingInv, Irq1 PROVE UserInv'
<1>0. /\ kq \in Seq(KeyBytes) /\ obf \in KeyBytes \cup MouseBytes \cup {NoByte} /\ stale \in KeyBytes
      /\ kq' = kq /\ held' = held /\ capsOn' = capsOn /\ obf' = NoByte /\ stale' = ACK
      /\ obf'.src = "none"
      /\ Leads(Pending, kq, UserFlags) /\ HandlerFlags \in Flags
  BY Sources, FlagTypes DEF InputTypes, DeviceTypes, UserInv, Irq1, userVars
<1>1. UserFlags' = UserFlags /\ Pending' = HandlerFlags'
  BY <1>0 DEF UserFlags, Pending
<1>2. HandlerFlags' = Pending
  <2>1. CASE obf.src = "aux"
    BY <2>1 DEF Irq1, keyVars, HandlerFlags, Pending
  <2>2. CASE obf.src = "kbd"
    <3>1. obf \in KeyBytes /\ Keyed(obf) /\ SentUnder(obf, HandlerFlags)
      BY <1>0, <2>2, InTheBuffer DEF Irq1, UserInv
    <3>2. QED
      BY <2>2, <3>1, KeyedFollows DEF Pending
  <2>3. CASE obf.src \notin {"aux", "kbd"}
    <3>1. Keyed(stale) /\ SentUnder(stale, HandlerFlags) /\ stale.code \notin Shifts \cup {"caps"}
      BY <2>3 DEF Irq1, UserInv
    <3>2. HandlerFlags' = After(stale, HandlerFlags)
      BY <1>0, <3>1, KeyedFollows
    <3>3. After(stale, HandlerFlags) = HandlerFlags
      BY <1>0, <3>1 DEF After, Flags
    <3>4. QED
      BY <2>3, <3>2, <3>3 DEF Pending
  <2>4. QED
    BY <2>1, <2>2, <2>3
<1>3. QED
  BY <1>0, <1>1, <1>2, AckIsSent DEF UserInv

LEMMA OtherUser ==
    ASSUME InputTypes, UserInv,
           \/ UNCHANGED vars \/ Tick \/ SysMouseRead \/ MouseAdvance
           \/ \E p \in Packets : MouseMove(p)
           \/ \E r \in Readers : ReaderCall(r)
    PROVE  UserInv'
<1>1. /\ kq' = kq /\ held' = held /\ capsOn' = capsOn /\ mods' = mods /\ stale' = stale
      /\ obf' = obf \/ (obf.src = "aux" /\ obf' = NoByte)
  BY DEF vars, Tick, Polls, SysMouseRead, MouseAdvance, MouseMove, ReaderCall, ReaderStep, SysGetchar,
         SysRead, Test, Hlt, Get, Advance, Same, userVars, keyVars
<1>2. (obf' = obf) \/ (obf.src = "aux" /\ obf'.src = "none")
  BY <1>1, Sources
<1>3. UserFlags' = UserFlags /\ HandlerFlags' = HandlerFlags
  BY <1>1 DEF UserFlags, HandlerFlags
<1>4. Pending' = Pending
  BY <1>2, <1>3 DEF Pending
<1>5. QED
  BY <1>1, <1>2, <1>3, <1>4 DEF UserInv

\* The reader's place and the ring when neither the ring nor a reader at "get"
\* or "advance" is touched by anything but the handler.
LEMMA Irq1Ring == ASSUME InputTypes, UserInv, RingInv, Irq1 PROVE RingInv'
<1>0. /\ obf \in KeyBytes \cup MouseBytes \cup {NoByte} /\ stale \in KeyBytes
      /\ Contents(kbd, KEYBOARD_BUFFER_SIZE) = owed /\ ReadsOldest
      /\ rd \in [Readers -> [pc : ReaderPlaces, op : {NUL, "getchar", "read"}, left : Int, c : Chars]]
  BY DEF InputTypes, DeviceTypes, KeyTypes, RingInv
<1>1. ASSUME NEW r \in Readers, rd'[r].pc \in {"get", "advance"} PROVE rd'[r] = rd[r]
  BY <1>0, <1>1 DEF Irq1, Woken
<1>2. /\ Contents(kbd', KEYBOARD_BUFFER_SIZE) = owed'
      /\ HasData(kbd) => HasData(kbd')
      /\ owed # << >> => owed' # << >> /\ Head(owed') = Head(owed)
  <2>1. CASE obf.src = "aux"
    BY <1>0, <2>1 DEF Irq1, keyVars
  <2>2. CASE obf.src # "aux"
    <3>1. PICK b \in KeyBytes : Keyed(b) /\ SentUnder(b, HandlerFlags)
      <4>1. CASE obf.src = "kbd"
        BY <1>0, <4>1, InTheBuffer DEF Irq1, UserInv
      <4>2. CASE obf.src # "kbd"
        BY <1>0, <2>2, <4>2 DEF Irq1, UserInv
      <4>3. QED
        BY <4>1, <4>2
    <3>2. QED
      BY <3>1, KeyedFollows
  <2>3. QED
    BY <2>1, <2>2
<1>3. ReadsOldest'
  BY <1>0, <1>1, <1>2 DEF ReadsOldest
<1>4. QED
  BY <1>2, <1>3 DEF RingInv

\* A step of the only reader.
LEMMA ReaderRing ==
    ASSUME OnlyReader, InputTypes, RingInv, NEW r \in Readers, ReaderCall(r)
    PROVE  RingInv'
<1>0. /\ Contents(kbd, KEYBOARD_BUFFER_SIZE) = owed
      /\ RingOf(kbd, KEYBOARD_BUFFER_SIZE, Chars) /\ owed \in Seq(Chars) /\ NUL \in Chars
      /\ rd \in [Readers -> [pc : ReaderPlaces, op : {NUL, "getchar", "read"}, left : Int, c : Chars]]
      /\ rd[r] \in [pc : ReaderPlaces, op : {NUL, "getchar", "read"}, left : Int, c : Chars]
      /\ \A q \in Readers : q = r
  BY DEF InputTypes, KeyTypes, RingInv, Chars, OnlyReader
<1>1. HasData(kbd) => owed # << >> /\ kbd.buf[kbd.tail] = Head(owed)
  BY <1>0, AdvancedIsTail
<1>2. owed # << >> => HasData(kbd)
  <2>1. Len(owed) = Used(kbd, KEYBOARD_BUFFER_SIZE) /\ (HasData(kbd) <=> Used(kbd, KEYBOARD_BUFFER_SIZE) # 0)
    BY <1>0, ContentsAre
  <2>2. QED
    BY <1>0, <2>1
<1>3. Contents(kbd', KEYBOARD_BUFFER_SIZE) = owed'
  <2>1. CASE kbd' = kbd /\ owed' = owed
    BY <1>0, <2>1
  <2>2. CASE Advance(r)
    <3>1. owed # << >>
      BY <2>2 DEF Advance, RingInv, ReadsOldest
    <3>2. QED
      BY <1>0, <1>2, <2>2, <3>1, AdvancedIsTail DEF Advance
  <2>3. QED
    BY <2>1, <2>2 DEF ReaderCall, ReaderStep, SysGetchar, SysRead, Test, Hlt, Get
<1>4. Returned(r)[r].pc = "user"
  BY <1>0 DEF Returned
<1>5. Store(r)[r].pc \in {"user", "test"}
  BY <1>0, <1>4 DEF Store, Reading
<1>6. \/ rd'[r].pc \notin {"get", "advance"}
      \/ rd'[r].pc = "get" /\ HasData(kbd) /\ kbd' = kbd
      \/ rd'[r].pc = "advance" /\ owed # << >> /\ rd'[r].c = Head(owed) /\ owed' = owed
  <2>1. CASE SysGetchar(r)
    BY <1>0, <2>1 DEF SysGetchar, Reading
  <2>2. ASSUME NEW len \in ReadLens, SysRead(r, len) PROVE rd'[r].pc \notin {"get", "advance"}
    BY <1>0, <2>2 DEF SysRead, Reading
  <2>3. CASE Test(r)
    BY <1>0, <1>4, <2>3 DEF Test
  <2>4. CASE Hlt(r)
    BY <1>0, <2>4 DEF Hlt
  <2>5. CASE Get(r)
    <3>1. CASE HasData(kbd)
      BY <1>0, <1>1, <2>5, <3>1 DEF Get
    <3>2. CASE ~HasData(kbd)
      BY <1>5, <2>5, <3>2 DEF Get
    <3>3. QED
      BY <3>1, <3>2
  <2>6. CASE Advance(r)
    BY <1>5, <2>6 DEF Advance
  <2>7. QED
    BY <2>1, <2>2, <2>3, <2>4, <2>5, <2>6 DEF ReaderCall, ReaderStep
<1>7. ReadsOldest'
  BY <1>0, <1>6 DEF ReadsOldest
<1>8. QED
  BY <1>3, <1>7 DEF RingInv

LEMMA OtherRing ==
    ASSUME InputTypes, RingInv,
           \/ UNCHANGED vars \/ Tick \/ SysMouseRead \/ MouseAdvance \/ LoadKey \/ LoadMouse
           \/ \E p \in Packets : MouseMove(p)
           \/ \E c \in Keys : KeyDown(c) \/ KeyUp(c)
    PROVE  RingInv'
<1>0. rd \in [Readers -> [pc : ReaderPlaces, op : {NUL, "getchar", "read"}, left : Int, c : Chars]]
  BY DEF InputTypes, KeyTypes
<1>1. kbd' = kbd /\ owed' = owed /\ (rd' = rd \/ rd' = Woken)
  BY DEF vars, Tick, SysMouseRead, MouseAdvance, MouseMove, LoadKey, LoadMouse, KeyDown, KeyUp, keyVars
<1>2. ASSUME NEW r \in Readers, rd'[r].pc \in {"get", "advance"} PROVE rd'[r] = rd[r]
  BY <1>0, <1>1, <1>2 DEF Woken
<1>3. QED
  BY <1>1, <1>2 DEF RingInv, ReadsOldest

LEMMA StepKeys == ASSUME OnlyReader, KeyInv, [Next]_vars PROVE KeyInv'
<1>0. InputTypes /\ UserInv /\ RingInv
  BY DEF KeyInv
<1>1. InputTypes'
  BY <1>0, StepTypes
<1>2. UserInv' /\ RingInv'
  <2>1. CASE Irq1
    BY <1>0, <2>1, Irq1User, Irq1Ring
  <2>2. CASE \E r \in Readers : ReaderCall(r)
    BY <1>0, <2>2, OtherUser, ReaderRing
  <2>3. CASE \E c \in Keys : KeyDown(c) \/ KeyUp(c)
    BY <1>0, <2>3, KeyUser, OtherRing
  <2>4. CASE LoadKey \/ LoadMouse
    BY <1>0, <2>4, LoadUser, OtherRing
  <2>5. CASE UNCHANGED vars \/ Tick \/ SysMouseRead \/ MouseAdvance \/ \E p \in Packets : MouseMove(p)
    BY <1>0, <2>5, OtherUser, OtherRing
  <2>6. QED
    BY <2>1, <2>2, <2>3, <2>4, <2>5 DEF Next, ReaderCall
<1>3. QED
  BY <1>1, <1>2 DEF KeyInv

\* KeysInOrder: with one reader, kbd_buffer holds what the user meant by the
\* keys not yet read, in order, for every size of the ring and every user.
THEOREM KeysAreKept == ASSUME OnlyReader PROVE Spec => []KeysInOrder
<1>1. Init => KeyInv
  BY InitKeys
<1>2. KeyInv /\ [Next]_vars => KeyInv'
  BY StepKeys
<1>3. KeyInv => KeysInOrder
  BY TypesImplyTypeOK DEF KeyInv, RingInv, KeysInOrder
<1>4. QED
  BY <1>1, <1>2, <1>3, PTL DEF Spec

\* ReadsOldest: with one reader, SYS_GETCHAR and SYS_READ get the oldest
\* character, and SYS_GETCHAR never returns 0.
THEOREM OldestIsRead == ASSUME OnlyReader PROVE Spec => []ReadsOldest
<1>1. Init => KeyInv
  BY InitKeys
<1>2. KeyInv /\ [Next]_vars => KeyInv'
  BY StepKeys
<1>3. KeyInv => ReadsOldest
  BY DEF KeyInv, RingInv
<1>4. QED
  BY <1>1, <1>2, <1>3, PTL DEF Spec

-----------------------------------------------------------------------------
(* The mouse.                                                                *)

\* The packet the next byte of the mouse is from.
NextPkt == IF obf.src = "aux" THEN obf.pkt ELSE mq[1].pkt

\* The bytes the mouse holds are the end of a packet, and go on where the
\* output buffer's byte stands; behind a last byte there may be a whole packet.
BytesInOrder ==
    /\ \A i \in 1 .. Len(mq) : mq[i].pos = 3 - Len(mq) + i /\ mq[i].pkt = mq[1].pkt
    /\ obf.src = "aux" =>
        IF obf.pos = 3 THEN Len(mq) \in {0, 3} ELSE Len(mq) = 3 - obf.pos /\ mq[1].pkt = obf.pkt

\* In step, the handler holds the first bytes of the packet under way, and
\* mouse_buffer the packets due.
InStep ==
    Aligned => /\ \A i \in 1 .. Len(packet) : packet[i] = MouseByte(NextPkt, i)
               /\ Contents(mouse, MOUSE_BUFFER_SIZE) = evs

\* IRQ1 without a key's byte is the one latched at boot: no packet is buffered.
LatchInv == irq1 /\ obf.src # "kbd" => evs = << >> /\ ~HasData(mouse)

MouseInv ==
    /\ InputTypes /\ BytesInOrder /\ InStep /\ LatchInv
    /\ md = "advance" => HasData(mouse)
    /\ wm = TRUE

LEMMA InitMouse == Init => MouseInv
<1> SUFFICES ASSUME Init PROVE MouseInv
  OBVIOUS
<1>1. InputTypes
  BY InitTypes
<1>2. Contents(mouse, MOUSE_BUFFER_SIZE) = << >> /\ ~HasData(mouse)
  <2>1. MOUSE_BUFFER_SIZE \in Nat \ {0, 1} /\ 0 \in 0 .. MOUSE_BUFFER_SIZE - 1
    BY InputAssumption
  <2>2. mouse = [buf |-> [i \in 0 .. MOUSE_BUFFER_SIZE - 1 |-> NoByte], head |-> 0, tail |-> 0]
    BY DEF Init, Ring
  <2>3. NoByte \in {NoByte}
    OBVIOUS
  <2>4. QED
    BY <2>1, <2>2, <2>3, EmptyAt
<1>3. obf.src = "none" /\ packet = << >> /\ evs = << >> /\ wm = TRUE /\ md = "user"
  BY DEF Init, NoByte
<1>4. InStep
  <2>1. 1 .. Len(packet) = {}
    BY <1>3
  <2>2. QED
    BY <1>2, <1>3, <2>1 DEF InStep
<1>5. BytesInOrder
  <2>1. CASE mq = << >>
    BY <1>3, <2>1 DEF BytesInOrder
  <2>2. CASE \E p \in Packets : mq = <<MouseByte(p, 2), MouseByte(p, 3)>>
    <3>1. PICK p \in Packets : mq = <<MouseByte(p, 2), MouseByte(p, 3)>>
      BY <2>2
    <3>2. /\ MouseByte(p, 2).pos = 2 /\ MouseByte(p, 3).pos = 3
          /\ MouseByte(p, 2).pkt = p /\ MouseByte(p, 3).pkt = p
      BY DEF MouseByte
    <3> HIDE DEF MouseByte
    <3>3. Len(mq) = 2 /\ mq[1] = MouseByte(p, 2) /\ mq[2] = MouseByte(p, 3)
      BY <3>1
    <3>4. QED
      BY <1>3, <3>2, <3>3 DEF BytesInOrder
  <2>3. CASE \E p \in Packets : mq = <<MouseByte(p, 3)>>
    <3>1. PICK p \in Packets : mq = <<MouseByte(p, 3)>>
      BY <2>3
    <3>2. MouseByte(p, 3).pos = 3
      BY DEF MouseByte
    <3> HIDE DEF MouseByte
    <3>3. Len(mq) = 1 /\ mq[1] = MouseByte(p, 3)
      BY <3>1
    <3>4. QED
      BY <1>3, <3>2, <3>3 DEF BytesInOrder
  <2>4. QED
    BY <2>1, <2>2, <2>3 DEF Init
<1>6. QED
  BY <1>1, <1>2, <1>3, <1>4, <1>5 DEF MouseInv, LatchInv

\* What stands in obf and mq tells the place of the next byte; a byte that is
\* taken from obf moves it on by one, or back to 1 after the third.
LEMMA NextPosMoves ==
    ASSUME InputTypes, BytesInOrder, obf.src = "aux", obf' = NoByte, mq' = mq
    PROVE  /\ NextPos = obf.pos /\ obf.pos \in 1 .. 3
           /\ NextPos' = IF obf.pos = 3 THEN 1 ELSE obf.pos + 1
           /\ obf.pos # 3 => NextPkt' = obf.pkt
<1>1. obf \in MouseBytes /\ obf.pos \in 1 .. 3 /\ mq \in Seq(MouseBytes) /\ obf'.src = "none"
  <2>1. obf \in MouseBytes /\ mq \in Seq(MouseBytes) /\ obf'.src = "none"
    BY InTheBuffer, Sources DEF InputTypes, DeviceTypes
  <2>2. QED
    BY <2>1 DEF MouseBytes
<1>2. NextPos = obf.pos
  BY DEF NextPos
<1>3. NextPos' = (IF mq # << >> THEN mq[1].pos ELSE 1) /\ NextPkt' = mq[1].pkt
  BY <1>1 DEF NextPos, NextPkt
<1>4. PICK n \in Nat : n = Len(mq) /\ (mq = << >> <=> n = 0)
  BY <1>1
<1>5. n > 0 => mq[1].pos = 3 - n + 1
  BY <1>4 DEF BytesInOrder
<1>6. IF obf.pos = 3 THEN n \in {0, 3} ELSE n = 3 - obf.pos /\ mq[1].pkt = obf.pkt
  BY <1>4 DEF BytesInOrder
<1>7. PICK j \in 1 .. 3 : j = obf.pos
  BY <1>1
<1>8. PICK k : k = NextPos' /\ k = IF n > 0 THEN 3 - n + 1 ELSE 1
  BY <1>3, <1>4, <1>5
<1>9. IF j = 3 THEN n \in {0, 3} ELSE n = 3 - j
  BY <1>6, <1>7
<1>10. k = IF j = 3 THEN 1 ELSE j + 1
  BY <1>8, <1>9
<1>11. obf.pos # 3 => NextPkt' = obf.pkt
  BY <1>3, <1>6
<1>12. QED
  BY <1>1, <1>2, <1>7, <1>8, <1>10, <1>11

LEMMA MouseByteIs ==
    ASSUME NEW b \in MouseBytes
    PROVE  b = MouseByte(b.pkt, b.pos) /\ b.pkt \in Packets /\ b.pos \in 1 .. 3
BY DEF MouseBytes, MouseByte

\* The packet of a whole number of bytes, one after the other.
LEMMA PacketGrows ==
    ASSUME NEW p, NEW s \in Seq(MouseBytes), NEW b \in MouseBytes,
           Len(s) = 1, s[1] = MouseByte(p, 1), b = MouseByte(p, 2),
           NEW r, r = Append(s, b)
    PROVE  Len(r) = 2 /\ r[1] = MouseByte(p, 1) /\ r[2] = MouseByte(p, 2)
BY Longer

\* mouse_handler on a byte, in step: it stays in step, and the ring gets the
\* packet that is due.
LEMMA ByteInStep ==
    ASSUME InputTypes, BytesInOrder, InStep, Aligned,
           obf.src = "aux", obf' = NoByte, mq' = mq, packet' = Received(obf)
    PROVE  /\ Aligned'
           /\ \A i \in 1 .. Len(packet') : packet'[i] = MouseByte(NextPkt', i)
           /\ Contents(Assembled(obf), MOUSE_BUFFER_SIZE) = Due(obf)
<1> DEFINE c == Contents(mouse, MOUSE_BUFFER_SIZE)
<1>0. /\ obf \in MouseBytes /\ packet \in Seq(MouseBytes) /\ Len(packet) <= 2
      /\ RingOf(mouse, MOUSE_BUFFER_SIZE, Events \cup {NoByte}) /\ evs \in Seq(Events)
      /\ c = evs
      /\ \A i \in 1 .. Len(packet) : packet[i] = MouseByte(obf.pkt, i)
      /\ obf = MouseByte(obf.pkt, obf.pos) /\ obf.pkt \in Packets
  BY InTheBuffer, MouseByteIs DEF InputTypes, DeviceTypes, MouseTypes, InStep, NextPkt
<1>1. /\ NextPos = obf.pos /\ obf.pos \in 1 .. 3
      /\ NextPos' = IF obf.pos = 3 THEN 1 ELSE obf.pos + 1
      /\ obf.pos # 3 => NextPkt' = obf.pkt
  BY NextPosMoves
<1>2. PICK n \in 0 .. 2 : n = Len(packet) /\ obf.pos = n + 1
  <2>1. Len(packet) \in Nat /\ obf.pos = Len(packet) + 1
    BY <1>0, <1>1 DEF Aligned
  <2>2. PICK n \in Nat : n = Len(packet) /\ n <= 2
    BY <1>0
  <2>3. QED
    BY <2>1, <2>2
<1>3. CASE n = 0
  <2>1. packet' = <<obf>> /\ Bit3(obf)
    BY <1>2, <1>3 DEF Received, Bit3
  <2>2. Len(packet') = 1 /\ packet'[1] = obf
    <3>1. PICK o : o = obf
      OBVIOUS
    <3>2. QED
      BY <2>1, <3>1
  <2>3. NextPos' = 2 /\ NextPkt' = obf.pkt
    BY <1>1, <1>2, <1>3
  <2>4. Aligned'
    BY <2>2, <2>3 DEF Aligned
  <2>5. packet'[1] = MouseByte(NextPkt', 1)
    BY <1>0, <1>2, <1>3, <2>2, <2>3
  <2>6. Assembled(obf) = mouse /\ Due(obf) = evs
    BY <1>2, <1>3 DEF Assembled, Due
  <2>7. QED
    BY <1>0, <2>2, <2>4, <2>5, <2>6
<1>4. CASE n = 1
  <2>1. packet' = Append(packet, obf)
    BY <1>2, <1>4 DEF Received
  <2>2. packet[1] = MouseByte(obf.pkt, 1) /\ obf = MouseByte(obf.pkt, 2)
    BY <1>0, <1>2, <1>4
  <2>3. /\ Len(packet') = 2 /\ packet'[1] = MouseByte(obf.pkt, 1)
        /\ packet'[2] = MouseByte(obf.pkt, 2)
    BY <1>0, <1>2, <1>4, <2>1, <2>2, PacketGrows
  <2>4. NextPos' = 3 /\ NextPkt' = obf.pkt
    BY <1>1, <1>2, <1>4
  <2>5. Aligned'
    BY <2>3, <2>4 DEF Aligned
  <2>6. Assembled(obf) = mouse /\ Due(obf) = evs
    BY <1>2, <1>4 DEF Assembled, Due
  <2> HIDE DEF MouseByte
  <2>7. \A i \in 1 .. Len(packet') : packet'[i] = MouseByte(NextPkt', i)
    BY <2>3, <2>4
  <2>8. QED
    BY <1>0, <2>5, <2>6, <2>7
<1>5. CASE n = 2
  <2>1. packet' = << >> /\ Len(packet') = 0
    BY <1>2, <1>5 DEF Received
  <2>2. NextPos' = 1
    BY <1>1, <1>2, <1>5
  <2>3. Aligned'
    BY <2>1, <2>2 DEF Aligned
  <2>4. \A i \in 1 .. Len(packet') : packet'[i] = MouseByte(NextPkt', i)
    BY <2>1
  <2>5. /\ packet[1] = MouseByte(obf.pkt, 1) /\ packet[2] = MouseByte(obf.pkt, 2)
        /\ obf = MouseByte(obf.pkt, 3)
    BY <1>0, <1>2, <1>5
  <2> DEFINE e == Event(Append(packet, obf))
  <2>6. e = Event([i \in 1 .. 3 |-> MouseByte(obf.pkt, i)]) /\ e \in Events
    <3>1. PICK a : /\ a = Append(packet, obf) /\ a[1] = packet[1] /\ a[2] = packet[2] /\ a[3] = obf
      <4>1. PICK s \in Seq(MouseBytes), o \in MouseBytes : s = packet /\ o = obf /\ Len(s) = 2
        BY <1>0, <1>2, <1>5
      <4>2. Append(s, o)[1] = s[1] /\ Append(s, o)[2] = s[2] /\ Append(s, o)[3] = o
        BY <4>1, Longer
      <4>3. QED
        BY <4>1, <4>2, Zenon
    <3>2. /\ e = [buttons |-> MouseByte(obf.pkt, 1), dx |-> MouseByte(obf.pkt, 2),
                  dy |-> MouseByte(obf.pkt, 3)]
      BY <2>5, <3>1, Zenon DEF Event
    <3>3. /\ MouseByte(obf.pkt, 1) \in MouseBytes /\ MouseByte(obf.pkt, 2) \in MouseBytes
          /\ MouseByte(obf.pkt, 3) \in MouseBytes
      BY <1>0, MouseByteType
    <3> HIDE DEF e
    <3>4. QED
      BY <3>2, <3>3 DEF Event, Events
  <2>7. Overflow(packet[1]) = obf.pkt.ovf
    BY <2>5 DEF Overflow, MouseByte
  <2> HIDE DEF e
  <2>8. Assembled(obf) = IF ~obf.pkt.ovf THEN Put(mouse, MOUSE_BUFFER_SIZE, e) ELSE mouse
    BY <1>2, <1>5, <2>7 DEF Assembled, e
  <2>9. Due(obf) = IF ~obf.pkt.ovf /\ Len(evs) < MOUSE_BUFFER_SIZE - 1 THEN Append(evs, e) ELSE evs
    BY <1>2, <1>5, <2>6 DEF Due
  <2>10. e \in Events \cup {NoByte}
    BY <2>6
  <2>11. Contents(Put(mouse, MOUSE_BUFFER_SIZE, e), MOUSE_BUFFER_SIZE)
           = IF Len(evs) < MOUSE_BUFFER_SIZE - 1 THEN Append(evs, e) ELSE evs
    BY <1>0, <2>10, PutAppends
  <2>12. Contents(Assembled(obf), MOUSE_BUFFER_SIZE) = Due(obf)
    BY <1>0, <2>8, <2>9, <2>11, Zenon
  <2>13. QED
    BY <2>3, <2>4, <2>12
<1>6. QED
  BY <1>2, <1>3, <1>4, <1>5

\* mouse_handler on a byte, out of step: getting into step makes no event.
LEMMA ByteOutOfStep ==
    ASSUME InputTypes, BytesInOrder, ~Aligned,
           obf.src = "aux", obf' = NoByte, mq' = mq, packet' = Received(obf), Aligned'
    PROVE  packet' = << >> /\ Assembled(obf) = mouse /\ Due(obf) = evs
<1>0. /\ obf \in MouseBytes /\ packet \in Seq(MouseBytes) /\ Len(packet) <= 2
  BY InTheBuffer DEF InputTypes, DeviceTypes, MouseTypes
<1>1. /\ NextPos = obf.pos /\ obf.pos \in 1 .. 3
      /\ NextPos' = IF obf.pos = 3 THEN 1 ELSE obf.pos + 1
  BY NextPosMoves
<1>2. PICK n \in 0 .. 2 : n = Len(packet) /\ obf.pos # n + 1
  <2>1. Len(packet) \in Nat /\ obf.pos # Len(packet) + 1
    BY <1>0, <1>1 DEF Aligned
  <2>2. PICK n \in Nat : n = Len(packet) /\ n <= 2
    BY <1>0
  <2>3. QED
    BY <2>1, <2>2
<1>3. Due(obf) = evs
  BY DEF Due
<1>4. PICK m : m = Len(packet') /\ NextPos' = m + 1
  BY DEF Aligned
<1>5. n = 1 => m = 2
  <2>1. ASSUME n = 1 PROVE packet' = Append(packet, obf)
    BY <1>2, <2>1 DEF Received
  <2>2. ASSUME n = 1 PROVE Len(Append(packet, obf)) = 2
    <3>1. PICK s \in Seq(MouseBytes), o \in MouseBytes : s = packet /\ o = obf /\ Len(s) = 1
      BY <1>0, <1>2, <2>2
    <3>2. Len(Append(s, o)) = 2
      BY <3>1, Longer
    <3>3. QED
      BY <3>1, <3>2, Zenon
  <2>3. QED
    BY <1>4, <2>1, <2>2
<1>6. n = 2 => m = 0
  <2>1. ASSUME n = 2 PROVE packet' = << >>
    BY <1>2, <2>1 DEF Received
  <2>2. QED
    BY <1>4, <2>1
<1>7. PICK j \in 1 .. 3 : j = obf.pos /\ j # n + 1 /\ m + 1 = IF j = 3 THEN 1 ELSE j + 1
  BY <1>1, <1>2, <1>4
<1>8. n = 0
  <2>1. CASE n = 1
    <3>1. m = 2
      BY <1>5, <2>1
    <3>2. QED
      BY <1>7, <2>1, <3>1
  <2>2. CASE n = 2
    <3>1. m = 0
      BY <1>6, <2>2
    <3>2. QED
      BY <1>7, <2>2, <3>1
  <2>3. QED
    BY <1>2, <2>1, <2>2
<1>9. packet' = << >>
  <2>1. packet' = << >> \/ packet' = <<obf>>
    BY <1>2, <1>8 DEF Received
  <2>2. packet' = <<obf>> => m = 1
    <3>1. PICK o : o = obf
      OBVIOUS
    <3>2. QED
      BY <1>4, <3>1
  <2>3. m # 1
    <3>1. m = 1 => j = 1
      BY <1>7
    <3>2. QED
      BY <1>7, <1>8, <3>1
  <2>4. QED
    BY <2>1, <2>2, <2>3
<1>10. Assembled(obf) = mouse
  BY <1>2, <1>8 DEF Assembled
<1>11. QED
  BY <1>3, <1>9, <1>10

\* Steps that leave the mouse alone; the output buffer may get a key's byte.
LEMMA QuietMouse ==
    ASSUME MouseInv,
           \/ UNCHANGED vars \/ LoadKey
           \/ \E c \in Keys : KeyDown(c) \/ KeyUp(c)
           \/ \E r \in Readers : ReaderCall(r)
    PROVE  BytesInOrder' /\ InStep' /\ LatchInv' /\ (md' = "advance" => HasData(mouse')) /\ wm' = TRUE
           /\ (Aligned => Aligned')
<1>0. mq' = mq /\ packet' = packet /\ mouse' = mouse /\ evs' = evs /\ md' = md /\ wm' = wm
  BY DEF vars, LoadKey, KeyDown, KeyUp, ReaderCall, ReaderStep, SysGetchar, SysRead, Test, Hlt, Get,
         Advance, Same, mouseVars
<1>1. \/ obf' = obf /\ irq1' = irq1
      \/ obf = NoByte /\ obf' \in KeyBytes
  <2>1. CASE LoadKey
    <3>1. kq \in Seq(KeyBytes) /\ kq # << >> /\ obf = NoByte /\ obf' = Head(kq)
      BY <2>1 DEF LoadKey, MouseInv, InputTypes, DeviceTypes
    <3>2. QED
      BY <3>1
  <2>2. QED
    BY <2>1 DEF vars, KeyDown, KeyUp, ReaderCall, ReaderStep, SysGetchar, SysRead, Test, Hlt, Get,
         Advance, Same
<1>2. (obf' = obf /\ irq1' = irq1) \/ (obf.src = "none" /\ obf'.src = "kbd")
  BY <1>1, Sources
<1>3. NextPos' = NextPos /\ NextPkt' = NextPkt
  BY <1>0, <1>2 DEF NextPos, NextPkt
<1>4. Aligned' = Aligned
  BY <1>0, <1>3 DEF Aligned
<1>5. QED
  BY <1>0, <1>2, <1>3, <1>4 DEF MouseInv, BytesInOrder, InStep, LatchInv

LEMMA MoveMouse ==
    ASSUME MouseInv, NEW p \in Packets, MouseMove(p)
    PROVE  BytesInOrder' /\ InStep' /\ LatchInv' /\ (md' = "advance" => HasData(mouse')) /\ wm' = TRUE
           /\ (Aligned => Aligned')
<1>0. /\ packet' = packet /\ mouse' = mouse /\ evs' = evs /\ md' = md /\ wm' = wm
      /\ obf' = obf /\ irq1' = irq1
      /\ mq = << >> /\ mq' = [i \in 1 .. 3 |-> MouseByte(p, i)]
      /\ packet \in Seq(MouseBytes)
  BY DEF MouseMove, mouseVars, MouseInv, InputTypes, MouseTypes
<1>1. \A i \in 1 .. 3 : MouseByte(p, i).pos = i /\ MouseByte(p, i).pkt = p
  BY MouseByteType
<1> HIDE DEF MouseByte
<1>2. /\ Len(mq') = 3 /\ mq' # << >>
      /\ \A i \in 1 .. 3 : mq'[i].pos = i /\ mq'[i].pkt = p
  <2>1. \A i \in 1 .. 3 : mq'[i] = MouseByte(p, i)
    BY <1>0
  <2>2. Len(mq') = 3
    BY <1>0
  <2>3. QED
    BY <1>1, <2>1, <2>2
<1>3. obf.src = "aux" => obf.pos = 3
  <2>1. ASSUME obf.src = "aux" PROVE obf.pos \in 1 .. 3
    BY <2>1, InTheBuffer, MouseByteIs DEF MouseInv, InputTypes, DeviceTypes
  <2>2. Len(mq) = 0
    BY <1>0
  <2>3. QED
    BY <2>1, <2>2 DEF MouseInv, BytesInOrder
<1>4. BytesInOrder'
  BY <1>0, <1>2, <1>3 DEF BytesInOrder
<1>5. NextPos' = NextPos
  BY <1>0, <1>2 DEF NextPos
<1>6. Aligned' = Aligned
  BY <1>0, <1>5 DEF Aligned
<1>7. InStep'
  <2>1. obf.src = "aux" => NextPkt' = NextPkt
    BY <1>0 DEF NextPkt
  <2>2. obf.src # "aux" /\ Aligned => 1 .. Len(packet) = {}
    <3>1. obf.src # "aux" /\ Aligned => Len(packet) + 1 = 1
      BY <1>0 DEF NextPos, Aligned
    <3>2. PICK n \in Nat : n = Len(packet)
      BY <1>0
    <3>3. QED
      BY <3>1, <3>2
  <2>3. QED
    BY <1>0, <1>6, <2>1, <2>2 DEF InStep, MouseInv
<1>8. QED
  BY <1>0, <1>4, <1>6, <1>7 DEF MouseInv, LatchInv

LEMMA LoadsMouse ==
    ASSUME MouseInv, LoadMouse
    PROVE  BytesInOrder' /\ InStep' /\ LatchInv' /\ (md' = "advance" => HasData(mouse')) /\ wm' = TRUE
           /\ (Aligned => Aligned')
<1>0. /\ packet' = packet /\ mouse' = mouse /\ evs' = evs /\ md' = md /\ wm' = wm
      /\ irq1' = irq1 /\ obf = NoByte /\ obf.src = "none"
      /\ mq \in Seq(MouseBytes) /\ mq # << >> /\ mq' = Tail(mq) /\ obf' = Head(mq)
  BY Sources DEF LoadMouse, mouseVars, MouseInv, InputTypes, DeviceTypes
<1>1. PICK n \in Nat : n + 1 = Len(mq)
  <2>1. Len(mq) \in Nat \ {0}
    BY <1>0
  <2>2. QED
    BY <2>1
<1>2. /\ Len(mq') = n /\ \A i \in 1 .. n : mq'[i] = mq[i + 1]
      /\ obf' = mq[1] /\ mq[1] \in MouseBytes
  BY <1>0, <1>1, HeadTailProperties
<1>3. obf'.src = "aux"
  BY <1>2, Sources
<1>4. \A i \in 1 .. n + 1 : mq[i].pos = 3 - (n + 1) + i /\ mq[i].pkt = mq[1].pkt
  BY <1>1 DEF MouseInv, BytesInOrder
<1>5. NextPos' = NextPos /\ NextPkt' = NextPkt
  BY <1>0, <1>2, <1>3 DEF NextPos, NextPkt
<1>6. BytesInOrder'
  <2>1. ASSUME NEW i \in 1 .. n PROVE mq'[i].pos = 3 - n + i /\ mq'[i].pkt = mq'[1].pkt
    <3>1. i + 1 \in 1 .. n + 1 /\ 2 \in 1 .. n + 1 /\ 1 \in 1 .. n /\ 3 - (n + 1) + (i + 1) = 3 - n + i
      OBVIOUS
    <3>2. mq'[i] = mq[i + 1] /\ mq'[1] = mq[1 + 1]
      BY <1>2, <3>1
    <3>3. QED
      BY <1>4, <3>1, <3>2
  <2>2. obf'.pos = 3 - n
    <3>1. 1 \in 1 .. n + 1 /\ 3 - (n + 1) + 1 = 3 - n
      OBVIOUS
    <3>2. QED
      BY <1>2, <1>4, <3>1
  <2>3. n > 0 => mq'[1].pkt = obf'.pkt
    <3>1. n > 0 => 1 \in 1 .. n /\ 2 \in 1 .. n + 1
      OBVIOUS
    <3>2. n > 0 => mq'[1] = mq[1 + 1]
      BY <1>2, <3>1
    <3>3. QED
      BY <1>2, <1>4, <3>1, <3>2
  <2>4. IF obf'.pos = 3 THEN n \in {0, 3} ELSE n = 3 - obf'.pos /\ mq'[1].pkt = obf'.pkt
    BY <2>2, <2>3
  <2>5. QED
    BY <1>2, <2>1, <2>4 DEF BytesInOrder
<1>7. Aligned' = Aligned
  BY <1>0, <1>5 DEF Aligned
<1>8. InStep'
  BY <1>0, <1>5, <1>7 DEF MouseInv, InStep
<1>9. LatchInv'
  BY <1>0 DEF MouseInv, LatchInv
<1>10. QED
  BY <1>0, <1>6, <1>7, <1>8, <1>9 DEF MouseInv

LEMMA Irq1Mouse ==
    ASSUME MouseInv, Irq1
    PROVE  BytesInOrder' /\ InStep' /\ LatchInv' /\ (md' = "advance" => HasData(mouse')) /\ wm' = TRUE
           /\ (Aligned => Aligned')
<1>0. /\ InputTypes /\ BytesInOrder /\ InStep /\ irq1 /\ irq1' = FALSE
      /\ obf' = NoByte /\ obf'.src = "none" /\ mq' = mq /\ md' = md /\ wm' = wm /\ wm = TRUE
      /\ obf \in KeyBytes \cup MouseBytes \cup {NoByte}
      /\ RingOf(mouse, MOUSE_BUFFER_SIZE, Events \cup {NoByte})
      /\ md = "advance" => HasData(mouse)
  BY Sources DEF MouseInv, Irq1, InputTypes, DeviceTypes, MouseTypes
<1>1. LatchInv' /\ BytesInOrder'
  BY <1>0 DEF LatchInv, BytesInOrder
<1>2. CASE obf.src # "aux"
  <2>1. packet' = packet /\ mouse' = mouse /\ evs' = evs
    BY <1>2 DEF Irq1, mouseVars
  <2>2. NextPos' = NextPos /\ NextPkt' = NextPkt
    BY <1>0, <1>2 DEF NextPos, NextPkt
  <2>3. Aligned' = Aligned
    BY <2>1, <2>2 DEF Aligned
  <2>4. QED
    BY <1>0, <1>1, <2>1, <2>2, <2>3 DEF InStep
<1>3. CASE obf.src = "aux"
  <2>1. /\ packet' = Received(obf) /\ mouse' = Assembled(obf) /\ evs' = Due(obf)
    BY <1>3 DEF Irq1
  <2>2. evs = << >> /\ ~HasData(mouse) /\ md # "advance"
    BY <1>0, <1>3 DEF MouseInv, LatchInv
  <2>3. CASE Aligned
    BY <1>0, <1>1, <1>3, <2>1, <2>2, <2>3, ByteInStep DEF InStep
  <2>4. CASE ~Aligned
    <3>1. ASSUME Aligned' PROVE packet' = << >> /\ mouse' = mouse /\ evs' = evs
      BY <1>0, <1>3, <2>1, <2>4, <3>1, ByteOutOfStep
    <3>2. Contents(mouse, MOUSE_BUFFER_SIZE) = << >>
      <4>1. Contents(mouse, MOUSE_BUFFER_SIZE) \in Seq(Events \cup {NoByte})
            /\ Len(Contents(mouse, MOUSE_BUFFER_SIZE)) = 0
        BY <1>0, <2>2, ContentsAre
      <4>2. QED
        BY <4>1
    <3>3. packet' = << >> => 1 .. Len(packet') = {}
      OBVIOUS
    <3>4. InStep'
      BY <2>2, <3>1, <3>2, <3>3 DEF InStep
    <3>5. QED
      BY <1>0, <1>1, <2>2, <2>4, <3>4
  <2>5. QED
    BY <2>3, <2>4
<1>4. QED
  BY <1>2, <1>3

LEMMA TickMouse ==
    ASSUME MousePreempt = FALSE, MouseInv, Tick
    PROVE  BytesInOrder' /\ InStep' /\ LatchInv' /\ (md' = "advance" => HasData(mouse')) /\ wm' = TRUE
           /\ (Aligned => Aligned')
<1>0. /\ InputTypes /\ BytesInOrder /\ InStep /\ irq1' = irq1
      /\ mq' = mq /\ md' = md /\ md = "user"
      /\ obf \in KeyBytes \cup MouseBytes \cup {NoByte}
      /\ RingOf(mouse, MOUSE_BUFFER_SIZE, Events \cup {NoByte})
  BY DEF MouseInv, Tick, InputTypes, DeviceTypes, MouseTypes
<1>1. CASE Polls
  <2>1. /\ obf.src = "aux" /\ obf' = NoByte /\ obf'.src = "none" /\ packet' = Received(obf)
        /\ WmUpdate(Assembled(obf), Due(obf))
    BY <1>1, Sources DEF Tick, Polls
  <2>2. obf \in MouseBytes
    BY <1>0, <2>1, InTheBuffer
  <2>3. Contents(mouse', MOUSE_BUFFER_SIZE) = << >> /\ ~HasData(mouse') /\ evs' = << >>
    BY <1>0, <2>1, <2>2, ByteTypes, WmUpdateEmpties
  <2>4. BytesInOrder' /\ LatchInv'
    BY <1>0, <2>1, <2>3 DEF BytesInOrder, LatchInv
  <2>5. Aligned => /\ Aligned'
                   /\ \A i \in 1 .. Len(packet') : packet'[i] = MouseByte(NextPkt', i)
                   /\ Contents(Assembled(obf), MOUSE_BUFFER_SIZE) = Due(obf)
    BY <1>0, <2>1, ByteInStep
  <2>6. wm' = TRUE
    BY <2>1, <2>5 DEF WmUpdate
  <2>7. ~Aligned /\ Aligned' => 1 .. Len(packet') = {}
    <3>1. ~Aligned /\ Aligned' => packet' = << >>
      BY <1>0, <2>1, ByteOutOfStep
    <3>2. packet' = << >> => 1 .. Len(packet') = {}
      OBVIOUS
    <3>3. QED
      BY <3>1, <3>2
  <2>8. InStep'
    BY <2>3, <2>5, <2>7 DEF InStep
  <2>9. QED
    BY <1>0, <2>4, <2>5, <2>6, <2>8
<1>2. CASE ~Polls
  <2>1. obf.src # "aux" /\ obf' = obf /\ packet' = packet /\ WmUpdate(mouse, evs)
    BY <1>2 DEF Tick, Polls
  <2>2. Contents(mouse', MOUSE_BUFFER_SIZE) = << >> /\ ~HasData(mouse') /\ evs' = << >>
    BY <1>0, <2>1, WmUpdateEmpties
  <2>3. NextPos' = NextPos /\ NextPkt' = NextPkt
    BY <1>0, <2>1 DEF NextPos, NextPkt
  <2>4. Aligned' = Aligned
    BY <2>1, <2>3 DEF Aligned
  <2>5. BytesInOrder' /\ LatchInv'
    BY <1>0, <2>1, <2>2 DEF BytesInOrder, LatchInv
  <2>6. InStep' /\ wm' = TRUE
    BY <1>0, <2>1, <2>2, <2>3, <2>4 DEF InStep, WmUpdate
  <2>7. QED
    BY <1>0, <2>4, <2>5, <2>6
<1>3. QED
  BY <1>1, <1>2

LEMMA ReadMouse ==
    ASSUME MouseInv, SysMouseRead \/ MouseAdvance
    PROVE  BytesInOrder' /\ InStep' /\ LatchInv' /\ (md' = "advance" => HasData(mouse')) /\ wm' = TRUE
           /\ (Aligned => Aligned')
<1>0. /\ mq' = mq /\ obf' = obf /\ irq1' = irq1 /\ packet' = packet /\ wm' = wm
  BY DEF SysMouseRead, MouseAdvance, mouseVars
<1>1. NextPos' = NextPos /\ NextPkt' = NextPkt /\ Aligned' = Aligned /\ BytesInOrder'
  BY <1>0 DEF NextPos, NextPkt, Aligned, MouseInv, BytesInOrder
<1>2. CASE SysMouseRead
  BY <1>0, <1>1, <1>2 DEF SysMouseRead, mouseVars, MouseInv, InStep, LatchInv
<1>3. CASE MouseAdvance
  <2>1. /\ md' = "user" /\ HasData(mouse) /\ mouse' = Advanced(mouse, MOUSE_BUFFER_SIZE, NoByte)
        /\ evs' = IF evs = << >> THEN evs ELSE Tail(evs)
        /\ RingOf(mouse, MOUSE_BUFFER_SIZE, Events \cup {NoByte}) /\ NoByte \in Events \cup {NoByte}
    BY <1>3 DEF MouseAdvance, MouseInv, InputTypes, MouseTypes
  <2>2. /\ Contents(mouse, MOUSE_BUFFER_SIZE) # << >>
        /\ Contents(mouse', MOUSE_BUFFER_SIZE) = Tail(Contents(mouse, MOUSE_BUFFER_SIZE))
    BY <2>1, AdvancedIsTail
  <2>3. InStep'
    BY <1>0, <1>1, <2>1, <2>2 DEF InStep, MouseInv
  <2>4. LatchInv'
    BY <1>0, <2>1 DEF LatchInv, MouseInv
  <2>5. QED
    BY <1>0, <1>1, <2>1, <2>3, <2>4 DEF MouseInv
<1>4. QED
  BY <1>2, <1>3

LEMMA StepMouse ==
    ASSUME MousePreempt = FALSE, MouseInv, [Next]_vars
    PROVE  MouseInv' /\ (Aligned => Aligned' /\ wm')
<1>1. InputTypes'
  BY StepTypes DEF MouseInv
<1>2. /\ BytesInOrder' /\ InStep' /\ LatchInv' /\ (md' = "advance" => HasData(mouse')) /\ wm' = TRUE
      /\ (Aligned => Aligned')
  BY QuietMouse, MoveMouse, LoadsMouse, Irq1Mouse, TickMouse, ReadMouse DEF Next, ReaderCall
<1>3. QED
  BY <1>1, <1>2 DEF MouseInv

\* PacketsStayWhole: with interrupts off inside mouse_read, mouse_handler stays in
\* step with the packets, whatever they are and however keys and ticks come
\* between their bytes, and wm_update gets exactly the packets due.
THEOREM PacketsAreWhole == ASSUME MousePreempt = FALSE PROVE Spec => PacketsStayWhole
<1>1. Init => MouseInv
  BY InitMouse
<1>2. MouseInv /\ [Next]_vars => MouseInv' /\ [Aligned => Aligned' /\ wm']_vars
  BY StepMouse
<1>3. QED
  BY <1>1, <1>2, PTL DEF Spec, PacketsStayWhole

=============================================================================
