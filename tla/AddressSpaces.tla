--------------------------- MODULE AddressSpaces ---------------------------
(***************************************************************************)
(* What paging, fork and exec promise a program: a memory of its own.      *)
(* Nothing but the task itself changes its memory, a forked child starts   *)
(* with a copy of its parent's, and a program that was started finds every *)
(* segment of its file in place and the rest of the segment cleared.       *)
(***************************************************************************)
EXTENDS Integers, Sequences

CONSTANTS Owners,      \* slots of the task table
          Addresses,   \* user addresses
          Contents,    \* what a word may hold
          Images,      \* the programs: sequences of segments
          Stack        \* the addresses of a new program's stack

VARIABLES space,       \* owner -> "none", "loading", or "own" and its memory
          running      \* owner -> the image it runs, <<>> for the shell

Unmapped == -1
Memories == [Addresses -> Contents \cup {Unmapped}]
None     == [st |-> "none", mem |-> <<>>]
Loading  == [st |-> "loading", mem |-> <<>>]
Own(m)   == [st |-> "own", mem |-> m]
HasMemory(o) == space[o].st = "own"

\* The words the segment s occupies, and what they hold when the program starts.
Extent(s) == s.vaddr .. s.vaddr + s.memsz - 1
SegmentWord(s, a) ==
    IF a - s.vaddr < Len(s.data) THEN s.data[a - s.vaddr + 1] ELSE 0

Loaded(image, m) ==
    /\ \A i \in DOMAIN image : \A a \in Extent(image[i]) :
          m[a] = SegmentWord(image[i], a)
    /\ \A a \in Stack : m[a] # Unmapped

Start ==
    /\ space = [o \in Owners |->
                  IF o = 0 THEN Own([a \in Addresses |-> Unmapped]) ELSE None]
    /\ running = [o \in Owners |-> <<>>]

Store(o) ==
    /\ HasMemory(o)
    /\ space'[o].mem \in Memories
    /\ \E a \in Addresses :
          /\ space[o].mem[a] # Unmapped /\ space'[o].mem[a] # Unmapped
          /\ space' = [space EXCEPT ![o].mem[a] = space'[o].mem[a]]
    /\ UNCHANGED running

Copy(o, child) ==
    /\ HasMemory(o)
    /\ space[child] = None
    /\ space' = [space EXCEPT ![child] = space[o]]
    /\ running' = [running EXCEPT ![child] = running[o]]

StartLoading(o) ==
    /\ HasMemory(o)
    /\ space' = [space EXCEPT ![o] = Loading]
    /\ UNCHANGED running

\* exec returns: to the image it loaded, or to its caller because it failed.
FinishLoading(o) ==
    /\ space[o] = Loading
    /\ space'[o].mem \in Memories
    /\ space' = [space EXCEPT ![o] = Own(space'[o].mem)]
    /\ \/ \E image \in Images :
             /\ Loaded(image, space'[o].mem)
             /\ running' = [running EXCEPT ![o] = image]
       \/ UNCHANGED running

Drop(o) ==
    /\ HasMemory(o)
    /\ space' = [space EXCEPT ![o] = None]
    /\ running' = [running EXCEPT ![o] = <<>>]

Step == \E o \in Owners :
    \/ Store(o) \/ StartLoading(o) \/ FinishLoading(o) \/ Drop(o)
    \/ \E child \in Owners : Copy(o, child)

Spec == Start /\ [][Step]_<<space, running>>
=============================================================================
