------------------------------ MODULE Kmalloc ------------------------------
(***************************************************************************)
(* The kernel heap (kernel/kmalloc.c): blocks with a header and a footer   *)
(* word that hold the block's size and, in bit 0, whether it is in use.    *)
(*                                                                         *)
(* Addresses are byte offsets from HEAP_START; mem is the heap, one value  *)
(* per 4-byte word, payload included, and arithmetic is modulo U32.  One   *)
(* step of kmalloc looks at one block.  Callers are the tasks in the       *)
(* SYS_KMALLOC and SYS_KFREE calls and the window manager in the timer     *)
(* interrupt; nothing in the code excludes them from each other, which is  *)
(* Preempt = TRUE; with FALSE one call ends before the next begins.        *)
(***************************************************************************)
EXTENDS Integers, FiniteSets, FiniteSetsExt

CONSTANTS
    HEAP_SIZE,   \* bytes of heap, a multiple of 8
    U32,         \* 2^32
    Callers,
    Sizes,       \* the sizes callers ask for
    Junk,        \* what callers store in memory they own
    Preempt      \* may a call begin or go on while another one is inside?

ALIGN       == 8
HEADER_SIZE == 4
MIN_BLOCK   == 16

ASSUME KmallocAssumption ==
    /\ HEAP_SIZE \in Nat /\ HEAP_SIZE % ALIGN = 0 /\ HEAP_SIZE >= MIN_BLOCK
    /\ U32 \in Nat /\ U32 % ALIGN = 0 /\ U32 > HEAP_SIZE
    /\ Sizes \subseteq 0 .. U32 - 1 /\ Junk \subseteq 0 .. U32 - 1
    /\ Preempt \in BOOLEAN

\* The words of the heap, and the word of the terminating block behind it.
Words == {w \in 0 .. HEAP_SIZE : w % HEADER_SIZE = 0}

VARIABLES
    mem,      \* the value of every word
    pc,       \* where each caller is: "idle", "search", "take", "mark", "next", "prev"
    cur,      \* the block it is at (cur in kmalloc, hdr in kfree)
    need,     \* need_size
    request,  \* history: the size it asked for
    blocks,   \* history: where the blocks of the heap begin
    owned     \* history: pointers returned and not yet freed, [ptr, size]

vars == <<mem, pc, cur, need, request, blocks, owned>>

-----------------------------------------------------------------------------
(* The macros.                                                               *)

BLOCK_SIZE(v) == v - (v % ALIGN)
BLOCK_IS_ALLOC(v) == v % 2 = 1

SizeAt(a) == BLOCK_SIZE(mem[a])
FreeAt(a) == ~BLOCK_IS_ALLOC(mem[a])

NEXT_BLOCK(a) == a + SizeAt(a)
PREV_BLOCK(a) == a - SizeAt(a - HEADER_SIZE)
BLOCK_FOOTER(a) == a + SizeAt(a) - HEADER_SIZE

\* Header and footer of a block of the given size at a; bit is 1 when in use.
Tagged(m, a, size, bit) ==
    [m EXCEPT ![a] = size + bit, ![a + size - HEADER_SIZE] = size + bit]

\* Size in bytes of the block kmalloc looks for.
Aligned(size) == BLOCK_SIZE((size + ALIGN - 1) % U32)

\* Mutation of need_size: the footer is not counted.
NeedWithoutFooter(size) ==
    LET n == (HEADER_SIZE + Aligned(size)) % U32
    IN  BLOCK_SIZE(IF n < MIN_BLOCK THEN MIN_BLOCK ELSE n)

need_size(size) ==
    LET n == (HEADER_SIZE + Aligned(size) + HEADER_SIZE) % U32
    IN  IF n < MIN_BLOCK THEN MIN_BLOCK ELSE n

-----------------------------------------------------------------------------
\* kmalloc_init: one free block and the terminating block.
Init ==
    /\ mem = [w \in Words |-> IF w = HEAP_SIZE THEN 1
                              ELSE IF w \in {0, HEAP_SIZE - HEADER_SIZE} THEN HEAP_SIZE ELSE 0]
    /\ pc = [c \in Callers |-> "idle"]
    /\ cur = [c \in Callers |-> 0]
    /\ need = [c \in Callers |-> 0]
    /\ request = [c \in Callers |-> 0]
    /\ blocks = {0}
    /\ owned = {}

\* Caller c has the CPU: unless Preempt, no other call is in progress.
Runs(c) == Preempt \/ \A d \in Callers \ {c} : pc[d] = "idle"

At(c, l) == Runs(c) /\ pc[c] = l

Goto(c, l) == pc' = [pc EXCEPT ![c] = l]

\* The call returns and its local variables are gone.
Return(c) ==
    /\ Goto(c, "idle")
    /\ cur' = [cur EXCEPT ![c] = 0]
    /\ need' = [need EXCEPT ![c] = 0]
    /\ request' = [request EXCEPT ![c] = 0]

-----------------------------------------------------------------------------
(* kmalloc.                                                                  *)

\* A size of 0 returns NULL at once.
Kmalloc(c, size) ==
    /\ At(c, "idle") /\ size # 0
    /\ cur' = [cur EXCEPT ![c] = 0]
    /\ need' = [need EXCEPT ![c] = need_size(size)]
    /\ request' = [request EXCEPT ![c] = size]
    /\ Goto(c, "search")
    /\ UNCHANGED <<mem, blocks, owned>>

\* Mutation of Fits: a block of exactly the size needed is passed over.
FitsStrictly(c) == FreeAt(cur[c]) /\ SizeAt(cur[c]) > need[c]

Fits(c) == FreeAt(cur[c]) /\ SizeAt(cur[c]) >= need[c]

\* The terminating block: kmalloc returns NULL.
SearchEnd(c) ==
    /\ At(c, "search") /\ SizeAt(cur[c]) = 0
    /\ Return(c)
    /\ UNCHANGED <<mem, blocks, owned>>

SearchSkip(c) ==
    /\ At(c, "search") /\ SizeAt(cur[c]) # 0 /\ ~Fits(c)
    /\ cur' = [cur EXCEPT ![c] = NEXT_BLOCK(@)]
    /\ UNCHANGED <<mem, pc, need, request, blocks, owned>>

SearchFit(c) ==
    /\ At(c, "search") /\ SizeAt(cur[c]) # 0 /\ Fits(c)
    /\ Goto(c, "take")
    /\ UNCHANGED <<mem, cur, need, request, blocks, owned>>

\* The rest of the block at a, when a block of n bytes is taken from it.
Remaining(a, n) == SizeAt(a) - n

\* Mutation of Splits: any rest becomes a block.
SplitsAlways(a, n) == Remaining(a, n) > 0

Splits(a, n) == Remaining(a, n) >= MIN_BLOCK

\* The block is split, or given whole, and its payload's address returned.
Take(c) ==
    LET a == cur[c]
        n == need[c]
    IN  /\ At(c, "take")
        /\ \/ /\ Splits(a, n)
              /\ mem' = Tagged(Tagged(mem, a, n, 1), a + n, Remaining(a, n), 0)
              /\ blocks' = blocks \cup {a, a + n}
           \/ /\ ~Splits(a, n)
              /\ mem' = Tagged(mem, a, SizeAt(a), 1)
              /\ UNCHANGED blocks
        /\ owned' = owned \cup {[ptr |-> a + HEADER_SIZE, size |-> request[c]]}
        /\ Return(c)

-----------------------------------------------------------------------------
(* kfree, of a pointer kmalloc returned.                                     *)

Kfree(c, p) ==
    /\ At(c, "idle")
    /\ owned' = owned \ {p}
    /\ cur' = [cur EXCEPT ![c] = p.ptr - HEADER_SIZE]
    /\ Goto(c, "mark")
    /\ UNCHANGED <<mem, need, request, blocks>>

FreeMark(c) ==
    /\ At(c, "mark")
    /\ mem' = Tagged(mem, cur[c], SizeAt(cur[c]), 0)
    /\ Goto(c, "next")
    /\ UNCHANGED <<cur, need, request, blocks, owned>>

JoinsNext(a) == SizeAt(NEXT_BLOCK(a)) > 0 /\ FreeAt(NEXT_BLOCK(a))

\* Merge with the block behind, when that one is free.
FreeNext(c) ==
    LET a == cur[c]
    IN  /\ At(c, "next")
        /\ \/ /\ JoinsNext(a)
              /\ mem' = Tagged(mem, a, SizeAt(a) + SizeAt(NEXT_BLOCK(a)), 0)
              /\ blocks' = blocks \ {NEXT_BLOCK(a)}
           \/ ~JoinsNext(a) /\ UNCHANGED <<mem, blocks>>
        /\ Goto(c, "prev")
        /\ UNCHANGED <<cur, need, request, owned>>

\* Mutation of JoinsPrev: blocks are never merged backwards.
JoinsPrevNever(a) == FALSE

JoinsPrev(a) == a > 0 /\ FreeAt(PREV_BLOCK(a))

\* Merge with the block in front, found through its footer, when that one is free.
FreePrev(c) ==
    LET a == cur[c]
    IN  /\ At(c, "prev")
        /\ \/ /\ JoinsPrev(a)
              /\ mem' = Tagged(mem, PREV_BLOCK(a), SizeAt(PREV_BLOCK(a)) + SizeAt(a), 0)
              /\ blocks' = blocks \ {a}
           \/ ~JoinsPrev(a) /\ UNCHANGED <<mem, blocks>>
        /\ Return(c)
        /\ UNCHANGED owned

-----------------------------------------------------------------------------
\* The words of the memory a caller was given for p.
Payload(p) == {w \in Words : p.ptr <= w /\ w < p.ptr + p.size}

\* The owner of p fills its memory.
Store(p, j) ==
    /\ Preempt \/ \A c \in Callers : pc[c] = "idle"
    /\ mem' = [w \in Words |-> IF w \in Payload(p) THEN j ELSE mem[w]]
    /\ UNCHANGED <<pc, cur, need, request, blocks, owned>>

Next ==
    \/ \E c \in Callers :
          \/ \E size \in Sizes : Kmalloc(c, size)
          \/ SearchEnd(c) \/ SearchSkip(c) \/ SearchFit(c) \/ Take(c)
          \/ \E p \in owned : Kfree(c, p)
          \/ FreeMark(c) \/ FreeNext(c) \/ FreePrev(c)
    \/ \E p \in owned, j \in Junk : Store(p, j)

Spec == Init /\ [][Next]_vars

-----------------------------------------------------------------------------
\* Every variable keeps its type, the words of the heap within 32 bits.
TypeOK ==
    /\ mem \in [Words -> 0 .. U32 - 1]
    /\ pc \in [Callers -> {"idle", "search", "take", "mark", "next", "prev"}]
    /\ cur \in [Callers -> Words]
    /\ need \in [Callers -> 0 .. U32 - 1]
    /\ blocks \subseteq Words

\* Whatever callers store in their memory, the blocks tile the heap: each is
\* aligned, large enough, carries the same tag at both ends, and ends where the
\* next one or the terminating block begins.
HeapTiled ==
    /\ TypeOK
    /\ 0 \in blocks /\ mem[HEAP_SIZE] = 1
    /\ \A b \in blocks :
          /\ b % ALIGN = 0 /\ SizeAt(b) >= MIN_BLOCK
          /\ NEXT_BLOCK(b) \in blocks \cup {HEAP_SIZE}
          /\ mem[BLOCK_FOOTER(b)] = mem[b]
          /\ \A d \in blocks : d > b => d >= NEXT_BLOCK(b)

\* Memory given to a caller lies inside a block in use, with room for all the bytes
\* asked for between the tags, and two callers never share a byte.
OwnedDisjoint ==
    /\ \A p \in owned :
          LET b == p.ptr - HEADER_SIZE
          IN  /\ b \in blocks /\ BLOCK_IS_ALLOC(mem[b])
              /\ p.ptr + p.size <= BLOCK_FOOTER(b)
    /\ \A p, q \in owned :
          p # q => p.ptr + p.size <= q.ptr - HEADER_SIZE \/ q.ptr + q.size <= p.ptr - HEADER_SIZE

AllIdle == \A c \in Callers : pc[c] = "idle"

\* Between calls every block in use belongs to a caller and no two free blocks are
\* neighbours: when everything is freed the heap is one block again.
NothingLost ==
    AllIdle =>
        /\ \A b \in blocks : BLOCK_IS_ALLOC(mem[b]) = (\E p \in owned : p.ptr = b + HEADER_SIZE)
        /\ \A b \in blocks :
              FreeAt(b) /\ NEXT_BLOCK(b) # HEAP_SIZE => BLOCK_IS_ALLOC(mem[NEXT_BLOCK(b)])
        /\ owned = {} => blocks = {0} /\ SizeAt(0) = HEAP_SIZE

\* kmalloc returns NULL only when no free block is large enough.
NullOnlyWhenFull ==
    [][\A c \in Callers :
          (pc[c] = "search" /\ pc'[c] = "idle") =>
              \A b \in blocks : FreeAt(b) => SizeAt(b) < need[c]]_vars
=============================================================================
