---------------------------- MODULE MemoryProofs ----------------------------
(***************************************************************************)
(* Page frames, directories and tables for every number of tasks, frames,  *)
(* tables and programs: no frame has two holders, every task can reach the *)
(* devices, and fork faults only where the frame buffer was mapped first.  *)
(*                                                                         *)
(* The invariant names the holder of every frame.  A directory, a table or *)
(* a page is reached only by its holder, so that a write through one       *)
(* changes nothing that another task sees.                                 *)
(***************************************************************************)
EXTENDS Memory, FiniteSetTheorems, WellFoundedInduction, TLAPS

\* A tick may arrive at these places: while a program runs or loads, or a wait is
\* between two frames.
Calm == {"user", "exec_phdr", "seg_file", "seg_copy", "seg_bss", "exec_stack",
         "wait_stack", "wait_dir", "wait_clear"}

\* The words between the identity map and the devices.
UserLow  == PTES * PAGE_SIZE
UserHigh == DEVICE_PD * PTES * PAGE_SIZE

\* A program whose segments lie there, file data within p_memsz.
WellLinked(p) ==
    /\ Len(p) \in Nat
    /\ \A i \in 1 .. Len(p) :
          /\ p[i].vaddr \in Nat /\ p[i].memsz \in Nat /\ Len(p[i].data) \in Nat
          /\ Len(p[i].data) <= p[i].memsz
          /\ UserLow <= p[i].vaddr /\ p[i].vaddr + p[i].memsz <= UserHigh

\* Ticks stay out of fork and of the frame stack, programs out of the kernel's part.
Orderly ==
    /\ PreemptAt \subseteq Calm
    /\ \A p \in Programs : WellLinked(p)

-----------------------------------------------------------------------------
(* Holders of a frame.                                                       *)

Free(i)         == <<"free", i, 0, 0>>
KStack(t)       == <<"stack", t, 0, 0>>
Buffer(i)       == <<"device", i, 0, 0>>
DirOf(t)        == <<"dir", t, 0, 0>>        \* of task t; of a fork under way: DirOf(NULL)
TableOf(d, p)   == <<"table", d, p, 0>>
PageOf(d, p, i) == <<"page", d, p, i>>
KernelTable(p)  == <<"kernel", p, 0, 0>>
Got             == <<"got", 0, 0, 0>>        \* handed out and not yet used
InHand          == <<"hand", 0, 0, 0>>       \* about to be mapped or pushed
Copying         == <<"copying", 0, 0, 0>>    \* the table fork is filling
Nobody          == <<"nobody", 0, 0, 0>>

\* Frame g changes hands.
Retag(own, g, tag) == [f \in RAM |-> IF f = g THEN tag ELSE own[f]]

-----------------------------------------------------------------------------
(* Where a task is: its label p and its locals l.                            *)

AllocReturns == {"init_dir", "init_table", "map_got", "map_table",
                 "clone_dir", "clone_table", "clone_page", "fork_stack"}

\* The step it is at, or will be at when the frame stack is done.
PlaceOf(p, l) == IF p \in {"pfa_alloc", "pfa_read"} THEN l.ret
                 ELSE IF p = "pfa_store" THEN l.back ELSE p

Maps  == {"map_got", "map_page", "map_table"}
Forks == {"clone_dir", "clone_pde", "clone_table", "clone_pte", "clone_page", "fork_stack"}
Waits == {"wait_stack", "wait_dir", "wait_clear"}
Execs == {"exec_phdr", "seg_file", "seg_copy", "seg_bss", "exec_stack"}
Boots == {"init_dir", "init_table", "nic", "nic_got", "fb"}

\* The step it is at, or will be at when a page is mapped.
PurposeOf(p, l) == IF PlaceOf(p, l) \in Maps THEN l.back ELSE PlaceOf(p, l)

CallOk(p, l) ==
    /\ p \in {"pfa_alloc", "pfa_read"} => l.ret \in AllocReturns
    /\ p = "pfa_store" => l.back \in {"wait_dir", "wait_clear"}
    /\ p = "user" => l = NoLocals
    /\ PlaceOf(p, l) \notin Forks => l.dir = NULL /\ l.tab = NULL
    /\ PlaceOf(p, l) \in Waits => l.slot \in Slots

\* A page to map: of a program, of the card or of the frame buffer.
DevicePage(l, i) == l.vp \in Nat /\ PD(l.vp) = DEVICE_PD /\ PT(l.vp) = i
ForProgram(l) == /\ l.back \in {"seg_copy", "seg_bss", "exec_stack"} /\ l.u
                 /\ l.vp \in Nat /\ PD(l.vp) \in 1 .. DEVICE_PD - 1
ForCard(l)    == l.back = "nic_got" /\ ~l.u /\ \E i \in NicPages : DevicePage(l, i)
ForScreen(l)  == /\ l.back = "fb" /\ l.u /\ l.pt \in 1 .. FbPages
                 /\ l.f = FbPhys(l.pt - 1) /\ DevicePage(l, l.pt - 1)

MapOk(p, l) ==
    /\ PlaceOf(p, l) = "map_page" => ForScreen(l)
    /\ PlaceOf(p, l) = "map_got" => ForProgram(l) \/ ForCard(l)
    /\ PlaceOf(p, l) = "map_table" => ForProgram(l) \/ ForCard(l) \/ ForScreen(l)
    /\ p = "nic_got" => \E i \in NicPages : DevicePage(l, i)
    /\ PurposeOf(p, l) \in Boots \ {"fb"} => l.pt = 0
    /\ PurposeOf(p, l) = "fb" => l.pt <= FbPages

\* Loading a program: the words still to put lie in the segment.
ExecOk(p, l) ==
    LET s == l.prog[l.seg] IN
    PurposeOf(p, l) \in Execs =>
        /\ l.prog \in Programs /\ l.seg >= 1
        /\ PurposeOf(p, l) \in {"seg_file", "seg_copy", "seg_bss"} =>
              l.seg <= Len(l.prog) /\ UserLow <= l.a /\ l.a + l.left <= UserHigh
        /\ PurposeOf(p, l) \in {"seg_file", "seg_copy"} => l.a + l.left = s.vaddr + Len(s.data)
        /\ PurposeOf(p, l) = "exec_stack" => l.pt <= USER_STACK_PAGES

ForkOk(p, l) ==
    PlaceOf(p, l) \in Forks =>
        /\ l.slot \in Slots
        /\ IF PlaceOf(p, l) = "clone_dir" THEN l.dir = NULL /\ l.pd = 0 ELSE l.dir \in RAM
        /\ IF PlaceOf(p, l) \in {"clone_pte", "clone_page"} THEN l.tab \in RAM ELSE l.tab = NULL
        /\ l.pd <= DEVICE_PD + 1
        /\ PlaceOf(p, l) \in {"clone_table", "clone_pte", "clone_page"} => l.pd \in 1 .. DEVICE_PD
        /\ PlaceOf(p, l) = "clone_pte" => l.pt <= PTES
        /\ PlaceOf(p, l) = "clone_page" => l.pt \in PTs
        /\ PlaceOf(p, l) = "fork_stack" => l.pd = DEVICE_PD + 1

LocalOk(p, l) == CallOk(p, l) /\ MapOk(p, l) /\ ExecOk(p, l) /\ ForkOk(p, l)

LocType == [ret : Labels, got : RAM \cup {NULL}, vp : Int, f : Int, u : BOOLEAN, back : Labels,
            slot : Slots \cup {NULL}, dir : RAM \cup {NULL}, tab : RAM \cup {NULL}, pd : Nat, pt : Nat,
            prog : Programs \cup {Shell}, seg : Nat, a : Nat, left : Nat]

PoolTypes == page_frames \in [RAM -> RAM] /\ page_frame_count \in 0 .. NFRAMES

SpaceTypes ==
    /\ dir \in [RAM -> [PDs -> Entries]]
    /\ table \in [RAM -> [PTs -> Entries]]
    /\ mem = [f \in RAM |-> [w \in Words |-> mem[f][w]]]
    /\ nic \in [PTs -> RAM \cup {NULL}]

TaskTypes ==
    /\ state \in [Slots -> {"free", "live", "zombie"}]
    /\ parent \in [Slots -> Slots \cup {NULL}]
    /\ page_dir \in [Slots -> RAM \cup {NULL}]
    /\ kstack \in [Slots -> RAM \cup {NULL}]
    /\ running \in [Slots -> Programs \cup {Shell}]

CallTypes == pc \in [Slots -> Labels] /\ loc \in [Slots -> LocType]

MemTypes ==
    /\ hw \in Hardware /\ current \in Slots /\ cpu \in {"boot", "run", "out of memory", "page fault"}
    /\ PoolTypes /\ SpaceTypes /\ TaskTypes /\ CallTypes

-----------------------------------------------------------------------------
(* Calls in progress and the tables they work on.                            *)

Place(t)   == PlaceOf(pc[t], loc[t])
Purpose(t) == PurposeOf(pc[t], loc[t])

\* The pool is whole and the identity map is made.
Booted == ~(cpu = "boot" /\ Place(current) \in {"init_dir", "init_table"})

\* Only the running task is inside fork, a mapping or the frame stack.
TurnInv ==
    \A t \in Slots :
        /\ LocalOk(pc[t], loc[t])
        /\ t # current => pc[t] \in Calm
        /\ state[t] # "live" => pc[t] = "user"

\* Boot: nothing but task 0.
BootInv ==
    /\ cpu = "boot" <=> Purpose(current) \in Boots
    /\ cpu = "boot" => /\ current = 0 /\ state[0] = "live"
                       /\ \A t \in Slots : t # 0 => state[t] = "free"

\* A child waited for stays a zombie until its slot is cleared.
WaitInv ==
    \A t \in Slots : Place(t) \in Waits =>
        state[loc[t].slot] = "zombie" /\ parent[loc[t].slot] = t

\* What the running call has seen and still relies on.
SeenInv ==
    LET l == loc[current]  place == Place(current)  d == dir[page_dir[current]] IN
    /\ place = "map_table" => d[PD(l.vp)] = Absent
    /\ place \in Maps /\ l.back = "nic_got" => hw.nic /\ nic[PT(l.vp)] = NULL
    /\ place \in Maps /\ l.back = "fb" => hw.vbe
    /\ pc[current] = "nic_got" => hw.nic
    /\ place \in Forks => state[l.slot] = "free"
    /\ place \in {"clone_table", "clone_pte", "clone_page"} => d[l.pd] # Absent /\ d[l.pd].u
    /\ place = "clone_page" => table[d[l.pd].f][l.pt].u

Placed == TurnInv /\ BootInv /\ WaitInv /\ SeenInv

-----------------------------------------------------------------------------
(* Who holds what.                                                           *)

\* The frames in the pool, up to one that is being pushed.
PoolTop == IF pc[current] = "pfa_store" THEN page_frame_count - 1 ELSE page_frame_count

PoolInv(own) == \A i \in 0 .. PoolTop - 1 : own[page_frames[i]] = Free(i)

\* The parent of s has come so far in giving its frames back.
Reaped(s, places) == parent[s] # NULL /\ loc[parent[s]].slot = s /\ Place(parent[s]) \in places
StackGone(s) == Reaped(s, {"wait_dir", "wait_clear"})
DirGone(s)   == Reaped(s, {"wait_clear"})

\* Stacks and directories of tasks, until wait returns them to the pool.
TaskInv(own) ==
    /\ state[0] # "free" /\ parent[0] = NULL
    /\ page_dir[0] = NULL <=> cpu = "boot" /\ Place(current) = "init_dir"
    /\ page_dir[0] # NULL => own[page_dir[0]] = DirOf(0)
    /\ \A t \in Slots : t # 0 /\ state[t] # "free" =>
          /\ ~StackGone(t) => kstack[t] \in RAM /\ own[kstack[t]] = KStack(t)
          /\ ~DirGone(t) => page_dir[t] \in RAM /\ own[page_dir[t]] = DirOf(t)

NicInv(own) == \A i \in PTs : nic[i] # NULL => own[nic[i]] = Buffer(i)

\* Boot before the rest of the pool is pushed.
EarlyInv(own) ==
    ~Booted =>
        /\ page_frame_count <= BOOT_FRAMES
        /\ \A f \in RAM : f >= BOOT_FRAMES => own[f] = Nobody
        /\ dir = [f \in RAM |-> EmptyDir] /\ table = [f \in RAM |-> EmptyTable]
        /\ nic = [i \in PTs |-> NULL]

\* What the call in progress holds.
CallInv(own) ==
    LET l == loc[current]  p == pc[current] IN
    /\ p \in AllocReturns => l.got \in RAM /\ own[l.got] = Got
    /\ p = "pfa_read" => page_frame_count < NFRAMES /\ own[page_frames[page_frame_count]] = Got
    /\ Place(current) = "map_table" /\ l.back # "fb" => l.f \in RAM /\ own[l.f] = InHand
    /\ p = "pfa_store" => l.f \in RAM /\ own[l.f] = InHand /\ l.pt = page_frame_count - 1 /\ l.pt \in RAM
    /\ l.dir # NULL => own[l.dir] = DirOf(NULL)
    /\ l.tab # NULL => own[l.tab] = Copying
    /\ p = "nic_got" => /\ Entry(page_dir[current], l.vp).f \in RAM
                        /\ own[Entry(page_dir[current], l.vp).f] = Buffer(PT(l.vp))

\* A page of a program belongs to its place in its directory.
PageOk(own, x, d, p, i) == x = Absent \/ (x.u /\ x.f \in RAM /\ own[x.f] = PageOf(d, p, i))

\* The entry e at p of directory d: a table below the devices is its directory's
\* own, and so are its pages, of which there is one.
UserEntry(T, own, e, d, p) ==
    e = Absent \/ /\ e.u /\ e.f \in RAM /\ own[e.f] = TableOf(d, p)
                  /\ \A i \in PTs : PageOk(own, T[e.f][i], d, p, i)
                  /\ \E i \in PTs : T[e.f][i].u

\* The entries D of directory d below n: the user's are its own, the kernel's are z and v.
Shape(T, own, D, d, n, z, v) ==
    /\ \A p \in 1 .. DEVICE_PD - 1 : p < n => UserEntry(T, own, D[p], d, p)
    /\ n > 0 => D[0] = z
    /\ n > DEVICE_PD => D[DEVICE_PD] = v

\* The table k that fork is filling has the pages of the table s up to n.
CopyShape(T, own, k, d, p, n, s) ==
    \A i \in PTs : /\ i < n => PageOk(own, T[k][i], d, p, i) /\ (T[k][i].u <=> T[s][i].u)
                   /\ i >= n => T[k][i] = Absent

\* The kernel's tables, which all directories share.
Zero   == dir[page_dir[0]][0]
Device == dir[page_dir[0]][DEVICE_PD]

LiveInv(own) == \A t \in Slots : state[t] = "live" =>
    Shape(table, own, dir[page_dir[t]], page_dir[t], DEVICE_PD + 1, Zero, Device)

CopyInv(own) ==
    LET l == loc[current] IN
    /\ l.dir # NULL => Shape(table, own, dir[l.dir], l.dir, l.pd, Zero, Device)
    /\ l.tab # NULL => CopyShape(table, own, l.tab, l.dir, l.pd, l.pt, dir[page_dir[current]][l.pd].f)

KernelInv(own) ==
    /\ Zero.f \in RAM /\ ~Zero.u /\ own[Zero.f] = KernelTable(0)
    /\ \A i \in PTs : ~table[Zero.f][i].u
    /\ Device # Absent => /\ Device.f \in RAM /\ own[Device.f] = KernelTable(DEVICE_PD)
                          /\ Device.u = ~hw.nic /\ (~hw.nic => hw.vbe /\ FbPages > 0)

SpaceInv(own) == Booted => LiveInv(own) /\ CopyInv(own) /\ KernelInv(own)

HoldInv(own) == PoolInv(own) /\ TaskInv(own) /\ NicInv(own) /\ EarlyInv(own) /\ CallInv(own)

-----------------------------------------------------------------------------
(* The devices.                                                              *)

\* So many pages of the frame buffer are mapped.
Shown == IF cpu = "run" THEN FbPages ELSE
         IF Purpose(current) # "fb" THEN 0 ELSE
         IF Place(current) = "fb" THEN loc[current].pt ELSE loc[current].pt - 1

\* The devices' pages, as far as boot has mapped them.
DeviceInv ==
    Booted =>
        /\ ~hw.nic => \A i \in PTs : nic[i] = NULL
        /\ hw.nic /\ ~hw.vbe =>
              \A i \in PTs : nic[i] # NULL => Device # Absent /\ table[Device.f][i].f = nic[i]
        /\ hw.nic /\ (cpu = "run" \/ Purpose(current) = "fb") => \A i \in NicPages : nic[i] # NULL
        /\ hw.nic /\ (\E i \in PTs : nic[i] # NULL) => Device # Absent
        /\ hw.vbe => \A i \in 0 .. Shown - 1 :
              Device # Absent /\ table[Device.f][i] = [f |-> FbPhys(i), u |-> TRUE]
        /\ ~hw.nic /\ Device # Absent =>
              \A i \in PTs : table[Device.f][i] \in {Absent, [f |-> FbPhys(i), u |-> TRUE]}
        /\ ~hw.nic /\ cpu = "boot" /\ Purpose(current) # "fb" => Device = Absent

\* When the frame buffer came first, no fork gets past it.
AloneInv ==
    cpu = "run" /\ Device # Absent /\ Device.u =>
        /\ \A t \in Slots : t # 0 => state[t] = "free"
        /\ Place(current) \in Forks => loc[current].pd <= DEVICE_PD
        /\ Place(current) \in {"clone_pte", "clone_page"} /\ loc[current].pd = DEVICE_PD => loc[current].pt = 0

Running == cpu \in {"boot", "run"}

Good(own) == Placed /\ HoldInv(own) /\ SpaceInv(own) /\ DeviceInv /\ AloneInv

MemInv == MemTypes /\ FaultsOnlyOnFrameBuffer /\ (Running => \E own : Good(own))

-----------------------------------------------------------------------------
(* Numbers.                                                                  *)

\* The constants as numbers.
LEMMA Sizes ==
    /\ MAX_TASKS \in Nat \ {0} /\ PAGE_SIZE \in Nat \ {0} /\ PTES \in Nat \ {0}
    /\ NFRAMES \in Nat \ {0} /\ FbPages \in Nat /\ DEVICE_PD \in Nat \ {0} /\ FbPages <= PTES
    /\ DEVICE_PD > 3 /\ USER_STACK_PAGES \in Nat /\ BOOT_FRAMES \in Nat /\ BOOT_FRAMES <= NFRAMES
    /\ STACK_PD \in 1 .. DEVICE_PD - 1 /\ USER_STACK_PAGES <= PTES
    /\ NicPages \subseteq PTs /\ NicPages # {}
BY MemoryAssumption DEF PTs

\* A quotient lies between the quotients of its bounds.
LEMMA QuotientBounds ==
    ASSUME NEW a \in Nat, NEW n \in Nat \ {0}
    PROVE  /\ a \div n \in Nat /\ a % n \in 0 .. n - 1 /\ a = n * (a \div n) + (a % n)
           /\ \A k \in Nat : k * n <= a => k <= a \div n
           /\ \A k \in Nat : a < k * n => a \div n < k
<1>1. a \div n \in Int /\ a % n \in 0 .. n - 1 /\ a = n * (a \div n) + (a % n)
  OBVIOUS
<1>2. PICK q \in Int, r \in 0 .. n - 1 : q = a \div n /\ r = a % n /\ a = n * q + r
  BY <1>1
<1>3. q >= 0
  <2> SUFFICES ASSUME q <= -1 PROVE FALSE
    BY <1>2
  <2>1. n * q <= n * (-1)
    OBVIOUS
  <2>2. QED
    BY <1>2, <2>1
<1>4. ASSUME NEW k \in Nat, k * n <= a PROVE k <= q
  <2> SUFFICES ASSUME q + 1 <= k PROVE FALSE
    BY <1>2
  <2>1. n * (q + 1) <= n * k
    OBVIOUS
  <2>2. QED
    BY <1>2, <1>4, <2>1
<1>5. ASSUME NEW k \in Nat, a < k * n PROVE q < k
  <2> SUFFICES ASSUME k <= q PROVE FALSE
    BY <1>2
  <2>1. n * k <= n * q
    OBVIOUS
  <2>2. QED
    BY <1>2, <1>5, <2>1
<1>6. QED
  BY <1>1, <1>2, <1>3, <1>4, <1>5

\* A number between two multiples has the lower one's quotient.
LEMMA QuotientIs ==
    ASSUME NEW a \in Nat, NEW n \in Nat \ {0}, NEW k \in Nat, k * n <= a, a < (k + 1) * n
    PROVE  a \div n = k /\ a = n * k + (a % n) /\ a % n \in Int
<1>1. k + 1 \in Nat
  OBVIOUS
<1>2. a \div n \in Nat /\ k <= a \div n
  BY QuotientBounds
<1>3. a \div n < k + 1
  BY <1>1, QuotientBounds
<1>4. a \div n = k
  BY <1>2, <1>3
<1>5. a % n \in 0 .. n - 1 /\ a = n * (a \div n) + (a % n)
  BY QuotientBounds
<1>6. QED
  BY <1>4, <1>5

\* Directory and table index of a page.
LEMMA PageTypes ==
    ASSUME NEW v \in Nat
    PROVE  PD(v) \in Nat /\ PT(v) \in PTs
BY Sizes, QuotientBounds DEF PD, PT, PTs

\* The pages of the devices.
LEMMA DevicePages ==
    ASSUME NEW i \in PTs
    PROVE  /\ DEVICE_PD * PTES + i \in Nat
           /\ PD(DEVICE_PD * PTES + i) = DEVICE_PD /\ PT(DEVICE_PD * PTES + i) = i
<1>1. PICK v \in Nat : v = DEVICE_PD * PTES + i
  BY Sizes DEF PTs
<1>2. DEVICE_PD * PTES <= v /\ v < (DEVICE_PD + 1) * PTES
  <2>1. (DEVICE_PD + 1) * PTES = DEVICE_PD * PTES + PTES /\ DEVICE_PD * PTES \in Nat
    BY Sizes
  <2>2. QED
    BY Sizes, <1>1, <2>1 DEF PTs
<1>3. PTES \in Nat \ {0} /\ DEVICE_PD \in Nat
  BY Sizes
<1>4. v \div PTES = DEVICE_PD
  BY <1>2, <1>3, QuotientIs
<1>5. v = PTES * DEVICE_PD + (v % PTES) /\ v % PTES \in Int
  BY <1>2, <1>3, QuotientIs
<1>6. v % PTES = i
  BY Sizes, <1>1, <1>5 DEF PTs
<1>7. QED
  BY <1>1, <1>4, <1>6 DEF PD, PT

\* The pages of a program's words.
LEMMA UserPages ==
    ASSUME NEW a \in Nat, UserLow <= a, a < UserHigh
    PROVE  Page(a) \in Nat /\ PD(Page(a)) \in 1 .. DEVICE_PD - 1
<1>1. PICK k \in Nat : k = DEVICE_PD * PTES
  BY Sizes
<1>2. UserLow = PTES * PAGE_SIZE /\ UserHigh = k * PAGE_SIZE
  BY Sizes, <1>1 DEF UserLow, UserHigh
<1>3. Page(a) \in Nat /\ PTES <= Page(a) /\ Page(a) < k
  BY Sizes, <1>1, <1>2, QuotientBounds DEF Page
<1>4. 1 * PTES <= Page(a) /\ Page(a) < DEVICE_PD * PTES
  BY Sizes, <1>1, <1>3
<1>5. PD(Page(a)) \in Nat /\ 1 <= PD(Page(a)) /\ PD(Page(a)) < DEVICE_PD
  BY Sizes, <1>3, <1>4, QuotientBounds DEF PD
<1>6. QED
  BY Sizes, <1>3, <1>5

\* The pages of a stack.
LEMMA StackPages ==
    ASSUME NEW k \in Nat, k < USER_STACK_PAGES
    PROVE  /\ (STACK_PD + 1) * PTES - (k + 1) \in Nat
           /\ PD((STACK_PD + 1) * PTES - (k + 1)) \in 1 .. DEVICE_PD - 1
<1>0. k + 1 <= PTES /\ STACK_PD \in Nat
  BY Sizes
<1>1. PICK b \in Nat : b = STACK_PD * PTES
  BY Sizes
<1>2. (STACK_PD + 1) * PTES = b + PTES
  BY Sizes, <1>0, <1>1
<1>3. PICK v \in Nat : v = (STACK_PD + 1) * PTES - (k + 1) /\ b <= v /\ v < b + PTES
  BY Sizes, <1>0, <1>2
<1>4. STACK_PD * PTES <= v /\ v < (STACK_PD + 1) * PTES
  BY <1>1, <1>2, <1>3
<1>5. v \div PTES = STACK_PD
  <2>1. PTES \in Nat \ {0}
    BY Sizes
  <2>2. QED
    BY <1>0, <1>4, <2>1, QuotientIs
<1>6. QED
  BY Sizes, <1>0, <1>3, <1>5 DEF PD

\* The least of a nonempty set of naturals.
LEMMA LeastIs ==
    ASSUME NEW S \in SUBSET Nat, S # {}
    PROVE  Min(S) \in S
<1>1. PICK x \in S : \A y \in S : ~(<<y, x>> \in OpToRel(<, Nat))
  BY NatLessThanWellFounded, WFMin
<1>2. \A y \in S : x <= y
  <2> SUFFICES ASSUME NEW y \in S PROVE ~(y < x)
    OBVIOUS
  <2>1. <<y, x>> \in Nat \X Nat
    OBVIOUS
  <2>2. QED
    BY <1>1, <2>1 DEF OpToRel
<1>3. QED
  BY <1>2 DEF Min

\* The smaller of two.
LEMMA LeastOfTwo ==
    ASSUME NEW a \in Int, NEW b \in Int
    PROVE  Min({a, b}) \in {a, b} /\ Min({a, b}) <= a /\ Min({a, b}) <= b
<1>1. \E x \in {a, b} : \A y \in {a, b} : x <= y
  <2>1. CASE a <= b
    BY <2>1
  <2>2. CASE ~(a <= b)
    BY <2>2
  <2>3. QED
    BY <2>1, <2>2
<1>2. QED
  BY <1>1 DEF Min

-----------------------------------------------------------------------------
(* Directories and tables: T is what the frames hold as tables, own says who *)
(* holds them.                                                               *)

Tables == [RAM -> [PTs -> Entries]]

Mine(tag, d) == tag[1] \in {"table", "page"} /\ tag[2] = d

\* Nothing of directory d's changes.
Untouched(T, T2, own, own2, d) ==
    \A f \in RAM : Mine(own[f], d) => own2[f] = own[f] /\ (own[f][1] = "table" => T2[f] = T[f])

\* A table with one entry set is a table.
LEMMA EntrySet ==
    ASSUME NEW T \in Tables, NEW k \in RAM, NEW i \in PTs, NEW e \in Entries
    PROVE  [T EXCEPT ![k][i] = e] \in Tables
<1>1. T[k] \in [PTs -> Entries]
  BY DEF Tables
<1>2. [T[k] EXCEPT ![i] = e] \in [PTs -> Entries]
  BY <1>1
<1>3. QED
  BY <1>2 DEF Tables

\* A table and a page belong to the directory their tags name.
LEMMA UserTags ==
    /\ \A d, p : Mine(TableOf(d, p), d) /\ TableOf(d, p)[1] = "table"
    /\ \A d, p, i : Mine(PageOf(d, p, i), d)
BY DEF Mine, TableOf, PageOf

\* An entry stays right when nothing of its directory's changes.
LEMMA EntryKept ==
    ASSUME NEW T, NEW T2, NEW own, NEW own2, NEW d, NEW e, NEW p,
           Untouched(T, T2, own, own2, d), UserEntry(T, own, e, d, p)
    PROVE  UserEntry(T2, own2, e, d, p)
<1>1. CASE e = Absent
  BY <1>1 DEF UserEntry
<1>2. CASE e # Absent
  <2>1. /\ e.u /\ e.f \in RAM /\ own[e.f] = TableOf(d, p)
        /\ \A i \in PTs : PageOk(own, T[e.f][i], d, p, i)
        /\ \E i \in PTs : T[e.f][i].u
    BY <1>2 DEF UserEntry
  <2>2. own2[e.f] = TableOf(d, p) /\ T2[e.f] = T[e.f]
    BY <2>1, UserTags DEF Untouched
  <2>3. ASSUME NEW i \in PTs PROVE PageOk(own2, T[e.f][i], d, p, i)
    BY <2>1, UserTags DEF Untouched, PageOk
  <2>4. QED
    BY <2>1, <2>2, <2>3 DEF UserEntry
<1>3. QED
  BY <1>1, <1>2

\* So does a directory.
LEMMA ShapeKept ==
    ASSUME NEW T, NEW T2, NEW own, NEW own2, NEW d, NEW D, NEW D2, NEW n, NEW z, NEW v,
           Untouched(T, T2, own, own2, d), Shape(T, own, D, d, n, z, v),
           \A p \in PDs : p < n => D2[p] = D[p], n \in 0 .. DEVICE_PD + 1
    PROVE  Shape(T2, own2, D2, d, n, z, v)
<1>1. ASSUME NEW p \in 1 .. DEVICE_PD - 1, p < n PROVE UserEntry(T2, own2, D2[p], d, p)
  <2>1. D2[p] = D[p] /\ UserEntry(T, own, D[p], d, p)
    BY <1>1, Sizes DEF Shape, PDs
  <2>2. QED
    BY <2>1, EntryKept
<1>2. 0 \in PDs /\ DEVICE_PD \in PDs
  BY Sizes DEF PDs
<1>3. QED
  BY <1>1, <1>2, Sizes DEF Shape

\* So does a table fork is filling.
LEMMA CopyKept ==
    ASSUME NEW T, NEW T2, NEW own, NEW own2, NEW d, NEW k, NEW p, NEW n, NEW s,
           Untouched(T, T2, own, own2, d), CopyShape(T, own, k, d, p, n, s),
           T2[k] = T[k], T2[s] = T[s]
    PROVE  CopyShape(T2, own2, k, d, p, n, s)
<1>1. ASSUME NEW i \in PTs, i < n PROVE PageOk(own2, T[k][i], d, p, i)
  <2>1. PageOk(own, T[k][i], d, p, i)
    BY <1>1 DEF CopyShape
  <2>2. QED
    BY <2>1, UserTags DEF Untouched, PageOk
<1>2. QED
  BY <1>1 DEF CopyShape

\* A frame that is no user's becomes the page i of the table at p.
LEMMA ShapeSetPage ==
    ASSUME NEW T \in Tables, NEW own, NEW d, NEW D, NEW z, NEW v,
           Shape(T, own, D, d, DEVICE_PD + 1, z, v),
           NEW p \in 1 .. DEVICE_PD - 1, D[p] # Absent, NEW i \in PTs, NEW f \in RAM, own[f] = Got
    PROVE  Shape([T EXCEPT ![D[p].f][i] = [f |-> f, u |-> TRUE]], Retag(own, f, PageOf(d, p, i)),
                 D, d, DEVICE_PD + 1, z, v)
<1>1. PICK T2 : T2 = [T EXCEPT ![D[p].f][i] = [f |-> f, u |-> TRUE]]
  OBVIOUS
<1>2. PICK own2 : own2 = Retag(own, f, PageOf(d, p, i))
  OBVIOUS
<1>3. \A g \in RAM : own2[g] = IF g = f THEN PageOf(d, p, i) ELSE own[g]
  BY <1>2 DEF Retag
<1>4. \A q \in 1 .. DEVICE_PD - 1 : UserEntry(T, own, D[q], d, q)
  BY Sizes DEF Shape
<1>5. D[p].u /\ D[p].f \in RAM /\ own[D[p].f] = TableOf(d, p)
  BY <1>4 DEF UserEntry
<1>6. \A g \in RAM : \A j \in PTs :
         T2[g][j] = IF g = D[p].f /\ j = i THEN [f |-> f, u |-> TRUE] ELSE T[g][j]
  BY <1>1, <1>5 DEF Tables
<1>7. ASSUME NEW q \in 1 .. DEVICE_PD - 1, D[q] # Absent PROVE UserEntry(T2, own2, D[q], d, q)
  <2>1. /\ D[q].u /\ D[q].f \in RAM /\ own[D[q].f] = TableOf(d, q)
        /\ \A j \in PTs : PageOk(own, T[D[q].f][j], d, q, j)
        /\ \E j \in PTs : T[D[q].f][j].u
    BY <1>4, <1>7 DEF UserEntry
  <2>2. own2[D[q].f] = TableOf(d, q)
    BY <1>3, <2>1 DEF Got, TableOf
  <2>3. q # p => D[q].f # D[p].f
    BY <1>5, <2>1 DEF TableOf
  <2>4. ASSUME NEW j \in PTs PROVE PageOk(own2, T2[D[q].f][j], d, q, j)
    <3>1. CASE q = p /\ j = i
      <4>1. T2[D[q].f][j] = [f |-> f, u |-> TRUE]
        BY <1>5, <1>6, <3>1
      <4>2. own2[f] = PageOf(d, q, j)
        BY <1>3, <3>1
      <4>3. QED
        BY <4>1, <4>2 DEF PageOk
    <3>2. CASE ~(q = p /\ j = i)
      <4>1. T2[D[q].f][j] = T[D[q].f][j] /\ PageOk(own, T[D[q].f][j], d, q, j)
        BY <1>6, <2>1, <2>3, <3>2
      <4>2. PICK x : x = T[D[q].f][j]
        OBVIOUS
      <4>3. x # Absent => x.u /\ x.f \in RAM /\ own[x.f] = PageOf(d, q, j)
        BY <4>1, <4>2 DEF PageOk
      <4>4. x # Absent => x.f # f
        BY <4>3 DEF Got, PageOf
      <4>5. x # Absent => own2[x.f] = PageOf(d, q, j)
        BY <1>3, <4>3, <4>4
      <4>6. QED
        BY <4>1, <4>2, <4>3, <4>5 DEF PageOk
    <3>3. QED
      BY <3>1, <3>2
  <2>5. \E j \in PTs : T2[D[q].f][j].u
    <3>1. PICK j \in PTs : T[D[q].f][j].u
      BY <2>1
    <3>2. T2[D[q].f][j].u
      BY <1>6, <2>1, <3>1
    <3>3. QED
      BY <3>2
  <2>6. QED
    BY <2>1, <2>2, <2>4, <2>5 DEF UserEntry
<1>8. \A q \in 1 .. DEVICE_PD - 1 : UserEntry(T2, own2, D[q], d, q)
  BY <1>7 DEF UserEntry
<1>9. Shape(T2, own2, D, d, DEVICE_PD + 1, z, v)
  BY <1>8, Sizes DEF Shape
<1>10. QED
  BY <1>1, <1>2, <1>9

\* A new table at p, with one page.
LEMMA ShapeNewTable ==
    ASSUME NEW T \in Tables, NEW own, NEW d, NEW D \in [PDs -> Entries], NEW z, NEW v,
           Shape(T, own, D, d, DEVICE_PD + 1, z, v),
           NEW p \in 1 .. DEVICE_PD - 1, NEW i \in PTs,
           NEW g \in RAM, own[g] = Got, NEW f \in RAM, own[f] = InHand
    PROVE  Shape([T EXCEPT ![g] = [EmptyTable EXCEPT ![i] = [f |-> f, u |-> TRUE]]],
                 Retag(Retag(own, g, TableOf(d, p)), f, PageOf(d, p, i)),
                 [D EXCEPT ![p] = [f |-> g, u |-> TRUE]], d, DEVICE_PD + 1, z, v)
<1>1. PICK T2 : T2 = [T EXCEPT ![g] = [EmptyTable EXCEPT ![i] = [f |-> f, u |-> TRUE]]]
  OBVIOUS
<1>2. PICK own2 : own2 = Retag(Retag(own, g, TableOf(d, p)), f, PageOf(d, p, i))
  OBVIOUS
<1>3. PICK D2 : D2 = [D EXCEPT ![p] = [f |-> g, u |-> TRUE]]
  OBVIOUS
<1>4. /\ f # g /\ own2[g] = TableOf(d, p) /\ own2[f] = PageOf(d, p, i)
      /\ \A h \in RAM : h # f /\ h # g => own2[h] = own[h]
  BY <1>2 DEF Retag, Got, InHand
<1>5. /\ \A h \in RAM : h # g => T2[h] = T[h]
      /\ \A j \in PTs : T2[g][j] = IF j = i THEN [f |-> f, u |-> TRUE] ELSE Absent
  BY <1>1 DEF Tables, EmptyTable
<1>6. p \in PDs /\ D2[p] = [f |-> g, u |-> TRUE] /\ \A q \in PDs : q # p => D2[q] = D[q]
  BY <1>3, Sizes DEF PDs
<1>7. Untouched(T, T2, own, own2, d)
  BY <1>4, <1>5 DEF Untouched, Mine, Got, InHand
<1>8. ASSUME NEW q \in 1 .. DEVICE_PD - 1 PROVE UserEntry(T2, own2, D2[q], d, q)
  <2>1. CASE q = p
    <3>1. ASSUME NEW j \in PTs PROVE PageOk(own2, T2[g][j], d, p, j)
      BY <1>4, <1>5 DEF PageOk
    <3>2. T2[g][i].u
      BY <1>5
    <3>3. QED
      BY <1>4, <1>6, <2>1, <3>1, <3>2 DEF UserEntry
  <2>2. CASE q # p
    <3>1. q \in PDs /\ q < DEVICE_PD + 1
      BY Sizes DEF PDs
    <3>2. UserEntry(T, own, D[q], d, q)
      BY <3>1 DEF Shape
    <3>3. D2[q] = D[q]
      BY <1>6, <2>2, <3>1
    <3>4. QED
      BY <1>7, <3>2, <3>3, EntryKept
  <2>3. QED
    BY <2>1, <2>2
<1>9. D2[0] = D[0] /\ D2[DEVICE_PD] = D[DEVICE_PD]
  BY <1>6, Sizes DEF PDs
<1>10. Shape(T2, own2, D2, d, DEVICE_PD + 1, z, v)
  BY <1>8, <1>9, Sizes DEF Shape
<1>11. QED
  BY <1>1, <1>2, <1>3, <1>10

\* fork enters one more entry e in the new directory.
LEMMA ShapeGrows ==
    ASSUME NEW T, NEW own, NEW d, NEW D \in [PDs -> Entries], NEW n \in PDs, NEW e, NEW z, NEW v,
           Shape(T, own, D, d, n, z, v),
           n = 0 => e = z, n = DEVICE_PD => e = v,
           n \in 1 .. DEVICE_PD - 1 => UserEntry(T, own, e, d, n)
    PROVE  Shape(T, own, [D EXCEPT ![n] = e], d, n + 1, z, v)
<1>1. PICK D2 : D2 = [D EXCEPT ![n] = e]
  OBVIOUS
<1>2. n \in 0 .. DEVICE_PD /\ D2[n] = e /\ \A q \in PDs : q # n => D2[q] = D[q]
  BY <1>1 DEF PDs
<1>3. ASSUME NEW q \in 1 .. DEVICE_PD - 1, q < n + 1 PROVE UserEntry(T, own, D2[q], d, q)
  <2>1. CASE q = n
    BY <1>2, <2>1
  <2>2. CASE q # n
    <3>1. q < n /\ q \in PDs
      BY <1>2, <1>3, <2>2, Sizes DEF PDs
    <3>2. UserEntry(T, own, D[q], d, q)
      BY <3>1 DEF Shape
    <3>3. QED
      BY <1>2, <2>2, <3>1, <3>2
  <2>3. QED
    BY <2>1, <2>2
<1>4. D2[0] = z
  <2>1. CASE n = 0
    BY <1>2, <2>1
  <2>2. CASE n # 0
    <3>1. n > 0 /\ 0 \in PDs
      BY <1>2, <2>2, Sizes DEF PDs
    <3>2. D[0] = z
      BY <3>1 DEF Shape
    <3>3. QED
      BY <1>2, <2>2, <3>1, <3>2
  <2>3. QED
    BY <2>1, <2>2
<1>5. n + 1 > DEVICE_PD => D2[DEVICE_PD] = v
  BY <1>2, Sizes
<1>6. Shape(T, own, D2, d, n + 1, z, v)
  BY <1>3, <1>4, <1>5 DEF Shape
<1>7. QED
  BY <1>1, <1>6

\* The copy of a table, entry by entry.
LEMMA CopyStart ==
    ASSUME NEW T \in Tables, NEW own, NEW d, NEW p, NEW s, NEW k \in RAM
    PROVE  CopyShape([T EXCEPT ![k] = EmptyTable], own, k, d, p, 0, s)
<1>1. \A i \in PTs : [T EXCEPT ![k] = EmptyTable][k][i] = Absent
  BY DEF Tables, EmptyTable
<1>2. QED
  BY <1>1 DEF CopyShape, PTs

\* clone_pte: an absent page is copied as it is.
LEMMA CopySkip ==
    ASSUME NEW T \in Tables, NEW own, NEW d, NEW p, NEW k \in RAM, NEW s \in RAM, s # k, NEW n \in PTs,
           CopyShape(T, own, k, d, p, n, s), T[s][n] = Absent
    PROVE  CopyShape([T EXCEPT ![k][n] = T[s][n]], own, k, d, p, n + 1, s)
<1>1. PICK T2 : T2 = [T EXCEPT ![k][n] = T[s][n]]
  OBVIOUS
<1>2. T2[s] = T[s] /\ \A i \in PTs : T2[k][i] = IF i = n THEN Absent ELSE T[k][i]
  BY <1>1 DEF Tables
<1>3. ~Absent.u
  BY DEF Absent
<1>4. ASSUME NEW i \in PTs
      PROVE  /\ i < n + 1 => PageOk(own, T2[k][i], d, p, i) /\ (T2[k][i].u <=> T2[s][i].u)
             /\ i >= n + 1 => T2[k][i] = Absent
  <2>1. CASE i = n
    BY <1>2, <1>3, <2>1 DEF PageOk, PTs
  <2>2. CASE i # n
    <3>1. /\ i < n => PageOk(own, T[k][i], d, p, i) /\ (T[k][i].u <=> T[s][i].u)
          /\ i >= n => T[k][i] = Absent
      BY DEF CopyShape
    <3>2. T2[k][i] = T[k][i]
      BY <1>2, <2>2
    <3>3. i < n + 1 => i < n
      BY <2>2 DEF PTs
    <3>4. i >= n + 1 => i >= n
      BY DEF PTs
    <3>5. QED
      BY <1>2, <3>1, <3>2, <3>3, <3>4
  <2>3. QED
    BY <2>1, <2>2
<1>5. CopyShape(T2, own, k, d, p, n + 1, s)
  BY <1>4 DEF CopyShape
<1>6. QED
  BY <1>1, <1>5

\* clone_page: a fresh frame for a page.
LEMMA CopyPage ==
    ASSUME NEW T \in Tables, NEW own, NEW d, NEW p, NEW k \in RAM, NEW s \in RAM, s # k, NEW n \in PTs,
           CopyShape(T, own, k, d, p, n, s), T[s][n].u, NEW g \in RAM, own[g] = Got
    PROVE  CopyShape([T EXCEPT ![k][n] = [f |-> g, u |-> TRUE]], Retag(own, g, PageOf(d, p, n)),
                     k, d, p, n + 1, s)
<1>1. PICK T2 : T2 = [T EXCEPT ![k][n] = [f |-> g, u |-> TRUE]]
  OBVIOUS
<1>2. T2[s] = T[s] /\ \A i \in PTs : T2[k][i] = IF i = n THEN [f |-> g, u |-> TRUE] ELSE T[k][i]
  BY <1>1 DEF Tables
<1>3. PICK own2 : own2 = Retag(own, g, PageOf(d, p, n))
  OBVIOUS
<1>4. \A h \in RAM : own2[h] = IF h = g THEN PageOf(d, p, n) ELSE own[h]
  BY <1>3 DEF Retag
<1>5. ASSUME NEW i \in PTs
      PROVE  /\ i < n + 1 => PageOk(own2, T2[k][i], d, p, i) /\ (T2[k][i].u <=> T2[s][i].u)
             /\ i >= n + 1 => T2[k][i] = Absent
  <2>1. CASE i = n
    <3>1. T2[k][i].u /\ T2[s][i].u /\ PageOk(own2, T2[k][i], d, p, i)
      BY <1>2, <1>4, <2>1 DEF PageOk
    <3>2. ~(i >= n + 1)
      BY <2>1 DEF PTs
    <3>3. QED
      BY <3>1, <3>2
  <2>2. CASE i # n
    <3>1. /\ i < n => PageOk(own, T[k][i], d, p, i) /\ (T[k][i].u <=> T[s][i].u)
          /\ i >= n => T[k][i] = Absent
      BY DEF CopyShape
    <3>2. T2[k][i] = T[k][i]
      BY <1>2, <2>2
    <3>3. i < n + 1 => i < n
      BY <2>2 DEF PTs
    <3>4. i >= n + 1 => i >= n
      BY DEF PTs
    <3>5. PageOk(own, T[k][i], d, p, i) => PageOk(own2, T[k][i], d, p, i)
      BY <1>4 DEF PageOk, Got, PageOf
    <3>6. QED
      BY <1>2, <3>1, <3>2, <3>3, <3>4, <3>5
  <2>3. QED
    BY <2>1, <2>2
<1>6. CopyShape(T2, own2, k, d, p, n + 1, s)
  BY <1>5 DEF CopyShape
<1>7. QED
  BY <1>1, <1>3, <1>6

\* The copy is entered as the table of the new directory.
LEMMA CopyDone ==
    ASSUME NEW T, NEW own, NEW d, NEW p, NEW k \in RAM, NEW c, NEW e, e # Absent,
           UserEntry(T, own, e, c, p), CopyShape(T, own, k, d, p, PTES, e.f), own[k] = Copying
    PROVE  UserEntry(T, Retag(own, k, TableOf(d, p)), [f |-> k, u |-> TRUE], d, p)
<1>1. PICK own2 : own2 = Retag(own, k, TableOf(d, p))
  OBVIOUS
<1>2. \A h \in RAM : own2[h] = IF h = k THEN TableOf(d, p) ELSE own[h]
  BY <1>1 DEF Retag
<1>3. \A i \in PTs : i < PTES
  BY Sizes DEF PTs
<1>4. \A i \in PTs : PageOk(own, T[k][i], d, p, i) /\ (T[k][i].u <=> T[e.f][i].u)
  BY <1>3 DEF CopyShape
<1>5. \E i \in PTs : T[k][i].u
  BY <1>4 DEF UserEntry
<1>6. ASSUME NEW i \in PTs PROVE PageOk(own2, T[k][i], d, p, i)
  BY <1>2, <1>4 DEF PageOk, PageOf, Copying
<1>7. UserEntry(T, own2, [f |-> k, u |-> TRUE], d, p)
  BY <1>2, <1>5, <1>6 DEF UserEntry
<1>8. QED
  BY <1>1, <1>7

-----------------------------------------------------------------------------
(* Steps of the running task.                                                *)

\* Task 0 is there.
LEMMA ZeroIsSlot == 0 \in Slots
BY Sizes DEF Slots

\* These types imply the model's.
LEMMA TypesImply == ASSUME MemTypes PROVE TypeOK
<1>1. DOMAIN mem = RAM /\ \A f \in RAM : DOMAIN mem[f] = Words
  BY DEF MemTypes, SpaceTypes
<1>2. ASSUME NEW t \in Slots
      PROVE  /\ DOMAIN loc[t] = DOMAIN NoLocals
             /\ loc[t].ret \in Labels /\ loc[t].back \in Labels
             /\ {loc[t].got, loc[t].dir, loc[t].tab} \subseteq RAM \cup {NULL}
  <2>1. loc[t] \in LocType
    BY DEF MemTypes, CallTypes
  <2>2. QED
    BY <2>1 DEF LocType, NoLocals
<1>3. QED
  BY <1>1, <1>2 DEF MemTypes, PoolTypes, SpaceTypes, TaskTypes, CallTypes, TypeOK

\* Tables and directories keep their types, words and buffers are left alone.
LEMMA SpaceStays ==
    ASSUME MemTypes, UNCHANGED <<mem, nic>>, dir' \in [RAM -> [PDs -> Entries]], table' \in [RAM -> [PTs -> Entries]]
    PROVE  SpaceTypes'
BY DEF MemTypes, SpaceTypes

\* The running task t goes to the label p with the locals l.
Moves(t, p, l) == pc' = [pc EXCEPT ![t] = p] /\ loc' = [loc EXCEPT ![t] = l]

\* Where a task that moves is, and that the others stay.
LEMMA MovesTo ==
    ASSUME MemTypes, NEW t \in Slots, NEW p, NEW l, Moves(t, p, l)
    PROVE  /\ pc'[t] = p /\ loc'[t] = l
           /\ \A s \in Slots : s # t => pc'[s] = pc[s] /\ loc'[s] = loc[s]
           /\ p \in Labels /\ l \in LocType => CallTypes'
BY DEF Moves, MemTypes, CallTypes

\* The running task goes to a place its locals fit.
LEMMA TurnKept ==
    ASSUME MemTypes, TurnInv, NEW t \in Slots, t = current, current' = current, state' = state,
           state[t] = "live", NEW p, NEW l, Moves(t, p, l), LocalOk(p, l)
    PROVE  TurnInv'
<1>1. /\ pc'[t] = p /\ loc'[t] = l
      /\ \A s \in Slots : s # t => pc'[s] = pc[s] /\ loc'[s] = loc[s]
  BY MovesTo
<1>2. ASSUME NEW s \in Slots
      PROVE  /\ LocalOk(pc'[s], loc'[s])
             /\ s # current' => pc'[s] \in Calm
             /\ state'[s] # "live" => pc'[s] = "user"
  <2>1. CASE s = t
    BY <1>1, <2>1
  <2>2. CASE s # t
    BY <1>1, <2>2 DEF TurnInv
  <2>3. QED
    BY <2>1, <2>2
<1>3. QED
  BY <1>2 DEF TurnInv

\* The same in terms of places.
LEMMA PlacesMove ==
    ASSUME MemTypes, NEW t \in Slots, NEW p, NEW l, Moves(t, p, l)
    PROVE  /\ Place(t)' = PlaceOf(p, l) /\ Purpose(t)' = PurposeOf(p, l)
           /\ \A s \in Slots : s # t => Place(s)' = Place(s) /\ loc'[s] = loc[s]
<1>1. /\ pc'[t] = p /\ loc'[t] = l
      /\ \A s \in Slots : s # t => pc'[s] = pc[s] /\ loc'[s] = loc[s]
  BY MovesTo
<1>2. QED
  BY <1>1 DEF Place, Purpose

\* A wait goes on with the child it found.
LEMMA WaitKept ==
    ASSUME MemTypes, WaitInv, NEW t \in Slots, UNCHANGED <<state, parent>>,
           NEW p, NEW l, Moves(t, p, l),
           PlaceOf(p, l) \in Waits => state[l.slot] = "zombie" /\ parent[l.slot] = t
    PROVE  WaitInv'
<1>1. /\ Place(t)' = PlaceOf(p, l) /\ loc'[t] = l
      /\ \A s \in Slots : s # t => Place(s)' = Place(s) /\ loc'[s] = loc[s]
  BY PlacesMove, MovesTo
<1>2. ASSUME NEW s \in Slots, Place(s)' \in Waits
      PROVE  state'[loc'[s].slot] = "zombie" /\ parent'[loc'[s].slot] = s
  <2>1. CASE s = t
    BY <1>1, <1>2, <2>1
  <2>2. CASE s # t
    BY <1>1, <1>2, <2>2 DEF WaitInv
  <2>3. QED
    BY <2>1, <2>2
<1>3. QED
  BY <1>2 DEF WaitInv

\* Kinds of holders that a step leaves alone.
Keeps(own, own2, kinds) == \A f \in RAM : own[f][1] \in kinds => own2[f] = own[f]

\* Nobody comes further in giving back a child's frames.
LEMMA ReapedSame ==
    ASSUME MemTypes, NEW t \in Slots, UNCHANGED parent, NEW p, NEW l, Moves(t, p, l),
           NEW places, NEW s \in Slots,
           \/ Place(t) \notin places /\ PlaceOf(p, l) \notin places
           \/ PlaceOf(p, l) = Place(t) /\ l.slot = loc[t].slot
    PROVE  Reaped(s, places)' <=> Reaped(s, places)
<1>1. /\ Place(t)' = PlaceOf(p, l) /\ loc'[t] = l
      /\ \A r \in Slots : r # t => Place(r)' = Place(r) /\ loc'[r] = loc[r]
  BY PlacesMove, MovesTo
<1>2. parent[s] # NULL => parent[s] \in Slots
  BY DEF MemTypes, TaskTypes
<1>3. CASE parent[s] = t
  BY <1>1, <1>3 DEF Reaped
<1>4. CASE parent[s] # t
  BY <1>1, <1>2, <1>4 DEF Reaped
<1>5. QED
  BY <1>3, <1>4

\* Stacks and directories keep their holders while no wait gives one back.
LEMMA TasksKept ==
    ASSUME MemTypes, NEW own, NEW own2, TaskInv(own), Keeps(own, own2, {"stack", "dir"}),
           UNCHANGED <<state, parent, page_dir, kstack, cpu, current>>,
           NEW t \in Slots, t = current, NEW p, NEW l, Moves(t, p, l),
           \/ Place(t) \notin {"wait_dir", "wait_clear"} /\ PlaceOf(p, l) \notin {"wait_dir", "wait_clear"}
           \/ PlaceOf(p, l) = Place(t) /\ l.slot = loc[t].slot,
           cpu = "boot" => (Place(t) = "init_dir" <=> PlaceOf(p, l) = "init_dir")
    PROVE  TaskInv(own2)'
<1>1. \A s \in Slots : /\ (StackGone(s)' <=> StackGone(s)) /\ (DirGone(s)' <=> DirGone(s))
  BY ReapedSame DEF StackGone, DirGone
<1>2. Place(current)' = PlaceOf(p, l)
  BY PlacesMove
<1>3. page_dir'[0] = NULL <=> cpu' = "boot" /\ Place(current)' = "init_dir"
  BY <1>2 DEF TaskInv
<1>4. \A f \in RAM : \A s : own[f] = DirOf(s) \/ own[f] = KStack(s) => own2[f] = own[f]
  BY DEF Keeps, DirOf, KStack
<1>5. 0 \in Slots /\ (page_dir[0] # NULL => page_dir[0] \in RAM)
  BY ZeroIsSlot DEF MemTypes, TaskTypes
<1>6. ASSUME NEW s \in Slots, s # 0, state'[s] # "free"
      PROVE  /\ ~StackGone(s)' => kstack'[s] \in RAM /\ own2[kstack'[s]] = KStack(s)
             /\ ~DirGone(s)' => page_dir'[s] \in RAM /\ own2[page_dir'[s]] = DirOf(s)
  BY <1>1, <1>4, <1>6 DEF TaskInv
<1>7. state'[0] # "free" /\ parent'[0] = NULL /\ (page_dir'[0] # NULL => own2[page_dir'[0]] = DirOf(0))
  BY <1>4, <1>5 DEF TaskInv
<1>8. QED
  BY <1>3, <1>6, <1>7 DEF TaskInv

\* The card's buffers keep their holders.
LEMMA NicKept ==
    ASSUME MemTypes, NEW own, NEW own2, NicInv(own), Keeps(own, own2, {"device"}), UNCHANGED nic
    PROVE  NicInv(own2)'
<1>1. ASSUME NEW i \in PTs, nic'[i] # NULL PROVE own2[nic'[i]] = Buffer(i)
  <2>1. nic[i] \in RAM
    BY <1>1 DEF MemTypes, SpaceTypes
  <2>2. own[nic[i]] = Buffer(i) /\ Buffer(i)[1] = "device"
    BY <1>1 DEF NicInv, Buffer
  <2>3. QED
    BY <2>1, <2>2 DEF Keeps
<1>2. QED
  BY <1>1 DEF NicInv

\* Boot before the pool is whole: only the count goes down.
LEMMA EarlyKept ==
    ASSUME NEW own, NEW own2, EarlyInv(own), Keeps(own, own2, {"nobody"}), ~Booted' => ~Booted,
           page_frame_count' <= page_frame_count \/ Booted', UNCHANGED <<dir, table, nic>>, PoolTypes, PoolTypes'
    PROVE  EarlyInv(own2)'
<1>1. Nobody[1] = "nobody"
  BY DEF Nobody
<1>2. PICK n \in Int : n = page_frame_count
  BY DEF PoolTypes
<1>3. PICK m \in Int : m = page_frame_count'
  BY DEF PoolTypes
<1>4. BOOT_FRAMES \in Int
  BY Sizes
<1>5. QED
  BY <1>1, <1>2, <1>3, <1>4 DEF EarlyInv, Keeps

\* User directories, kernel tables.
LEMMA LiveKept ==
    ASSUME NEW own, NEW own2, LiveInv(own), Keeps(own, own2, {"table", "page"}),
           \A f \in RAM : own[f][1] = "table" => table'[f] = table[f],
           UNCHANGED dir, page_dir'[0] = page_dir[0],
           \A s \in Slots : state'[s] = "live" => state[s] = "live" /\ page_dir'[s] = page_dir[s]
    PROVE  LiveInv(own2)'
<1>1. ASSUME NEW d PROVE Untouched(table, table', own, own2, d)
  BY DEF Untouched, Mine, Keeps
<1>2. Zero' = Zero /\ Device' = Device
  BY DEF Zero, Device
<1>3. ASSUME NEW s \in Slots, state'[s] = "live"
      PROVE  Shape(table', own2, dir'[page_dir'[s]], page_dir'[s], DEVICE_PD + 1, Zero', Device')
  <2>1. PICK D, d, z, v : D = dir[page_dir[s]] /\ d = page_dir[s] /\ z = Zero /\ v = Device
    OBVIOUS
  <2>2. D = dir'[page_dir'[s]] /\ d = page_dir'[s] /\ z = Zero' /\ v = Device'
    BY <1>2, <1>3, <2>1
  <2>3. Shape(table, own, D, d, DEVICE_PD + 1, z, v)
    BY <1>3, <2>1 DEF LiveInv
  <2>4. DEVICE_PD + 1 \in 0 .. DEVICE_PD + 1
    BY Sizes
  <2>5. Shape(table', own2, D, d, DEVICE_PD + 1, z, v)
    BY <1>1, <2>3, <2>4, ShapeKept
  <2>6. QED
    BY <2>2, <2>5
<1>4. QED
  BY <1>3 DEF LiveInv

\* The shared tables are left alone.
LEMMA KernelKept ==
    ASSUME NEW own, NEW own2, KernelInv(own), Keeps(own, own2, {"kernel"}),
           \A f \in RAM : own[f] = KernelTable(0) => table'[f] = table[f],
           Zero' = Zero, Device' = Device, UNCHANGED hw
    PROVE  KernelInv(own2)'
<1>1. \A p : KernelTable(p)[1] = "kernel"
  BY DEF KernelTable
<1>2. own2[Zero.f] = KernelTable(0) /\ table'[Zero.f] = table[Zero.f]
  BY <1>1 DEF KernelInv, Keeps
<1>3. Device # Absent => own2[Device.f] = KernelTable(DEVICE_PD)
  BY <1>1 DEF KernelInv, Keeps
<1>4. QED
  BY <1>2, <1>3 DEF KernelInv

\* A fork under way.
LEMMA CopyStays ==
    ASSUME NEW own, NEW own2, CopyInv(own), Keeps(own, own2, {"table", "page"}), MemTypes, TurnInv,
           UNCHANGED <<dir, table, page_dir, current>>,
           NEW t \in Slots, t = current, NEW p, NEW l, Moves(t, p, l),
           \/ l.dir = NULL /\ l.tab = NULL
           \/ l.dir = loc[t].dir /\ l.tab = loc[t].tab /\ l.pd = loc[t].pd /\ l.pt = loc[t].pt
           \/ l.tab = NULL /\ l.dir = loc[t].dir /\ l.pd = loc[t].pd
    PROVE  CopyInv(own2)'
<1>1. ASSUME NEW d PROVE Untouched(table, table, own, own2, d)
  BY DEF Untouched, Mine, Keeps
<1>2. Zero' = Zero /\ Device' = Device /\ loc'[current'] = l /\ page_dir'[current'] = page_dir[t]
  BY MovesTo DEF Zero, Device
<1>3. l.dir # NULL => Shape(table, own2, dir[l.dir], l.dir, l.pd, Zero, Device)
  <2> SUFFICES ASSUME l.dir # NULL PROVE Shape(table, own2, dir[l.dir], l.dir, l.pd, Zero, Device)
    OBVIOUS
  <2>1. PICK D, d, n, z, v : D = dir[l.dir] /\ d = l.dir /\ n = l.pd /\ z = Zero /\ v = Device
    OBVIOUS
  <2>2. Shape(table, own, D, d, n, z, v)
    BY <2>1 DEF CopyInv
  <2>3. n \in 0 .. DEVICE_PD + 1
    <3>1. LocalOk(pc[t], loc[t]) /\ loc[t] \in LocType
      BY DEF TurnInv, MemTypes, CallTypes
    <3>2. loc[t].pd \in Nat /\ loc[t].pd <= DEVICE_PD + 1
      BY <3>1, <2>1 DEF LocalOk, CallOk, ForkOk, LocType
    <3>3. QED
      BY <2>1, <3>2, Sizes
  <2>4. Shape(table, own2, D, d, n, z, v)
    BY <1>1, <2>2, <2>3, ShapeKept
  <2>5. QED
    BY <2>1, <2>4
<1>4. l.tab # NULL =>
        CopyShape(table, own2, l.tab, l.dir, l.pd, l.pt, dir[page_dir[t]][l.pd].f)
  <2> SUFFICES ASSUME l.tab # NULL
               PROVE  CopyShape(table, own2, l.tab, l.dir, l.pd, l.pt, dir[page_dir[t]][l.pd].f)
    OBVIOUS
  <2>1. PICK k, d, q, n, s : k = l.tab /\ d = l.dir /\ q = l.pd /\ n = l.pt /\ s = dir[page_dir[t]][l.pd].f
    OBVIOUS
  <2>2. CopyShape(table, own, k, d, q, n, s)
    BY <2>1 DEF CopyInv
  <2>3. CopyShape(table, own2, k, d, q, n, s)
    BY <1>1, <2>2, CopyKept
  <2>4. QED
    BY <2>1, <2>3
<1>5. QED
  BY <1>2, <1>3, <1>4 DEF CopyInv

\* Devices, once the machine is up.
LEMMA DeviceKept ==
    ASSUME DeviceInv, cpu = "run", UNCHANGED <<hw, cpu, nic>>, Device' = Device,
           Device # Absent => table'[Device.f] = table[Device.f]
    PROVE  DeviceInv'
<1>1. Booted /\ Booted'
  BY DEF Booted
<1>2. Shown' = FbPages /\ Shown = FbPages
  BY DEF Shown
<1>3. /\ ~hw.nic => \A i \in PTs : nic[i] = NULL
      /\ hw.nic /\ ~hw.vbe =>
            \A i \in PTs : nic[i] # NULL => Device # Absent /\ table[Device.f][i].f = nic[i]
      /\ hw.nic => \A i \in NicPages : nic[i] # NULL
      /\ hw.nic /\ (\E i \in PTs : nic[i] # NULL) => Device # Absent
      /\ hw.vbe => \A i \in 0 .. FbPages - 1 :
            Device # Absent /\ table[Device.f][i] = [f |-> FbPhys(i), u |-> TRUE]
      /\ ~hw.nic /\ Device # Absent =>
            \A i \in PTs : table[Device.f][i] \in {Absent, [f |-> FbPhys(i), u |-> TRUE]}
  BY <1>1, <1>2 DEF DeviceInv
<1>4. /\ hw.nic /\ ~hw.vbe =>
            \A i \in PTs : nic'[i] # NULL => Device' # Absent /\ table'[Device'.f][i].f = nic'[i]
      /\ hw.vbe => \A i \in 0 .. FbPages - 1 :
            Device' # Absent /\ table'[Device'.f][i] = [f |-> FbPhys(i), u |-> TRUE]
      /\ ~hw.nic /\ Device' # Absent =>
            \A i \in PTs : table'[Device'.f][i] \in {Absent, [f |-> FbPhys(i), u |-> TRUE]}
  BY <1>3
<1>5. QED
  BY <1>1, <1>2, <1>3, <1>4 DEF DeviceInv

-----------------------------------------------------------------------------
(* Programs, the loader and the beginning of fork and wait: only the place   *)
(* and the locals of the running task change.                                *)

\* Tables, frames and tasks stay as they are.
Still == UNCHANGED <<hw, current, cpu, page_frames, page_frame_count, dir, table, nic,
                     state, parent, page_dir, kstack>>

\* A step that moves no frame keeps the types.
LEMMA StillTypes ==
    ASSUME MemTypes, Still, NEW t \in Slots, NEW p \in Labels, NEW l \in LocType, Moves(t, p, l),
           running' \in [Slots -> Programs \cup {Shell}],
           mem' = [f \in RAM |-> [w \in Words |-> mem'[f][w]]]
    PROVE  MemTypes'
<1>1. CallTypes'
  BY MovesTo
<1>2. PoolTypes' /\ TaskTypes' /\ SpaceTypes'
  BY DEF MemTypes, Still, PoolTypes, TaskTypes, SpaceTypes
<1>3. QED
  BY <1>1, <1>2 DEF MemTypes, Still

CalmPlaces == {"user", "wait_stack"} \cup Execs

\* The groups of places are disjoint.
LEMMA PlaceNames ==
    /\ CalmPlaces \cap (Maps \cup Forks \cup Boots \cup AllocReturns \cup {"wait_dir", "wait_clear"}) = {}
    /\ CalmPlaces \cap {"pfa_alloc", "pfa_read", "pfa_store"} = {}
    /\ Maps \cap (Forks \cup Waits \cup Boots) = {} /\ Forks \cap (Waits \cup Boots) = {} /\ Waits \cap Boots = {}
    /\ Calm = CalmPlaces \cup Waits
BY DEF CalmPlaces, Execs, Maps, Forks, Boots, AllocReturns, Waits, Calm

\* A step of a program or its loader that moves no frame.
LEMMA CalmStep ==
    ASSUME NEW own, MemTypes, Good(own), NEW t \in Slots, t = current, cpu = "run", state[t] = "live",
           Still, pc[t] \in CalmPlaces,
           NEW p, NEW l, Moves(t, p, l), LocalOk(p, l),
           \/ p \in CalmPlaces
           \/ p = "pfa_alloc" /\ l.ret = "map_got" /\ ForProgram(l)
           \/ p = "pfa_alloc" /\ l.ret = "clone_dir" /\ state[l.slot] = "free",
           p = "wait_stack" => state[l.slot] = "zombie" /\ parent[l.slot] = t
    PROVE  Good(own)'
<1>0. /\ TurnInv /\ BootInv /\ WaitInv /\ SeenInv
      /\ PoolInv(own) /\ TaskInv(own) /\ NicInv(own) /\ EarlyInv(own) /\ CallInv(own)
      /\ SpaceInv(own) /\ DeviceInv /\ AloneInv
  BY DEF Good, Placed, HoldInv
<1>1. Place(t) = pc[t]
  BY PlaceNames DEF Place, PlaceOf
<1>2. PICK q : q = PlaceOf(p, l)
  OBVIOUS
<1>3. /\ p \in CalmPlaces => q = p
      /\ p = "pfa_alloc" => q = l.ret
      /\ q \in CalmPlaces \cup {"map_got", "clone_dir"}
  BY <1>2, PlaceNames DEF PlaceOf
<1>4. /\ p # "pfa_store" /\ p # "pfa_read" /\ p \notin AllocReturns /\ p # "nic_got"
      /\ q # "map_table" /\ q \notin {"wait_dir", "wait_clear"} /\ (q \in Waits => q = "wait_stack" /\ p = q)
      /\ q \notin Boots /\ q # "init_dir"
      /\ (q \in Forks => q = "clone_dir" /\ p = "pfa_alloc")
      /\ (q \in Maps => q = "map_got" /\ p = "pfa_alloc" /\ ForProgram(l))
  BY <1>3, PlaceNames DEF AllocReturns, Waits, Boots, Forks, Maps, CalmPlaces, Execs
<1>5. l.dir = NULL /\ l.tab = NULL
  BY <1>2, <1>4 DEF LocalOk, CallOk, ForkOk
<1>6. PurposeOf(p, l) \notin Boots
  BY <1>2, <1>4 DEF PurposeOf, ForProgram, Boots
<1>7. /\ pc'[current'] = p /\ loc'[current'] = l /\ Place(current)' = q /\ Purpose(current)' = PurposeOf(p, l)
      /\ current' = t
  BY <1>2, MovesTo, PlacesMove DEF Still
<1>8. TurnInv'
  BY <1>0, TurnKept DEF Still
<1>9. BootInv'
  BY <1>6, <1>7 DEF BootInv, Still
<1>10. WaitInv'
  BY <1>0, <1>2, <1>4, WaitKept DEF Still
<1>11. SeenInv'
  <2>1. q \in Maps => l.back \notin {"nic_got", "fb"}
    BY <1>4 DEF ForProgram
  <2>2. q \in Forks => state'[l.slot] = "free"
    BY <1>3, <1>4 DEF Still
  <2>3. q \notin {"clone_table", "clone_pte", "clone_page"}
    BY <1>4 DEF Forks
  <2>4. QED
    BY <1>4, <1>7, <2>1, <2>2, <2>3 DEF SeenInv
<1>12. PoolInv(own)'
  <2>1. pc[current] # "pfa_store"
    BY PlaceNames
  <2>2. PoolTop' = PoolTop
    BY <1>4, <1>7, <2>1 DEF PoolTop, Still
  <2>3. QED
    BY <1>0, <2>2 DEF PoolInv, Still
<1>13. Keeps(own, own, {"stack", "dir"}) /\ Keeps(own, own, {"device"}) /\ Keeps(own, own, {"table", "page"})
       /\ Keeps(own, own, {"kernel"})
  BY DEF Keeps
<1>14. TaskInv(own)'
  <2>1. Place(t) \notin {"wait_dir", "wait_clear"} /\ PlaceOf(p, l) \notin {"wait_dir", "wait_clear"}
    BY <1>1, <1>2, <1>4, PlaceNames
  <2>2. QED
    BY <1>0, <1>13, <2>1, TasksKept DEF Still
<1>15. NicInv(own)'
  BY <1>0, <1>13, NicKept DEF Still
<1>16. Booted /\ Booted'
  BY DEF Booted, Still
<1>17. EarlyInv(own)'
  BY <1>16 DEF EarlyInv
<1>18. CallInv(own)'
  BY <1>4, <1>5, <1>7 DEF CallInv
<1>19. SpaceInv(own)'
  <2>0. LiveInv(own) /\ CopyInv(own) /\ KernelInv(own)
    BY <1>0, <1>16 DEF SpaceInv
  <2>1. LiveInv(own)'
    BY <1>13, <2>0, LiveKept DEF Still
  <2>2. CopyInv(own)'
    BY <1>5, <1>7 DEF CopyInv
  <2>3. Zero' = Zero /\ Device' = Device
    BY DEF Zero, Device, Still
  <2>4. KernelInv(own)'
    BY <1>13, <2>0, <2>3, KernelKept DEF Still
  <2>5. QED
    BY <2>1, <2>2, <2>4 DEF SpaceInv
<1>20. Device' = Device
  BY DEF Device, Still
<1>21. DeviceInv'
  BY <1>0, <1>20, DeviceKept DEF Still
<1>22. AloneInv'
  <2>1. q \in Forks => l.pd <= DEVICE_PD
    <3>1. q \in Forks => l.pd = 0
      BY <1>2, <1>4 DEF LocalOk, ForkOk
    <3>2. QED
      BY <3>1, Sizes
  <2>2. q \notin {"clone_pte", "clone_page"}
    BY <1>4 DEF Forks
  <2>3. Device # Absent /\ Device.u => \A s \in Slots : s # 0 => state[s] = "free"
    BY <1>0 DEF AloneInv
  <2>4. QED
    BY <1>7, <1>20, <2>1, <2>2, <2>3 DEF AloneInv, Still
<1>23. QED
  BY <1>8, <1>9, <1>10, <1>11, <1>12, <1>14, <1>15, <1>17, <1>18, <1>19, <1>21, <1>22 DEF Good, Placed, HoldInv

\* A task in its program has no locals.
LEMMA NoLocalsType == NoLocals \in LocType /\ LocalOk("user", NoLocals)
<1>1. NoLocals \in LocType
  BY DEF NoLocals, LocType, Labels, Shell, NULL
<1>2. PlaceOf("user", NoLocals) = "user" /\ PurposeOf("user", NoLocals) = "user"
  BY DEF PlaceOf, PurposeOf, Maps
<1>3. NoLocals.dir = NULL /\ NoLocals.tab = NULL
  BY DEF NoLocals
<1>4. QED
  BY <1>1, <1>2, <1>3 DEF LocalOk, CallOk, MapOk, ExecOk, ForkOk, Forks, Waits, Boots, Execs

\* The locals of exec fit its places.
LEMMA ExecLocal ==
    ASSUME NEW p \in Execs, NEW l, l.dir = NULL, l.tab = NULL, ExecOk(p, l)
    PROVE  LocalOk(p, l)
<1>1. PlaceOf(p, l) = p /\ PurposeOf(p, l) = p
  BY DEF PlaceOf, PurposeOf, Maps, Execs
<1>2. QED
  BY <1>1 DEF LocalOk, CallOk, MapOk, ForkOk, Forks, Waits, Boots, Execs

\* The locals with which exec asks for a page.
LEMMA ExecAlloc ==
    ASSUME NEW l, l.ret = "map_got", l.dir = NULL, l.tab = NULL, ForProgram(l), ExecOk("pfa_alloc", l)
    PROVE  LocalOk("pfa_alloc", l)
<1>1. PlaceOf("pfa_alloc", l) = "map_got" /\ PurposeOf("pfa_alloc", l) = l.back
  BY DEF PlaceOf, PurposeOf, Maps
<1>2. QED
  BY <1>1 DEF LocalOk, CallOk, MapOk, ForkOk, Forks, Waits, Boots, AllocReturns, ForProgram

\* At these places the machine is up and the locals are those of the loader.
LEMMA CalmFacts ==
    ASSUME NEW own, MemTypes, Good(own), NEW t \in Slots, At(t, pc[t]), pc[t] \in CalmPlaces
    PROVE  /\ t = current /\ cpu = "run" /\ loc[t] \in LocType /\ loc[t].dir = NULL /\ loc[t].tab = NULL
           /\ PlaceOf(pc[t], loc[t]) = pc[t] /\ PurposeOf(pc[t], loc[t]) = pc[t]
           /\ ExecOk(pc[t], loc[t]) /\ (pc[t] = "user" => loc[t] = NoLocals)
<1>1. LocalOk(pc[t], loc[t]) /\ t = current /\ BootInv
  BY DEF Good, Placed, TurnInv, At
<1>2. PlaceOf(pc[t], loc[t]) = pc[t] /\ PurposeOf(pc[t], loc[t]) = pc[t]
  BY PlaceNames DEF PlaceOf, PurposeOf
<1>3. cpu # "boot"
  BY <1>1, <1>2, PlaceNames DEF BootInv, Purpose
<1>4. loc[t] \in LocType
  BY DEF MemTypes, CallTypes
<1>5. QED
  BY <1>1, <1>2, <1>3, <1>4, PlaceNames DEF LocalOk, CallOk, At

\* A calm step in the words of the actions.
LEMMA CalmMoves ==
    ASSUME NEW own, MemTypes, Good(own), NEW t \in Slots, state[t] = "live",
           At(t, pc[t]), pc[t] \in CalmPlaces, UNCHANGED <<hw, current>>, UNCHANGED <<pfaVars, dir, table, nic>>,
           UNCHANGED <<state, parent, page_dir, kstack, cpu>>,
           running' \in [Slots -> Programs \cup {Shell}],
           mem' = [f \in RAM |-> [w \in Words |-> mem'[f][w]]],
           NEW p \in Labels, NEW l \in LocType, Moves(t, p, l), LocalOk(p, l),
           \/ p \in CalmPlaces
           \/ p = "pfa_alloc" /\ l.ret = "map_got" /\ ForProgram(l)
           \/ p = "pfa_alloc" /\ l.ret = "clone_dir" /\ state[l.slot] = "free",
           p = "wait_stack" => state[l.slot] = "zombie" /\ parent[l.slot] = t
    PROVE  MemTypes' /\ Good(own)'
<1>1. Still
  BY DEF Still, pfaVars
<1>2. t = current /\ cpu = "run"
  BY CalmFacts
<1>3. MemTypes'
  BY <1>1, StillTypes
<1>4. Good(own)'
  BY <1>1, <1>2, CalmStep
<1>5. QED
  BY <1>3, <1>4

\* Memory and images that stay keep their types.
LEMMA SameMemory ==
    ASSUME MemTypes
    PROVE  /\ mem' = mem => mem' = [f \in RAM |-> [w \in Words |-> mem'[f][w]]]
           /\ running' = running => running' \in [Slots -> Programs \cup {Shell}]
BY DEF MemTypes, SpaceTypes, TaskTypes

\* task_fork (task.c): a slot is chosen.
LEMMA ForkStep ==
    ASSUME NEW own, MemTypes, Good(own), NEW t \in Slots, state[t] = "live", UNCHANGED <<hw, current>>,
           task_fork(t)
    PROVE  MemTypes' /\ Good(own)'
<1> DEFINE free == {s \in Slots : state[s] = "free"}
           l == [NoLocals EXCEPT !.slot = Min(free), !.ret = "clone_dir"]
<1>1. At(t, pc[t]) /\ pc[t] = "user" /\ pc[t] \in CalmPlaces /\ free # {}
  BY DEF task_fork, At, CalmPlaces
<1>2. Min(free) \in free
  <2>1. free \in SUBSET Nat
    BY DEF Slots
  <2>2. QED
    BY <1>1, <2>1, LeastIs
<1>3. PICK s \in Slots : s = Min(free) /\ state[s] = "free"
  BY <1>2
<1>4. Moves(t, "pfa_alloc", l)
  BY DEF task_fork, Alloc, Goto, Local, Moves
<1>5. /\ l.slot = s /\ l.ret = "clone_dir" /\ l.dir = NULL /\ l.tab = NULL /\ l.pd = 0
      /\ l \in LocType /\ "pfa_alloc" \in Labels
  BY <1>3, NoLocalsType, ZenonT(60) DEF NoLocals, LocType, Labels
<1> HIDE DEF l
<1>6. PlaceOf("pfa_alloc", l) = "clone_dir" /\ PurposeOf("pfa_alloc", l) = "clone_dir"
  BY <1>5 DEF PlaceOf, PurposeOf, Maps
<1>7. LocalOk("pfa_alloc", l)
  BY <1>5, <1>6, Sizes DEF LocalOk, CallOk, MapOk, ExecOk, ForkOk, Forks, Waits, Boots, Execs, AllocReturns
<1>8. UNCHANGED <<pfaVars, dir, table, nic>> /\ UNCHANGED <<state, parent, page_dir, kstack, cpu>>
      /\ mem' = mem /\ running' = running
  BY DEF task_fork, memVars, taskVars
<1>9. QED
  BY <1>1, <1>3, <1>4, <1>5, <1>7, <1>8, CalmMoves, SameMemory

\* task_wait (task.c): a zombie is found.
LEMMA WaitStep ==
    ASSUME NEW own, MemTypes, Good(own), NEW t \in Slots, state[t] = "live", UNCHANGED <<hw, current>>,
           task_wait(t)
    PROVE  MemTypes' /\ Good(own)'
<1> DEFINE ended == {s \in Slots : state[s] = "zombie" /\ parent[s] = t}
           l == [NoLocals EXCEPT !.slot = Min(ended)]
<1>1. At(t, pc[t]) /\ pc[t] = "user" /\ pc[t] \in CalmPlaces /\ ended # {}
  BY DEF task_wait, At, CalmPlaces
<1>2. Min(ended) \in ended
  <2>1. ended \in SUBSET Nat
    BY DEF Slots
  <2>2. QED
    BY <1>1, <2>1, LeastIs
<1>3. PICK s \in Slots : s = Min(ended) /\ state[s] = "zombie" /\ parent[s] = t
  BY <1>2
<1>4. Moves(t, "wait_stack", l)
  <2>1. loc[t] = NoLocals
    BY <1>1, CalmFacts
  <2>2. loc' = [loc EXCEPT ![t] = [loc[t] EXCEPT !.slot = Min(ended)]]
    BY DEF task_wait
  <2>3. QED
    BY <2>1, <2>2 DEF task_wait, Goto, Moves
<1>5. /\ l.slot = s /\ l.dir = NULL /\ l.tab = NULL
      /\ l \in LocType /\ "wait_stack" \in Labels
  <2>1. "wait_stack" \in Labels
    BY DEF Labels
  <2>2. NoLocals.dir = NULL /\ NoLocals.tab = NULL
    BY DEF NoLocals
  <2>3. QED
    BY <1>3, <2>1, <2>2, NoLocalsType DEF LocType
<1> HIDE DEF l
<1>6. PlaceOf("wait_stack", l) = "wait_stack" /\ PurposeOf("wait_stack", l) = "wait_stack"
  BY <1>5 DEF PlaceOf, PurposeOf, Maps
<1>7. LocalOk("wait_stack", l)
  BY <1>5, <1>6 DEF LocalOk, CallOk, MapOk, ExecOk, ForkOk, Forks, Waits, Boots, Execs, AllocReturns
<1>8. UNCHANGED <<pfaVars, dir, table, nic>> /\ UNCHANGED <<state, parent, page_dir, kstack, cpu>>
      /\ mem' = mem /\ running' = running
  BY DEF task_wait, memVars, taskVars
<1>9. QED
  BY <1>1, <1>3, <1>4, <1>5, <1>7, <1>8, CalmMoves, SameMemory DEF CalmPlaces

\* elf_load_and_exec begins.
LEMMA ExecStep ==
    ASSUME NEW own, MemTypes, Good(own), NEW t \in Slots, state[t] = "live", UNCHANGED <<hw, current>>,
           NEW q \in Programs, elf_load_and_exec(t, q)
    PROVE  MemTypes' /\ Good(own)'
<1> DEFINE l == [NoLocals EXCEPT !.prog = q, !.seg = 1]
<1>1. At(t, pc[t]) /\ pc[t] \in CalmPlaces
  BY DEF elf_load_and_exec, At, CalmPlaces
<1>2. Moves(t, "exec_phdr", l)
  BY DEF elf_load_and_exec, Local, Goto, Moves
<1>3. /\ l.prog = q /\ l.seg = 1 /\ l.dir = NULL /\ l.tab = NULL
      /\ l \in LocType /\ "exec_phdr" \in Labels /\ "exec_phdr" \in Execs
  <2>1. "exec_phdr" \in Labels /\ "exec_phdr" \in Execs
    BY DEF Labels, Execs
  <2>2. NoLocals.dir = NULL /\ NoLocals.tab = NULL
    BY DEF NoLocals
  <2>3. QED
    BY <2>1, <2>2, NoLocalsType DEF LocType
<1> HIDE DEF l
<1>4. PurposeOf("exec_phdr", l) = "exec_phdr"
  BY DEF PlaceOf, PurposeOf, Maps
<1>5. LocalOk("exec_phdr", l)
  <2>1. ExecOk("exec_phdr", l)
    BY <1>3, <1>4 DEF ExecOk
  <2>2. QED
    BY <1>3, <2>1, ExecLocal
<1>6. UNCHANGED <<pfaVars, dir, table, nic>> /\ UNCHANGED <<state, parent, page_dir, kstack, cpu>>
      /\ mem' = mem /\ running' = running
  BY DEF elf_load_and_exec, memVars, taskVars
<1>7. QED
  BY <1>1, <1>2, <1>3, <1>5, <1>6, CalmMoves, SameMemory DEF CalmPlaces

\* Back to the program.
LEMMA ReturnStep ==
    ASSUME NEW own, MemTypes, Good(own), NEW t \in Slots, state[t] = "live", UNCHANGED <<hw, current>>,
           exec_fail(t)
    PROVE  MemTypes' /\ Good(own)'
<1>1. At(t, pc[t]) /\ pc[t] \in CalmPlaces
  BY DEF exec_fail, At, CalmPlaces, Execs
<1>2. Moves(t, "user", NoLocals)
  BY DEF exec_fail, Local, Goto, Moves
<1>3. "user" \in Labels /\ "user" \in CalmPlaces /\ "user" # "wait_stack"
  BY DEF Labels, CalmPlaces
<1>4. UNCHANGED <<pfaVars, dir, table, nic>> /\ UNCHANGED <<state, parent, page_dir, kstack, cpu>>
      /\ mem' = mem /\ running' = running
  BY DEF exec_fail, memVars, taskVars
<1>5. QED
  BY <1>1, <1>2, <1>3, <1>4, NoLocalsType, CalmMoves, SameMemory

\* The loader's locals while it works on a segment.
LEMMA SegmentFacts ==
    ASSUME Orderly, NEW q \in Programs, NEW i \in Nat, 1 <= i, i <= Len(q)
    PROVE  /\ q[i].vaddr \in Nat /\ q[i].memsz \in Nat /\ Len(q[i].data) \in Nat
           /\ Len(q[i].data) <= q[i].memsz
           /\ UserLow <= q[i].vaddr /\ q[i].vaddr + q[i].memsz <= UserHigh
           /\ UserLow \in Nat /\ UserHigh \in Nat /\ UserHigh <= U32 /\ U32 \in Nat \ {0}
<1>1. WellLinked(q)
  BY DEF Orderly
<1>2. i \in 1 .. Len(q)
  BY <1>1 DEF WellLinked
<1>3. UserLow \in Nat /\ UserHigh \in Nat
  BY Sizes DEF UserLow, UserHigh
<1>4. UserHigh <= U32 /\ U32 \in Nat \ {0}
  <2>1. PICK k \in Nat \ {0} : k = PTES * PAGE_SIZE
    <3>1. PTES * PAGE_SIZE \in Nat /\ PTES * PAGE_SIZE # 0
      BY Sizes
    <3>2. QED
      BY <3>1
  <2>2. UserHigh = DEVICE_PD * k /\ U32 = (DEVICE_PD + 1) * k
    BY <2>1, Sizes DEF UserHigh, U32
  <2>3. (DEVICE_PD + 1) * k = DEVICE_PD * k + k /\ DEVICE_PD * k \in Nat
    BY Sizes, <2>1
  <2>4. QED
    BY <2>1, <2>2, <2>3
<1>5. QED
  BY <1>1, <1>2, <1>3, <1>4 DEF WellLinked

\* exec_phdr: the next segment, or the stack.
LEMMA PhdrStep ==
    ASSUME Orderly, NEW own, MemTypes, Good(own), NEW t \in Slots, state[t] = "live", UNCHANGED <<hw, current>>,
           exec_phdr(t)
    PROVE  MemTypes' /\ Good(own)'
<1>1. At(t, pc[t]) /\ pc[t] = "exec_phdr" /\ pc[t] \in CalmPlaces
  BY DEF exec_phdr, At, CalmPlaces, Execs
<1>2. /\ loc[t] \in LocType /\ loc[t].dir = NULL /\ loc[t].tab = NULL
      /\ loc[t].prog \in Programs /\ loc[t].seg \in Nat /\ loc[t].seg >= 1
  <2>1. /\ loc[t] \in LocType /\ loc[t].dir = NULL /\ loc[t].tab = NULL
        /\ PurposeOf(pc[t], loc[t]) = pc[t] /\ ExecOk(pc[t], loc[t])
    BY <1>1, CalmFacts
  <2>2. QED
    BY <1>1, <2>1 DEF ExecOk, Execs, LocType
<1>3. UNCHANGED <<pfaVars, dir, table, nic>> /\ UNCHANGED <<state, parent, page_dir, kstack, cpu>>
      /\ mem' = mem /\ running' = running
  BY DEF exec_phdr, memVars, taskVars
<1>4. CASE loc[t].seg <= Len(loc[t].prog)
  <2> DEFINE s == loc[t].prog[loc[t].seg]
             l == [loc[t] EXCEPT !.a = s.vaddr, !.left = Len(s.data)]
  <2>0. Len(loc[t].prog) \in Nat
    BY <1>2 DEF Orderly, WellLinked
  <2>1. /\ s.vaddr \in Nat /\ Len(s.data) \in Nat /\ s.memsz \in Nat /\ Len(s.data) <= s.memsz
        /\ UserLow <= s.vaddr /\ s.vaddr + s.memsz <= UserHigh /\ UserHigh \in Nat
    BY <1>2, <1>4, SegmentFacts
  <2>2. Moves(t, "seg_file", l)
    <3>1. ~(loc[t].seg > Len(loc[t].prog))
      BY <1>2, <1>4, <2>0
    <3>2. pc' = [pc EXCEPT ![t] = "seg_file"]
          /\ loc' = [loc EXCEPT ![t].a = s.vaddr, ![t].left = Len(s.data)]
      BY <3>1 DEF exec_phdr, Goto
    <3>3. QED
      BY <3>2 DEF Moves
  <2>3. /\ l.a = s.vaddr /\ l.left = Len(s.data) /\ l.prog = loc[t].prog /\ l.seg = loc[t].seg
        /\ l.dir = NULL /\ l.tab = NULL /\ l \in LocType
    BY <1>2, <2>1 DEF LocType
  <2>4. "seg_file" \in Labels /\ "seg_file" \in Execs /\ "seg_file" \in CalmPlaces
    BY DEF Labels, Execs, CalmPlaces
  <2>5. PurposeOf("seg_file", l) = "seg_file"
    BY DEF PlaceOf, PurposeOf, Maps
  <2>6. ExecOk("seg_file", l)
    <3> HIDE DEF l
    <3>1. l.a + l.left = s.vaddr + Len(s.data) /\ l.a + l.left <= UserHigh
      <4>1. PICK v, n, m, h \in Nat : /\ v = s.vaddr /\ n = Len(s.data) /\ m = s.memsz /\ h = UserHigh
                                     /\ n <= m /\ v + m <= h
        BY <2>1
      <4>2. v + n <= h
        <5>1. n <= m /\ v + m <= h
          BY <4>1
        <5>2. QED
          BY <5>1
      <4>3. QED
        BY <2>3, <4>1, <4>2
    <3>2. l.prog[l.seg] = s
      BY <2>3
    <3> HIDE DEF s
    <3>3. QED
      BY <1>2, <1>4, <2>1, <2>3, <2>5, <3>1, <3>2 DEF ExecOk
  <2>7. LocalOk("seg_file", l)
    BY <2>3, <2>4, <2>6, ExecLocal
  <2>8. QED
    BY <1>1, <1>3, <2>2, <2>3, <2>4, <2>7, CalmMoves, SameMemory
<1>5. CASE ~(loc[t].seg <= Len(loc[t].prog))
  <2> DEFINE l == [loc[t] EXCEPT !.pt = 0]
  <2>0. Len(loc[t].prog) \in Nat
    BY <1>2 DEF Orderly, WellLinked
  <2>2. Moves(t, "exec_stack", l)
    BY <1>2, <1>5, <2>0 DEF exec_phdr, Goto, Moves
  <2>3. /\ l.pt = 0 /\ l.prog = loc[t].prog /\ l.seg = loc[t].seg
        /\ l.dir = NULL /\ l.tab = NULL /\ l \in LocType
    BY <1>2 DEF LocType
  <2>4. "exec_stack" \in Labels /\ "exec_stack" \in Execs /\ "exec_stack" \in CalmPlaces
    BY DEF Labels, Execs, CalmPlaces
  <2>5. PurposeOf("exec_stack", l) = "exec_stack"
    BY DEF PlaceOf, PurposeOf, Maps
  <2> HIDE DEF l
  <2>6. ExecOk("exec_stack", l)
    BY <1>2, <2>3, <2>5, Sizes DEF ExecOk
  <2>7. LocalOk("exec_stack", l)
    BY <2>3, <2>4, <2>6, ExecLocal
  <2>8. QED
    BY <1>1, <1>3, <2>2, <2>3, <2>4, <2>7, CalmMoves, SameMemory
<1>6. QED
  BY <1>4, <1>5

\* Memory stays an array of pages.
LEMMA PageWritten ==
    ASSUME NEW m, m = [f \in RAM |-> [w \in Words |-> m[f][w]]], NEW g,
           NEW row, row = [w \in Words |-> row[w]], NEW m2, m2 = [m EXCEPT ![g] = row]
    PROVE  m2 = [f \in RAM |-> [w \in Words |-> m2[f][w]]]
<1>1. m2 = [f \in RAM |-> IF f = g THEN row ELSE m[f]]
  BY DEF RAM
<1>2. ASSUME NEW f \in RAM PROVE m2[f] = [w \in Words |-> m2[f][w]]
  <2>1. CASE f = g
    BY <1>1, <2>1
  <2>2. CASE f # g
    <3>1. m2[f] = m[f]
      BY <1>1, <2>2
    <3>2. m[f] = [w \in Words |-> m[f][w]]
      BY Zenon
    <3>3. QED
      BY <3>1, <3>2
  <2>3. QED
    BY <2>1, <2>2
<1>3. m2 = [f \in RAM |-> m2[f]]
  BY <1>1
<1>4. QED
  BY <1>2, <1>3

\* Filling a page leaves memory made of words.
LEMMA Filled ==
    ASSUME MemTypes, NEW t \in Slots, NEW word, Fill(t, word)
    PROVE  mem' = [f \in RAM |-> [w \in Words |-> mem'[f][w]]]
<1> DEFINE g == Entry(page_dir[t], Page(loc[t].a)).f
           base == Page(loc[t].a) * PAGE_SIZE
<1>1. PICK row : row = [w \in Words |-> IF base + w \in DOMAIN word THEN word[base + w] ELSE mem[g][w]]
  OBVIOUS
<1>2. row = [w \in Words |-> row[w]]
  BY <1>1
<1>3. mem' = [mem EXCEPT ![g] = row]
  BY <1>1 DEF Fill
<1>4. mem = [f \in RAM |-> [w \in Words |-> mem[f][w]]]
  BY DEF MemTypes, SpaceTypes
<1>5. PICK m, m2, h : m = mem /\ m2 = mem' /\ h = g
  OBVIOUS
<1>6. m = [f \in RAM |-> [w \in Words |-> m[f][w]]] /\ m2 = [m EXCEPT ![h] = row]
  BY <1>3, <1>4, <1>5
<1>7. m2 = [f \in RAM |-> [w \in Words |-> m2[f][w]]]
  BY <1>2, <1>6, PageWritten
<1>8. QED
  BY <1>5, <1>7

\* A program writes.
LEMMA WriteStep ==
    ASSUME NEW own, MemTypes, Good(own), NEW t \in Slots, state[t] = "live", UNCHANGED <<hw, current>>,
           NEW a, NEW x, Write(t, a, x)
    PROVE  MemTypes' /\ Good(own)'
<1> DEFINE g == Entry(page_dir[t], Page(a)).f
<1>1. At(t, pc[t]) /\ pc[t] = "user" /\ pc[t] \in CalmPlaces
  BY DEF Write, At, CalmPlaces
<1>2. pc[t] \in Labels /\ loc[t] \in LocType /\ Moves(t, pc[t], loc[t]) /\ LocalOk(pc[t], loc[t])
  BY DEF Write, MemTypes, CallTypes, Moves, Good, Placed, TurnInv
<1>3. mem' = [f \in RAM |-> [w \in Words |-> mem'[f][w]]]
  <2>1. PICK m, m2, h : m = mem /\ m2 = mem' /\ h = g
    OBVIOUS
  <2>2. m = [f \in RAM |-> [w \in Words |-> m[f][w]]] /\ m2 = [m EXCEPT ![h] = [m[h] EXCEPT ![a % PAGE_SIZE] = x]]
    BY <2>1 DEF MemTypes, SpaceTypes, Write
  <2>3. CASE h \in RAM
    <3>1. m[h] = [w \in Words |-> m[h][w]]
      BY <2>2, <2>3, Zenon
    <3>2. PICK row : row = [m[h] EXCEPT ![a % PAGE_SIZE] = x]
      OBVIOUS
    <3>3. DOMAIN m[h] = Words
      BY <3>1
    <3>4. row = [w \in Words |-> row[w]]
      BY <3>2, <3>3
    <3>5. m2 = [f \in RAM |-> [w \in Words |-> m2[f][w]]]
      BY <2>2, <3>2, <3>4, PageWritten
    <3>6. QED
      BY <2>1, <3>5
  <2>4. CASE h \notin RAM
    <3>1. m2 = m
      <4>1. DOMAIN m = RAM
        BY <2>2
      <4>2. m2 = [f \in RAM |-> m[f]] /\ m = [f \in RAM |-> m[f]]
        BY <2>2, <2>4, <4>1
      <4>3. QED
        BY <4>2
    <3>2. mem' = mem
      BY <2>1, <3>1
    <3>3. QED
      BY <3>2, SameMemory
  <2>5. QED
    BY <2>3, <2>4
<1>4. UNCHANGED <<pfaVars, dir, table, nic>> /\ UNCHANGED <<state, parent, page_dir, kstack, cpu>>
      /\ running' = running
  BY DEF Write, taskVars
<1>5. "user" # "wait_stack"
  OBVIOUS
<1>6. QED
  BY <1>1, <1>2, <1>3, <1>4, <1>5, CalmMoves, SameMemory

\* What the loader knows at the places of a segment.
LEMMA LoaderFacts ==
    ASSUME Orderly, NEW own, MemTypes, Good(own), NEW t \in Slots, At(t, pc[t]),
           pc[t] \in {"seg_file", "seg_copy", "seg_bss"}
    PROVE  /\ pc[t] \in CalmPlaces /\ loc[t] \in LocType /\ loc[t].dir = NULL /\ loc[t].tab = NULL
           /\ loc[t].prog \in Programs /\ loc[t].seg \in Nat /\ loc[t].seg >= 1 /\ loc[t].seg <= Len(loc[t].prog)
           /\ loc[t].a \in Nat /\ loc[t].left \in Nat
           /\ UserLow <= loc[t].a /\ loc[t].a + loc[t].left <= UserHigh /\ UserHigh \in Nat /\ UserLow \in Nat
           /\ pc[t] # "seg_bss" => loc[t].a + loc[t].left =
                loc[t].prog[loc[t].seg].vaddr + Len(loc[t].prog[loc[t].seg].data)
<1>1. pc[t] \in CalmPlaces /\ pc[t] \in Execs
  BY DEF CalmPlaces, Execs
<1>2. /\ loc[t] \in LocType /\ loc[t].dir = NULL /\ loc[t].tab = NULL
      /\ PurposeOf(pc[t], loc[t]) = pc[t] /\ ExecOk(pc[t], loc[t])
  BY <1>1, CalmFacts
<1>3. UserLow \in Nat /\ UserHigh \in Nat
  BY Sizes DEF UserLow, UserHigh
<1>4. QED
  BY <1>1, <1>2, <1>3 DEF ExecOk, LocType

\* The loader asks for the page of its next word.
LEMMA LoaderAlloc ==
    ASSUME Orderly, NEW own, MemTypes, Good(own), NEW t \in Slots, At(t, pc[t]),
           pc[t] \in {"seg_file", "seg_bss"}, loc[t].left > 0,
           NEW back \in {"seg_copy", "seg_bss"}, back = "seg_copy" <=> pc[t] = "seg_file",
           AllocPage(t, Page(loc[t].a), TRUE, back),
           state[t] = "live", UNCHANGED <<hw, current>>, UNCHANGED <<pfaVars, dir, table, nic>>,
           UNCHANGED <<state, parent, page_dir, kstack, cpu>>, mem' = mem, running' = running
    PROVE  MemTypes' /\ Good(own)'
<1> DEFINE l == [loc[t] EXCEPT !.vp = Page(loc[t].a), !.u = TRUE, !.back = back, !.ret = "map_got"]
<1>1. /\ pc[t] \in CalmPlaces /\ loc[t] \in LocType /\ loc[t].dir = NULL /\ loc[t].tab = NULL
      /\ loc[t].prog \in Programs /\ loc[t].seg \in Nat /\ loc[t].seg >= 1 /\ loc[t].seg <= Len(loc[t].prog)
      /\ loc[t].a \in Nat /\ loc[t].left \in Nat
      /\ UserLow <= loc[t].a /\ loc[t].a + loc[t].left <= UserHigh /\ UserHigh \in Nat
      /\ pc[t] # "seg_bss" => loc[t].a + loc[t].left =
           loc[t].prog[loc[t].seg].vaddr + Len(loc[t].prog[loc[t].seg].data)
  BY LoaderFacts
<1>2. loc[t].a < UserHigh
  BY <1>1
<1>3. Page(loc[t].a) \in Nat /\ PD(Page(loc[t].a)) \in 1 .. DEVICE_PD - 1
  BY <1>1, <1>2, UserPages
<1>4. Moves(t, "pfa_alloc", l)
  BY <1>1 DEF AllocPage, Alloc, Goto, Local, Moves, LocType
<1>5. /\ l.vp = Page(loc[t].a) /\ l.u = TRUE /\ l.back = back /\ l.ret = "map_got"
      /\ l.dir = NULL /\ l.tab = NULL /\ l.prog = loc[t].prog /\ l.seg = loc[t].seg
      /\ l.a = loc[t].a /\ l.left = loc[t].left /\ l \in LocType /\ "pfa_alloc" \in Labels
  <2>1. back \in Labels /\ "map_got" \in Labels /\ "pfa_alloc" \in Labels
    BY DEF Labels
  <2>2. PICK v \in Int : v = Page(loc[t].a)
    BY <1>3
  <2>3. l = [loc[t] EXCEPT !.vp = v, !.u = TRUE, !.back = back, !.ret = "map_got"]
    BY <2>2
  <2> HIDE DEF l
  <2>4. QED
    BY <1>1, <2>1, <2>2, <2>3 DEF LocType
<1> HIDE DEF l
<1>6. ForProgram(l)
  BY <1>3, <1>5 DEF ForProgram
<1>7. PurposeOf("pfa_alloc", l) = back
  BY <1>5 DEF PurposeOf, PlaceOf, Maps
<1>8. ExecOk("pfa_alloc", l)
  BY <1>1, <1>5, <1>7 DEF ExecOk
<1>9. LocalOk("pfa_alloc", l)
  BY <1>5, <1>6, <1>8, ExecAlloc
<1>10. QED
  BY <1>1, <1>4, <1>5, <1>6, <1>9, CalmMoves, SameMemory

\* seg_file: a page for file data, or the clearing.
LEMMA FileStep ==
    ASSUME Orderly, NEW own, MemTypes, Good(own), NEW t \in Slots, state[t] = "live", UNCHANGED <<hw, current>>,
           seg_file(t)
    PROVE  MemTypes' /\ Good(own)'
<1>1. At(t, pc[t]) /\ pc[t] = "seg_file"
  BY DEF seg_file, At
<1>2. UNCHANGED <<pfaVars, dir, table, nic>> /\ UNCHANGED <<state, parent, page_dir, kstack, cpu>>
      /\ mem' = mem /\ running' = running
  BY DEF seg_file, memVars, taskVars
<1>3. /\ pc[t] \in CalmPlaces /\ loc[t] \in LocType /\ loc[t].dir = NULL /\ loc[t].tab = NULL
      /\ loc[t].prog \in Programs /\ loc[t].seg \in Nat /\ loc[t].seg >= 1 /\ loc[t].seg <= Len(loc[t].prog)
      /\ loc[t].a \in Nat /\ loc[t].left \in Nat /\ UserLow <= loc[t].a /\ UserLow \in Nat
      /\ loc[t].a + loc[t].left = loc[t].prog[loc[t].seg].vaddr + Len(loc[t].prog[loc[t].seg].data)
  BY <1>1, LoaderFacts
<1>4. CASE loc[t].left > 0
  <2>1. AllocPage(t, Page(loc[t].a), TRUE, "seg_copy")
    <3>1. ~(loc[t].left = 0)
      BY <1>3, <1>4
    <3>2. QED
      BY <3>1 DEF seg_file
  <2>2. QED
    BY <1>1, <1>2, <1>4, <2>1, LoaderAlloc
<1>5. CASE loc[t].left = 0
  <2> DEFINE s == loc[t].prog[loc[t].seg]
             n == (s.memsz - Len(s.data)) % U32
             l == [loc[t] EXCEPT !.left = n]
  <2>1. /\ s.vaddr \in Nat /\ Len(s.data) \in Nat /\ s.memsz \in Nat /\ Len(s.data) <= s.memsz
        /\ UserLow <= s.vaddr /\ s.vaddr + s.memsz <= UserHigh /\ UserHigh \in Nat
        /\ UserHigh <= U32 /\ U32 \in Nat \ {0}
    BY <1>3, SegmentFacts
  <2>2. UserLow > 0
    BY Sizes DEF UserLow
  <2>3. n = s.memsz - Len(s.data) /\ n \in Nat
    <3>1. PICK v, k, m, h, w \in Nat : v = s.vaddr /\ k = Len(s.data) /\ m = s.memsz /\ h = UserHigh /\ w = U32
      BY <2>1
    <3>2. v > 0
      BY <1>3, <2>1, <2>2, <3>1
    <3>3. k <= m /\ v + m <= h /\ h <= w
      BY <2>1, <3>1
    <3>4. m - k \in 0 .. w - 1 /\ w \in Nat \ {0}
      BY <3>2, <3>3
    <3>5. (m - k) % w = m - k
      BY <3>4
    <3>6. QED
      BY <3>1, <3>4, <3>5
  <2>4. loc[t].a + n <= UserHigh
    <3>1. PICK v, k, m, h \in Nat : v = s.vaddr /\ k = Len(s.data) /\ m = s.memsz /\ h = UserHigh
      BY <2>1
    <3>2. v + m <= h
      BY <2>1, <3>1
    <3>3. loc[t].a = v + k
      BY <1>3, <1>5, <3>1
    <3>4. n = m - k
      BY <2>3, <3>1
    <3>5. v + k + (m - k) <= h
      BY <3>2
    <3>6. QED
      BY <3>1, <3>3, <3>4, <3>5
  <2>5. Moves(t, "seg_bss", l)
    <3>1. pc' = [pc EXCEPT ![t] = "seg_bss"] /\ loc' = [loc EXCEPT ![t].left = n]
      BY <1>5 DEF seg_file, Goto
    <3>2. QED
      BY <3>1 DEF Moves
  <2> HIDE DEF n
  <2>6. /\ l.a = loc[t].a /\ l.left = n /\ l.prog = loc[t].prog /\ l.seg = loc[t].seg
        /\ l.dir = NULL /\ l.tab = NULL /\ l \in LocType
    BY <1>3, <2>3 DEF LocType
  <2>7. "seg_bss" \in Labels /\ "seg_bss" \in Execs /\ "seg_bss" \in CalmPlaces
    BY DEF Labels, Execs, CalmPlaces
  <2>8. PurposeOf("seg_bss", l) = "seg_bss"
    BY DEF PlaceOf, PurposeOf, Maps
  <2> HIDE DEF l
  <2>9. ExecOk("seg_bss", l)
    BY <1>3, <2>4, <2>6, <2>8 DEF ExecOk
  <2>10. LocalOk("seg_bss", l)
    BY <2>6, <2>7, <2>9, ExecLocal
  <2>11. QED
    BY <1>1, <1>2, <1>3, <2>5, <2>6, <2>7, <2>10, CalmMoves, SameMemory
<1>6. QED
  BY <1>4, <1>5 DEF seg_file

\* One round of a loop over the words of a segment.
LEMMA ChunkFits ==
    ASSUME NEW l, l.a \in Nat, l.left \in Nat
    PROVE  Chunk(l) \in 0 .. l.left
<1>1. PICK r \in Int : r = PAGE_SIZE - (l.a % PAGE_SIZE) /\ r >= 0
  <2>1. l.a % PAGE_SIZE \in 0 .. PAGE_SIZE - 1
    BY Sizes, QuotientBounds
  <2>2. QED
    BY Sizes, <2>1
<1>2. Min({r, l.left}) \in {r, l.left} /\ Min({r, l.left}) <= l.left
  <2>1. PICK b \in Int : b = l.left
    OBVIOUS
  <2>2. Min({r, b}) \in {r, b} /\ Min({r, b}) <= b
    BY LeastOfTwo
  <2>3. QED
    BY <2>1, <2>2
<1>3. QED
  BY <1>1, <1>2 DEF Chunk

\* The loader goes on behind the words it has put.
LEMMA LoaderAdvance ==
    ASSUME Orderly, NEW own, MemTypes, Good(own), NEW t \in Slots, At(t, pc[t]),
           pc[t] \in {"seg_copy", "seg_bss"}, NEW to \in {"seg_file", "seg_bss"},
           to = "seg_file" <=> pc[t] = "seg_copy",
           Advance(t, loc[t]), pc' = [pc EXCEPT ![t] = to],
           state[t] = "live", UNCHANGED <<hw, current>>, UNCHANGED <<pfaVars, dir, table, nic>>,
           UNCHANGED <<state, parent, page_dir, kstack, cpu>>, running' = running,
           mem' = [f \in RAM |-> [w \in Words |-> mem'[f][w]]]
    PROVE  MemTypes' /\ Good(own)'
<1>1. /\ pc[t] \in CalmPlaces /\ loc[t] \in LocType /\ loc[t].dir = NULL /\ loc[t].tab = NULL
      /\ loc[t].prog \in Programs /\ loc[t].seg \in Nat /\ loc[t].seg >= 1 /\ loc[t].seg <= Len(loc[t].prog)
      /\ loc[t].a \in Nat /\ loc[t].left \in Nat
      /\ UserLow <= loc[t].a /\ loc[t].a + loc[t].left <= UserHigh /\ UserHigh \in Nat /\ UserLow \in Nat
      /\ pc[t] # "seg_bss" => loc[t].a + loc[t].left =
           loc[t].prog[loc[t].seg].vaddr + Len(loc[t].prog[loc[t].seg].data)
  BY LoaderFacts
<1>2. PICK c \in Nat : c = Chunk(loc[t]) /\ c <= loc[t].left
  BY <1>1, ChunkFits
<1>3. PICK a, n \in Nat : a = loc[t].a + c /\ n = loc[t].left - c
  BY <1>1, <1>2
<1>4. a + n = loc[t].a + loc[t].left /\ UserLow <= a
  <2>1. PICK b \in Nat, k \in Nat : b = loc[t].a /\ k = loc[t].left /\ UserLow <= b /\ UserLow \in Nat
    BY <1>1
  <2>2. QED
    BY <1>2, <1>3, <2>1
<1> DEFINE l == [loc[t] EXCEPT !.a = a, !.left = n]
<1>5. Moves(t, to, l)
  <2>1. loc' = [loc EXCEPT ![t].a = @ + Chunk(loc[t]), ![t].left = @ - Chunk(loc[t])]
    BY DEF Advance
  <2>2. loc' = [loc EXCEPT ![t] = [loc[t] EXCEPT !.a = loc[t].a + Chunk(loc[t]), !.left = loc[t].left - Chunk(loc[t])]]
    BY <1>1, <2>1 DEF LocType
  <2>3. QED
    BY <1>2, <1>3, <2>2 DEF Moves
<1>6. /\ l.a = a /\ l.left = n /\ l.prog = loc[t].prog /\ l.seg = loc[t].seg
      /\ l.dir = NULL /\ l.tab = NULL /\ l \in LocType
  BY <1>1 DEF LocType
<1> HIDE DEF l
<1>7. to \in Labels /\ to \in Execs /\ to \in CalmPlaces /\ to # "wait_stack"
  BY DEF Labels, Execs, CalmPlaces
<1>8. PurposeOf(to, l) = to
  BY DEF PlaceOf, PurposeOf, Maps
<1>9. ExecOk(to, l)
  BY <1>1, <1>4, <1>6, <1>8 DEF ExecOk
<1>10. LocalOk(to, l)
  BY <1>6, <1>7, <1>9, ExecLocal
<1>11. QED
  BY <1>1, <1>5, <1>6, <1>7, <1>10, CalmMoves, SameMemory

\* seg_copy: file data is put.
LEMMA CopyStep ==
    ASSUME Orderly, NEW own, MemTypes, Good(own), NEW t \in Slots, state[t] = "live", UNCHANGED <<hw, current>>,
           seg_copy(t)
    PROVE  MemTypes' /\ Good(own)'
<1>1. At(t, pc[t]) /\ pc[t] = "seg_copy"
  BY DEF seg_copy, At
<1>2. UNCHANGED <<pfaVars, dir, table, nic>> /\ UNCHANGED <<state, parent, page_dir, kstack, cpu>>
      /\ running' = running /\ Advance(t, loc[t]) /\ pc' = [pc EXCEPT ![t] = "seg_file"]
  BY DEF seg_copy, taskVars, Goto
<1>3. PICK word : Fill(t, word)
  BY DEF seg_copy
<1>4. mem' = [f \in RAM |-> [w \in Words |-> mem'[f][w]]]
  BY <1>3, Filled
<1>5. QED
  BY <1>1, <1>2, <1>4, LoaderAdvance

\* seg_bss: a page, zeroes, or the next segment.
LEMMA BssStep ==
    ASSUME Orderly, NEW own, MemTypes, Good(own), NEW t \in Slots, state[t] = "live", UNCHANGED <<hw, current>>,
           seg_bss(t)
    PROVE  MemTypes' /\ Good(own)'
<1>1. At(t, pc[t]) /\ pc[t] = "seg_bss"
  BY DEF seg_bss, At
<1>2. UNCHANGED <<pfaVars, dir, table, nic>> /\ UNCHANGED <<state, parent, page_dir, kstack, cpu>>
      /\ running' = running
  BY DEF seg_bss, taskVars
<1>3. CASE loc[t].left > 0 /\ AllocPage(t, Page(loc[t].a), TRUE, "seg_bss") /\ UNCHANGED mem
  BY <1>1, <1>2, <1>3, LoaderAlloc
<1>4. CASE Fill(t, [a \in Covered(loc[t]) |-> 0]) /\ Advance(t, loc[t]) /\ UNCHANGED pc
  <2>1. mem' = [f \in RAM |-> [w \in Words |-> mem'[f][w]]]
    BY <1>4, Filled
  <2>2. pc' = [pc EXCEPT ![t] = "seg_bss"]
    BY <1>1, <1>4 DEF MemTypes, CallTypes
  <2>3. QED
    BY <1>1, <1>2, <1>4, <2>1, <2>2, LoaderAdvance
<1>5. CASE loc' = [loc EXCEPT ![t].seg = @ + 1] /\ Goto(t, "exec_phdr") /\ UNCHANGED mem
  <2>1. /\ pc[t] \in CalmPlaces /\ loc[t] \in LocType /\ loc[t].dir = NULL /\ loc[t].tab = NULL
        /\ loc[t].prog \in Programs /\ loc[t].seg \in Nat
    BY <1>1, LoaderFacts
  <2> DEFINE l == [loc[t] EXCEPT !.seg = loc[t].seg + 1]
  <2>2. Moves(t, "exec_phdr", l)
    BY <1>5 DEF Moves, Goto
  <2>3. /\ l.prog = loc[t].prog /\ l.seg = loc[t].seg + 1
        /\ l.dir = NULL /\ l.tab = NULL /\ l \in LocType
    BY <2>1 DEF LocType
  <2> HIDE DEF l
  <2>4. "exec_phdr" \in Labels /\ "exec_phdr" \in Execs /\ "exec_phdr" \in CalmPlaces
    BY DEF Labels, Execs, CalmPlaces
  <2>5. PurposeOf("exec_phdr", l) = "exec_phdr"
    BY DEF PlaceOf, PurposeOf, Maps
  <2>6. ExecOk("exec_phdr", l)
    BY <2>1, <2>3, <2>5 DEF ExecOk
  <2>7. LocalOk("exec_phdr", l)
    BY <2>3, <2>4, <2>6, ExecLocal
  <2>8. QED
    BY <1>1, <1>2, <1>5, <2>1, <2>2, <2>3, <2>4, <2>7, CalmMoves, SameMemory
<1>6. QED
  BY <1>3, <1>4, <1>5 DEF seg_bss

\* setup_user_stack: a page of the stack, or the program starts.
LEMMA StackStep ==
    ASSUME NEW own, MemTypes, Good(own), NEW t \in Slots, state[t] = "live", UNCHANGED <<hw, current>>,
           setup_user_stack(t)
    PROVE  MemTypes' /\ Good(own)'
<1>1. At(t, pc[t]) /\ pc[t] = "exec_stack" /\ pc[t] \in CalmPlaces
  BY DEF setup_user_stack, At, CalmPlaces, Execs
<1>2. UNCHANGED <<pfaVars, dir, table, nic>> /\ UNCHANGED <<state, parent, page_dir, kstack, cpu>>
      /\ mem' = mem
  BY DEF setup_user_stack, memVars
<1>3. /\ loc[t] \in LocType /\ loc[t].dir = NULL /\ loc[t].tab = NULL /\ loc[t].pt \in Nat
      /\ loc[t].prog \in Programs /\ loc[t].seg \in Nat /\ loc[t].seg >= 1
  <2>1. /\ loc[t] \in LocType /\ loc[t].dir = NULL /\ loc[t].tab = NULL
        /\ PurposeOf(pc[t], loc[t]) = pc[t] /\ ExecOk(pc[t], loc[t])
    BY <1>1, CalmFacts
  <2>2. QED
    BY <1>1, <2>1 DEF ExecOk, Execs, LocType
<1>4. CASE /\ loc[t].pt < USER_STACK_PAGES /\ UNCHANGED running
           /\ Alloc(t, [loc[t] EXCEPT !.vp = (STACK_PD + 1) * PTES - (loc[t].pt + 1), !.u = TRUE,
                                      !.back = "exec_stack", !.pt = @ + 1], "map_got")
  <2>1. PICK v \in Nat : v = (STACK_PD + 1) * PTES - (loc[t].pt + 1) /\ PD(v) \in 1 .. DEVICE_PD - 1
    BY <1>3, <1>4, StackPages
  <2>0. PICK k \in Nat : k = loc[t].pt + 1
    BY <1>3
  <2> DEFINE l == [loc[t] EXCEPT !.vp = v, !.u = TRUE, !.back = "exec_stack", !.pt = k, !.ret = "map_got"]
  <2>2. Moves(t, "pfa_alloc", l)
    BY <1>4, <2>0, <2>1 DEF Alloc, Goto, Local, Moves
  <2>3. "exec_stack" \in Labels /\ "map_got" \in Labels /\ "pfa_alloc" \in Labels
    BY DEF Labels
  <2>4. /\ l.vp = v /\ l.u = TRUE /\ l.back = "exec_stack" /\ l.ret = "map_got" /\ l.pt = k
        /\ l.dir = NULL /\ l.tab = NULL /\ l.prog = loc[t].prog /\ l.seg = loc[t].seg /\ l \in LocType
    <3>1. v \in Int
      OBVIOUS
    <3>2. l \in LocType
      BY <1>3, <2>3, <3>1 DEF LocType
    <3>3. QED
      BY <1>3, <3>2 DEF LocType
  <2> HIDE DEF l
  <2>5. ForProgram(l)
    BY <2>1, <2>4 DEF ForProgram
  <2>6. PurposeOf("pfa_alloc", l) = "exec_stack"
    BY <2>4 DEF PurposeOf, PlaceOf, Maps
  <2>7. l.pt <= USER_STACK_PAGES
    BY <1>3, <1>4, <2>0, <2>4, Sizes
  <2>8. ExecOk("pfa_alloc", l)
    BY <1>3, <2>4, <2>6, <2>7 DEF ExecOk
  <2>9. LocalOk("pfa_alloc", l)
    BY <2>4, <2>5, <2>8, ExecAlloc
  <2>10. QED
    BY <1>1, <1>2, <1>4, <2>2, <2>3, <2>4, <2>5, <2>9, CalmMoves, SameMemory
<1>5. CASE running' = [running EXCEPT ![t] = loc[t].prog] /\ Local(t, NoLocals) /\ Goto(t, "user")
  <2>1. Moves(t, "user", NoLocals)
    BY <1>5 DEF Local, Goto, Moves
  <2>2. "user" \in Labels /\ "user" \in CalmPlaces /\ "user" # "wait_stack"
    BY DEF Labels, CalmPlaces
  <2>3. running' \in [Slots -> Programs \cup {Shell}]
    BY <1>3, <1>5 DEF MemTypes, TaskTypes
  <2>4. QED
    BY <1>1, <1>2, <2>1, <2>2, <2>3, NoLocalsType, CalmMoves, SameMemory
<1>6. QED
  BY <1>4, <1>5 DEF setup_user_stack

-----------------------------------------------------------------------------
(* The frame stack: only the frame on top changes hands.                     *)

\* Holders that no call in progress is between.
Settled == {"stack", "device", "dir", "table", "page", "kernel", "nobody"}

\* What is settled includes each kind.
LEMMA KeepsLess ==
    ASSUME NEW own, NEW own2, Keeps(own, own2, Settled)
    PROVE  /\ Keeps(own, own2, {"stack", "dir"}) /\ Keeps(own, own2, {"device"})
           /\ Keeps(own, own2, {"table", "page"}) /\ Keeps(own, own2, {"kernel"})
           /\ Keeps(own, own2, {"nobody"})
BY DEF Keeps, Settled

\* A frame that changes hands leaves the other kinds alone.
LEMMA RetagKeeps ==
    ASSUME NEW own, NEW g, NEW tag, NEW kinds, g \in RAM => own[g][1] \notin kinds
    PROVE  Keeps(own, Retag(own, g, tag), kinds)
BY DEF Keeps, Retag

\* The parts of the invariant.
LEMMA GoodParts ==
    ASSUME NEW own, Good(own)
    PROVE  /\ TurnInv /\ BootInv /\ WaitInv /\ SeenInv
           /\ PoolInv(own) /\ TaskInv(own) /\ NicInv(own) /\ EarlyInv(own) /\ CallInv(own)
           /\ SpaceInv(own) /\ DeviceInv /\ AloneInv
BY DEF Good, Placed, HoldInv

\* The devices when neither tables nor the purpose of the call change.
LEMMA DeviceSame ==
    ASSUME DeviceInv, UNCHANGED <<hw, cpu, nic, dir, table, page_dir>>, Booted' => Booted,
           Shown' = Shown, Purpose(current)' = Purpose(current)
    PROVE  DeviceInv'
<1>1. Device' = Device
  BY DEF Device
<1>2. QED
  BY <1>1 DEF DeviceInv

\* The locals of a call to pfa_alloc, but for what it returned.
SameCall(l, m) == m \in LocType /\ m = [l EXCEPT !.got = m.got]

\* Only got differs.
LEMMA SameFields ==
    ASSUME NEW l \in LocType, NEW m, SameCall(l, m)
    PROVE  /\ m.ret = l.ret /\ m.vp = l.vp /\ m.f = l.f /\ m.u = l.u /\ m.back = l.back
           /\ m.slot = l.slot /\ m.dir = l.dir /\ m.tab = l.tab /\ m.pd = l.pd /\ m.pt = l.pt
           /\ m.prog = l.prog /\ m.seg = l.seg /\ m.a = l.a /\ m.left = l.left
BY DEF SameCall, LocType

\* The locals during pfa_alloc and after it.
LEMMA StackLocal ==
    ASSUME NEW l \in LocType, NEW m, SameCall(l, m), NEW p \in {"pfa_alloc", "pfa_read"}, LocalOk(p, l),
           NEW q \in {"pfa_read"} \cup AllocReturns, q \in AllocReturns => q = l.ret
    PROVE  /\ LocalOk(q, m) /\ PlaceOf(q, m) = PlaceOf(p, l) /\ PurposeOf(q, m) = PurposeOf(p, l)
           /\ PlaceOf(p, l) = l.ret /\ l.ret \in AllocReturns
<1>1. /\ m.ret = l.ret /\ m.vp = l.vp /\ m.f = l.f /\ m.u = l.u /\ m.back = l.back
      /\ m.slot = l.slot /\ m.dir = l.dir /\ m.tab = l.tab /\ m.pd = l.pd /\ m.pt = l.pt
      /\ m.prog = l.prog /\ m.seg = l.seg /\ m.a = l.a /\ m.left = l.left
  BY SameFields
<1>2. PlaceOf(q, m) = l.ret /\ PlaceOf(p, l) = l.ret
  BY <1>1 DEF PlaceOf, AllocReturns
<1>3. PurposeOf(q, m) = PurposeOf(p, l)
  BY <1>1, <1>2 DEF PurposeOf
<1>4. q \notin {"user", "pfa_store", "nic_got"} /\ l.ret \in AllocReturns
  BY DEF AllocReturns, LocalOk, CallOk
<1>5. CallOk(q, m)
  BY <1>1, <1>2, <1>4 DEF CallOk, LocalOk
<1>6. MapOk(q, m)
  BY <1>1, <1>2, <1>3, <1>4 DEF MapOk, LocalOk, ForProgram, ForCard, ForScreen, DevicePage
<1>7. ExecOk(q, m)
  BY <1>1, <1>2, <1>3 DEF ExecOk, LocalOk
<1>8. ForkOk(q, m)
  BY <1>1, <1>2 DEF ForkOk, LocalOk
<1>9. QED
  BY <1>2, <1>3, <1>4, <1>5, <1>6, <1>7, <1>8 DEF LocalOk

\* A step inside pfa_alloc.
LEMMA StackMove ==
    ASSUME NEW own, NEW own2, MemTypes, MemTypes', Good(own), NEW t \in Slots, t = current, state[t] = "live",
           UNCHANGED <<hw, current, cpu, page_frames, dir, table, nic, state, parent, page_dir, kstack>>,
           page_frame_count' <= page_frame_count, Keeps(own, own2, Settled),
           pc[t] \in {"pfa_alloc", "pfa_read"},
           NEW q \in {"pfa_read"} \cup AllocReturns, q \in AllocReturns => q = loc[t].ret,
           NEW m, SameCall(loc[t], m), Moves(t, q, m), PoolInv(own2)', CallInv(own2)'
    PROVE  Good(own2)'
<1>0. /\ TurnInv /\ BootInv /\ WaitInv /\ SeenInv /\ TaskInv(own) /\ NicInv(own) /\ EarlyInv(own)
      /\ SpaceInv(own) /\ DeviceInv /\ AloneInv
  BY GoodParts
<1>1. loc[t] \in LocType /\ LocalOk(pc[t], loc[t])
  BY <1>0 DEF MemTypes, CallTypes, TurnInv
<1>2. /\ LocalOk(q, m) /\ PlaceOf(q, m) = PlaceOf(pc[t], loc[t]) /\ PurposeOf(q, m) = PurposeOf(pc[t], loc[t])
      /\ PlaceOf(q, m) \in AllocReturns
  BY <1>1, StackLocal
<1>3. /\ m.ret = loc[t].ret /\ m.vp = loc[t].vp /\ m.f = loc[t].f /\ m.back = loc[t].back
      /\ m.slot = loc[t].slot /\ m.dir = loc[t].dir /\ m.tab = loc[t].tab /\ m.pd = loc[t].pd /\ m.pt = loc[t].pt
  BY <1>1, SameFields
<1>4. /\ current' = current /\ loc'[current'] = m /\ pc'[current'] = q
      /\ Place(current)' = Place(current) /\ Purpose(current)' = Purpose(current)
  BY <1>2, MovesTo, PlacesMove DEF Place, Purpose
<1>5. TurnInv'
  BY <1>0, <1>2, TurnKept
<1>6. BootInv'
  BY <1>0, <1>4 DEF BootInv
<1>7. PlaceOf(q, m) \notin Waits /\ q # "nic_got"
  BY <1>2 DEF Waits, AllocReturns
<1>8. WaitInv'
  BY <1>0, <1>7, WaitKept
<1>9. SeenInv'
  BY <1>0, <1>3, <1>4, <1>7 DEF SeenInv
<1>10. TaskInv(own2)'
  <2>1. Place(t) = PlaceOf(q, m)
    BY <1>2 DEF Place
  <2>2. PlaceOf(q, m) \notin {"wait_dir", "wait_clear"}
    BY <1>7 DEF Waits
  <2>3. QED
    BY <1>0, <2>1, <2>2, KeepsLess, TasksKept
<1>11. NicInv(own2)'
  BY <1>0, KeepsLess, NicKept
<1>12. Booted' = Booted
  BY <1>4 DEF Booted
<1>13. EarlyInv(own2)'
  <2>1. PoolTypes /\ PoolTypes'
    BY DEF MemTypes
  <2>2. QED
    BY <1>0, <1>12, <2>1, KeepsLess, EarlyKept
<1>14. SpaceInv(own2)'
  <2> SUFFICES ASSUME Booted PROVE LiveInv(own2)' /\ CopyInv(own2)' /\ KernelInv(own2)'
    BY <1>12 DEF SpaceInv
  <2>0. LiveInv(own) /\ CopyInv(own) /\ KernelInv(own)
    BY <1>0 DEF SpaceInv
  <2>1. LiveInv(own2)'
    BY <2>0, KeepsLess, LiveKept
  <2>2. CopyInv(own2)'
    BY <1>0, <1>3, <2>0, KeepsLess, CopyStays
  <2>3. Zero' = Zero /\ Device' = Device
    BY DEF Zero, Device
  <2>4. KernelInv(own2)'
    BY <2>0, <2>3, KeepsLess, KernelKept
  <2>5. QED
    BY <2>1, <2>2, <2>4
<1>15. DeviceInv'
  <2>1. Shown' = Shown
    BY <1>3, <1>4 DEF Shown
  <2>2. QED
    BY <1>0, <1>4, <1>12, <2>1, DeviceSame
<1>16. AloneInv'
  <2>1. Device' = Device
    BY DEF Device
  <2>2. QED
    BY <1>0, <1>3, <1>4, <2>1 DEF AloneInv
<1>17. QED
  BY <1>5, <1>6, <1>8, <1>9, <1>10, <1>11, <1>13, <1>14, <1>15, <1>16 DEF Good, Placed, HoldInv

\* pfa_alloc takes a frame from the count, or memory has run out.
LEMMA AllocStep ==
    ASSUME NEW own, MemTypes, Good(own), NEW t \in Slots, state[t] = "live", UNCHANGED <<hw, current>>,
           pfa_alloc(t)
    PROVE  MemTypes' /\ (cpu' = "out of memory" \/ \E own2 : Good(own2)')
<1>0. /\ TurnInv /\ PoolInv(own) /\ CallInv(own)
  BY GoodParts
<1>1. /\ pc[t] = "pfa_alloc" /\ t = current /\ UNCHANGED <<page_frames, dir, table, mem, nic, loc>>
      /\ UNCHANGED <<state, parent, page_dir, kstack, running>>
  BY DEF pfa_alloc, At, memVars, taskVars
<1>2. loc[t] \in LocType /\ page_frame_count \in 0 .. NFRAMES
  BY DEF MemTypes, CallTypes, PoolTypes
<1>3. CASE page_frame_count = 0 /\ cpu' = "out of memory" /\ UNCHANGED <<page_frame_count, pc>>
  <2>1. MemTypes'
    BY <1>1, <1>3 DEF MemTypes, PoolTypes, SpaceTypes, TaskTypes, CallTypes
  <2>2. QED
    BY <1>3, <2>1
<1>4. CASE page_frame_count > 0 /\ page_frame_count' = page_frame_count - 1 /\ Goto(t, "pfa_read") /\ UNCHANGED cpu
  <2>1. PICK n \in Nat : n = page_frame_count - 1 /\ n < NFRAMES
    BY <1>2, <1>4, Sizes
  <2>2. n \in RAM /\ page_frame_count = n + 1 /\ page_frame_count' = n /\ n \in 0 .. NFRAMES
    BY <1>2, <1>4, <2>1, Sizes DEF RAM
  <2>3. PICK g \in RAM : g = page_frames[n]
    BY <2>2 DEF MemTypes, PoolTypes
  <2>4. own[g] = Free(n)
    <3>1. PoolTop = n + 1
      BY <1>1, <2>2 DEF PoolTop
    <3>2. n \in 0 .. PoolTop - 1
      BY <2>1, <3>1
    <3>3. QED
      BY <1>0, <2>3, <3>2 DEF PoolInv
  <2> DEFINE own2 == Retag(own, g, Got)
  <2>5. Keeps(own, own2, Settled) /\ Keeps(own, own2, {"hand", "copying"})
    BY <2>4, RetagKeeps DEF Settled, Free
  <2>6. own2[g] = Got /\ \A f \in RAM : f # g => own2[f] = own[f]
    BY DEF Retag
  <2> HIDE DEF own2
  <2>7. Moves(t, "pfa_read", loc[t])
    BY <1>1, <1>4 DEF Goto, Moves, MemTypes, CallTypes
  <2>8. MemTypes'
    <3>1. CallTypes'
      BY <1>2, <2>7, MovesTo DEF Labels
    <3>2. QED
      BY <1>1, <1>4, <2>2, <3>1 DEF MemTypes, PoolTypes, SpaceTypes, TaskTypes
  <2>9. pc'[current'] = "pfa_read" /\ loc'[current'] = loc[t] /\ Place(current)' = Place(t)
    <3>1. PlaceOf("pfa_read", loc[t]) = Place(t)
      BY <1>1 DEF Place, PlaceOf
    <3>2. QED
      BY <1>1, <2>7, <3>1, MovesTo, PlacesMove
  <2>10. PoolInv(own2)'
    <3>1. PoolTop' = n /\ PoolTop = n + 1
      BY <1>1, <2>2, <2>9 DEF PoolTop
    <3>2. ASSUME NEW i \in 0 .. n - 1 PROVE own2[page_frames[i]] = Free(i)
      <4>1. i \in 0 .. PoolTop - 1 /\ i \in RAM /\ i # n
        BY <2>1, <3>1, Sizes DEF RAM
      <4>2. own[page_frames[i]] = Free(i) /\ page_frames[i] \in RAM
        BY <1>0, <4>1 DEF PoolInv, MemTypes, PoolTypes
      <4>3. page_frames[i] # g
        BY <2>4, <4>1, <4>2 DEF Free
      <4>4. QED
        BY <2>6, <4>2, <4>3
    <3>3. QED
      BY <1>1, <3>1, <3>2 DEF PoolInv
  <2>11. CallInv(own2)'
    <3>1. \A f \in RAM : \A s : own[f] = InHand \/ own[f] = Copying \/ own[f] = DirOf(s) => own2[f] = own[f]
      BY <2>5 DEF Keeps, InHand, Copying, DirOf, Settled
    <3>2. loc[t].dir \in RAM \cup {NULL} /\ loc[t].tab \in RAM \cup {NULL}
      BY <1>2 DEF LocType
    <3>3. /\ page_frame_count' < NFRAMES /\ own2[page_frames'[page_frame_count']] = Got
      BY <1>1, <2>1, <2>2, <2>3, <2>6
    <3>4. "pfa_read" \notin AllocReturns
      BY DEF AllocReturns
    <3>5. QED
      BY <1>0, <1>1, <2>9, <3>1, <3>2, <3>3, <3>4 DEF CallInv
  <2>12. SameCall(loc[t], loc[t])
    BY <1>2 DEF SameCall, LocType
  <2>13. page_frame_count' <= page_frame_count
    BY <2>1, <2>2
  <2>14. "pfa_read" \in {"pfa_read"} \cup AllocReturns /\ "pfa_read" \notin AllocReturns
    BY DEF AllocReturns
  <2>15. Good(own2)'
    BY <1>1, <1>4, <2>5, <2>7, <2>8, <2>10, <2>11, <2>12, <2>13, <2>14, StackMove
  <2>16. QED
    BY <2>8, <2>15
<1>5. QED
  BY <1>3, <1>4 DEF pfa_alloc

\* pfa_read: the caller has the frame.
LEMMA ReadStep ==
    ASSUME NEW own, MemTypes, Good(own), NEW t \in Slots, state[t] = "live", UNCHANGED <<hw, current>>,
           pfa_read(t)
    PROVE  MemTypes' /\ Good(own)'
<1>0. /\ TurnInv /\ PoolInv(own) /\ CallInv(own)
  BY GoodParts
<1>1. /\ pc[t] = "pfa_read" /\ t = current /\ UNCHANGED <<page_frames, page_frame_count, dir, table, mem, nic, cpu>>
      /\ UNCHANGED <<state, parent, page_dir, kstack, running>>
  BY DEF pfa_read, At, pfaVars, memVars, taskVars
<1>2. loc[t] \in LocType /\ page_frame_count \in 0 .. NFRAMES
  BY DEF MemTypes, CallTypes, PoolTypes
<1>3. PICK g \in RAM : g = page_frames[page_frame_count] /\ own[g] = Got
  <2>1. page_frame_count < NFRAMES /\ own[page_frames[page_frame_count]] = Got
    BY <1>0, <1>1 DEF CallInv
  <2>2. page_frame_count \in RAM
    BY <1>2, <2>1, Sizes DEF RAM
  <2>3. QED
    BY <2>1, <2>2 DEF MemTypes, PoolTypes
<1> DEFINE m == [loc[t] EXCEPT !.got = g]
           q == loc[t].ret
<1>4. Moves(t, q, m)
  BY <1>3 DEF pfa_read, Goto, Moves
<1>5. m \in LocType /\ m.got = g /\ m.ret = q /\ m.back = loc[t].back /\ m.f = loc[t].f
      /\ m.dir = loc[t].dir /\ m.tab = loc[t].tab
  BY <1>2 DEF LocType
<1>6. SameCall(loc[t], m)
  BY <1>5 DEF SameCall
<1> HIDE DEF m
<1>7. q \in AllocReturns /\ q \in Labels
  BY <1>0, <1>1, <1>2 DEF TurnInv, LocalOk, CallOk, LocType
<1>8. MemTypes'
  <2>1. CallTypes'
    BY <1>4, <1>5, <1>7, MovesTo
  <2>2. QED
    BY <1>1, <2>1 DEF MemTypes, PoolTypes, SpaceTypes, TaskTypes
<1>9. pc'[current'] = q /\ loc'[current'] = m /\ Place(current)' = Place(t)
  <2>1. PlaceOf(q, m) = Place(t)
    BY <1>1, <1>7 DEF Place, PlaceOf, AllocReturns
  <2>2. QED
    BY <1>1, <1>4, <2>1, MovesTo, PlacesMove
<1>10. q # "pfa_store" /\ q # "pfa_read" /\ q # "nic_got"
  BY <1>7 DEF AllocReturns
<1>11. PoolInv(own)'
  <2>1. PoolTop' = PoolTop
    BY <1>1, <1>9, <1>10 DEF PoolTop
  <2>2. QED
    BY <1>0, <1>1, <2>1 DEF PoolInv
<1>12. CallInv(own)'
  BY <1>0, <1>1, <1>3, <1>5, <1>9, <1>10 DEF CallInv
<1>13. Keeps(own, own, Settled) /\ page_frame_count' <= page_frame_count
  BY <1>1, <1>2 DEF Keeps
<1>14. Good(own)'
  BY <1>1, <1>4, <1>6, <1>7, <1>8, <1>11, <1>12, <1>13, StackMove
<1>15. QED
  BY <1>8, <1>14

-----------------------------------------------------------------------------
(* wait, exit and a switch: no table changes.                                *)

\* A step after which the running task is in its program, exec or wait, and no table has changed.
LEMMA QuietMove ==
    ASSUME NEW own, NEW own2, MemTypes, Good(own), cpu = "run", UNCHANGED <<hw, cpu, dir, table, nic>>,
           page_dir'[0] = page_dir[0],
           \A s \in Slots : state'[s] = "live" => state[s] = "live" /\ page_dir'[s] = page_dir[s],
           \A s \in Slots : state[s] = "free" => state'[s] = "free",
           Keeps(own, own2, {"device"}), Keeps(own, own2, {"table", "page"}), Keeps(own, own2, {"kernel"}),
           NEW u \in Slots, u = current', PlaceOf(pc'[u], loc'[u]) \in Calm,
           loc'[u].dir = NULL, loc'[u].tab = NULL,
           TurnInv', WaitInv', PoolInv(own2)', TaskInv(own2)', CallInv(own2)'
    PROVE  Good(own2)'
<1>0. /\ NicInv(own) /\ SpaceInv(own) /\ DeviceInv /\ AloneInv
  BY GoodParts
<1>1. /\ Place(current)' \in Calm /\ Purpose(current)' \in Calm
      /\ Calm \cap (Maps \cup Forks \cup Boots) = {}
  BY DEF Place, Purpose, PurposeOf, Calm, Maps, Forks, Boots
<1>2. pc'[current'] # "nic_got"
  BY <1>1 DEF Place, PlaceOf, Boots
<1>3. BootInv'
  BY <1>1 DEF BootInv
<1>4. SeenInv'
  BY <1>1, <1>2 DEF SeenInv, Maps, Forks
<1>5. NicInv(own2)'
  BY <1>0, NicKept
<1>6. Booted /\ Booted'
  BY DEF Booted
<1>7. EarlyInv(own2)'
  BY <1>6 DEF EarlyInv
<1>8. Zero' = Zero /\ Device' = Device
  BY DEF Zero, Device
<1>9. SpaceInv(own2)'
  <2>0. LiveInv(own) /\ KernelInv(own)
    BY <1>0, <1>6 DEF SpaceInv
  <2>1. LiveInv(own2)'
    BY <2>0, LiveKept
  <2>2. CopyInv(own2)'
    BY DEF CopyInv
  <2>3. KernelInv(own2)'
    BY <1>8, <2>0, KernelKept
  <2>4. QED
    BY <2>1, <2>2, <2>3 DEF SpaceInv
<1>10. DeviceInv'
  BY <1>0, <1>8, DeviceKept
<1>11. AloneInv'
  BY <1>0, <1>1, <1>8 DEF AloneInv, Forks
<1>12. QED
  BY <1>3, <1>4, <1>5, <1>7, <1>9, <1>10, <1>11 DEF Good, Placed, HoldInv

\* A waiting task and the child it waits for.
LEMMA WaitFacts ==
    ASSUME NEW own, MemTypes, Good(own), NEW t \in Slots, cpu \in {"boot", "run"}, current = t, Place(t) \in Waits
    PROVE  /\ cpu = "run" /\ loc[t] \in LocType /\ LocalOk(pc[t], loc[t])
           /\ loc[t].dir = NULL /\ loc[t].tab = NULL
           /\ loc[t].slot \in Slots /\ loc[t].slot # 0
           /\ state[loc[t].slot] = "zombie" /\ parent[loc[t].slot] = t
<1>0. TurnInv /\ BootInv /\ WaitInv /\ TaskInv(own)
  BY GoodParts
<1>1. cpu = "run"
  BY <1>0 DEF BootInv, Purpose, PurposeOf, Place, Waits, Maps, Boots
<1>2. loc[t] \in LocType /\ LocalOk(pc[t], loc[t])
  BY <1>0 DEF MemTypes, CallTypes, TurnInv
<1>3. loc[t].dir = NULL /\ loc[t].tab = NULL /\ loc[t].slot \in Slots
  BY <1>2, PlaceNames DEF LocalOk, CallOk, Place
<1>4. state[loc[t].slot] = "zombie" /\ parent[loc[t].slot] = t
  BY <1>0 DEF WaitInv
<1>5. loc[t].slot # 0
  BY <1>0, <1>4, Sizes DEF TaskInv, NULL, Slots
<1>6. QED
  BY <1>1, <1>2, <1>3, <1>4, <1>5

\* pfa_store: the frame is in the pool.
LEMMA StoreStep ==
    ASSUME NEW own, MemTypes, Good(own), NEW t \in Slots, state[t] = "live", UNCHANGED <<hw, current>>,
           pfa_store(t)
    PROVE  MemTypes' /\ \E own2 : Good(own2)'
<1>0. /\ TurnInv /\ WaitInv /\ PoolInv(own) /\ CallInv(own) /\ TaskInv(own)
  BY GoodParts
<1>1. /\ pc[t] = "pfa_store" /\ t = current /\ cpu \in {"boot", "run"}
      /\ UNCHANGED <<page_frame_count, dir, table, mem, nic, cpu, loc>>
      /\ UNCHANGED <<state, parent, page_dir, kstack, running>>
      /\ page_frames' = [page_frames EXCEPT ![loc[t].pt] = loc[t].f]
  BY DEF pfa_store, At, memVars, taskVars
<1>2. loc[t].back \in {"wait_dir", "wait_clear"} /\ Place(t) = loc[t].back /\ Place(t) \in Waits
  BY <1>0, <1>1 DEF TurnInv, LocalOk, CallOk, Place, PlaceOf, Waits
<1>3. /\ cpu = "run" /\ loc[t] \in LocType /\ LocalOk(pc[t], loc[t])
      /\ loc[t].dir = NULL /\ loc[t].tab = NULL /\ loc[t].slot \in Slots
      /\ state[loc[t].slot] = "zombie" /\ parent[loc[t].slot] = t
  BY <1>1, <1>2, WaitFacts
<1>4. PICK f, n \in RAM : f = loc[t].f /\ own[f] = InHand /\ n = loc[t].pt /\ n = page_frame_count - 1
  BY <1>0, <1>1 DEF CallInv
<1>5. page_frame_count = n + 1
  <2>0. page_frame_count \in 0 .. NFRAMES
    BY DEF MemTypes, PoolTypes
  <2>1. PICK k \in Int : k = page_frame_count
    BY <2>0, Sizes
  <2>2. n \in Int
    BY Sizes DEF RAM
  <2>3. QED
    BY <1>4, <2>1, <2>2
<1> DEFINE own2 == Retag(own, f, Free(n))
           p == loc[t].back
<1>6. own2[f] = Free(n) /\ \A g \in RAM : g # f => own2[g] = own[g]
  BY DEF Retag
<1>7. Keeps(own, own2, {"stack", "dir"}) /\ Keeps(own, own2, {"device"})
      /\ Keeps(own, own2, {"table", "page"}) /\ Keeps(own, own2, {"kernel"})
  BY <1>4, RetagKeeps DEF InHand
<1> HIDE DEF own2
<1>8. Moves(t, p, loc[t])
  BY <1>1 DEF pfa_store, Goto, Moves, MemTypes, CallTypes
<1>9. MemTypes'
  <2>1. CallTypes'
    BY <1>2, <1>3, <1>8, MovesTo DEF Labels
  <2>2. page_frames' \in [RAM -> RAM]
    BY <1>1, <1>4 DEF MemTypes, PoolTypes
  <2>3. PoolTypes' /\ TaskTypes' /\ SpaceTypes'
    <3>1. UNCHANGED <<dir, table, mem, nic, state, parent, page_dir, kstack, running>>
      BY <1>1
    <3>2. SpaceTypes' /\ TaskTypes'
      BY <3>1 DEF MemTypes, SpaceTypes, TaskTypes
    <3>3. PoolTypes'
      BY <1>1, <2>2 DEF MemTypes, PoolTypes
    <3>4. QED
      BY <3>2, <3>3
  <2>4. QED
    BY <1>1, <2>1, <2>3 DEF MemTypes
<1>10. /\ pc'[current'] = p /\ loc'[current'] = loc[t]
       /\ PlaceOf(p, loc[t]) = p /\ PurposeOf(p, loc[t]) = p /\ p \in Calm /\ p \in Waits
  BY <1>1, <1>2, <1>8, MovesTo DEF PlaceOf, PurposeOf, Maps, Calm, Waits
<1>11. LocalOk(p, loc[t])
  <2>1. p \notin Forks /\ p \notin {"pfa_alloc", "pfa_read", "pfa_store", "user", "nic_got", "map_page", "map_got", "map_table"}
        /\ p \notin Boots /\ p \notin Execs
    BY <1>2 DEF Forks, Boots, Execs
  <2>2. QED
    BY <1>3, <1>10, <2>1 DEF LocalOk, CallOk, MapOk, ExecOk, ForkOk, Boots
<1>12. TurnInv'
  BY <1>0, <1>1, <1>8, <1>11, TurnKept
<1>13. WaitInv'
  BY <1>0, <1>1, <1>3, <1>8, WaitKept
<1>14. PoolInv(own2)'
  <2>1. PoolTop = n /\ PoolTop' = n + 1
    BY <1>1, <1>2, <1>4, <1>5, <1>10 DEF PoolTop
  <2>2. ASSUME NEW i \in 0 .. n PROVE own2[page_frames'[i]] = Free(i)
    <3>1. CASE i = n
      BY <1>1, <1>4, <1>6, <3>1 DEF MemTypes, PoolTypes
    <3>2. CASE i # n
      <4>1. i \in 0 .. PoolTop - 1 /\ i \in RAM
        BY <2>1, <3>2, Sizes DEF RAM
      <4>2. page_frames'[i] = page_frames[i] /\ page_frames[i] \in RAM /\ own[page_frames[i]] = Free(i)
        BY <1>0, <1>1, <1>4, <3>2, <4>1 DEF MemTypes, PoolTypes, PoolInv
      <4>3. page_frames[i] # f
        BY <1>4, <4>2 DEF Free, InHand
      <4>4. QED
        BY <1>6, <4>2, <4>3
    <3>3. QED
      BY <3>1, <3>2
  <2>3. PoolTop' - 1 = n
    BY <2>1 DEF RAM
  <2>4. QED
    BY <2>2, <2>3 DEF PoolInv
<1>15. TaskInv(own2)'
  <2>1. PlaceOf(p, loc[t]) = Place(t)
    BY <1>2, <1>10
  <2>2. QED
    BY <1>0, <1>1, <1>3, <1>7, <1>8, <2>1, TasksKept
<1>16. CallInv(own2)'
  <2>1. p \notin AllocReturns /\ p \notin {"pfa_read", "pfa_store", "nic_got", "map_table"}
    BY <1>2 DEF AllocReturns
  <2>2. Place(current)' = p
    BY <1>10 DEF Place
  <2>3. QED
    BY <1>3, <1>10, <2>1, <2>2 DEF CallInv
<1>17. Good(own2)'
  <2>1. UNCHANGED <<hw, cpu, dir, table, nic>> /\ UNCHANGED <<state, page_dir>> /\ t = current'
    BY <1>1
  <2>2. /\ PlaceOf(pc'[t], loc'[t]) \in Calm /\ loc'[t].dir = NULL /\ loc'[t].tab = NULL
    BY <1>3, <1>10, <2>1
  <2>3. QED
    BY <1>3, <1>7, <1>12, <1>13, <1>14, <1>15, <1>16, <2>1, <2>2, QuietMove
<1>18. QED
  BY <1>9, <1>17

\* Calm tasks do nothing a switch could disturb.
LEMMA SwitchStep ==
    ASSUME Orderly, NEW own, MemTypes, Good(own), UNCHANGED hw, Switch
    PROVE  MemTypes' /\ Good(own)'
<1>0. /\ TurnInv /\ WaitInv /\ PoolInv(own) /\ CallInv(own) /\ TaskInv(own)
  BY GoodParts
<1>1. /\ UNCHANGED <<page_frames, page_frame_count, dir, table, mem, nic, cpu, pc, loc>>
      /\ UNCHANGED <<state, parent, page_dir, kstack, running>> /\ cpu = "run"
  BY DEF Switch, pfaVars, memVars, taskVars
<1>2. PICK u \in Slots : u # current /\ state[u] = "live" /\ u = current'
  BY DEF Switch
<1>3. pc[current] \in Calm
  <2>1. current \in Slots /\ "user" \in Calm
    BY DEF MemTypes, Calm
  <2>2. QED
    BY <1>0, <2>1 DEF Switch, Orderly, TurnInv
<1>4. pc[u] \in Calm /\ LocalOk(pc[u], loc[u])
  BY <1>0, <1>2 DEF TurnInv
<1>5. PlaceOf(pc[u], loc[u]) = pc[u] /\ pc[u] \notin Forks
  BY <1>4 DEF PlaceOf, Calm, Forks
<1>6. loc[u].dir = NULL /\ loc[u].tab = NULL
  BY <1>4, <1>5 DEF LocalOk, CallOk
<1>7. MemTypes'
  BY <1>1, <1>2 DEF MemTypes, PoolTypes, SpaceTypes, TaskTypes, CallTypes
<1>8. \A s \in Slots : Place(s)' = Place(s)
  BY <1>1 DEF Place
<1>9. TurnInv'
  BY <1>0, <1>1, <1>3 DEF TurnInv
<1>10. WaitInv'
  BY <1>0, <1>1, <1>8 DEF WaitInv
<1>11. PoolInv(own)'
  <2>1. PoolTop' = PoolTop
    BY <1>1, <1>2, <1>3, <1>4 DEF PoolTop, Calm
  <2>2. QED
    BY <1>0, <1>1, <2>1 DEF PoolInv
<1>12. TaskInv(own)'
  <2>1. ASSUME NEW s \in Slots PROVE (StackGone(s)' <=> StackGone(s)) /\ (DirGone(s)' <=> DirGone(s))
    BY <1>1 DEF StackGone, DirGone, Reaped, Place
  <2>2. QED
    BY <1>0, <1>1, <2>1 DEF TaskInv
<1>13. CallInv(own)'
  <2>1. Place(current)' = pc[u]
    BY <1>1, <1>2, <1>5 DEF Place
  <2>2. pc[u] \notin AllocReturns \cup {"pfa_read", "pfa_store", "nic_got", "map_table"}
    BY <1>4 DEF Calm, AllocReturns
  <2>3. QED
    BY <1>1, <1>2, <1>6, <2>1, <2>2 DEF CallInv
<1>14. Keeps(own, own, {"device"}) /\ Keeps(own, own, {"table", "page"}) /\ Keeps(own, own, {"kernel"})
  BY DEF Keeps
<1>15. PlaceOf(pc'[u], loc'[u]) \in Calm /\ loc'[u].dir = NULL /\ loc'[u].tab = NULL
  BY <1>1, <1>4, <1>5, <1>6
<1>16. Good(own)'
  BY <1>1, <1>2, <1>9, <1>10, <1>11, <1>12, <1>13, <1>14, <1>15, QuietMove
<1>17. QED
  BY <1>7, <1>16

\* A frame that somebody holds is not in the pool, so the pool has room for it.
LEMMA PoolRoom ==
    ASSUME NEW own, MemTypes, PoolInv(own), pc[current] # "pfa_store",
           NEW f \in RAM, own[f][1] # "free"
    PROVE  page_frame_count < NFRAMES
<1> SUFFICES ASSUME page_frame_count = NFRAMES PROVE FALSE
  <2>1. page_frame_count \in 0 .. NFRAMES
    BY DEF MemTypes, PoolTypes
  <2>2. QED
    BY <2>1, Sizes
<1>1. PoolTop = NFRAMES
  BY DEF PoolTop
<1>2. \A i \in RAM : own[page_frames[i]] = Free(i) /\ page_frames[i] \in RAM
  BY <1>1 DEF PoolInv, RAM, MemTypes, PoolTypes
<1>3. page_frames \in [RAM -> RAM \ {f}]
  <2>1. \A i \in RAM : page_frames[i] # f
    BY <1>2 DEF Free
  <2>2. QED
    BY <2>1 DEF MemTypes, PoolTypes
<1>4. IsFiniteSet(RAM) /\ Cardinality(RAM) = NFRAMES
  <2>1. 0 \in Int /\ NFRAMES - 1 \in Int /\ ~(0 > NFRAMES - 1) /\ NFRAMES - 1 - 0 + 1 = NFRAMES
    BY Sizes
  <2>2. QED
    BY <2>1, FS_Interval DEF RAM
<1>5. IsFiniteSet(RAM \ {f}) /\ Cardinality(RAM \ {f}) = NFRAMES - 1
  BY <1>4, FS_RemoveElement
<1>6. Cardinality(RAM \ {f}) < Cardinality(RAM)
  BY <1>4, <1>5, Sizes
<1>7. PICK S, T, h : S = RAM /\ T = RAM \ {f} /\ h = page_frames
  OBVIOUS
<1>8. \E x, y \in S : x # y /\ h[x] = h[y]
  BY <1>3, <1>4, <1>5, <1>6, <1>7, FS_PigeonHole
<1>9. QED
  BY <1>2, <1>7, <1>8 DEF Free

\* The parent takes a step in giving back the frames of its child c.
LEMMA ReapedBy ==
    ASSUME MemTypes, NEW t \in Slots, UNCHANGED parent, NEW p, NEW l, Moves(t, p, l),
           l.slot = loc[t].slot, parent[loc[t].slot] = t, NEW places, NEW s \in Slots
    PROVE  /\ s # loc[t].slot => (Reaped(s, places)' <=> Reaped(s, places))
           /\ s = loc[t].slot => (Reaped(s, places)' <=> PlaceOf(p, l) \in places)
           /\ s = loc[t].slot => (Reaped(s, places) <=> Place(t) \in places)
<1>1. /\ Place(t)' = PlaceOf(p, l) /\ loc'[t] = l
      /\ \A r \in Slots : r # t => Place(r)' = Place(r) /\ loc'[r] = loc[r]
  BY PlacesMove, MovesTo
<1>2. parent[s] # NULL => parent[s] \in Slots
  BY DEF MemTypes, TaskTypes
<1>3. t # NULL
  BY Sizes DEF NULL, Slots
<1>4. CASE parent[s] = t
  BY <1>1, <1>3, <1>4 DEF Reaped
<1>5. CASE parent[s] # t
  BY <1>1, <1>2, <1>5 DEF Reaped
<1>6. QED
  BY <1>4, <1>5

\* wait_free: the child's stack or directory is about to be pushed.
LEMMA FreeStep ==
    ASSUME NEW own, MemTypes, Good(own), NEW t \in Slots, state[t] = "live", UNCHANGED <<hw, current>>,
           wait_free(t)
    PROVE  MemTypes' /\ \E own2 : Good(own2)'
<1>0. /\ TurnInv /\ WaitInv /\ PoolInv(own) /\ CallInv(own) /\ TaskInv(own)
  BY GoodParts
<1>1. /\ t = current /\ cpu \in {"boot", "run"}
      /\ UNCHANGED <<page_frames, dir, table, mem, nic, cpu>>
      /\ UNCHANGED <<state, parent, page_dir, kstack, running>>
  BY DEF wait_free, At, memVars, taskVars
<1> DEFINE c == loc[t].slot
<1>2. PICK f, from, to :
        /\ pc[t] = from /\ pfa_free(t, f, to)
        /\ \/ from = "wait_stack" /\ to = "wait_dir" /\ f = kstack[c]
           \/ from = "wait_dir" /\ to = "wait_clear" /\ f = page_dir[c]
  BY DEF wait_free, At
<1>3. Place(t) = from /\ Place(t) \in Waits /\ to \in {"wait_dir", "wait_clear"} /\ to \in Waits
  BY <1>2 DEF Place, PlaceOf, Waits
<1>4. /\ cpu = "run" /\ loc[t] \in LocType /\ LocalOk(pc[t], loc[t])
      /\ loc[t].dir = NULL /\ loc[t].tab = NULL /\ c \in Slots /\ c # 0
      /\ state[c] = "zombie" /\ parent[c] = t
  BY <1>1, <1>3, WaitFacts
<1>5. t # NULL
  BY Sizes DEF NULL, Slots
<1>6. /\ f \in RAM
      /\ from = "wait_stack" => own[f] = KStack(c)
      /\ from = "wait_dir" => own[f] = DirOf(c)
  <2>1. /\ from = "wait_stack" => ~StackGone(c)
        /\ from = "wait_dir" => ~DirGone(c)
    BY <1>2, <1>3, <1>4 DEF StackGone, DirGone, Reaped
  <2>2. QED
    BY <1>0, <1>2, <1>4, <2>1 DEF TaskInv
<1>7. own[f][1] \in {"stack", "dir"}
  BY <1>2, <1>6 DEF KStack, DirOf
<1>8. PICK n \in RAM : n = page_frame_count
  <2>1. page_frame_count \in 0 .. NFRAMES
    BY DEF MemTypes, PoolTypes
  <2>2. page_frame_count < NFRAMES
    BY <1>0, <1>1, <1>2, <1>6, <1>7, PoolRoom
  <2>3. QED
    BY <2>1, <2>2, Sizes DEF RAM
<1>9. n \in Nat /\ n < NFRAMES /\ page_frame_count' = n + 1 /\ n + 1 \in 0 .. NFRAMES
  BY <1>2, <1>8, Sizes DEF pfa_free, RAM
<1> DEFINE own2 == Retag(own, f, InHand)
           l == [loc[t] EXCEPT !.f = f, !.pt = n, !.back = to]
<1>10. own2[f] = InHand /\ \A g \in RAM : g # f => own2[g] = own[g]
  BY <1>6 DEF Retag
<1>11. Keeps(own, own2, {"device"}) /\ Keeps(own, own2, {"table", "page"}) /\ Keeps(own, own2, {"kernel"})
  BY <1>7, RetagKeeps
<1> HIDE DEF own2
<1>12. Moves(t, "pfa_store", l)
  <2>1. /\ loc' = [loc EXCEPT ![t].f = f, ![t].pt = page_frame_count, ![t].back = to]
        /\ pc' = [pc EXCEPT ![t] = "pfa_store"]
    BY <1>2 DEF pfa_free, Goto
  <2>2. QED
    BY <1>8, <2>1 DEF Moves
<1>13. l.f = f /\ l.pt = n /\ l.back = to /\ l.slot = c /\ l.dir = NULL /\ l.tab = NULL /\ l \in LocType
  <2>1. f \in Int /\ n \in Nat /\ to \in Labels
    BY <1>3, <1>6, <1>9, Sizes DEF RAM, Labels
  <2>2. l \in LocType
    BY <1>4, <2>1 DEF LocType
  <2>3. QED
    BY <1>4, <2>2 DEF LocType
<1> HIDE DEF l
<1>14. MemTypes'
  <2>1. CallTypes'
    BY <1>12, <1>13, MovesTo DEF Labels
  <2>2. SpaceTypes' /\ TaskTypes'
    BY <1>1 DEF MemTypes, SpaceTypes, TaskTypes
  <2>3. PoolTypes'
    BY <1>1, <1>9 DEF MemTypes, PoolTypes
  <2>4. QED
    BY <1>1, <2>1, <2>2, <2>3 DEF MemTypes
<1>15. PlaceOf("pfa_store", l) = to /\ PurposeOf("pfa_store", l) = to
  BY <1>3, <1>13 DEF PlaceOf, PurposeOf, Maps
<1>16. pc'[current'] = "pfa_store" /\ loc'[current'] = l /\ Place(current)' = to
  BY <1>1, <1>12, <1>15, MovesTo, PlacesMove
<1>17. LocalOk("pfa_store", l)
  <2>1. to \notin Forks /\ to \notin Maps /\ to \notin Boots /\ to \notin Execs
    BY <1>3 DEF Forks, Boots, Execs, Maps
  <2>2. QED
    BY <1>3, <1>4, <1>13, <1>15, <2>1 DEF LocalOk, CallOk, MapOk, ExecOk, ForkOk, Boots, Maps
<1>18. TurnInv'
  BY <1>0, <1>1, <1>12, <1>17, TurnKept
<1>19. WaitInv'
  BY <1>0, <1>1, <1>4, <1>12, <1>13, WaitKept
<1>20. PoolInv(own2)'
  <2>1. PoolTop = n /\ PoolTop' = n
    BY <1>1, <1>2, <1>8, <1>9, <1>16 DEF PoolTop
  <2>2. ASSUME NEW i \in 0 .. n - 1 PROVE own2[page_frames[i]] = Free(i)
    <3>1. i \in RAM
      BY <1>9, Sizes DEF RAM
    <3>2. own[page_frames[i]] = Free(i) /\ page_frames[i] \in RAM
      BY <1>0, <2>1, <3>1 DEF PoolInv, MemTypes, PoolTypes
    <3>3. page_frames[i] # f
      BY <1>7, <3>2 DEF Free
    <3>4. QED
      BY <1>10, <3>2, <3>3
  <2>3. QED
    BY <1>1, <2>1, <2>2 DEF PoolInv
<1>21. TaskInv(own2)'
  <2>1. ASSUME NEW s \in Slots, s # c
        PROVE  (StackGone(s)' <=> StackGone(s)) /\ (DirGone(s)' <=> DirGone(s))
    BY <1>1, <1>4, <1>12, <1>13, <2>1, ReapedBy DEF StackGone, DirGone
  <2>0. PICK k \in Slots : k = c
    BY <1>4
  <2>2. StackGone(k)' /\ (DirGone(k)' <=> to = "wait_clear") /\ (from = "wait_stack" => ~DirGone(k))
    BY <1>1, <1>2, <1>3, <1>4, <1>12, <1>13, <1>15, <2>0, ReapedBy DEF StackGone, DirGone
  <2>3. ASSUME NEW s \in Slots, s # 0, state'[s] # "free"
        PROVE  /\ ~StackGone(s)' => kstack'[s] \in RAM /\ own2[kstack'[s]] = KStack(s)
               /\ ~DirGone(s)' => page_dir'[s] \in RAM /\ own2[page_dir'[s]] = DirOf(s)
    <3>1. CASE s # c
      <4>1. /\ ~StackGone(s) => kstack[s] \in RAM /\ own[kstack[s]] = KStack(s)
            /\ ~DirGone(s) => page_dir[s] \in RAM /\ own[page_dir[s]] = DirOf(s)
        BY <1>0, <1>1, <2>3 DEF TaskInv
      <4>2. /\ ~StackGone(s) => kstack[s] # f
            /\ ~DirGone(s) => page_dir[s] # f
        BY <1>2, <1>6, <3>1, <4>1 DEF KStack, DirOf
      <4>3. QED
        BY <1>1, <1>10, <2>1, <3>1, <4>1, <4>2
    <3>2. CASE s = c
      <4>0. s = k
        BY <2>0, <3>2
      <4>1. ~DirGone(k)' => from = "wait_stack"
        BY <1>2, <2>2
      <4>2. ~DirGone(k)' => page_dir[k] \in RAM /\ own[page_dir[k]] = DirOf(k)
        BY <1>0, <1>1, <2>2, <2>3, <4>0, <4>1 DEF TaskInv
      <4>3. ~DirGone(k)' => page_dir[k] # f
        BY <1>6, <4>1, <4>2 DEF KStack, DirOf
      <4>4. QED
        BY <1>1, <1>10, <2>2, <4>0, <4>2, <4>3
    <3>3. QED
      BY <3>1, <3>2
  <2>4. page_dir[0] # NULL => page_dir[0] \in RAM /\ page_dir[0] # f /\ own[page_dir[0]] = DirOf(0)
    <3>1. page_dir[0] # NULL => page_dir[0] \in RAM /\ own[page_dir[0]] = DirOf(0)
      BY <1>0, ZeroIsSlot DEF TaskInv, MemTypes, TaskTypes
    <3>2. QED
      BY <1>2, <1>4, <1>6, <3>1 DEF KStack, DirOf
  <2>5. state'[0] # "free" /\ parent'[0] = NULL /\ (page_dir'[0] # NULL => own2[page_dir'[0]] = DirOf(0))
        /\ ~(page_dir'[0] = NULL) /\ cpu' # "boot"
    BY <1>0, <1>1, <1>4, <1>10, <2>4 DEF TaskInv
  <2>6. QED
    BY <2>3, <2>5 DEF TaskInv
<1>22. CallInv(own2)'
  <2>1. l.pt = page_frame_count' - 1 /\ l.pt \in RAM
    BY <1>9, <1>13
  <2>2. "pfa_store" \notin AllocReturns /\ to # "map_table"
    BY <1>3 DEF AllocReturns
  <2>3. QED
    BY <1>6, <1>10, <1>13, <1>16, <2>1, <2>2 DEF CallInv
<1>23. Good(own2)'
  <2>1. UNCHANGED <<hw, cpu, dir, table, nic>> /\ UNCHANGED <<state, page_dir>> /\ t = current'
    BY <1>1
  <2>2. /\ PlaceOf(pc'[t], loc'[t]) \in Calm /\ loc'[t].dir = NULL /\ loc'[t].tab = NULL
    BY <1>3, <1>13, <1>15, <1>16, <2>1 DEF Calm
  <2>3. QED
    BY <1>4, <1>11, <1>18, <1>19, <1>20, <1>21, <1>22, <2>1, <2>2, QuietMove
<1>24. QED
  BY <1>14, <1>23

\* wait_clear: the child's slot is free.
LEMMA ClearStep ==
    ASSUME NEW own, MemTypes, Good(own), NEW t \in Slots, state[t] = "live", UNCHANGED <<hw, current>>,
           wait_clear(t)
    PROVE  MemTypes' /\ Good(own)'
<1>0. /\ TurnInv /\ WaitInv /\ PoolInv(own) /\ CallInv(own) /\ TaskInv(own)
  BY GoodParts
<1> DEFINE c == loc[t].slot
<1>1. /\ t = current /\ cpu \in {"boot", "run"} /\ pc[t] = "wait_clear"
      /\ UNCHANGED <<page_frames, page_frame_count, dir, table, mem, nic, cpu>>
  BY DEF wait_clear, At, memVars, pfaVars
<1>2. /\ state' = [state EXCEPT ![c] = "free"] /\ parent' = [parent EXCEPT ![c] = NULL]
      /\ page_dir' = [page_dir EXCEPT ![c] = NULL] /\ kstack' = [kstack EXCEPT ![c] = NULL]
      /\ running' = [running EXCEPT ![c] = Shell]
  BY DEF wait_clear
<1>3. Place(t) = "wait_clear" /\ Place(t) \in Waits
  BY <1>1 DEF Place, PlaceOf, Waits
<1>4. /\ cpu = "run" /\ c \in Slots /\ c # 0 /\ state[c] = "zombie" /\ parent[c] = t /\ c # t
  BY <1>1, <1>3, WaitFacts
<1>5. Moves(t, "user", NoLocals)
  BY DEF wait_clear, Local, Goto, Moves
<1>6. /\ pc'[t] = "user" /\ loc'[t] = NoLocals
      /\ \A s \in Slots : s # t => pc'[s] = pc[s] /\ loc'[s] = loc[s] /\ Place(s)' = Place(s)
      /\ PlaceOf("user", NoLocals) = "user" /\ Place(t)' = "user" /\ current' = t
  BY <1>1, <1>5, MovesTo, PlacesMove DEF PlaceOf
<1>7. /\ \A s \in Slots : s # c => /\ state'[s] = state[s] /\ parent'[s] = parent[s]
                                  /\ page_dir'[s] = page_dir[s] /\ kstack'[s] = kstack[s]
      /\ state'[c] = "free" /\ parent'[c] = NULL /\ 0 \in Slots
  BY <1>2, <1>4, ZeroIsSlot DEF MemTypes, TaskTypes
<1>8. MemTypes'
  <2>1. CallTypes'
    BY <1>5, NoLocalsType, MovesTo DEF Labels
  <2>2. SpaceTypes' /\ PoolTypes'
    BY <1>1 DEF MemTypes, SpaceTypes, PoolTypes
  <2>3. TaskTypes'
    BY <1>2, <1>4 DEF MemTypes, TaskTypes
  <2>4. QED
    BY <1>1, <2>1, <2>2, <2>3 DEF MemTypes
<1>9. TurnInv'
  <2>1. ASSUME NEW s \in Slots
        PROVE  /\ LocalOk(pc'[s], loc'[s])
               /\ s # current' => pc'[s] \in Calm
               /\ state'[s] # "live" => pc'[s] = "user"
    <3>1. CASE s = t
      BY <1>6, <3>1, NoLocalsType
    <3>2. CASE s # t
      BY <1>0, <1>1, <1>4, <1>6, <1>7, <3>2 DEF TurnInv
    <3>3. QED
      BY <3>1, <3>2
  <2>2. QED
    BY <2>1 DEF TurnInv
<1>10. WaitInv'
  <2>1. ASSUME NEW s \in Slots, Place(s)' \in Waits
        PROVE  state'[loc'[s].slot] = "zombie" /\ parent'[loc'[s].slot] = s
    <3>1. s # t
      BY <1>6, <2>1 DEF Waits
    <3>2. /\ Place(s) \in Waits /\ loc'[s] = loc[s] /\ LocalOk(pc[s], loc[s])
      BY <1>0, <1>6, <2>1, <3>1 DEF TurnInv
    <3>3. loc[s].slot \in Slots /\ state[loc[s].slot] = "zombie" /\ parent[loc[s].slot] = s
      BY <1>0, <3>2 DEF WaitInv, LocalOk, CallOk, Place
    <3>4. loc[s].slot # c
      BY <1>4, <3>1, <3>3
    <3>5. QED
      BY <1>7, <3>2, <3>3, <3>4
  <2>2. QED
    BY <2>1 DEF WaitInv
<1>11. PoolInv(own)'
  <2>1. PoolTop' = PoolTop
    BY <1>1, <1>6 DEF PoolTop
  <2>2. QED
    BY <1>0, <1>1, <2>1 DEF PoolInv
<1>12. TaskInv(own)'
  <2>1. ASSUME NEW s \in Slots, s # c
        PROVE  (StackGone(s)' <=> StackGone(s)) /\ (DirGone(s)' <=> DirGone(s))
    <3>1. parent[s] # NULL => parent[s] \in Slots
      BY DEF MemTypes, TaskTypes
    <3>2. CASE parent[s] = t
      <4>1. loc[t].slot # s /\ loc'[t].slot # s
        BY <1>6, <2>1, Sizes DEF NoLocals, NULL, Slots
      <4>2. QED
        BY <1>7, <2>1, <3>2, <4>1 DEF StackGone, DirGone, Reaped
    <3>3. CASE parent[s] # t
      BY <1>6, <1>7, <2>1, <3>1, <3>3 DEF StackGone, DirGone, Reaped
    <3>4. QED
      BY <3>2, <3>3
  <2>2. ASSUME NEW s \in Slots, s # 0, state'[s] # "free"
        PROVE  /\ ~StackGone(s)' => kstack'[s] \in RAM /\ own[kstack'[s]] = KStack(s)
               /\ ~DirGone(s)' => page_dir'[s] \in RAM /\ own[page_dir'[s]] = DirOf(s)
    <3>1. s # c
      BY <1>7, <2>2
    <3>2. QED
      BY <1>0, <1>7, <2>1, <2>2, <3>1 DEF TaskInv
  <2>3. state'[0] # "free" /\ parent'[0] = NULL /\ page_dir'[0] # NULL /\ own[page_dir'[0]] = DirOf(0)
        /\ cpu' # "boot"
    BY <1>0, <1>1, <1>4, <1>7 DEF TaskInv
  <2>4. QED
    BY <2>2, <2>3 DEF TaskInv
<1>13. loc'[t].dir = NULL /\ loc'[t].tab = NULL
  BY <1>6 DEF NoLocals
<1>14. CallInv(own)'
  <2>1. "user" \notin AllocReturns
    BY DEF AllocReturns
  <2>2. QED
    BY <1>6, <1>13, <2>1 DEF CallInv
<1>15. Keeps(own, own, {"device"}) /\ Keeps(own, own, {"table", "page"}) /\ Keeps(own, own, {"kernel"})
  BY DEF Keeps
<1>16. Good(own)'
  <2>1. UNCHANGED <<hw, cpu, dir, table, nic>> /\ t = current' /\ page_dir'[0] = page_dir[0]
    BY <1>1, <1>4, <1>7
  <2>2. /\ \A s \in Slots : state'[s] = "live" => state[s] = "live" /\ page_dir'[s] = page_dir[s]
        /\ \A s \in Slots : state[s] = "free" => state'[s] = "free"
    BY <1>7
  <2>3. PlaceOf(pc'[t], loc'[t]) \in Calm
    BY <1>6 DEF Calm
  <2>4. QED
    BY <1>4, <1>9, <1>10, <1>11, <1>12, <1>13, <1>14, <1>15, <2>1, <2>2, <2>3, QuietMove
<1>17. QED
  BY <1>8, <1>16

\* task_exit: the frames stay until the parent waits.
LEMMA ExitStep ==
    ASSUME NEW own, MemTypes, Good(own), NEW t \in Slots, state[t] = "live", UNCHANGED <<hw, current>>,
           task_exit(t)
    PROVE  MemTypes' /\ Good(own)'
<1>0. /\ TurnInv /\ WaitInv /\ PoolInv(own) /\ CallInv(own) /\ TaskInv(own)
  BY GoodParts
<1>1. /\ pc[t] = "user" /\ At(t, pc[t]) /\ pc[t] \in CalmPlaces
      /\ UNCHANGED <<page_frames, page_frame_count, dir, table, mem, nic, cpu, pc, loc>>
      /\ UNCHANGED <<parent, page_dir, kstack, running>> /\ state' = [state EXCEPT ![t] = "zombie"]
  BY DEF task_exit, At, memVars, pfaVars, CalmPlaces
<1>2. cpu = "run" /\ t = current /\ loc[t].dir = NULL /\ loc[t].tab = NULL
  BY <1>1, CalmFacts
<1>3. /\ \A s \in Slots : s # t => state'[s] = state[s]
      /\ state'[t] = "zombie" /\ 0 \in Slots
  BY <1>1, ZeroIsSlot DEF MemTypes, TaskTypes
<1>4. MemTypes'
  <2>1. CallTypes' /\ SpaceTypes' /\ PoolTypes'
    BY <1>1 DEF MemTypes, SpaceTypes, PoolTypes, CallTypes
  <2>2. TaskTypes'
    BY <1>1 DEF MemTypes, TaskTypes
  <2>3. QED
    BY <1>1, <2>1, <2>2 DEF MemTypes
<1>5. TurnInv'
  BY <1>0, <1>1, <1>3 DEF TurnInv
<1>6. WaitInv'
  <2>1. ASSUME NEW s \in Slots, Place(s)' \in Waits
        PROVE  state'[loc'[s].slot] = "zombie" /\ parent'[loc'[s].slot] = s
    <3>1. Place(s) \in Waits /\ LocalOk(pc[s], loc[s])
      BY <1>0, <1>1, <2>1 DEF Place, TurnInv
    <3>2. loc[s].slot \in Slots /\ state[loc[s].slot] = "zombie" /\ parent[loc[s].slot] = s
      BY <1>0, <3>1 DEF WaitInv, LocalOk, CallOk, Place
    <3>3. QED
      BY <1>1, <1>3, <3>2
  <2>2. QED
    BY <2>1 DEF WaitInv
<1>7. PoolInv(own)'
  <2>1. PoolTop' = PoolTop
    BY <1>1 DEF PoolTop
  <2>2. QED
    BY <1>0, <1>1, <2>1 DEF PoolInv
<1>8. TaskInv(own)'
  <2>1. ASSUME NEW s \in Slots PROVE (StackGone(s)' <=> StackGone(s)) /\ (DirGone(s)' <=> DirGone(s))
    BY <1>1 DEF StackGone, DirGone, Reaped, Place
  <2>2. \A s \in Slots : state'[s] = "free" <=> state[s] = "free"
    BY <1>3
  <2>3. cpu' # "boot" /\ page_dir[0] # NULL
    BY <1>0, <1>1, <1>2 DEF TaskInv
  <2>4. QED
    BY <1>0, <1>1, <1>3, <2>1, <2>2, <2>3 DEF TaskInv
<1>9. CallInv(own)'
  <2>1. "user" \notin AllocReturns /\ Place(current)' = "user"
    BY <1>1, <1>2 DEF AllocReturns, Place, PlaceOf
  <2>2. QED
    BY <1>1, <1>2, <2>1 DEF CallInv
<1>10. Keeps(own, own, {"device"}) /\ Keeps(own, own, {"table", "page"}) /\ Keeps(own, own, {"kernel"})
  BY DEF Keeps
<1>11. Good(own)'
  <2>1. UNCHANGED <<hw, cpu, dir, table, nic>> /\ t = current' /\ page_dir'[0] = page_dir[0]
    BY <1>1, <1>2
  <2>2. /\ \A s \in Slots : state'[s] = "live" => state[s] = "live" /\ page_dir'[s] = page_dir[s]
        /\ \A s \in Slots : state[s] = "free" => state'[s] = "free"
    BY <1>1, <1>3
  <2>3. PlaceOf(pc'[t], loc'[t]) \in Calm /\ loc'[t].dir = NULL /\ loc'[t].tab = NULL
    BY <1>1, <1>2 DEF Calm, PlaceOf
  <2>4. QED
    BY <1>2, <1>5, <1>6, <1>7, <1>8, <1>9, <1>10, <2>1, <2>2, <2>3, QuietMove
<1>12. QED
  BY <1>4, <1>11

-----------------------------------------------------------------------------
(* Mapping a page.                                                           *)

\* A live task has its directory.
LEMMA LiveDir ==
    ASSUME NEW own, MemTypes, Good(own), Booted, NEW t \in Slots, state[t] = "live"
    PROVE  page_dir[t] \in RAM /\ own[page_dir[t]] = DirOf(t)
<1>0. WaitInv /\ TaskInv(own)
  BY GoodParts
<1>1. CASE t = 0
  BY <1>0, <1>1 DEF TaskInv, Booted, MemTypes, TaskTypes
<1>2. CASE t # 0
  <2>1. ~DirGone(t)
    <3> SUFFICES ASSUME DirGone(t) PROVE FALSE
      OBVIOUS
    <3>1. parent[t] \in Slots /\ loc[parent[t]].slot = t /\ Place(parent[t]) \in Waits
      BY DEF DirGone, Reaped, Waits, MemTypes, TaskTypes
    <3>2. state[t] = "zombie"
      BY <1>0, <3>1 DEF WaitInv
    <3>3. QED
      BY <3>2
  <2>2. QED
    BY <1>0, <1>2, <2>1 DEF TaskInv
<1>3. QED
  BY <1>1, <1>2

\* Only frames in the hands of the running call and its locals change.
LEMMA StaticMove ==
    ASSUME NEW own, NEW own2, MemTypes, Good(own), NEW t \in Slots, t = current, state[t] = "live", Booted,
           UNCHANGED <<hw, current, cpu, page_frames, page_frame_count, dir, table, nic>>,
           UNCHANGED <<state, parent, page_dir, kstack>>,
           Keeps(own, own2, Settled), Keeps(own, own2, {"free"}),
           NEW q, NEW m, Moves(t, q, m), LocalOk(q, m), pc[t] # "pfa_store", q # "pfa_store",
           Place(t) \notin Waits, PlaceOf(q, m) \notin Waits, PlaceOf(q, m) \notin {"init_dir", "init_table"},
           PurposeOf(q, m) \in Boots <=> Purpose(t) \in Boots,
           CopyInv(own2)', SeenInv', CallInv(own2)', DeviceInv', AloneInv'
    PROVE  Good(own2)'
<1>0. /\ TurnInv /\ BootInv /\ WaitInv /\ PoolInv(own) /\ TaskInv(own) /\ NicInv(own) /\ SpaceInv(own)
  BY GoodParts
<1>1. /\ pc'[current'] = q /\ loc'[current'] = m /\ Place(current)' = PlaceOf(q, m)
      /\ Purpose(current)' = PurposeOf(q, m) /\ current' = current
  BY MovesTo, PlacesMove
<1>2. TurnInv'
  BY <1>0, TurnKept
<1>3. BootInv'
  BY <1>0, <1>1 DEF BootInv
<1>4. WaitInv'
  BY <1>0, WaitKept
<1>5. PoolInv(own2)'
  <2>1. PoolTop' = PoolTop
    BY <1>1 DEF PoolTop
  <2>2. ASSUME NEW i \in 0 .. PoolTop - 1 PROVE own2[page_frames[i]] = Free(i)
    <3>0. page_frame_count \in 0 .. NFRAMES /\ PoolTop = page_frame_count
      BY DEF PoolTop, MemTypes, PoolTypes
    <3>1. i \in RAM
      BY <3>0, Sizes DEF RAM
    <3>2. own[page_frames[i]] = Free(i) /\ page_frames[i] \in RAM
      BY <1>0, <3>1 DEF PoolInv, MemTypes, PoolTypes
    <3>3. QED
      BY <3>2 DEF Keeps, Free
  <2>3. QED
    BY <2>1, <2>2 DEF PoolInv
<1>6. TaskInv(own2)'
  <2>1. Place(t) \notin {"wait_dir", "wait_clear"} /\ PlaceOf(q, m) \notin {"wait_dir", "wait_clear"}
    BY DEF Waits
  <2>2. cpu = "boot" => Place(t) # "init_dir"
    BY DEF Booted
  <2>3. QED
    BY <1>0, <2>1, <2>2, KeepsLess, TasksKept
<1>7. NicInv(own2)'
  BY <1>0, KeepsLess, NicKept
<1>8. Booted'
  BY <1>1 DEF Booted
<1>9. EarlyInv(own2)'
  BY <1>8 DEF EarlyInv
<1>10. SpaceInv(own2)'
  <2>0. LiveInv(own) /\ KernelInv(own)
    BY <1>0 DEF SpaceInv
  <2>1. LiveInv(own2)'
    BY <2>0, KeepsLess, LiveKept
  <2>2. Zero' = Zero /\ Device' = Device
    BY DEF Zero, Device
  <2>3. KernelInv(own2)'
    BY <2>0, <2>2, KeepsLess, KernelKept
  <2>4. QED
    BY <2>1, <2>3 DEF SpaceInv
<1>11. QED
  BY <1>2, <1>3, <1>4, <1>5, <1>6, <1>7, <1>9, <1>10 DEF Good, Placed, HoldInv

\* A task that maps a page.
LEMMA MapFacts ==
    ASSUME NEW own, MemTypes, Good(own), NEW t \in Slots, state[t] = "live", t = current, cpu \in {"boot", "run"},
           pc[t] \in Maps
    PROVE  /\ loc[t] \in LocType /\ LocalOk(pc[t], loc[t]) /\ loc[t].dir = NULL /\ loc[t].tab = NULL
           /\ Place(t) = pc[t] /\ Purpose(t) = loc[t].back /\ Booted
           /\ page_dir[t] \in RAM /\ own[page_dir[t]] = DirOf(t)
           /\ LiveInv(own) /\ KernelInv(own)
           /\ loc[t].vp \in Nat /\ PD(loc[t].vp) \in PDs /\ PT(loc[t].vp) \in PTs
           /\ ForProgram(loc[t]) => cpu = "run" /\ loc[t].back \in Execs
           /\ ForCard(loc[t]) => cpu = "boot" /\ t = 0 /\ PD(loc[t].vp) = DEVICE_PD /\ hw.nic /\ nic[PT(loc[t].vp)] = NULL
           /\ ForScreen(loc[t]) => cpu = "boot" /\ t = 0 /\ PD(loc[t].vp) = DEVICE_PD /\ hw.vbe
           /\ pc[t] = "map_page" => ForScreen(loc[t])
           /\ pc[t] = "map_got" => ForProgram(loc[t]) \/ ForCard(loc[t])
           /\ pc[t] = "map_table" => ForProgram(loc[t]) \/ ForCard(loc[t]) \/ ForScreen(loc[t])
<1>0. TurnInv /\ BootInv /\ SeenInv /\ SpaceInv(own)
  BY GoodParts
<1>1. loc[t] \in LocType /\ LocalOk(pc[t], loc[t])
  BY <1>0 DEF MemTypes, CallTypes, TurnInv
<1>2. PlaceOf(pc[t], loc[t]) = pc[t] /\ PurposeOf(pc[t], loc[t]) = loc[t].back
  BY DEF PlaceOf, PurposeOf, Maps
<1>3. Place(t) = pc[t] /\ Purpose(t) = loc[t].back
  BY <1>2 DEF Place, Purpose
<1>4. Booted
  BY <1>3 DEF Booted, Maps
<1>5. loc[t].dir = NULL /\ loc[t].tab = NULL
  BY <1>1, <1>2, PlaceNames DEF LocalOk, CallOk
<1>6. page_dir[t] \in RAM /\ own[page_dir[t]] = DirOf(t)
  BY <1>4, LiveDir
<1>7. /\ pc[t] = "map_page" => ForScreen(loc[t])
      /\ pc[t] = "map_got" => ForProgram(loc[t]) \/ ForCard(loc[t])
      /\ pc[t] = "map_table" => ForProgram(loc[t]) \/ ForCard(loc[t]) \/ ForScreen(loc[t])
  BY <1>1, <1>2 DEF LocalOk, MapOk
<1>8. ForProgram(loc[t]) \/ ForCard(loc[t]) \/ ForScreen(loc[t])
  BY <1>7 DEF Maps
<1>9. loc[t].vp \in Nat /\ PD(loc[t].vp) \in PDs
  BY <1>8, Sizes DEF ForProgram, ForCard, ForScreen, DevicePage, PDs
<1>10. PT(loc[t].vp) \in PTs
  BY <1>9, PageTypes
<1>11. ForProgram(loc[t]) => cpu = "run" /\ loc[t].back \in Execs
  BY <1>0, <1>3 DEF ForProgram, Boots, BootInv, Execs
<1>12. ForCard(loc[t]) => cpu = "boot" /\ t = 0 /\ PD(loc[t].vp) = DEVICE_PD /\ hw.nic /\ nic[PT(loc[t].vp)] = NULL
  BY <1>0, <1>3 DEF ForCard, DevicePage, Boots, BootInv, SeenInv
<1>13. ForScreen(loc[t]) => cpu = "boot" /\ t = 0 /\ PD(loc[t].vp) = DEVICE_PD /\ hw.vbe
  BY <1>0, <1>3 DEF ForScreen, DevicePage, Boots, BootInv, SeenInv
<1>14. LiveInv(own) /\ KernelInv(own)
  BY <1>0, <1>4 DEF SpaceInv
<1>15. QED
  BY <1>1, <1>3, <1>4, <1>5, <1>6, <1>7, <1>9, <1>10, <1>11, <1>12, <1>13, <1>14

\* There is no table yet: ask for one.
LEMMA MapAllocStep ==
    ASSUME NEW own, MemTypes, Good(own), NEW t \in Slots, state[t] = "live", t = current, cpu \in {"boot", "run"},
           pc[t] \in {"map_got", "map_page"}, UNCHANGED <<hw, current>>,
           UNCHANGED <<pfaVars, dir, table, mem, nic, taskVars, cpu>>,
           dir[page_dir[t]][PD(loc[t].vp)] = Absent,
           Alloc(t, [loc[t] EXCEPT !.f = IF pc[t] = "map_got" THEN loc[t].got ELSE loc[t].f], "map_table")
    PROVE  MemTypes' /\ \E own2 : Good(own2)'
<1>0. /\ SeenInv /\ CallInv(own) /\ DeviceInv /\ AloneInv
  BY GoodParts
<1>1. pc[t] \in Maps
  BY DEF Maps
<1>2. /\ loc[t] \in LocType /\ LocalOk(pc[t], loc[t]) /\ loc[t].dir = NULL /\ loc[t].tab = NULL
      /\ Place(t) = pc[t] /\ Purpose(t) = loc[t].back /\ Booted
  BY <1>1, MapFacts
<1>3. /\ pc[t] = "map_page" => ForScreen(loc[t])
      /\ pc[t] = "map_got" => ForProgram(loc[t]) \/ ForCard(loc[t])
  BY <1>1, MapFacts
<1>4. PICK f \in Int : f = IF pc[t] = "map_got" THEN loc[t].got ELSE loc[t].f
  BY <1>2, Sizes DEF LocType, RAM, NULL
<1>5. pc[t] = "map_got" => f \in RAM /\ own[f] = Got
  BY <1>0, <1>4 DEF CallInv, AllocReturns
<1> DEFINE m == [loc[t] EXCEPT !.f = f, !.ret = "map_table"]
<1>o. PICK own2 : own2 = IF pc[t] = "map_got" THEN Retag(own, f, InHand) ELSE own
  OBVIOUS
<1>6. Keeps(own, own2, Settled) /\ Keeps(own, own2, {"free"})
  <2>1. CASE pc[t] = "map_got"
    BY <1>o, <1>5, <2>1, RetagKeeps DEF Settled, Got
  <2>2. CASE pc[t] # "map_got"
    BY <1>o, <2>2 DEF Keeps
  <2>3. QED
    BY <2>1, <2>2
<1>7. pc[t] = "map_got" => own2[f] = InHand
  BY <1>o, <1>5 DEF Retag
<1>8. Moves(t, "pfa_alloc", m)
  BY <1>4 DEF Alloc, Goto, Local, Moves
<1>9. /\ m.f = f /\ m.ret = "map_table" /\ m.back = loc[t].back /\ m.vp = loc[t].vp /\ m.u = loc[t].u
      /\ m.pt = loc[t].pt /\ m.prog = loc[t].prog /\ m.seg = loc[t].seg /\ m.a = loc[t].a /\ m.left = loc[t].left
      /\ m.dir = NULL /\ m.tab = NULL /\ m \in LocType
  <2>1. "map_table" \in Labels
    BY DEF Labels
  <2>2. m \in LocType
    BY <1>2, <2>1 DEF LocType
  <2>3. QED
    BY <1>2, <2>2 DEF LocType
<1> HIDE DEF m
<1>10. UNCHANGED <<page_frames, page_frame_count>> /\ UNCHANGED <<state, parent, page_dir, kstack, running>>
  BY DEF pfaVars, taskVars
<1>11. MemTypes'
  <2>1. CallTypes'
    BY <1>8, <1>9, MovesTo DEF Labels
  <2>2. QED
    BY <1>10, <2>1 DEF MemTypes, PoolTypes, SpaceTypes, TaskTypes
<1>12. /\ PlaceOf("pfa_alloc", m) = "map_table" /\ PurposeOf("pfa_alloc", m) = loc[t].back
       /\ PurposeOf(pc[t], loc[t]) = loc[t].back
  BY <1>9 DEF PlaceOf, PurposeOf, Maps
<1>13. LocalOk("pfa_alloc", m)
  <2>1. CallOk("pfa_alloc", m)
    BY <1>9, <1>12 DEF CallOk, AllocReturns, Waits
  <2>2. ForProgram(m) \/ ForCard(m) \/ ForScreen(m)
    <3>1. ForProgram(loc[t]) => ForProgram(m)
      BY <1>9 DEF ForProgram
    <3>2. ForCard(loc[t]) => ForCard(m)
      BY <1>9 DEF ForCard, DevicePage
    <3>3. pc[t] = "map_page" => ForScreen(m)
      BY <1>3, <1>4, <1>9 DEF ForScreen, DevicePage
    <3>4. QED
      BY <1>3, <3>1, <3>2, <3>3
  <2>3. MapOk("pfa_alloc", m)
    BY <1>2, <1>9, <1>12, <2>2 DEF MapOk, LocalOk
  <2>4. ExecOk("pfa_alloc", m)
    BY <1>2, <1>9, <1>12 DEF ExecOk, LocalOk
  <2>5. ForkOk("pfa_alloc", m)
    BY <1>12 DEF ForkOk, Forks
  <2>6. QED
    BY <2>1, <2>3, <2>4, <2>5 DEF LocalOk
<1>14. /\ pc'[current'] = "pfa_alloc" /\ loc'[current'] = m /\ Place(current)' = "map_table"
       /\ Purpose(current)' = loc[t].back /\ current' = t
  BY <1>8, <1>12, MovesTo, PlacesMove
<1>15. SeenInv'
  <2>1. pc[t] \in Maps /\ "map_table" \in Maps /\ "map_table" \notin Forks /\ "map_table" \notin {"clone_table", "clone_pte", "clone_page"}
    BY <1>1 DEF Maps, Forks
  <2>2. /\ loc[t].back = "nic_got" => hw.nic /\ nic[PT(loc[t].vp)] = NULL
        /\ loc[t].back = "fb" => hw.vbe
    BY <1>0, <1>2, <2>1 DEF SeenInv
  <2>3. QED
    BY <1>9, <1>10, <1>14, <2>1, <2>2 DEF SeenInv
<1>16. CallInv(own2)'
  <2>1. loc[t].back # "fb" => f \in RAM /\ own2[f] = InHand
    <3>1. loc[t].back # "fb" => pc[t] = "map_got"
      BY <1>3 DEF ForScreen
    <3>2. QED
      BY <1>5, <1>7, <3>1
  <2>2. "pfa_alloc" \notin AllocReturns
    BY DEF AllocReturns
  <2>3. QED
    BY <1>9, <1>14, <2>1, <2>2 DEF CallInv
<1>17. CopyInv(own2)'
  BY <1>9, <1>14 DEF CopyInv
<1>18. DeviceInv'
  <2>1. Shown' = Shown
    BY <1>1, <1>2, <1>9, <1>14 DEF Shown, Maps
  <2>2. QED
    BY <1>0, <1>2, <1>10, <1>14, <2>1, DeviceSame
<1>19. AloneInv'
  <2>1. Device' = Device /\ "map_table" \notin Forks /\ "map_table" \notin {"clone_pte", "clone_page"}
    BY <1>10 DEF Device, Forks
  <2>2. QED
    BY <1>0, <1>10, <1>14, <2>1 DEF AloneInv
<1>20. /\ Place(t) \notin Waits /\ "map_table" \notin Waits /\ "map_table" \notin {"init_dir", "init_table"}
  BY <1>1, <1>2 DEF Maps, Waits
<1>21. Good(own2)'
  BY <1>2, <1>6, <1>8, <1>10, <1>12, <1>13, <1>15, <1>16, <1>17, <1>18, <1>19, <1>20, StaticMove
<1>22. QED
  BY <1>11, <1>21

\* A page of a program is in place: only this task's directory has changed.
LEMMA ProgramMapped ==
    ASSUME NEW own, NEW own2, MemTypes, Good(own), NEW t \in Slots, t = current, state[t] = "live",
           cpu \in {"boot", "run"}, pc[t] \in Maps, ForProgram(loc[t]),
           UNCHANGED <<hw, current, cpu, page_frames, page_frame_count, nic>>,
           UNCHANGED <<state, parent, page_dir, kstack>>,
           Moves(t, loc[t].back, loc[t]),
           Keeps(own, own2, Settled), Keeps(own, own2, {"free"}),
           \A f \in RAM : f # page_dir[t] => dir'[f] = dir[f],
           dir'[page_dir[t]][0] = dir[page_dir[t]][0], dir'[page_dir[t]][DEVICE_PD] = dir[page_dir[t]][DEVICE_PD],
           \A f \in RAM : own[f][1] # "got" /\ ~Mine(own[f], page_dir[t]) => table'[f] = table[f],
           Shape(table', own2, dir'[page_dir[t]], page_dir[t], DEVICE_PD + 1, Zero, Device)
    PROVE  Good(own2)'
<1>0. /\ TurnInv /\ BootInv /\ WaitInv /\ PoolInv(own) /\ TaskInv(own) /\ NicInv(own) /\ DeviceInv /\ AloneInv
  BY GoodParts
<1>1. /\ loc[t] \in LocType /\ LocalOk(pc[t], loc[t]) /\ loc[t].dir = NULL /\ loc[t].tab = NULL
      /\ Place(t) = pc[t] /\ Purpose(t) = loc[t].back /\ Booted
      /\ page_dir[t] \in RAM /\ own[page_dir[t]] = DirOf(t)
      /\ LiveInv(own) /\ KernelInv(own) /\ cpu = "run" /\ loc[t].back \in Execs
  BY MapFacts
<1>2. PICK p \in Execs, d \in RAM : p = loc[t].back /\ d = page_dir[t]
  BY <1>1
<1>3. /\ PlaceOf(p, loc[t]) = p /\ PurposeOf(p, loc[t]) = p /\ PurposeOf(pc[t], loc[t]) = p
      /\ p \notin AllocReturns /\ p \notin {"pfa_read", "pfa_store", "nic_got", "map_table"}
      /\ p \notin Maps /\ p \notin Forks /\ p \notin Boots /\ p \notin Waits
      /\ p \notin {"clone_table", "clone_pte", "clone_page"} /\ p \notin {"init_dir", "init_table"}
      /\ p \notin {"wait_dir", "wait_clear"}
  <2>1. PurposeOf(pc[t], loc[t]) = p
    BY <1>1, <1>2 DEF Purpose
  <2>2. QED
    BY <2>1 DEF PlaceOf, PurposeOf, Execs, AllocReturns, Maps, Forks, Boots, Waits
<1>4. Moves(t, p, loc[t])
  BY <1>2
<1>5. LocalOk(p, loc[t])
  <2>1. ExecOk(p, loc[t])
    BY <1>1, <1>3 DEF LocalOk, ExecOk
  <2>2. QED
    BY <1>1, <2>1, ExecLocal
<1>6. /\ pc'[current'] = p /\ loc'[current'] = loc[t] /\ Place(current)' = p
      /\ Purpose(current)' = p /\ current' = t
  BY <1>3, <1>4, MovesTo, PlacesMove
<1>7. TurnInv'
  BY <1>0, <1>4, <1>5, TurnKept
<1>8. BootInv'
  BY <1>1, <1>3, <1>6 DEF BootInv
<1>9. WaitInv'
  BY <1>0, <1>3, <1>4, WaitKept
<1>10. SeenInv'
  BY <1>3, <1>6 DEF SeenInv
<1>11. PoolInv(own2)'
  <2>1. PoolTop' = PoolTop /\ PoolTop = page_frame_count /\ page_frame_count \in 0 .. NFRAMES
    BY <1>3, <1>6 DEF PoolTop, Maps, MemTypes, PoolTypes
  <2>2. ASSUME NEW i \in 0 .. PoolTop - 1 PROVE own2[page_frames[i]] = Free(i)
    <3>1. i \in RAM
      BY <2>1, Sizes DEF RAM
    <3>2. own[page_frames[i]] = Free(i) /\ page_frames[i] \in RAM
      BY <1>0, <3>1 DEF PoolInv, MemTypes, PoolTypes
    <3>3. QED
      BY <3>2 DEF Keeps, Free
  <2>3. QED
    BY <2>1, <2>2 DEF PoolInv
<1>12. TaskInv(own2)'
  <2>1. Place(t) \notin {"wait_dir", "wait_clear"}
    BY <1>1 DEF Maps
  <2>2. QED
    BY <1>0, <1>1, <1>3, <1>4, <2>1, KeepsLess, TasksKept
<1>13. NicInv(own2)'
  BY <1>0, KeepsLess, NicKept
<1>14. Booted'
  BY <1>3, <1>6 DEF Booted
<1>15. EarlyInv(own2)'
  BY <1>14 DEF EarlyInv
<1>16. CallInv(own2)'
  BY <1>1, <1>3, <1>6 DEF CallInv
<1>17. page_dir[0] \in RAM /\ own[page_dir[0]] = DirOf(0)
  <2>1. page_dir[0] # NULL
    BY <1>0, <1>1 DEF TaskInv
  <2>2. QED
    BY <1>0, <2>1, ZeroIsSlot DEF TaskInv, MemTypes, TaskTypes
<1>18. Zero' = Zero /\ Device' = Device
  <2>1. CASE page_dir[0] = d
    BY <1>2, <2>1 DEF Zero, Device
  <2>2. CASE page_dir[0] # d
    BY <1>2, <1>17, <2>2 DEF Zero, Device
  <2>3. QED
    BY <2>1, <2>2
<1>19. \A f \in RAM : own[f][1] = "kernel" => table'[f] = table[f]
  BY DEF Mine
<1>20. LiveInv(own2)'
  <2>1. ASSUME NEW s \in Slots, state'[s] = "live"
        PROVE  Shape(table', own2, dir'[page_dir'[s]], page_dir'[s], DEVICE_PD + 1, Zero', Device')
    <3>1. CASE s = t
      BY <1>18, <3>1
    <3>2. CASE s # t
      <4>1. PICK e, D, z, v : e = page_dir[s] /\ D = dir[page_dir[s]] /\ z = Zero /\ v = Device
        OBVIOUS
      <4>2. e \in RAM /\ own[e] = DirOf(s)
        BY <1>1, <2>1, <4>1, LiveDir
      <4>3. e # d
        BY <1>1, <1>2, <3>2, <4>2 DEF DirOf
      <4>4. Untouched(table, table', own, own2, e)
        <5>1. ASSUME NEW f \in RAM, Mine(own[f], e) PROVE own2[f] = own[f] /\ table'[f] = table[f]
          <6>1. own2[f] = own[f]
            BY <5>1 DEF Mine, Keeps, Settled
          <6>2. ~Mine(own[f], d) /\ own[f][1] # "got"
            BY <4>3, <5>1 DEF Mine
          <6>3. QED
            BY <1>2, <6>1, <6>2
        <5>2. QED
          BY <5>1 DEF Untouched
      <4>5. Shape(table, own, D, e, DEVICE_PD + 1, z, v)
        BY <1>1, <2>1, <4>1 DEF LiveInv
      <4>6. DEVICE_PD + 1 \in 0 .. DEVICE_PD + 1
        BY Sizes
      <4>7. Shape(table', own2, D, e, DEVICE_PD + 1, z, v)
        BY <4>4, <4>5, <4>6, ShapeKept
      <4>8. D = dir'[page_dir'[s]] /\ e = page_dir'[s] /\ z = Zero' /\ v = Device'
        BY <1>2, <1>18, <4>1, <4>2, <4>3
      <4>9. QED
        BY <4>7, <4>8
    <3>3. QED
      BY <3>1, <3>2
  <2>2. QED
    BY <2>1 DEF LiveInv
<1>21. CopyInv(own2)'
  BY <1>1, <1>6 DEF CopyInv
<1>22. KernelInv(own2)'
  <2>1. Keeps(own, own2, {"kernel"})
    BY KeepsLess
  <2>2. \A f \in RAM : own[f] = KernelTable(0) => table'[f] = table[f]
    BY <1>19 DEF KernelTable
  <2>3. QED
    BY <1>1, <1>18, <2>1, <2>2, KernelKept
<1>23. SpaceInv(own2)'
  BY <1>20, <1>21, <1>22 DEF SpaceInv
<1>24. DeviceInv'
  <2>1. Device # Absent => table'[Device.f] = table[Device.f]
    BY <1>1, <1>19 DEF KernelInv, KernelTable
  <2>2. QED
    BY <1>0, <1>1, <1>18, <2>1, DeviceKept
<1>25. AloneInv'
  BY <1>0, <1>1, <1>3, <1>6, <1>18 DEF AloneInv
<1>26. QED
  BY <1>7, <1>8, <1>9, <1>10, <1>11, <1>12, <1>13, <1>15, <1>16, <1>23, <1>24, <1>25 DEF Good, Placed, HoldInv

\* The entry x is written into a table.
Enters(k, i, x) == table' = [table EXCEPT ![k][i] = x]

\* paging_map_page for a program, its table exists.
LEMMA ProgramPageStep ==
    ASSUME NEW own, MemTypes, Good(own), NEW t \in Slots, state[t] = "live", t = current, cpu \in {"boot", "run"},
           pc[t] = "map_got", UNCHANGED <<hw, current>>, ForProgram(loc[t]),
           UNCHANGED <<pfaVars, dir, mem, nic, taskVars, cpu, loc>>,
           dir[page_dir[t]][PD(loc[t].vp)] # Absent,
           Enters(dir[page_dir[t]][PD(loc[t].vp)].f, PT(loc[t].vp), [f |-> loc[t].got, u |-> loc[t].u]),
           Goto(t, loc[t].back)
    PROVE  MemTypes' /\ \E own2 : Good(own2)'
<1>0. CallInv(own)
  BY GoodParts
<1>1. pc[t] \in Maps
  BY DEF Maps
<1>2. /\ loc[t] \in LocType /\ Booted /\ page_dir[t] \in RAM /\ own[page_dir[t]] = DirOf(t)
      /\ LiveInv(own) /\ PT(loc[t].vp) \in PTs /\ loc[t].back \in Execs
  BY <1>1, MapFacts
<1>3. PICK g \in RAM : g = loc[t].got /\ own[g] = Got
  BY <1>0 DEF CallInv, AllocReturns
<1>4. PICK d \in RAM, p \in 1 .. DEVICE_PD - 1, i \in PTs :
         d = page_dir[t] /\ p = PD(loc[t].vp) /\ i = PT(loc[t].vp) /\ loc[t].u = TRUE
  BY <1>2 DEF ForProgram, LocType
<1>5. PICK D, z, v : D = dir[d] /\ z = Zero /\ v = Device
  OBVIOUS
<1>6. D[p] # Absent /\ Shape(table, own, D, d, DEVICE_PD + 1, z, v)
  BY <1>2, <1>4, <1>5 DEF LiveInv
<1>7. table' = [table EXCEPT ![D[p].f][i] = [f |-> g, u |-> TRUE]]
  BY <1>3, <1>4, <1>5 DEF Enters
<1>8. table \in Tables
  BY DEF MemTypes, SpaceTypes, Tables
<1> DEFINE own2 == Retag(own, g, PageOf(d, p, i))
<1>9. Shape(table', own2, D, d, DEVICE_PD + 1, z, v)
  <2>1. PICK T, T2 : T = table /\ T2 = table'
    OBVIOUS
  <2>2. T \in Tables /\ Shape(T, own, D, d, DEVICE_PD + 1, z, v) /\ T2 = [T EXCEPT ![D[p].f][i] = [f |-> g, u |-> TRUE]]
    BY <1>6, <1>7, <1>8, <2>1
  <2>3. Shape(T2, own2, D, d, DEVICE_PD + 1, z, v)
    BY <1>3, <1>6, <2>2, ShapeSetPage
  <2>4. QED
    BY <2>1, <2>3
<1>10. Keeps(own, own2, Settled) /\ Keeps(own, own2, {"free"})
  BY <1>3, RetagKeeps DEF Settled, Got
<1> HIDE DEF own2
<1>11. D[p].f \in RAM /\ own[D[p].f] = TableOf(d, p)
  <2>1. UserEntry(table, own, D[p], d, p)
    BY <1>6, Sizes DEF Shape
  <2>2. QED
    BY <1>6, <2>1 DEF UserEntry
<1>12. \A f \in RAM : own[f][1] # "got" /\ ~Mine(own[f], d) => table'[f] = table[f]
  <2>1. \A f \in RAM : f # D[p].f => table'[f] = table[f]
    BY <1>7, <1>8 DEF Tables
  <2>2. Mine(own[D[p].f], d)
    BY <1>11, UserTags
  <2>3. QED
    BY <2>1, <2>2
<1>13. UNCHANGED <<page_frames, page_frame_count>> /\ UNCHANGED <<state, parent, page_dir, kstack, running>>
  BY DEF pfaVars, taskVars
<1>14. Moves(t, loc[t].back, loc[t])
  BY DEF Goto, Moves, MemTypes, CallTypes
<1>15. MemTypes'
  <2>1. CallTypes'
    <3>1. PICK q \in Labels, l \in LocType : q = loc[t].back /\ l = loc[t]
      BY <1>2 DEF LocType
    <3>2. Moves(t, q, l)
      BY <1>14, <3>1
    <3>3. QED
      BY <3>2, MovesTo
  <2>2. table' \in [RAM -> [PTs -> Entries]]
    <3>1. [f |-> g, u |-> TRUE] \in Entries
      BY Sizes DEF Entries, RAM
    <3>2. PICK T, T2, k, e : T = table /\ T2 = table' /\ k = D[p].f /\ e = [f |-> g, u |-> TRUE]
      OBVIOUS
    <3>3. T \in Tables /\ k \in RAM /\ e \in Entries
      BY <1>8, <1>11, <3>1, <3>2
    <3>t. T2 = [T EXCEPT ![k][i] = e]
      BY <1>7, <3>2
    <3>4. T2 \in Tables
      BY <3>3, <3>t, EntrySet, Zenon
    <3>5. QED
      BY <3>2, <3>4 DEF Tables
  <2>u. UNCHANGED <<dir, mem, nic>>
    OBVIOUS
  <2>3. SpaceTypes'
    <3>1. dir' \in [RAM -> [PDs -> Entries]]
      BY <2>u DEF MemTypes, SpaceTypes
    <3>2. QED
      BY <2>u, <2>2, <3>1, SpaceStays
  <2>4. PoolTypes' /\ TaskTypes'
    BY <1>13 DEF MemTypes, PoolTypes, TaskTypes
  <2>5. QED
    BY <2>1, <2>3, <2>4 DEF MemTypes
<1>16. Good(own2)'
  <2>1. Shape(table', own2, dir'[page_dir[t]], page_dir[t], DEVICE_PD + 1, Zero, Device)
    BY <1>4, <1>5, <1>9
  <2>2. UNCHANGED <<hw, current, cpu, page_frames, page_frame_count, nic>> /\ UNCHANGED <<state, parent, page_dir, kstack>>
    BY <1>13
  <2>3. \A f \in RAM : own[f][1] # "got" /\ ~Mine(own[f], page_dir[t]) => table'[f] = table[f]
    BY <1>4, <1>12
  <2>4. QED
    BY <1>1, <1>10, <1>14, <2>1, <2>2, <2>3, ProgramMapped
<1>17. QED
  BY <1>15, <1>16

\* map_table for a program: a table with its first page.
LEMMA ProgramTableStep ==
    ASSUME NEW own, MemTypes, Good(own), NEW t \in Slots, state[t] = "live", UNCHANGED <<hw, current>>,
           map_table(t), ForProgram(loc[t])
    PROVE  MemTypes' /\ \E own2 : Good(own2)'
<1>0. CallInv(own)
  BY GoodParts
<1>1. pc[t] \in Maps /\ pc[t] = "map_table" /\ t = current /\ cpu \in {"boot", "run"}
  BY DEF Maps, map_table, At
<1>2. /\ loc[t] \in LocType /\ Booted /\ page_dir[t] \in RAM /\ own[page_dir[t]] = DirOf(t) /\ Place(t) = "map_table"
      /\ LiveInv(own) /\ PT(loc[t].vp) \in PTs /\ loc[t].back \in Execs
  BY <1>1, MapFacts
<1>3. PICK g \in RAM : g = loc[t].got /\ own[g] = Got
  BY <1>0, <1>1 DEF CallInv, AllocReturns
<1>4. PICK f \in RAM : f = loc[t].f /\ own[f] = InHand
  BY <1>0, <1>1, <1>2 DEF CallInv, Execs
<1>5. PICK d \in RAM, p \in 1 .. DEVICE_PD - 1, i \in PTs :
         d = page_dir[t] /\ p = PD(loc[t].vp) /\ i = PT(loc[t].vp) /\ loc[t].u = TRUE
  BY <1>2 DEF ForProgram, LocType
<1>6. PICK D, D2, z, v : D = dir[d] /\ D2 = [D EXCEPT ![p] = [f |-> g, u |-> TRUE]] /\ z = Zero /\ v = Device
  OBVIOUS
<1>7. D \in [PDs -> Entries] /\ Shape(table, own, D, d, DEVICE_PD + 1, z, v)
  BY <1>2, <1>5, <1>6 DEF LiveInv, MemTypes, SpaceTypes
<1>8. /\ table' = [table EXCEPT ![g] = [EmptyTable EXCEPT ![i] = [f |-> f, u |-> TRUE]]]
      /\ dir' = [dir EXCEPT ![d] = D2]
  <2>1. dir' = [dir EXCEPT ![page_dir[t]][PD(loc[t].vp)] = [f |-> loc[t].got, u |-> loc[t].u]]
    BY DEF map_table
  <2>2. table' = [table EXCEPT ![loc[t].got] = [EmptyTable EXCEPT ![PT(loc[t].vp)] = [f |-> loc[t].f, u |-> loc[t].u]]]
    BY DEF map_table
  <2>3. dir' = [dir EXCEPT ![d][p] = [f |-> g, u |-> TRUE]]
    BY <1>3, <1>5, <2>1
  <2>4. QED
    BY <1>3, <1>4, <1>5, <1>6, <2>2, <2>3
<1>9. table \in Tables /\ dir \in [RAM -> [PDs -> Entries]]
  BY DEF MemTypes, SpaceTypes, Tables
<1> DEFINE own2 == Retag(Retag(own, g, TableOf(d, p)), f, PageOf(d, p, i))
<1>10. Shape(table', own2, D2, d, DEVICE_PD + 1, z, v)
  <2>1. PICK T, T2 : T = table /\ T2 = table'
    OBVIOUS
  <2>2. T \in Tables /\ Shape(T, own, D, d, DEVICE_PD + 1, z, v) /\ T2 = [T EXCEPT ![g] = [EmptyTable EXCEPT ![i] = [f |-> f, u |-> TRUE]]]
    BY <1>7, <1>8, <1>9, <2>1
  <2>3. Shape(T2, own2, D2, d, DEVICE_PD + 1, z, v)
    BY <1>3, <1>4, <1>6, <1>7, <2>2, ShapeNewTable
  <2>4. QED
    BY <2>1, <2>3
<1>11. Keeps(own, own2, Settled) /\ Keeps(own, own2, {"free"})
  BY <1>3, <1>4 DEF Settled, Got, InHand, Keeps, Retag
<1> HIDE DEF own2
<1>12. \A h \in RAM : own[h][1] # "got" => table'[h] = table[h]
  <2>1. \A h \in RAM : h # g => table'[h] = table[h]
    BY <1>8, <1>9 DEF Tables
  <2>2. QED
    BY <1>3, <2>1 DEF Got
<1>13. /\ UNCHANGED <<page_frames, page_frame_count, mem, nic, cpu, loc>>
       /\ UNCHANGED <<state, parent, page_dir, kstack, running>>
  BY DEF map_table, pfaVars, taskVars
<1>14. Moves(t, loc[t].back, loc[t])
  BY <1>13 DEF map_table, Goto, Moves, MemTypes, CallTypes
<1>15. \A h \in RAM : h # d => dir'[h] = dir[h]
  BY <1>8, <1>9
<1>16. dir'[d] = D2 /\ D2[0] = D[0] /\ D2[DEVICE_PD] = D[DEVICE_PD]
  BY <1>6, <1>7, <1>8, <1>9, Sizes DEF PDs
<1>17. MemTypes'
  <2>1. CallTypes'
    <3>1. PICK q \in Labels, l \in LocType : q = loc[t].back /\ l = loc[t]
      BY <1>2 DEF LocType
    <3>2. Moves(t, q, l)
      BY <1>14, <3>1
    <3>3. QED
      BY <3>2, MovesTo
  <2>2. [f |-> g, u |-> TRUE] \in Entries /\ [f |-> f, u |-> TRUE] \in Entries /\ Absent \in Entries
    BY Sizes DEF Entries, RAM
  <2>3. table' \in [RAM -> [PTs -> Entries]]
    <3>1. EmptyTable \in [PTs -> Entries]
      BY <2>2 DEF EmptyTable
    <3>2. [EmptyTable EXCEPT ![i] = [f |-> f, u |-> TRUE]] \in [PTs -> Entries]
      BY <2>2, <3>1
    <3>3. QED
      BY <1>8, <1>9, <3>2 DEF Tables
  <2>4. dir' \in [RAM -> [PDs -> Entries]]
    <3>1. D2 \in [PDs -> Entries]
      BY <1>6, <1>7, <2>2
    <3>2. QED
      BY <1>8, <1>9, <3>1
  <2>5. SpaceTypes'
    BY <1>13, <2>3, <2>4 DEF MemTypes, SpaceTypes
  <2>6. PoolTypes' /\ TaskTypes'
    BY <1>13 DEF MemTypes, PoolTypes, TaskTypes
  <2>7. QED
    BY <1>13, <2>1, <2>5, <2>6 DEF MemTypes
<1>18. Good(own2)'
  <2>1. Shape(table', own2, dir'[page_dir[t]], page_dir[t], DEVICE_PD + 1, Zero, Device)
    BY <1>5, <1>6, <1>10, <1>16
  <2>2. UNCHANGED <<hw, current, cpu, page_frames, page_frame_count, nic>> /\ UNCHANGED <<state, parent, page_dir, kstack>>
    BY <1>13
  <2>3. \A h \in RAM : own[h][1] # "got" /\ ~Mine(own[h], page_dir[t]) => table'[h] = table[h]
    BY <1>12
  <2>4. /\ \A h \in RAM : h # page_dir[t] => dir'[h] = dir[h]
        /\ dir'[page_dir[t]][0] = dir[page_dir[t]][0] /\ dir'[page_dir[t]][DEVICE_PD] = dir[page_dir[t]][DEVICE_PD]
    BY <1>5, <1>6, <1>15, <1>16
  <2>5. QED
    BY <1>1, <1>11, <1>14, <2>1, <2>2, <2>3, <2>4, ProgramMapped
<1>19. QED
  BY <1>17, <1>18

\* At boot, a page of a device is in place.
LEMMA DeviceMapped ==
    ASSUME NEW own, NEW own2, MemTypes, Good(own), NEW t \in Slots, t = current, state[t] = "live",
           cpu \in {"boot", "run"}, pc[t] \in Maps, ForCard(loc[t]) \/ ForScreen(loc[t]),
           UNCHANGED <<hw, current, cpu, page_frames, page_frame_count, nic>>,
           UNCHANGED <<state, parent, page_dir, kstack>>,
           Moves(t, loc[t].back, loc[t]),
           Keeps(own, own2, Settled), Keeps(own, own2, {"free"}),
           \A p \in PDs : p # DEVICE_PD => dir'[page_dir[t]][p] = dir[page_dir[t]][p],
           \A f \in RAM : own[f][1] = "table" \/ own[f] = KernelTable(0) => table'[f] = table[f],
           Device' # Absent, Device'.f \in RAM, own2[Device'.f] = KernelTable(DEVICE_PD), Device'.u = ~hw.nic,
           ~hw.nic => FbPages > 0,
           CallInv(own2)', DeviceInv'
    PROVE  Good(own2)'
<1>0. /\ TurnInv /\ BootInv /\ WaitInv /\ SeenInv /\ PoolInv(own) /\ TaskInv(own) /\ NicInv(own)
  BY GoodParts
<1>1. /\ loc[t] \in LocType /\ LocalOk(pc[t], loc[t]) /\ loc[t].dir = NULL /\ loc[t].tab = NULL
      /\ Place(t) = pc[t] /\ Purpose(t) = loc[t].back /\ Booted
      /\ LiveInv(own) /\ KernelInv(own) /\ cpu = "boot" /\ t = 0
  BY MapFacts
<1>2. /\ ForCard(loc[t]) => hw.nic
      /\ ForScreen(loc[t]) => hw.vbe
  BY MapFacts
<1>3. PICK p, d : p = loc[t].back /\ d = page_dir[t]
  OBVIOUS
<1>4. p \in {"nic_got", "fb"} /\ (p = "nic_got" => ForCard(loc[t]))
  BY <1>3 DEF ForCard, ForScreen
<1>5. /\ PlaceOf(p, loc[t]) = p /\ PurposeOf(p, loc[t]) = p /\ PurposeOf(pc[t], loc[t]) = p
      /\ p \notin {"pfa_alloc", "pfa_read", "pfa_store", "user", "map_got", "map_page", "map_table"}
      /\ p \notin Maps /\ p \notin Forks /\ p \in Boots /\ p \notin Waits /\ p \notin Execs
      /\ p \notin {"clone_table", "clone_pte", "clone_page"} /\ p \notin {"init_dir", "init_table"}
      /\ p \notin {"wait_dir", "wait_clear"}
  <2>1. PurposeOf(pc[t], loc[t]) = p
    BY <1>1, <1>3 DEF Purpose
  <2>2. QED
    BY <1>4, <2>1 DEF PlaceOf, PurposeOf, Execs, AllocReturns, Maps, Forks, Boots, Waits
<1>6. Moves(t, p, loc[t])
  BY <1>3
<1>7. LocalOk(p, loc[t])
  <2>1. MapOk(p, loc[t])
    BY <1>1, <1>4, <1>5 DEF LocalOk, MapOk, ForCard
  <2>2. QED
    BY <1>1, <1>5, <2>1 DEF LocalOk, CallOk, ExecOk, ForkOk
<1>8. /\ pc'[current'] = p /\ loc'[current'] = loc[t] /\ Place(current)' = p
      /\ Purpose(current)' = p /\ current' = t
  BY <1>5, <1>6, MovesTo, PlacesMove
<1>9. TurnInv'
  BY <1>0, <1>6, <1>7, TurnKept
<1>10. BootInv'
  BY <1>0, <1>1, <1>5, <1>8 DEF BootInv
<1>11. WaitInv'
  BY <1>0, <1>5, <1>6, WaitKept
<1>12. SeenInv'
  BY <1>2, <1>4, <1>5, <1>8 DEF SeenInv
<1>13. PoolInv(own2)'
  <2>1. PoolTop' = PoolTop /\ PoolTop = page_frame_count /\ page_frame_count \in 0 .. NFRAMES
    BY <1>5, <1>8 DEF PoolTop, Maps, MemTypes, PoolTypes
  <2>2. ASSUME NEW i \in 0 .. PoolTop - 1 PROVE own2[page_frames[i]] = Free(i)
    <3>1. i \in RAM
      BY <2>1, Sizes DEF RAM
    <3>2. own[page_frames[i]] = Free(i) /\ page_frames[i] \in RAM
      BY <1>0, <3>1 DEF PoolInv, MemTypes, PoolTypes
    <3>3. QED
      BY <3>2 DEF Keeps, Free
  <2>3. QED
    BY <2>1, <2>2 DEF PoolInv
<1>14. TaskInv(own2)'
  <2>1. Place(t) \notin {"wait_dir", "wait_clear"} /\ Place(t) # "init_dir"
    BY <1>1 DEF Maps
  <2>2. PlaceOf(p, loc[t]) \notin {"wait_dir", "wait_clear"} /\ PlaceOf(p, loc[t]) # "init_dir"
    BY <1>5
  <2>3. QED
    BY <1>0, <1>6, <2>1, <2>2, KeepsLess, TasksKept
<1>15. NicInv(own2)'
  BY <1>0, KeepsLess, NicKept
<1>16. Booted'
  BY <1>5, <1>8 DEF Booted
<1>17. EarlyInv(own2)'
  BY <1>16 DEF EarlyInv
<1>18. 0 \in PDs /\ DEVICE_PD # 0
  BY Sizes DEF PDs
<1>19. Zero' = Zero
  BY <1>1, <1>18 DEF Zero
<1>20. LiveInv(own2)'
  <2>1. ASSUME NEW s \in Slots, state'[s] = "live"
        PROVE  Shape(table', own2, dir'[page_dir'[s]], page_dir'[s], DEVICE_PD + 1, Zero', Device')
    <3>1. s = 0
      BY <1>0, <1>1, <2>1 DEF BootInv
    <3>2. PICK D, D2, z, v, v2 : D = dir[page_dir[s]] /\ D2 = dir'[page_dir'[s]] /\ z = Zero' /\ v = Device /\ v2 = Device'
      OBVIOUS
    <3>3. Shape(table, own, D, d, DEVICE_PD + 1, z, v) /\ d = page_dir'[s]
      BY <1>1, <1>3, <1>19, <2>1, <3>1, <3>2 DEF LiveInv
    <3>4. Untouched(table, table', own, own2, d)
      BY DEF Untouched, Mine, Keeps, Settled
    <3>5. ASSUME NEW q \in 1 .. DEVICE_PD - 1 PROVE UserEntry(table', own2, D2[q], d, q)
      <4>1. q \in PDs /\ q # DEVICE_PD /\ q < DEVICE_PD + 1
        BY Sizes DEF PDs
      <4>2. D2[q] = D[q]
        BY <1>1, <1>3, <3>1, <3>2, <4>1
      <4>3. UserEntry(table, own, D[q], d, q)
        BY <3>3, <4>1 DEF Shape
      <4>4. PICK e : e = D[q]
        OBVIOUS
      <4>5. UserEntry(table', own2, e, d, q)
        BY <3>4, <4>3, <4>4, EntryKept
      <4>6. QED
        BY <4>2, <4>4, <4>5
    <3>6. D2[0] = z /\ D2[DEVICE_PD] = v2
      BY <3>1, <3>2 DEF Zero, Device
    <3>7. Shape(table', own2, D2, d, DEVICE_PD + 1, z, v2)
      BY <3>5, <3>6 DEF Shape
    <3>8. QED
      BY <3>2, <3>3, <3>7
  <2>2. QED
    BY <2>1 DEF LiveInv
<1>21. CopyInv(own2)'
  BY <1>1, <1>8 DEF CopyInv
<1>22. KernelInv(own2)'
  <2>1. /\ Zero.f \in RAM /\ ~Zero.u /\ own[Zero.f] = KernelTable(0)
        /\ \A i \in PTs : ~table[Zero.f][i].u
    BY <1>1 DEF KernelInv
  <2>2. own2[Zero.f] = KernelTable(0) /\ table'[Zero.f] = table[Zero.f]
    BY <2>1 DEF KernelTable, Keeps, Settled
  <2>3. ~hw.nic => hw.vbe
    BY <1>2
  <2>4. QED
    BY <1>19, <2>1, <2>2, <2>3 DEF KernelInv
<1>23. SpaceInv(own2)'
  BY <1>20, <1>21, <1>22 DEF SpaceInv
<1>24. AloneInv'
  BY <1>1 DEF AloneInv
<1>25. QED
  BY <1>9, <1>10, <1>11, <1>12, <1>13, <1>14, <1>15, <1>17, <1>23, <1>24 DEF Good, Placed, HoldInv

\* What the devices' table holds then.
LEMMA DeviceWritten ==
    ASSUME NEW own, MemTypes, Good(own), NEW t \in Slots, t = current, state[t] = "live",
           cpu \in {"boot", "run"}, pc[t] \in Maps, ForCard(loc[t]) \/ ForScreen(loc[t]),
           UNCHANGED <<hw, current, cpu, nic>>, Moves(t, loc[t].back, loc[t]),
           Device' # Absent,
           ForScreen(loc[t]) => table'[Device'.f][PT(loc[t].vp)] = [f |-> loc[t].f, u |-> TRUE],
           \A j \in PTs : j # PT(loc[t].vp) =>
              table'[Device'.f][j] = IF Device = Absent THEN Absent ELSE table[Device.f][j]
    PROVE  DeviceInv'
<1>0. DeviceInv
  BY GoodParts
<1>1. /\ Place(t) = pc[t] /\ Purpose(t) = loc[t].back /\ Booted /\ cpu = "boot" /\ loc[t] \in LocType
  BY MapFacts
<1>2. PICK p : p = loc[t].back /\ p \in {"nic_got", "fb"}
  BY DEF ForCard, ForScreen
<1>3. /\ PlaceOf(p, loc[t]) = p /\ PurposeOf(p, loc[t]) = p
  BY <1>2 DEF PlaceOf, PurposeOf, Maps
<1>4. /\ Place(current)' = p /\ Purpose(current)' = p /\ current' = t /\ loc'[current'] = loc[t]
  BY <1>2, <1>3, MovesTo, PlacesMove
<1>5. PICK i : i = PT(loc[t].vp)
  OBVIOUS
<1>6. CASE p = "nic_got"
  <2>1. hw.nic /\ nic[i] = NULL
    BY <1>2, <1>5, <1>6, MapFacts DEF ForScreen
  <2>2. Shown' = 0
    BY <1>1, <1>4, <1>6 DEF Shown
  <2>3. ~hw.vbe => \A j \in PTs : nic[j] # NULL => Device # Absent /\ table[Device.f][j].f = nic[j]
    BY <1>0, <1>1, <2>1 DEF DeviceInv
  <2>4. ~hw.vbe => \A j \in PTs : nic'[j] # NULL => Device' # Absent /\ table'[Device'.f][j].f = nic'[j]
    BY <1>5, <2>1, <2>3
  <2>5. QED
    BY <1>1, <1>4, <1>6, <2>1, <2>2, <2>4 DEF DeviceInv
<1>7. CASE p = "fb"
  <2>1. ForScreen(loc[t]) /\ hw.vbe
    BY <1>2, <1>7, MapFacts DEF ForCard
  <2>2. PICK k \in Nat : k = loc[t].pt /\ k >= 1 /\ i = k - 1 /\ loc[t].f = FbPhys(i)
    BY <1>1, <1>5, <2>1 DEF ForScreen, DevicePage, LocType
  <2>3. Shown' = k /\ Shown = k - 1
    <3>1. Shown' = k
      BY <1>1, <1>4, <1>7, <2>2 DEF Shown
    <3>2. Shown = k - 1
      BY <1>1, <1>2, <1>7, <2>2 DEF Shown, Maps
    <3>3. QED
      BY <3>1, <3>2
  <2>4. /\ ~hw.nic => \A j \in PTs : nic[j] = NULL
        /\ hw.nic => \A j \in NicPages : nic[j] # NULL
        /\ \A j \in 0 .. k - 1 - 1 : Device # Absent /\ table[Device.f][j] = [f |-> FbPhys(j), u |-> TRUE]
        /\ ~hw.nic /\ Device # Absent =>
              \A j \in PTs : table[Device.f][j] \in {Absent, [f |-> FbPhys(j), u |-> TRUE]}
    BY <1>0, <1>1, <1>2, <1>7, <2>1, <2>3 DEF DeviceInv
  <2>5. k <= FbPages /\ FbPages <= PTES /\ PTES \in Nat /\ FbPages \in Nat
    BY <2>1, <2>2, Sizes DEF ForScreen
  <2>6. ASSUME NEW j \in 0 .. k - 1 PROVE table'[Device'.f][j] = [f |-> FbPhys(j), u |-> TRUE]
    <3>1. CASE j = i
      BY <1>5, <2>1, <2>2, <3>1
    <3>2. CASE j # i
      <4>1. j \in 0 .. k - 1 - 1 /\ j \in PTs
        BY <2>2, <2>5, <3>2 DEF PTs
      <4>2. QED
        BY <1>5, <2>4, <3>2, <4>1
    <3>3. QED
      BY <3>1, <3>2
  <2>7. ~hw.nic => \A j \in PTs : table'[Device'.f][j] \in {Absent, [f |-> FbPhys(j), u |-> TRUE]}
    <3> SUFFICES ASSUME ~hw.nic, NEW j \in PTs PROVE table'[Device'.f][j] \in {Absent, [f |-> FbPhys(j), u |-> TRUE]}
      OBVIOUS
    <3>1. CASE j = i
      BY <1>5, <2>1, <2>2, <3>1
    <3>2. CASE j # i
      BY <1>5, <2>4, <3>2
    <3>3. QED
      BY <3>1, <3>2
  <2>8. QED
    BY <1>1, <1>4, <1>7, <2>1, <2>3, <2>4, <2>6, <2>7 DEF DeviceInv
<1>8. QED
  BY <1>2, <1>6, <1>7

\* The page that is mapped there, and its holder.
MappedEntry(g, l) == [f |-> g, u |-> l.u]
MappedFrame(p, l) == IF p = "map_got" THEN l.got ELSE l.f
DeviceHolder(own, l, g) == IF ForCard(l) THEN Retag(own, g, Buffer(PT(l.vp))) ELSE own

\* A frame of RAM or of the frame buffer makes an entry.
LEMMA EntryIs ==
    ASSUME NEW g \in 0 .. NFRAMES + FbPages - 1, NEW b \in BOOLEAN
    PROVE  [f |-> g, u |-> b] \in Entries
BY DEF Entries

DeviceFacts(own, own2, t, g, x) ==
    /\ x \in Entries
    /\ Keeps(own, own2, Settled) /\ Keeps(own, own2, {"free"})
    /\ \A f \in RAM : own[f] = Got /\ pc[t] = "map_table" => own2[f] = Got
    /\ ForCard(loc[t]) => loc[t].back = "nic_got" /\ g \in RAM /\ own2[g] = Buffer(PT(loc[t].vp))
    /\ ForScreen(loc[t]) => loc[t].back = "fb" /\ x = [f |-> loc[t].f, u |-> TRUE]

\* The frame a device's page gets, and who holds it then.
LEMMA DeviceFrame ==
    ASSUME NEW own, MemTypes, Good(own), NEW t \in Slots, t = current, state[t] = "live",
           cpu \in {"boot", "run"}, pc[t] \in Maps, ForCard(loc[t]) \/ ForScreen(loc[t]),
           NEW g, NEW x, g = MappedFrame(pc[t], loc[t]), x = MappedEntry(g, loc[t]),
           NEW own2, own2 = DeviceHolder(own, loc[t], g)
    PROVE  DeviceFacts(own, own2, t, g, x)
<1>0. CallInv(own)
  BY GoodParts
<1>1. loc[t] \in LocType /\ Place(t) = pc[t]
  BY MapFacts
<1>2. CASE ForCard(loc[t])
  <2>1. loc[t].back = "nic_got" /\ loc[t].u = FALSE
    BY <1>1, <1>2 DEF ForCard, LocType
  <2>2. pc[t] # "map_page"
    BY <1>2, MapFacts DEF ForCard, ForScreen
  <2>3. g \in RAM /\ own[g] \in {Got, InHand} /\ (pc[t] = "map_table" => own[g] = InHand)
    <3>1. CASE pc[t] = "map_got"
      BY <1>0, <3>1 DEF CallInv, AllocReturns, MappedFrame
    <3>2. CASE pc[t] = "map_table"
      BY <1>0, <1>1, <2>1, <3>2 DEF CallInv, MappedFrame
    <3>3. QED
      BY <2>2, <3>1, <3>2 DEF Maps
  <2>4. Keeps(own, own2, Settled) /\ Keeps(own, own2, {"free"})
    BY <1>2, <2>3, RetagKeeps DEF Got, InHand, Settled, DeviceHolder
  <2>5. own2[g] = Buffer(PT(loc[t].vp)) /\ \A f \in RAM : f # g => own2[f] = own[f]
    BY <1>2, <2>3 DEF Retag, DeviceHolder
  <2>6. \A f \in RAM : own[f] = Got /\ pc[t] = "map_table" => own2[f] = Got
    BY <2>3, <2>5 DEF Got, InHand
  <2>7. x \in Entries
    <3>1. g \in 0 .. NFRAMES + FbPages - 1
      BY <2>3, Sizes DEF RAM
    <3>2. x = [f |-> g, u |-> FALSE]
      BY <2>1 DEF MappedEntry
    <3>3. QED
      BY <3>1, <3>2, EntryIs
  <2>8. ~ForScreen(loc[t])
    BY <2>1 DEF ForScreen
  <2>9. QED
    BY <2>1, <2>3, <2>4, <2>5, <2>6, <2>7, <2>8 DEF DeviceFacts
<1>3. CASE ~ForCard(loc[t])
  <2>1. ForScreen(loc[t]) /\ own2 = own
    BY <1>3 DEF DeviceHolder
  <2>2. loc[t].back = "fb" /\ loc[t].u = TRUE /\ loc[t].pt \in 1 .. FbPages /\ loc[t].f = NFRAMES + (loc[t].pt - 1)
    BY <1>1, <2>1 DEF ForScreen, LocType, FbPhys
  <2>3. pc[t] # "map_got"
    BY <2>1, <1>3, MapFacts DEF ForScreen, ForProgram
  <2>4. x = [f |-> loc[t].f, u |-> TRUE]
    BY <2>2, <2>3 DEF MappedFrame, MappedEntry
  <2>5. x \in Entries
    <3>1. loc[t].f \in 0 .. NFRAMES + FbPages - 1
      BY <2>2, Sizes
    <3>2. QED
      BY <2>4, <3>1, EntryIs
  <2>6. QED
    BY <1>3, <2>1, <2>2, <2>4, <2>5 DEF Keeps, DeviceFacts
<1>4. QED
  BY <1>2, <1>3

\* paging_map_page for a device, the table exists.
LEMMA DevicePageStep ==
    ASSUME NEW own, MemTypes, Good(own), NEW t \in Slots, state[t] = "live", t = current, cpu \in {"boot", "run"},
           pc[t] \in {"map_got", "map_page"}, UNCHANGED <<hw, current>>, ForCard(loc[t]) \/ ForScreen(loc[t]),
           UNCHANGED <<pfaVars, dir, mem, nic, taskVars, cpu, loc>>,
           dir[page_dir[t]][PD(loc[t].vp)] # Absent,
           NEW g, NEW x, g = MappedFrame(pc[t], loc[t]), x = MappedEntry(g, loc[t]),
           Enters(dir[page_dir[t]][PD(loc[t].vp)].f, PT(loc[t].vp), x),
           Goto(t, loc[t].back)
    PROVE  MemTypes' /\ \E own2 : Good(own2)'
<1>1. pc[t] \in Maps
  BY DEF Maps
<1>2. /\ loc[t] \in LocType /\ loc[t].dir = NULL /\ loc[t].tab = NULL /\ Booted
      /\ KernelInv(own) /\ cpu = "boot" /\ t = 0 /\ PD(loc[t].vp) = DEVICE_PD /\ PT(loc[t].vp) \in PTs
  BY <1>1, MapFacts
<1>3. PICK own2 : own2 = DeviceHolder(own, loc[t], g)
  OBVIOUS
<1>4. /\ x \in Entries /\ Keeps(own, own2, Settled) /\ Keeps(own, own2, {"free"})
      /\ ForCard(loc[t]) => loc[t].back = "nic_got" /\ g \in RAM /\ own2[g] = Buffer(PT(loc[t].vp))
      /\ ForScreen(loc[t]) => loc[t].back = "fb" /\ x = [f |-> loc[t].f, u |-> TRUE]
  <2>1. DeviceFacts(own, own2, t, g, x)
    BY <1>1, <1>3, DeviceFrame, Zenon
  <2>2. QED
    BY <2>1 DEF DeviceFacts
<1>5. PICK v, i : v = Device /\ i = PT(loc[t].vp)
  OBVIOUS
<1>6. /\ v # Absent /\ v.f \in RAM /\ own[v.f] = KernelTable(DEVICE_PD) /\ v.u = ~hw.nic /\ (~hw.nic => FbPages > 0)
      /\ dir[page_dir[t]][DEVICE_PD] = v
  BY <1>2, <1>5 DEF KernelInv, Device
<1>7. table' = [table EXCEPT ![v.f][i] = x]
  BY <1>2, <1>5, <1>6 DEF Enters
<1>8. table \in Tables
  BY DEF MemTypes, SpaceTypes, Tables
<1>9. /\ table'[v.f][i] = x /\ \A j \in PTs : j # i => table'[v.f][j] = table[v.f][j]
      /\ \A f \in RAM : f # v.f => table'[f] = table[f]
  BY <1>2, <1>5, <1>6, <1>7, <1>8 DEF Tables
<1>u. /\ UNCHANGED <<page_frames, page_frame_count, dir, mem, nic, cpu, loc>>
      /\ UNCHANGED <<state, parent, page_dir, kstack, running>>
  BY DEF pfaVars, taskVars
<1>10. Device' = v
  BY <1>u, <1>5 DEF Device
<1>11. Moves(t, loc[t].back, loc[t])
  BY <1>u DEF Goto, Moves, MemTypes, CallTypes
<1>12. MemTypes'
  <2>1. CallTypes'
    <3>1. PICK q \in Labels, l \in LocType : q = loc[t].back /\ l = loc[t]
      BY <1>2 DEF LocType
    <3>2. Moves(t, q, l)
      BY <1>11, <3>1
    <3>3. QED
      BY <3>2, MovesTo
  <2>2. table' \in [RAM -> [PTs -> Entries]]
    <3>1. PICK T, T2, k : T = table /\ T2 = table' /\ k = v.f
      OBVIOUS
    <3>2. T \in Tables /\ k \in RAM /\ x \in Entries /\ i \in PTs
      BY <1>2, <1>4, <1>5, <1>6, <1>8, <3>1
    <3>3. T2 = [T EXCEPT ![k][i] = x]
      BY <1>7, <3>1
    <3>4. T2 \in Tables
      BY <3>2, <3>3, EntrySet, Zenon
    <3>5. QED
      BY <3>1, <3>4 DEF Tables
  <2>3. dir' \in [RAM -> [PDs -> Entries]]
    BY <1>u DEF MemTypes, SpaceTypes
  <2>4. SpaceTypes'
    BY <1>u, <2>2, <2>3, SpaceStays
  <2>5. PoolTypes' /\ TaskTypes'
    BY <1>u DEF MemTypes, PoolTypes, TaskTypes
  <2>6. QED
    BY <1>u, <2>1, <2>4, <2>5 DEF MemTypes
<1>13. DeviceInv'
  <2>1. /\ Device' # Absent
        /\ ForScreen(loc[t]) => table'[Device'.f][PT(loc[t].vp)] = [f |-> loc[t].f, u |-> TRUE]
        /\ \A j \in PTs : j # PT(loc[t].vp) =>
              table'[Device'.f][j] = IF Device = Absent THEN Absent ELSE table[Device.f][j]
    BY <1>4, <1>5, <1>6, <1>9, <1>10
  <2>2. QED
    BY <1>u, <1>1, <1>11, <2>1, DeviceWritten
<1>14. CallInv(own2)'
  <2>1. PICK p : p = loc[t].back /\ p \in {"nic_got", "fb"}
    BY <1>4
  <2>2. pc'[current'] = p /\ loc'[current'] = loc[t] /\ current' = t /\ Place(current)' = p
    <3>1. PlaceOf(p, loc[t]) = p /\ Moves(t, p, loc[t])
      BY <1>11, <2>1 DEF PlaceOf
    <3>2. QED
      BY <3>1, MovesTo, PlacesMove
  <2>3. p = "nic_got" => ForCard(loc[t])
    BY <2>1 DEF ForScreen
  <2>4. Entry(page_dir[current], loc[t].vp)' = x
    <3>1. dir'[page_dir'[current']][PD(loc'[t].vp)] = v
      BY <1>u, <1>2, <1>6, <2>2
    <3>2. PT(loc'[t].vp) = i
      BY <1>u, <1>5
    <3>3. QED
      BY <1>6, <1>9, <3>1, <3>2 DEF Entry
  <2>5. p = "nic_got" => /\ Entry(page_dir[current], loc[current].vp)'.f \in RAM
                         /\ own2[Entry(page_dir[current], loc[current].vp)'.f] = Buffer(PT(loc[t].vp))
    <3>1. x.f = g
      BY DEF MappedEntry
    <3>2. QED
      BY <1>u, <1>4, <2>2, <2>3, <2>4, <3>1
  <2>6. p \notin AllocReturns \cup {"pfa_read", "pfa_store", "map_table"}
    BY <2>1 DEF AllocReturns
  <2>7. QED
    BY <1>u, <1>2, <2>2, <2>5, <2>6 DEF CallInv
<1>15. \A f \in RAM : own[f][1] = "table" \/ own[f] = KernelTable(0) => table'[f] = table[f]
  <2>1. own[v.f][1] # "table" /\ own[v.f] # KernelTable(0)
    BY <1>6, Sizes DEF KernelTable
  <2>2. QED
    BY <1>9, <2>1
<1>16. own2[Device'.f] = KernelTable(DEVICE_PD)
  BY <1>4, <1>6, <1>10 DEF Keeps, Settled, KernelTable
<1>17. Good(own2)'
  <2>1. \A p \in PDs : p # DEVICE_PD => dir'[page_dir[t]][p] = dir[page_dir[t]][p]
    BY <1>u
  <2>2. UNCHANGED <<hw, current, cpu, page_frames, page_frame_count, nic>> /\ UNCHANGED <<state, parent, page_dir, kstack>>
    BY <1>u
  <2>3. Device' # Absent /\ Device'.f \in RAM /\ Device'.u = ~hw.nic
    BY <1>6, <1>10
  <2>4. QED
    BY <1>1, <1>4, <1>6, <1>11, <1>13, <1>14, <1>15, <1>16, <2>1, <2>2, <2>3, DeviceMapped
<1>18. QED
  BY <1>12, <1>17

\* map_table for a device: the first to come decides about the User bit.
LEMMA DeviceTableStep ==
    ASSUME NEW own, MemTypes, Good(own), NEW t \in Slots, state[t] = "live", UNCHANGED <<hw, current>>,
           map_table(t), ForCard(loc[t]) \/ ForScreen(loc[t])
    PROVE  MemTypes' /\ \E own2 : Good(own2)'
<1>0. CallInv(own) /\ SeenInv /\ DeviceInv
  BY GoodParts
<1>1. pc[t] \in Maps /\ pc[t] = "map_table" /\ t = current /\ cpu \in {"boot", "run"}
  BY DEF Maps, map_table, At
<1>2. /\ loc[t] \in LocType /\ loc[t].dir = NULL /\ loc[t].tab = NULL /\ Booted /\ Place(t) = "map_table"
      /\ KernelInv(own) /\ cpu = "boot" /\ t = 0 /\ PD(loc[t].vp) = DEVICE_PD /\ PT(loc[t].vp) \in PTs
      /\ page_dir[t] \in RAM /\ Purpose(t) = loc[t].back
  BY <1>1, MapFacts
<1>3. PICK g \in RAM : g = loc[t].got /\ own[g] = Got
  BY <1>0, <1>1 DEF CallInv, AllocReturns
<1>4. PICK h, x, own1 : /\ h = MappedFrame(pc[t], loc[t]) /\ x = MappedEntry(h, loc[t])
                        /\ own1 = DeviceHolder(own, loc[t], h)
  OBVIOUS
<1>5. DeviceFacts(own, own1, t, h, x)
  BY <1>1, <1>4, DeviceFrame, Zenon
<1>6. x = [f |-> loc[t].f, u |-> loc[t].u] /\ x.f = h
  BY <1>1, <1>4 DEF MappedFrame, MappedEntry
<1>v. PICK v, own2 : v = [f |-> g, u |-> loc[t].u] /\ own2 = Retag(own1, g, KernelTable(DEVICE_PD))
  OBVIOUS
<1>7. PICK d \in RAM, i \in PTs :
        /\ d = page_dir[t] /\ i = PT(loc[t].vp) /\ v = [f |-> g, u |-> loc[t].u]
        /\ own2 = Retag(own1, g, KernelTable(DEVICE_PD))
  BY <1>2, <1>v
<1>8. /\ dir' = [dir EXCEPT ![d][DEVICE_PD] = v]
      /\ table' = [table EXCEPT ![g] = [EmptyTable EXCEPT ![i] = x]]
  BY <1>2, <1>3, <1>6, <1>7 DEF map_table
<1>9. own1[g] = Got
  BY <1>1, <1>3, <1>5 DEF DeviceFacts
<1>10. /\ x \in Entries /\ Keeps(own, own2, Settled) /\ Keeps(own, own2, {"free"})
       /\ ForCard(loc[t]) => loc[t].back = "nic_got" /\ h \in RAM /\ own2[h] = Buffer(PT(loc[t].vp))
       /\ ForScreen(loc[t]) => loc[t].back = "fb" /\ x = [f |-> loc[t].f, u |-> TRUE]
       /\ own2[g] = KernelTable(DEVICE_PD)
  <2>1. Keeps(own, own1, Settled) /\ Keeps(own, own1, {"free"})
    BY <1>5 DEF DeviceFacts
  <2>2. Keeps(own1, own2, Settled) /\ Keeps(own1, own2, {"free"})
    BY <1>7, <1>9, RetagKeeps DEF Got, Settled
  <2>3. Keeps(own, own2, Settled) /\ Keeps(own, own2, {"free"})
    BY <2>1, <2>2 DEF Keeps
  <2>4. own2[g] = KernelTable(DEVICE_PD) /\ \A f \in RAM : f # g => own2[f] = own1[f]
    BY <1>7 DEF Retag
  <2>5. ForCard(loc[t]) => h \in RAM /\ own1[h] = Buffer(PT(loc[t].vp)) /\ h # g
    BY <1>5, <1>9 DEF DeviceFacts, Got, Buffer
  <2>6. QED
    BY <1>5, <2>3, <2>4, <2>5 DEF DeviceFacts
<1>11. dir \in [RAM -> [PDs -> Entries]] /\ table \in [RAM -> [PTs -> Entries]] /\ DEVICE_PD \in PDs
  <2>1. DEVICE_PD \in PDs
    BY Sizes DEF PDs
  <2>2. QED
    BY <2>1 DEF MemTypes, SpaceTypes
<1>u. /\ UNCHANGED <<page_frames, page_frame_count, mem, nic, cpu, loc>>
      /\ UNCHANGED <<state, parent, page_dir, kstack, running>>
  BY DEF map_table, pfaVars, taskVars
<1>12. Device = Absent /\ Device' = v /\ dir'[d][DEVICE_PD] = v
  <2>1. dir[d][DEVICE_PD] = Absent
    BY <1>0, <1>1, <1>2, <1>7 DEF SeenInv
  <2>2. dir'[d][DEVICE_PD] = v
    BY <1>8, <1>11
  <2>3. QED
    BY <1>u, <1>2, <1>7, <2>1, <2>2 DEF Device
<1>13. v # Absent /\ v.f = g /\ v.u = ~hw.nic /\ (~hw.nic => FbPages > 0)
  <2>1. v # Absent /\ v.f = g /\ v.u = loc[t].u
    BY <1>3, <1>7 DEF Absent, NULL, RAM
  <2>2. CASE ForCard(loc[t])
    <3>1. hw.nic /\ loc[t].u = FALSE
      BY <1>1, <1>2, <2>2, MapFacts DEF ForCard, LocType
    <3>2. QED
      BY <2>1, <3>1
  <2>3. CASE ForScreen(loc[t])
    <3>1. loc[t].u = TRUE /\ loc[t].pt \in 1 .. FbPages /\ loc[t].back = "fb"
      BY <1>2, <2>3 DEF ForScreen, LocType
    <3>2. FbPages > 0
      BY <3>1, Sizes
    <3>3. ~hw.nic
      <4> SUFFICES ASSUME hw.nic PROVE FALSE
        OBVIOUS
      <4>1. \A j \in NicPages : nic[j] # NULL
        BY <1>0, <1>1, <1>2, <3>1 DEF DeviceInv
      <4>2. \E j \in PTs : nic[j] # NULL
        BY <4>1, Sizes
      <4>3. QED
        BY <1>0, <1>2, <1>12, <4>2 DEF DeviceInv
    <3>4. QED
      BY <2>1, <3>1, <3>2, <3>3
  <2>4. QED
    BY <2>2, <2>3
<1>14. /\ table'[g] = [EmptyTable EXCEPT ![i] = x] /\ table'[g][i] = x
       /\ \A j \in PTs : j # i => table'[g][j] = Absent
       /\ \A f \in RAM : f # g => table'[f] = table[f]
  <2>1. table'[g] = [EmptyTable EXCEPT ![i] = x] /\ \A f \in RAM : f # g => table'[f] = table[f]
    BY <1>8, <1>11
  <2>2. QED
    BY <2>1 DEF EmptyTable
<1>15. Moves(t, loc[t].back, loc[t])
  BY <1>u DEF map_table, Goto, Moves, MemTypes, CallTypes
<1>16. MemTypes'
  <2>1. CallTypes'
    <3>1. PICK q \in Labels, l \in LocType : q = loc[t].back /\ l = loc[t]
      BY <1>2 DEF LocType
    <3>2. Moves(t, q, l)
      BY <1>15, <3>1
    <3>3. QED
      BY <3>2, MovesTo
  <2>2. v \in Entries /\ Absent \in Entries
    <3>1. g \in 0 .. NFRAMES + FbPages - 1
      BY Sizes DEF RAM
    <3>2. loc[t].u \in BOOLEAN
      BY <1>2 DEF LocType
    <3>3. QED
      BY <1>7, <3>1, <3>2 DEF Entries
  <2>3. table' \in [RAM -> [PTs -> Entries]]
    <3>1. EmptyTable \in [PTs -> Entries]
      BY <2>2 DEF EmptyTable
    <3>2. [EmptyTable EXCEPT ![i] = x] \in [PTs -> Entries]
      BY <1>10, <3>1
    <3>3. QED
      BY <1>8, <1>11, <3>2
  <2>4. dir' \in [RAM -> [PDs -> Entries]]
    BY <1>8, <1>11, <2>2
  <2>5. SpaceTypes'
    BY <1>u, <2>3, <2>4, SpaceStays
  <2>6. PoolTypes' /\ TaskTypes'
    BY <1>u DEF MemTypes, PoolTypes, TaskTypes
  <2>7. QED
    BY <1>u, <2>1, <2>5, <2>6 DEF MemTypes
<1>17. DeviceInv'
  <2>1. /\ Device' # Absent
        /\ ForScreen(loc[t]) => table'[Device'.f][PT(loc[t].vp)] = [f |-> loc[t].f, u |-> TRUE]
        /\ \A j \in PTs : j # PT(loc[t].vp) =>
              table'[Device'.f][j] = IF Device = Absent THEN Absent ELSE table[Device.f][j]
    BY <1>7, <1>10, <1>12, <1>13, <1>14
  <2>2. QED
    BY <1>u, <1>1, <1>15, <2>1, DeviceWritten
<1>18. CallInv(own2)'
  <2>1. PICK p : p = loc[t].back /\ p \in {"nic_got", "fb"}
    BY <1>10
  <2>2. pc'[current'] = p /\ loc'[current'] = loc[t] /\ current' = t /\ Place(current)' = p
    <3>1. PlaceOf(p, loc[t]) = p /\ Moves(t, p, loc[t])
      BY <1>15, <2>1 DEF PlaceOf
    <3>2. QED
      BY <1>1, <3>1, MovesTo, PlacesMove
  <2>3. p = "nic_got" => ForCard(loc[t])
    BY <2>1 DEF ForScreen
  <2>4. Entry(page_dir[current], loc[t].vp)' = x
    <3>1. dir'[page_dir'[current']][PD(loc'[t].vp)] = v
      BY <1>u, <1>2, <1>7, <1>12, <2>2
    <3>2. PT(loc'[t].vp) = i
      BY <1>u, <1>7
    <3>3. QED
      BY <1>13, <1>14, <3>1, <3>2 DEF Entry
  <2>5. p = "nic_got" => /\ Entry(page_dir[current], loc[current].vp)'.f \in RAM
                         /\ own2[Entry(page_dir[current], loc[current].vp)'.f] = Buffer(PT(loc[t].vp))
    BY <1>u, <1>6, <1>10, <2>2, <2>3, <2>4
  <2>6. p \notin AllocReturns \cup {"pfa_read", "pfa_store", "map_table"}
    BY <2>1 DEF AllocReturns
  <2>7. QED
    BY <1>u, <1>2, <2>2, <2>5, <2>6 DEF CallInv
<1>19. \A f \in RAM : own[f][1] = "table" \/ own[f] = KernelTable(0) => table'[f] = table[f]
  <2>1. own[g][1] # "table" /\ own[g] # KernelTable(0)
    BY <1>3 DEF KernelTable, Got
  <2>2. QED
    BY <1>14, <2>1
<1>20. Good(own2)'
  <2>1. \A p \in PDs : p # DEVICE_PD => dir'[page_dir[t]][p] = dir[page_dir[t]][p]
    BY <1>7, <1>8, <1>11
  <2>2. UNCHANGED <<hw, current, cpu, page_frames, page_frame_count, nic>> /\ UNCHANGED <<state, parent, page_dir, kstack>>
    BY <1>u
  <2>3. Device' # Absent /\ Device'.f \in RAM /\ Device'.u = ~hw.nic /\ own2[Device'.f] = KernelTable(DEVICE_PD)
        /\ (~hw.nic => FbPages > 0)
    BY <1>10, <1>12, <1>13
  <2>4. QED
    BY <1>1, <1>10, <1>15, <1>17, <1>18, <1>19, <2>1, <2>2, <2>3, DeviceMapped
<1>21. QED
  BY <1>16, <1>20

\* The two steps of paging_map_page.
LEMMA MapStep ==
    ASSUME NEW own, MemTypes, Good(own), NEW t \in Slots, state[t] = "live", UNCHANGED <<hw, current>>,
           paging_map_page(t)
    PROVE  MemTypes' /\ \E own2 : Good(own2)'
<1>1. /\ pc[t] \in {"map_got", "map_page"} /\ t = current /\ cpu \in {"boot", "run"} /\ pc[t] \in Maps
      /\ UNCHANGED <<pfaVars, dir, mem, nic, taskVars, cpu>>
  BY DEF paging_map_page, At, Maps
<1>2. /\ pc[t] = "map_page" => ForScreen(loc[t])
      /\ pc[t] = "map_got" => ForProgram(loc[t]) \/ ForCard(loc[t])
  BY <1>1, MapFacts
<1>3. PICK g, x : g = MappedFrame(pc[t], loc[t]) /\ x = MappedEntry(g, loc[t])
  OBVIOUS
<1>4. CASE dir[page_dir[t]][PD(loc[t].vp)] = Absent
  BY <1>1, <1>4, MapAllocStep DEF paging_map_page
<1>5. CASE dir[page_dir[t]][PD(loc[t].vp)] # Absent
  <2>1. /\ Enters(dir[page_dir[t]][PD(loc[t].vp)].f, PT(loc[t].vp), x)
        /\ Goto(t, loc[t].back) /\ UNCHANGED loc
    BY <1>3, <1>5 DEF paging_map_page, Enters, MappedFrame, MappedEntry
  <2>2. CASE ForProgram(loc[t])
    <3>1. pc[t] = "map_got"
      BY <1>1, <1>2, <2>2 DEF ForProgram, ForScreen
    <3>2. x = [f |-> loc[t].got, u |-> loc[t].u]
      BY <1>3, <3>1 DEF MappedFrame, MappedEntry
    <3>3. QED
      BY <1>1, <1>5, <2>1, <2>2, <3>1, <3>2, ProgramPageStep
  <2>3. CASE ForCard(loc[t]) \/ ForScreen(loc[t])
    BY <1>1, <1>3, <1>5, <2>1, <2>3, DevicePageStep
  <2>4. QED
    BY <1>1, <1>2, <2>2, <2>3
<1>6. QED
  BY <1>4, <1>5

\* map_table.
LEMMA TableStep ==
    ASSUME NEW own, MemTypes, Good(own), NEW t \in Slots, state[t] = "live", UNCHANGED <<hw, current>>,
           map_table(t)
    PROVE  MemTypes' /\ \E own2 : Good(own2)'
<1>1. pc[t] = "map_table" /\ t = current /\ cpu \in {"boot", "run"} /\ pc[t] \in Maps
  BY DEF map_table, At, Maps
<1>2. ForProgram(loc[t]) \/ ForCard(loc[t]) \/ ForScreen(loc[t])
  BY <1>1, MapFacts
<1>3. QED
  BY <1>2, ProgramTableStep, DeviceTableStep

\* A task inside fork.
LEMMA CloneFacts ==
    ASSUME NEW own, MemTypes, Good(own), NEW t \in Slots, state[t] = "live", t = current, cpu \in {"boot", "run"},
           pc[t] \in Forks
    PROVE  /\ loc[t] \in LocType /\ LocalOk(pc[t], loc[t]) /\ ForkOk(pc[t], loc[t])
           /\ Place(t) = pc[t] /\ Purpose(t) = pc[t] /\ PlaceOf(pc[t], loc[t]) = pc[t] /\ cpu = "run" /\ Booted
           /\ page_dir[t] \in RAM /\ own[page_dir[t]] = DirOf(t)
           /\ dir \in [RAM -> [PDs -> Entries]] /\ table \in Tables
           /\ LiveInv(own) /\ CopyInv(own) /\ KernelInv(own)
           /\ Shape(table, own, dir[page_dir[t]], page_dir[t], DEVICE_PD + 1, Zero, Device)
           /\ state[loc[t].slot] = "free" /\ loc[t].slot \in Slots
<1>0. TurnInv /\ BootInv /\ SeenInv /\ SpaceInv(own)
  BY GoodParts
<1>1. loc[t] \in LocType /\ LocalOk(pc[t], loc[t])
  BY <1>0 DEF MemTypes, CallTypes, TurnInv
<1>2. PlaceOf(pc[t], loc[t]) = pc[t] /\ PurposeOf(pc[t], loc[t]) = pc[t] /\ pc[t] \notin Boots
  BY DEF PlaceOf, PurposeOf, Maps, Forks, Boots
<1>3. Place(t) = pc[t] /\ Purpose(t) = pc[t]
  BY <1>2 DEF Place, Purpose
<1>4. cpu = "run"
  BY <1>0, <1>2, <1>3 DEF BootInv
<1>5. Booted
  BY <1>4 DEF Booted
<1>6. page_dir[t] \in RAM /\ own[page_dir[t]] = DirOf(t)
  BY <1>5, LiveDir
<1>7. dir \in [RAM -> [PDs -> Entries]] /\ table \in Tables
  BY DEF MemTypes, SpaceTypes, Tables
<1>8. LiveInv(own) /\ CopyInv(own) /\ KernelInv(own)
  BY <1>0, <1>5 DEF SpaceInv
<1>9. Shape(table, own, dir[page_dir[t]], page_dir[t], DEVICE_PD + 1, Zero, Device)
  BY <1>8 DEF LiveInv
<1>10. ForkOk(pc[t], loc[t]) /\ loc[t].slot \in Slots
  BY <1>1, <1>2 DEF LocalOk, ForkOk
<1>11. state[loc[t].slot] = "free"
  BY <1>0, <1>3 DEF SeenInv
<1>12. QED
  BY <1>1, <1>2, <1>3, <1>4, <1>5, <1>6, <1>7, <1>8, <1>9, <1>10, <1>11

\* A step of fork that changes at most the new directory and the new table.
LEMMA CloneMove ==
    ASSUME NEW own, NEW own2, MemTypes, Good(own), NEW t \in Slots, t = current, state[t] = "live",
           cpu = "run", pc[t] \in Forks,
           UNCHANGED <<hw, current, cpu, page_frames, page_frame_count, nic>>,
           UNCHANGED <<state, parent, page_dir, kstack>>,
           NEW q, NEW m, Moves(t, q, m), LocalOk(q, m), PlaceOf(q, m) \in Forks, q # "pfa_store",
           Keeps(own, own2, Settled), Keeps(own, own2, {"free"}),
           \A f \in RAM : own[f] # DirOf(NULL) => dir'[f] = dir[f],
           \A f \in RAM : own[f][1] \notin {"got", "copying"} => table'[f] = table[f],
           CopyInv(own2)', SeenInv', CallInv(own2)', AloneInv'
    PROVE  Good(own2)'
<1>0. /\ TurnInv /\ BootInv /\ WaitInv /\ PoolInv(own) /\ TaskInv(own) /\ NicInv(own) /\ DeviceInv
  BY GoodParts
<1>1. /\ Place(t) = pc[t] /\ Booted /\ LiveInv(own) /\ KernelInv(own) /\ Purpose(t) = pc[t]
  BY CloneFacts
<1>2. /\ PlaceOf(q, m) \notin Boots /\ PlaceOf(q, m) \notin Waits /\ PlaceOf(q, m) \notin Maps
      /\ PurposeOf(q, m) = PlaceOf(q, m)
  BY PlaceNames DEF PurposeOf
<1>3. /\ pc'[current'] = q /\ loc'[current'] = m /\ Place(current)' = PlaceOf(q, m)
      /\ Purpose(current)' = PurposeOf(q, m) /\ current' = t
  BY MovesTo, PlacesMove
<1>4. TurnInv'
  BY <1>0, TurnKept
<1>5. BootInv'
  BY <1>2, <1>3 DEF BootInv
<1>6. WaitInv'
  BY <1>0, <1>2, WaitKept
<1>7. PoolInv(own2)'
  <2>1. PoolTop' = PoolTop /\ PoolTop = page_frame_count /\ page_frame_count \in 0 .. NFRAMES
    BY <1>3 DEF PoolTop, Forks, MemTypes, PoolTypes
  <2>2. ASSUME NEW i \in 0 .. PoolTop - 1 PROVE own2[page_frames[i]] = Free(i)
    <3>1. i \in RAM
      BY <2>1, Sizes DEF RAM
    <3>2. own[page_frames[i]] = Free(i) /\ page_frames[i] \in RAM
      BY <1>0, <3>1 DEF PoolInv, MemTypes, PoolTypes
    <3>3. QED
      BY <3>2 DEF Keeps, Free
  <2>3. QED
    BY <2>1, <2>2 DEF PoolInv
<1>8. TaskInv(own2)'
  <2>1. Place(t) \notin {"wait_dir", "wait_clear"} /\ PlaceOf(q, m) \notin {"wait_dir", "wait_clear"}
    BY <1>1 DEF Forks
  <2>2. QED
    BY <1>0, <2>1, KeepsLess, TasksKept
<1>9. NicInv(own2)'
  BY <1>0, KeepsLess, NicKept
<1>10. Booted'
  BY DEF Booted
<1>11. EarlyInv(own2)'
  BY <1>10 DEF EarlyInv
<1>12. ASSUME NEW s \in Slots, state[s] = "live" PROVE page_dir[s] \in RAM /\ own[page_dir[s]] = DirOf(s) /\ dir'[page_dir[s]] = dir[page_dir[s]]
  <2>1. page_dir[s] \in RAM /\ own[page_dir[s]] = DirOf(s)
    BY <1>1, <1>12, LiveDir
  <2>2. DirOf(s) # DirOf(NULL)
    BY DEF DirOf, Slots, NULL
  <2>3. QED
    BY <2>1, <2>2
<1>13. page_dir[0] \in RAM /\ own[page_dir[0]] = DirOf(0)
  <2>1. page_dir[0] # NULL
    BY <1>0 DEF TaskInv
  <2>2. QED
    BY <1>0, <2>1, ZeroIsSlot DEF TaskInv, MemTypes, TaskTypes
<1>14. Zero' = Zero /\ Device' = Device
  <2>1. DirOf(0) # DirOf(NULL)
    BY DEF DirOf, NULL
  <2>2. QED
    BY <1>13, <2>1 DEF Zero, Device
<1>15. LiveInv(own2)'
  <2>1. ASSUME NEW s \in Slots, state'[s] = "live"
        PROVE  Shape(table', own2, dir'[page_dir'[s]], page_dir'[s], DEVICE_PD + 1, Zero', Device')
    <3>1. PICK e, D, z, v : e = page_dir[s] /\ D = dir[page_dir[s]] /\ z = Zero /\ v = Device
      OBVIOUS
    <3>2. Untouched(table, table', own, own2, e)
      BY DEF Mine, Keeps, Settled, Untouched
    <3>3. Shape(table, own, D, e, DEVICE_PD + 1, z, v)
      BY <1>1, <2>1, <3>1 DEF LiveInv
    <3>4. DEVICE_PD + 1 \in 0 .. DEVICE_PD + 1
      BY Sizes
    <3>5. Shape(table', own2, D, e, DEVICE_PD + 1, z, v)
      BY <3>2, <3>3, <3>4, ShapeKept
    <3>6. D = dir'[page_dir'[s]] /\ e = page_dir'[s] /\ z = Zero' /\ v = Device'
      BY <1>12, <1>14, <2>1, <3>1
    <3>7. QED
      BY <3>5, <3>6
  <2>2. QED
    BY <2>1 DEF LiveInv
<1>16. KernelInv(own2)'
  BY <1>1, <1>14, KeepsLess, KernelKept DEF KernelTable
<1>17. SpaceInv(own2)'
  BY <1>15, <1>16 DEF SpaceInv
<1>18. DeviceInv'
  <2>1. Device # Absent => table'[Device.f] = table[Device.f]
    BY <1>1 DEF KernelInv, KernelTable
  <2>2. QED
    BY <1>0, <1>14, <2>1, DeviceKept
<1>19. QED
  BY <1>4, <1>5, <1>6, <1>7, <1>8, <1>9, <1>11, <1>17, <1>18 DEF Good, Placed, HoldInv

\* Its types.
LEMMA CloneTypes ==
    ASSUME MemTypes, NEW t \in Slots,
           UNCHANGED <<hw, current, cpu, page_frames, page_frame_count, nic>>,
           UNCHANGED <<state, parent, page_dir, kstack, running>>,
           NEW q \in Labels, NEW m \in LocType, Moves(t, q, m),
           dir' \in [RAM -> [PDs -> Entries]], table' \in [RAM -> [PTs -> Entries]],
           mem' = [f \in RAM |-> [w \in Words |-> mem'[f][w]]]
    PROVE  MemTypes'
<1>1. CallTypes'
  BY MovesTo
<1>2. SpaceTypes'
  BY DEF MemTypes, SpaceTypes
<1>3. PoolTypes' /\ TaskTypes'
  BY DEF MemTypes, PoolTypes, TaskTypes
<1>4. QED
  BY <1>1, <1>2, <1>3 DEF MemTypes

\* What a label inside fork asks of the locals, and no more.
LEMMA CloneLocal ==
    ASSUME NEW q, NEW m, q \in Forks \/ (q = "pfa_alloc" /\ m.ret \in Forks \cap AllocReturns), ForkOk(q, m)
    PROVE  LocalOk(q, m) /\ PlaceOf(q, m) \in Forks /\ q # "pfa_store"
<1>1. PlaceOf(q, m) \in Forks /\ q # "pfa_store"
  BY DEF PlaceOf, Forks
<1>2. PurposeOf(q, m) = PlaceOf(q, m) /\ PlaceOf(q, m) \notin Maps /\ PlaceOf(q, m) \notin Waits /\ PlaceOf(q, m) \notin Boots
  BY <1>1, PlaceNames DEF PurposeOf
<1>3. CallOk(q, m)
  BY <1>1, <1>2 DEF CallOk, Forks
<1>4. MapOk(q, m)
  BY <1>1, <1>2 DEF MapOk, Forks, Maps, Boots
<1>5. ExecOk(q, m)
  BY <1>1, <1>2 DEF ExecOk, Forks, Execs
<1>6. QED
  BY <1>1, <1>3, <1>4, <1>5 DEF LocalOk

\* clone_dir: the new directory.
LEMMA CloneDirStep ==
    ASSUME NEW own, MemTypes, Good(own), NEW t \in Slots, state[t] = "live", UNCHANGED <<hw, current>>,
           clone_dir(t)
    PROVE  MemTypes' /\ \E own2 : Good(own2)'
<1>0. CallInv(own)
  BY GoodParts
<1>1. pc[t] \in Forks /\ pc[t] = "clone_dir" /\ t = current /\ cpu \in {"boot", "run"}
  BY DEF Forks, clone_dir, At
<1>2. /\ loc[t] \in LocType /\ ForkOk(pc[t], loc[t]) /\ Place(t) = pc[t] /\ PlaceOf(pc[t], loc[t]) = pc[t] /\ cpu = "run"
      /\ dir \in [RAM -> [PDs -> Entries]] /\ table \in Tables /\ state[loc[t].slot] = "free" /\ loc[t].slot \in Slots
  BY <1>1, CloneFacts
<1>3. PICK g \in RAM : g = loc[t].got /\ own[g] = Got
  BY <1>0, <1>1 DEF CallInv, AllocReturns
<1>4. PICK own2, m : own2 = Retag(own, g, DirOf(NULL)) /\ m = [loc[t] EXCEPT !.dir = g]
  OBVIOUS
<1>5. m \in LocType
  BY <1>2, <1>4 DEF LocType
<1>6. m.slot = loc[t].slot /\ m.dir = g /\ m.tab = loc[t].tab /\ m.pd = loc[t].pd /\ m.pt = loc[t].pt
  BY <1>2, <1>4 DEF LocType
<1>u. /\ UNCHANGED <<page_frames, page_frame_count, dir, table, mem, nic, cpu>>
      /\ UNCHANGED <<state, parent, page_dir, kstack, running>>
  BY DEF clone_dir, pfaVars, memVars, taskVars
<1>7. Moves(t, "clone_pde", m)
  BY <1>3, <1>4 DEF clone_dir, Moves, Goto
<1>8. m.pd = 0 /\ m.tab = NULL /\ m.slot \in Slots
  BY <1>1, <1>2, <1>6 DEF ForkOk, Forks
<1>9. ForkOk("clone_pde", m)
  BY <1>6, <1>8, Sizes DEF ForkOk, PlaceOf, Forks
<1>10. LocalOk("clone_pde", m) /\ PlaceOf("clone_pde", m) = "clone_pde" /\ PlaceOf("clone_pde", m) \in Forks
  BY <1>9, CloneLocal DEF Forks, PlaceOf
<1>11. pc'[current'] = "clone_pde" /\ loc'[current'] = m /\ Place(current)' = "clone_pde" /\ current' = t
  BY <1>1, <1>7, <1>10, MovesTo, PlacesMove
<1>12. own2[g] = DirOf(NULL)
  BY <1>3, <1>4 DEF Retag
<1>13. CallInv(own2)'
  BY <1>6, <1>8, <1>11, <1>12 DEF CallInv, AllocReturns
<1>14. SeenInv'
  BY <1>u, <1>2, <1>6, <1>11 DEF SeenInv, Maps, Forks
<1>15. AloneInv'
  <2>1. 0 <= DEVICE_PD
    BY Sizes
  <2>2. Device' = Device
    BY <1>u DEF Device
  <2>3. AloneInv
    BY GoodParts
  <2>4. QED
    BY <1>u, <1>8, <1>11, <2>1, <2>2, <2>3 DEF AloneInv
<1>16. CopyInv(own2)'
  <2>1. \A T, D, d, z, v : Shape(T, own2, D, d, 0, z, v)
    <3> SUFFICES ASSUME NEW T, NEW D, NEW d, NEW z, NEW v PROVE Shape(T, own2, D, d, 0, z, v)
      OBVIOUS
    <3>1. \A p \in 1 .. DEVICE_PD - 1 : ~(p < 0)
      OBVIOUS
    <3>2. ~(0 > 0) /\ ~(0 > DEVICE_PD)
      BY Sizes
    <3>3. QED
      BY <3>1, <3>2 DEF Shape
  <2>2. QED
    BY <1>8, <1>11, <2>1 DEF CopyInv
<1>17. Keeps(own, own2, Settled) /\ Keeps(own, own2, {"free"})
  BY <1>3, <1>4, RetagKeeps DEF Got, Settled
<1>18. Good(own2)'
  BY <1>u, <1>1, <1>2, <1>7, <1>10, <1>13, <1>14, <1>15, <1>16, <1>17, CloneMove
<1>19. MemTypes'
  <2>1. "clone_pde" \in Labels
    BY DEF Labels
  <2>2. dir' \in [RAM -> [PDs -> Entries]] /\ table' \in [RAM -> [PTs -> Entries]]
    BY <1>u, <1>2 DEF Tables
  <2>3. mem' = [f \in RAM |-> [w \in Words |-> mem'[f][w]]]
    BY <1>u, SameMemory
  <2>4. QED
    BY <1>u, <1>5, <1>7, <2>1, <2>2, <2>3, CloneTypes
<1>20. QED
  BY <1>18, <1>19

\* fork asks for a frame.
LEMMA CloneAlloc ==
    ASSUME NEW own, MemTypes, Good(own), NEW t \in Slots, state[t] = "live", UNCHANGED <<hw, current>>,
           pc[t] \in Forks, t = current, cpu \in {"boot", "run"},
           NEW r \in {"clone_table", "clone_page", "fork_stack"}, Alloc(t, loc[t], r),
           UNCHANGED <<pfaVars, dir, table, mem, nic, taskVars, cpu>>,
           NEW l, l = loc[t],
           r \in {"clone_table", "fork_stack"} => pc[t] = "clone_pde",
           r = "clone_page" => pc[t] = "clone_pte" /\ l.pt \in PTs /\ table[dir[page_dir[t]][l.pd].f][l.pt].u,
           r = "clone_table" => /\ l.pd \in 1 .. DEVICE_PD
                                /\ dir[page_dir[t]][l.pd] # Absent /\ dir[page_dir[t]][l.pd].u,
           r = "fork_stack" => l.pd = DEVICE_PD + 1
    PROVE  MemTypes' /\ Good(own)'
<1>0. CallInv(own) /\ TurnInv /\ AloneInv /\ SeenInv
  BY GoodParts
<1>2. /\ loc[t] \in LocType /\ ForkOk(pc[t], loc[t]) /\ Place(t) = pc[t] /\ PlaceOf(pc[t], loc[t]) = pc[t] /\ cpu = "run"
      /\ dir \in [RAM -> [PDs -> Entries]] /\ table \in Tables /\ state[loc[t].slot] = "free" /\ loc[t].slot \in Slots
      /\ CopyInv(own)
  BY CloneFacts
<1>3. PICK m : m = [loc[t] EXCEPT !.ret = r]
  OBVIOUS
<1>4. m \in LocType
  <2>1. r \in Labels
    BY DEF Labels
  <2>2. QED
    BY <1>2, <1>3, <2>1 DEF LocType
<1>5. /\ m.slot = l.slot /\ m.dir = l.dir /\ m.tab = l.tab /\ m.pd = l.pd /\ m.pt = l.pt /\ m.ret = r
  BY <1>2, <1>3 DEF LocType
<1>u. /\ UNCHANGED <<page_frames, page_frame_count, dir, table, mem, nic, cpu>>
      /\ UNCHANGED <<state, parent, page_dir, kstack, running>>
  BY DEF pfaVars, taskVars
<1>6. Moves(t, "pfa_alloc", m)
  BY <1>3 DEF Moves, Goto, Alloc, Local
<1>7. PlaceOf("pfa_alloc", m) = r
  BY <1>5 DEF PlaceOf
<1>8. ForkOk("pfa_alloc", m)
  <2>1. ForkOk(pc[t], l)
    BY <1>2
  <2>2. l.slot \in Slots /\ l.dir \in RAM /\ l.pd <= DEVICE_PD + 1
    BY <1>2, <2>1 DEF ForkOk
  <2>3. CASE r = "clone_page"
    <3>1. l.tab \in RAM /\ l.pd \in 1 .. DEVICE_PD
      BY <1>2, <2>1, <2>3 DEF ForkOk
    <3>2. QED
      BY <1>5, <1>7, <2>2, <2>3, <3>1 DEF ForkOk
  <2>4. CASE r # "clone_page"
    <3>1. l.tab = NULL
      BY <1>2, <2>1, <2>4 DEF ForkOk
    <3>2. QED
      BY <1>5, <1>7, <2>2, <2>4, <3>1 DEF ForkOk
  <2>5. QED
    BY <2>3, <2>4
<1>9. LocalOk("pfa_alloc", m) /\ PlaceOf("pfa_alloc", m) \in Forks
  <2>1. m.ret \in Forks \cap AllocReturns
    BY <1>5 DEF Forks, AllocReturns
  <2>2. QED
    BY <1>8, <2>1, CloneLocal
<1>10. pc'[current'] = "pfa_alloc" /\ loc'[current'] = m /\ Place(current)' = r /\ current' = t
  <2>1. pc'[t] = "pfa_alloc" /\ loc'[t] = m
    BY <1>6, MovesTo, ZenonT(60)
  <2>2. Place(t)' = r
    <3>1. PlaceOf(pc'[t], loc'[t]) = r
      BY <1>7, <2>1
    <3>2. QED
      BY <3>1 DEF Place
  <2>3. QED
    BY <2>1, <2>2
<1>11. CallInv(own)'
  BY <1>0, <1>5, <1>10 DEF CallInv, AllocReturns
<1>12. SeenInv'
  <2>1. r = "clone_page" => dir[page_dir[t]][l.pd] # Absent /\ dir[page_dir[t]][l.pd].u
    BY <1>0, <1>2 DEF SeenInv
  <2>2. QED
    BY <1>u, <1>2, <1>5, <1>10, <2>1 DEF SeenInv, Maps, Forks
<1>13. AloneInv'
  <2>1. Device' = Device
    BY <1>u DEF Device
  <2>2. r = "clone_page" => pc[t] \in {"clone_pte", "clone_page"}
    OBVIOUS
  <2>3. QED
    BY <1>u, <1>0, <1>2, <1>5, <1>10, <2>1, <2>2 DEF AloneInv
<1>14. CopyInv(own)'
  <2>1. Keeps(own, own, {"table", "page"})
    BY DEF Keeps
  <2>2. QED
    BY <1>u, <1>0, <1>2, <1>5, <1>6, <2>1, CopyStays
<1>15. Keeps(own, own, Settled) /\ Keeps(own, own, {"free"})
  BY DEF Keeps
<1>16. Good(own)'
  BY <1>u, <1>2, <1>6, <1>9, <1>11, <1>12, <1>13, <1>14, <1>15, CloneMove
<1>17. MemTypes'
  <2>1. "pfa_alloc" \in Labels
    BY DEF Labels
  <2>2. dir' \in [RAM -> [PDs -> Entries]] /\ table' \in [RAM -> [PTs -> Entries]]
    BY <1>u, <1>2 DEF Tables
  <2>3. mem' = [f \in RAM |-> [w \in Words |-> mem'[f][w]]]
    BY <1>u, SameMemory
  <2>4. QED
    BY <1>u, <1>4, <1>6, <2>1, <2>2, <2>3, CloneTypes
<1>18. QED
  BY <1>16, <1>17

\* Which tables fork copies.
LEMMA Copies ==
    ASSUME NEW own, KernelInv(own), NEW d, NEW D, Shape(table, own, D, d, DEVICE_PD + 1, Zero, Device),
           NEW p \in PDs
    PROVE  /\ p = 0 => D[p] = Zero /\ ~CopiesTable(p, D[p])
           /\ p \in 1 .. DEVICE_PD - 1 => UserEntry(table, own, D[p], d, p) /\ (CopiesTable(p, D[p]) <=> D[p] # Absent)
           /\ p = DEVICE_PD => D[p] = Device
           /\ CopiesTable(p, D[p]) => p \in 1 .. DEVICE_PD /\ D[p] # Absent /\ D[p].u
           /\ p = DEVICE_PD /\ ~CopiesTable(p, D[p]) => ~(Device # Absent /\ Device.u)
<1>1. p = 0 => D[p] = Zero /\ ~CopiesTable(p, D[p])
  <2> SUFFICES ASSUME p = 0 PROVE D[p] = Zero /\ ~CopiesTable(p, D[p])
    OBVIOUS
  <2>1. D[0] = Zero
    BY Sizes DEF Shape
  <2>2. \A i \in PTs : ~table[Zero.f][i].u
    BY DEF KernelInv
  <2>3. QED
    BY <2>1, <2>2 DEF CopiesTable
<1>2. p \in 1 .. DEVICE_PD - 1 => UserEntry(table, own, D[p], d, p) /\ (CopiesTable(p, D[p]) <=> D[p] # Absent) /\ (D[p] # Absent => D[p].u)
  <2> SUFFICES ASSUME p \in 1 .. DEVICE_PD - 1
               PROVE  UserEntry(table, own, D[p], d, p) /\ (CopiesTable(p, D[p]) <=> D[p] # Absent) /\ (D[p] # Absent => D[p].u)
    OBVIOUS
  <2>1. UserEntry(table, own, D[p], d, p)
    BY Sizes DEF Shape
  <2>2. D[p] # Absent => D[p].u /\ \E i \in PTs : table[D[p].f][i].u
    BY <2>1 DEF UserEntry
  <2>3. QED
    BY <2>1, <2>2 DEF CopiesTable
<1>3. p = DEVICE_PD => D[p] = Device /\ (CopiesTable(p, D[p]) <=> Device # Absent /\ Device.u)
  <2>1. DEVICE_PD + 1 > DEVICE_PD /\ ~(DEVICE_PD <= 1)
    BY Sizes
  <2>2. QED
    BY <2>1 DEF Shape, CopiesTable
<1>4. p = 0 \/ p \in 1 .. DEVICE_PD - 1 \/ p = DEVICE_PD
  BY Sizes DEF PDs
<1>5. p # 0 => p \in 1 .. DEVICE_PD
  BY Sizes DEF PDs
<1>6. QED
  BY <1>1, <1>2, <1>3, <1>4, <1>5

\* The new directory shares the entry.
LEMMA ShareStep ==
    ASSUME NEW own, MemTypes, Good(own), NEW t \in Slots, state[t] = "live", UNCHANGED <<hw, current>>,
           pc[t] = "clone_pde", t = current, cpu \in {"boot", "run"},
           UNCHANGED <<pfaVars, table, mem, nic, taskVars, cpu, pc>>,
           NEW d, d = loc[t].dir, NEW n \in PDs, n = loc[t].pd, NEW e, e = dir[page_dir[t]][n],
           ~CopiesTable(n, e), dir' = [dir EXCEPT ![d][n] = e],
           loc' = [loc EXCEPT ![t].pd = @ + 1]
    PROVE  MemTypes' /\ Good(own)'
<1>0. CallInv(own) /\ AloneInv
  BY GoodParts
<1>1. pc[t] \in Forks
  BY DEF Forks
<1>2. /\ loc[t] \in LocType /\ ForkOk(pc[t], loc[t]) /\ Place(t) = pc[t] /\ PlaceOf(pc[t], loc[t]) = pc[t] /\ cpu = "run"
      /\ dir \in [RAM -> [PDs -> Entries]] /\ table \in Tables /\ state[loc[t].slot] = "free" /\ loc[t].slot \in Slots
      /\ CopyInv(own) /\ KernelInv(own) /\ page_dir[t] \in RAM /\ own[page_dir[t]] = DirOf(t) /\ Booted
      /\ Shape(table, own, dir[page_dir[t]], page_dir[t], DEVICE_PD + 1, Zero, Device)
  BY <1>1, CloneFacts
<1>3. d \in RAM /\ own[d] = DirOf(NULL) /\ loc[t].tab = NULL
  <2>1. d \in RAM /\ loc[t].tab = NULL
    BY <1>1, <1>2 DEF ForkOk
  <2>2. d # NULL
    BY <2>1 DEF RAM, NULL
  <2>3. QED
    BY <1>0, <2>1, <2>2 DEF CallInv
<1>4. PICK m : m = [loc[t] EXCEPT !.pd = n + 1]
  OBVIOUS
<1>5. n + 1 \in Nat /\ n + 1 <= DEVICE_PD + 1 /\ n + 1 \in 0 .. DEVICE_PD + 1
  BY Sizes DEF PDs
<1>6. m \in LocType
  BY <1>2, <1>4, <1>5 DEF LocType
<1>7. m.slot = loc[t].slot /\ m.dir = d /\ m.tab = NULL /\ m.pd = n + 1
  BY <1>2, <1>3, <1>4 DEF LocType
<1>u. /\ UNCHANGED <<page_frames, page_frame_count, table, mem, nic, cpu, pc>>
      /\ UNCHANGED <<state, parent, page_dir, kstack, running>>
  BY DEF pfaVars, taskVars
<1>8. Moves(t, "clone_pde", m)
  <2>1. pc' = [pc EXCEPT ![t] = "clone_pde"]
    BY <1>u DEF MemTypes, CallTypes
  <2>2. loc' = [loc EXCEPT ![t] = m]
    BY <1>2, <1>4 DEF LocType
  <2>3. QED
    BY <2>1, <2>2 DEF Moves
<1>9. LocalOk("clone_pde", m) /\ PlaceOf("clone_pde", m) = "clone_pde" /\ PlaceOf("clone_pde", m) \in Forks
  <2>1. ForkOk("clone_pde", m)
    BY <1>2, <1>3, <1>5, <1>7 DEF ForkOk, PlaceOf
  <2>2. QED
    BY <2>1, CloneLocal DEF Forks, PlaceOf
<1>10. pc'[current'] = "clone_pde" /\ loc'[current'] = m /\ Place(current)' = "clone_pde" /\ current' = t
  BY <1>8, <1>9, MovesTo, PlacesMove
<1>11. CallInv(own)'
  BY <1>3, <1>7, <1>10 DEF CallInv, AllocReturns
<1>12. SeenInv'
  BY <1>u, <1>2, <1>7, <1>10 DEF SeenInv, Maps, Forks
<1>13. \A f \in RAM : f # d => dir'[f] = dir[f]
  BY <1>2
<1>14. page_dir[0] \in RAM /\ own[page_dir[0]] = DirOf(0)
  <2>1. TaskInv(own)
    BY GoodParts
  <2>2. page_dir[0] # NULL
    BY <1>2, <2>1 DEF TaskInv
  <2>3. QED
    BY <2>1, <2>2, ZeroIsSlot DEF TaskInv, MemTypes, TaskTypes
<1>15. Device' = Device /\ Zero' = Zero
  <2>1. page_dir[0] # d
    BY <1>3, <1>14 DEF DirOf, NULL
  <2>2. QED
    BY <1>u, <1>13, <1>14, <2>1 DEF Device, Zero
<1>16. PICK D, z, v : D = dir[page_dir[t]] /\ z = Zero /\ v = Device
  OBVIOUS
<1>17. /\ n = 0 => e = z
       /\ n = DEVICE_PD => e = v /\ ~(v # Absent /\ v.u)
       /\ n \in 1 .. DEVICE_PD - 1 => e = Absent
  BY <1>2, <1>16, Copies
<1>18. AloneInv'
  <2>1. Device # Absent /\ Device.u => n + 1 <= DEVICE_PD
    <3>1. Device # Absent /\ Device.u => n # DEVICE_PD
      BY <1>16, <1>17
    <3>2. QED
      BY <3>1, Sizes DEF PDs
  <2>2. QED
    BY <1>u, <1>0, <1>7, <1>10, <1>15, <2>1 DEF AloneInv
<1>19. CopyInv(own)'
  <2>1. PICK E, T : E = dir[d] /\ T = table
    OBVIOUS
  <2>2. E \in [PDs -> Entries] /\ Shape(T, own, E, d, n, z, v)
    <3>1. loc[t].dir # NULL
      BY <1>3 DEF RAM, NULL
    <3>2. QED
      BY <1>2, <1>3, <1>16, <2>1, <3>1 DEF CopyInv
  <2>3. n \in 1 .. DEVICE_PD - 1 => UserEntry(T, own, e, d, n)
    BY <1>17 DEF UserEntry
  <2>4. Shape(T, own, [E EXCEPT ![n] = e], d, n + 1, z, v)
    BY <1>17, <2>2, <2>3, ShapeGrows, ZenonT(60)
  <2>5. dir'[d] = [E EXCEPT ![n] = e] /\ T = table' /\ z = Zero' /\ v = Device'
    BY <1>u, <1>2, <1>3, <1>15, <1>16, <2>1
  <2>6. QED
    BY <1>7, <1>10, <2>4, <2>5 DEF CopyInv
<1>20. Keeps(own, own, Settled) /\ Keeps(own, own, {"free"})
  BY DEF Keeps
<1>21. Good(own)'
  <2>1. \A f \in RAM : own[f] # DirOf(NULL) => dir'[f] = dir[f]
    BY <1>3, <1>13
  <2>2. QED
    BY <1>u, <1>1, <1>2, <1>8, <1>9, <1>11, <1>12, <1>18, <1>19, <1>20, <2>1, CloneMove
<1>22. MemTypes'
  <2>1. "clone_pde" \in Labels
    BY DEF Labels
  <2>2. e \in Entries
    BY <1>2
  <2>3. dir' \in [RAM -> [PDs -> Entries]]
    BY <1>2, <2>2
  <2>4. table' \in [RAM -> [PTs -> Entries]]
    BY <1>u, <1>2 DEF Tables
  <2>5. mem' = [f \in RAM |-> [w \in Words |-> mem'[f][w]]]
    BY <1>u, SameMemory
  <2>6. QED
    BY <1>u, <1>6, <1>8, <2>1, <2>3, <2>4, <2>5, CloneTypes
<1>23. QED
  BY <1>21, <1>22

\* clone_pde: an entry is shared, its table copied, or the directory is complete.
LEMMA ClonePdeStep ==
    ASSUME NEW own, MemTypes, Good(own), NEW t \in Slots, state[t] = "live", UNCHANGED <<hw, current>>,
           clone_pde(t)
    PROVE  MemTypes' /\ Good(own)'
<1>1. /\ pc[t] \in Forks /\ pc[t] = "clone_pde" /\ t = current /\ cpu \in {"boot", "run"}
      /\ UNCHANGED <<pfaVars, table, mem, nic, taskVars, cpu>>
  BY DEF Forks, clone_pde, At
<1>2. /\ loc[t] \in LocType /\ ForkOk(pc[t], loc[t]) /\ PlaceOf(pc[t], loc[t]) = pc[t] /\ KernelInv(own)
      /\ Shape(table, own, dir[page_dir[t]], page_dir[t], DEVICE_PD + 1, Zero, Device)
  BY <1>1, CloneFacts
<1>3. PICK d, n, e : d = loc[t].dir /\ n = loc[t].pd /\ e = dir[page_dir[t]][n]
  OBVIOUS
<1>4. CASE n \in PDs /\ CopiesTable(n, e)
  <2>1. Alloc(t, loc[t], "clone_table") /\ UNCHANGED dir
    BY <1>3, <1>4 DEF clone_pde
  <2>2. n \in 1 .. DEVICE_PD /\ e # Absent /\ e.u
    BY <1>2, <1>3, <1>4, Copies
  <2>3. QED
    BY <1>1, <1>3, <2>1, <2>2, CloneAlloc
<1>5. CASE n \in PDs /\ ~CopiesTable(n, e)
  <2>1. dir' = [dir EXCEPT ![d][n] = e] /\ loc' = [loc EXCEPT ![t].pd = @ + 1] /\ UNCHANGED pc
    BY <1>3, <1>5 DEF clone_pde
  <2>2. QED
    BY <1>1, <1>3, <1>5, <2>1, ShareStep
<1>6. CASE n \notin PDs
  <2>1. Alloc(t, loc[t], "fork_stack") /\ UNCHANGED dir
    BY <1>3, <1>6 DEF clone_pde
  <2>2. n \in Nat /\ n <= DEVICE_PD + 1
    BY <1>1, <1>2, <1>3 DEF ForkOk, LocType
  <2>3. n = DEVICE_PD + 1
    BY <1>6, <2>2, Sizes DEF PDs
  <2>4. QED
    BY <1>1, <1>3, <2>1, <2>3, CloneAlloc
<1>7. QED
  BY <1>4, <1>5, <1>6

\* clone_table: an empty table.
LEMMA CloneTableStep ==
    ASSUME NEW own, MemTypes, Good(own), NEW t \in Slots, state[t] = "live", UNCHANGED <<hw, current>>,
           clone_table(t)
    PROVE  MemTypes' /\ \E own2 : Good(own2)'
<1>0. CallInv(own) /\ AloneInv /\ SeenInv
  BY GoodParts
<1>1. pc[t] \in Forks /\ pc[t] = "clone_table" /\ t = current /\ cpu \in {"boot", "run"}
  BY DEF Forks, clone_table, At
<1>2. /\ loc[t] \in LocType /\ ForkOk(pc[t], loc[t]) /\ Place(t) = pc[t] /\ PlaceOf(pc[t], loc[t]) = pc[t] /\ cpu = "run"
      /\ dir \in [RAM -> [PDs -> Entries]] /\ table \in Tables /\ state[loc[t].slot] = "free" /\ loc[t].slot \in Slots
      /\ CopyInv(own)
  BY <1>1, CloneFacts
<1>3. PICK g \in RAM : g = loc[t].got /\ own[g] = Got
  BY <1>0, <1>1 DEF CallInv, AllocReturns
<1>4. PICK own2, m, d, p : own2 = Retag(own, g, Copying) /\ m = [loc[t] EXCEPT !.tab = g, !.pt = 0]
                           /\ d = loc[t].dir /\ p = loc[t].pd
  OBVIOUS
<1>5. m \in LocType
  BY <1>2, <1>4 DEF LocType
<1>6. m.slot = loc[t].slot /\ m.dir = d /\ m.tab = g /\ m.pd = p /\ m.pt = 0
  BY <1>2, <1>4 DEF LocType
<1>u. /\ UNCHANGED <<page_frames, page_frame_count, dir, mem, nic, cpu>>
      /\ UNCHANGED <<state, parent, page_dir, kstack, running>>
  BY DEF clone_table, pfaVars, taskVars
<1>7. Moves(t, "clone_pte", m)
  BY <1>3, <1>4 DEF clone_table, Moves, Goto
<1>8. d \in RAM /\ p \in 1 .. DEVICE_PD /\ p <= DEVICE_PD + 1
  BY <1>1, <1>2, <1>4 DEF ForkOk
<1>9. LocalOk("clone_pte", m) /\ PlaceOf("clone_pte", m) = "clone_pte" /\ PlaceOf("clone_pte", m) \in Forks
  <2>1. ForkOk("clone_pte", m)
    BY <1>2, <1>6, <1>8, Sizes DEF ForkOk, PlaceOf
  <2>2. QED
    BY <2>1, CloneLocal DEF Forks, PlaceOf
<1>10. pc'[current'] = "clone_pte" /\ loc'[current'] = m /\ Place(current)' = "clone_pte" /\ current' = t
  BY <1>1, <1>7, <1>9, MovesTo, PlacesMove
<1>11. Keeps(own, own2, Settled) /\ Keeps(own, own2, {"free"})
  BY <1>3, <1>4, RetagKeeps DEF Got, Settled
<1>12. d # NULL /\ own[d] = DirOf(NULL)
  <2>1. d # NULL
    BY <1>8 DEF RAM, NULL
  <2>2. QED
    BY <1>0, <1>1, <1>4, <2>1 DEF CallInv
<1>13. own2[g] = Copying /\ own2[d] = DirOf(NULL)
  <2>1. own2[g] = Copying
    BY <1>3, <1>4 DEF Retag
  <2>2. own2[d] = DirOf(NULL)
    BY <1>8, <1>11, <1>12 DEF Keeps, Settled, DirOf
  <2>3. QED
    BY <2>1, <2>2
<1>14. CallInv(own2)'
  BY <1>6, <1>10, <1>13 DEF CallInv, AllocReturns
<1>15. SeenInv'
  <2>1. dir[page_dir[t]][p] # Absent /\ dir[page_dir[t]][p].u
    BY <1>0, <1>1, <1>2, <1>4 DEF SeenInv
  <2>2. QED
    BY <1>u, <1>2, <1>6, <1>10, <2>1 DEF SeenInv, Maps, Forks
<1>16. AloneInv'
  <2>1. Device' = Device
    BY <1>u DEF Device
  <2>2. p <= DEVICE_PD
    BY <1>8, Sizes
  <2>3. QED
    BY <1>u, <1>0, <1>6, <1>10, <2>1, <2>2 DEF AloneInv
<1>17. table' = [table EXCEPT ![g] = EmptyTable]
  BY <1>3 DEF clone_table
<1>18. \A f \in RAM : f # g => table'[f] = table[f]
  BY <1>2, <1>17 DEF Tables
<1>19. CopyInv(own2)'
  <2>1. PICK T, T2, E, z, v, s : T = table /\ T2 = table' /\ E = dir[d] /\ z = Zero /\ v = Device
                                 /\ s = dir[page_dir[t]][p].f
    OBVIOUS
  <2>2. Shape(T, own, E, d, p, z, v)
    BY <1>1, <1>2, <1>4, <1>12, <2>1 DEF CopyInv
  <2>3. Untouched(T, T2, own, own2, d)
    BY <1>3, <1>11, <1>18, <2>1 DEF Untouched, Mine, Keeps, Settled, Got
  <2>4. Shape(T2, own2, E, d, p, z, v)
    <3>1. p \in 0 .. DEVICE_PD + 1
      BY <1>8, Sizes
    <3>2. QED
      BY <2>2, <2>3, <3>1, ShapeKept
  <2>5. CopyShape(T2, own2, g, d, p, 0, s)
    <3>1. T \in Tables /\ T2 = [T EXCEPT ![g] = EmptyTable]
      BY <1>2, <1>17, <2>1
    <3>2. QED
      BY <3>1, CopyStart
  <2>6. E = dir'[d] /\ z = Zero' /\ v = Device' /\ s = dir'[page_dir'[t]][p].f
    BY <1>u, <2>1 DEF Zero, Device
  <2>7. QED
    BY <1>6, <1>10, <2>1, <2>4, <2>5, <2>6 DEF CopyInv
<1>20. Good(own2)'
  <2>1. \A f \in RAM : own[f][1] \notin {"got", "copying"} => table'[f] = table[f]
    BY <1>3, <1>18 DEF Got
  <2>2. QED
    BY <1>u, <1>1, <1>2, <1>7, <1>9, <1>11, <1>14, <1>15, <1>16, <1>19, <2>1, CloneMove
<1>21. MemTypes'
  <2>1. "clone_pte" \in Labels
    BY DEF Labels
  <2>2. dir' \in [RAM -> [PDs -> Entries]]
    BY <1>u, <1>2
  <2>3. EmptyTable \in [PTs -> Entries]
    BY DEF EmptyTable, Entries
  <2>4. table' \in [RAM -> [PTs -> Entries]]
    BY <1>2, <1>17, <2>3 DEF Tables
  <2>5. mem' = [f \in RAM |-> [w \in Words |-> mem'[f][w]]]
    BY <1>u, SameMemory
  <2>6. QED
    BY <1>u, <1>5, <1>7, <2>1, <2>2, <2>4, <2>5, CloneTypes
<1>22. QED
  BY <1>20, <1>21

\* Where fork has come to: entry n of the new table k for entry p of the new directory d.
CopyAt(t, d, k, p, n, s) ==
    d = loc[t].dir /\ k = loc[t].tab /\ p = loc[t].pd /\ n = loc[t].pt /\ s = dir[page_dir[t]][p]

\* The table being copied: of the program, or of a frame buffer that came first.
CopySource(own, t, d, k, p, n, s) ==
    /\ d \in RAM /\ own[d] = DirOf(NULL) /\ k \in RAM /\ own[k] = Copying
    /\ p \in 1 .. DEVICE_PD /\ n \in Nat /\ s # Absent /\ s.u = TRUE
    /\ p = DEVICE_PD => /\ hw.vbe /\ ~hw.nic /\ n = 0 /\ table[s.f][n] = [f |-> FbPhys(0), u |-> TRUE]
    /\ p # DEVICE_PD => /\ p \in 1 .. DEVICE_PD - 1 /\ UserEntry(table, own, s, page_dir[t], p)
                        /\ s.f \in RAM /\ s.f # k
    /\ Shape(table, own, dir[d], d, p, Zero, Device)
    /\ CopyShape(table, own, k, d, p, n, s.f)

\* What fork copies from, and what it has so far.
LEMMA CopyFacts ==
    ASSUME NEW own, MemTypes, Good(own), NEW t \in Slots, state[t] = "live", t = current, cpu \in {"boot", "run"},
           pc[t] \in {"clone_pte", "clone_page"},
           NEW d, NEW k, NEW p, NEW n, NEW s,
           CopyAt(t, d, k, p, n, s)
    PROVE  CopySource(own, t, d, k, p, n, s)
<1>0. CallInv(own) /\ AloneInv /\ SeenInv /\ DeviceInv
  BY GoodParts
<1>a. d = loc[t].dir /\ k = loc[t].tab /\ p = loc[t].pd /\ n = loc[t].pt /\ s = dir[page_dir[t]][p]
  BY DEF CopyAt
<1>1. pc[t] \in Forks
  BY DEF Forks
<1>2. /\ loc[t] \in LocType /\ ForkOk(pc[t], loc[t]) /\ Place(t) = pc[t] /\ PlaceOf(pc[t], loc[t]) = pc[t] /\ cpu = "run"
      /\ dir \in [RAM -> [PDs -> Entries]] /\ page_dir[t] \in RAM /\ Booted
      /\ CopyInv(own) /\ KernelInv(own)
      /\ Shape(table, own, dir[page_dir[t]], page_dir[t], DEVICE_PD + 1, Zero, Device)
  BY <1>1, CloneFacts
<1>3. d \in RAM /\ k \in RAM /\ p \in 1 .. DEVICE_PD /\ n \in Nat
  <2>1. n \in Nat
    BY <1>a, <1>2 DEF LocType
  <2>2. QED
    BY <1>a, <1>2, <2>1 DEF ForkOk, Forks
<1>4. d # NULL /\ k # NULL
  BY <1>3 DEF RAM, NULL
<1>5. own[d] = DirOf(NULL) /\ own[k] = Copying
  BY <1>a, <1>0, <1>4 DEF CallInv
<1>6. /\ Shape(table, own, dir[d], d, p, Zero, Device)
      /\ CopyShape(table, own, k, d, p, n, s.f)
  BY <1>a, <1>2, <1>4 DEF CopyInv
<1>7. s # Absent /\ s.u
  BY <1>a, <1>0, <1>2 DEF SeenInv
<1>8. s.u = TRUE
  <2>1. s \in Entries /\ p \in PDs
    <3>1. p \in PDs
      BY <1>3, Sizes DEF PDs
    <3>2. QED
      BY <1>a, <1>2, <3>1
  <2>2. s.u \in BOOLEAN
    BY <1>7, <2>1 DEF Entries
  <2>3. QED
    BY <1>7, <2>2
<1>9. ASSUME p = DEVICE_PD
      PROVE  hw.vbe /\ ~hw.nic /\ n = 0 /\ table[s.f][n] = [f |-> FbPhys(0), u |-> TRUE]
  <2>1. DEVICE_PD + 1 > DEVICE_PD
    BY Sizes
  <2>2. s = Device
    BY <1>a, <1>2, <1>9, <2>1 DEF Shape
  <2>3. n = 0
    BY <1>a, <1>0, <1>2, <1>7, <1>9, <2>2 DEF AloneInv
  <2>4. ~hw.nic /\ hw.vbe /\ FbPages > 0
    BY <1>2, <1>7, <2>2 DEF KernelInv
  <2>5. 0 \in 0 .. Shown - 1
    BY <1>2, <2>4, Sizes DEF Shown
  <2>6. table[Device.f][0] = [f |-> FbPhys(0), u |-> TRUE]
    BY <1>0, <1>2, <2>4, <2>5 DEF DeviceInv
  <2>7. QED
    BY <2>2, <2>3, <2>4, <2>6
<1>10. ASSUME p # DEVICE_PD
       PROVE  p \in 1 .. DEVICE_PD - 1 /\ UserEntry(table, own, s, page_dir[t], p) /\ s.f \in RAM /\ s.f # k
  <2>1. p \in 1 .. DEVICE_PD - 1 /\ p < DEVICE_PD + 1
    BY <1>3, <1>10, Sizes
  <2>2. UserEntry(table, own, s, page_dir[t], p)
    BY <1>a, <1>2, <2>1 DEF Shape
  <2>3. s.f \in RAM /\ own[s.f] = TableOf(page_dir[t], p)
    BY <1>7, <2>2 DEF UserEntry
  <2>4. own[s.f][1] = "table" /\ own[k][1] = "copying"
    BY <1>5, <2>3 DEF TableOf, Copying
  <2>5. s.f # k
    BY <2>4
  <2>6. QED
    BY <2>1, <2>2, <2>3, <2>5
<1>11. QED
  BY <1>3, <1>5, <1>6, <1>7, <1>8, <1>9, <1>10 DEF CopySource

\* The locals after an entry, and after a table.
NextEntry(l, n) == [l EXCEPT !.pt = n + 1]
NextTable(l, p) == [l EXCEPT !.pd = p + 1, !.tab = NULL]

\* The entry x is written into a directory.
Links(d, p, x) == dir' = [dir EXCEPT ![d][p] = x]

\* The step of fork that goes on to label q with locals m, the new table being filled.
LEMMA FillMove ==
    ASSUME NEW own, NEW own2, MemTypes, Good(own), NEW t \in Slots, state[t] = "live", t = current,
           pc[t] \in {"clone_pte", "clone_page"}, cpu = "run",
           UNCHANGED <<hw, current, cpu, page_frames, page_frame_count, dir, nic>>,
           UNCHANGED <<state, parent, page_dir, kstack, running>>,
           mem' = [f \in RAM |-> [w \in Words |-> mem'[f][w]]],
           NEW d, NEW k, NEW p, NEW n, NEW s,
           CopyAt(t, d, k, p, n, s),
           n \in PTs, p # DEVICE_PD, NEW m, m = NextEntry(loc[t], n), Moves(t, "clone_pte", m),
           NEW x \in Entries, Enters(k, n, x),
           Keeps(own, own2, Settled), Keeps(own, own2, {"free"}), own2[k] = Copying,
           CopyShape(table', own2, k, d, p, n + 1, s.f)
    PROVE  MemTypes' /\ Good(own2)'
<1>0. AloneInv
  BY GoodParts
<1>1. pc[t] \in Forks
  BY DEF Forks
<1>2. /\ loc[t] \in LocType /\ Place(t) = pc[t]
      /\ dir \in [RAM -> [PDs -> Entries]] /\ table \in Tables /\ state[loc[t].slot] = "free" /\ loc[t].slot \in Slots
  BY <1>1, CloneFacts
<1>3. /\ d \in RAM /\ own[d] = DirOf(NULL) /\ k \in RAM /\ own[k] = Copying
      /\ p \in 1 .. DEVICE_PD /\ n \in Nat /\ s # Absent /\ s.u = TRUE
      /\ Shape(table, own, dir[d], d, p, Zero, Device)
  <2>1. CopySource(own, t, d, k, p, n, s)
    BY CopyFacts, Zenon
  <2>2. QED
    BY <2>1 DEF CopySource
<1>a. d = loc[t].dir /\ k = loc[t].tab /\ p = loc[t].pd /\ n = loc[t].pt /\ s = dir[page_dir[t]][p]
  BY DEF CopyAt
<1>4. n + 1 \in Nat /\ n + 1 <= PTES /\ p <= DEVICE_PD /\ p <= DEVICE_PD + 1 /\ p \in 0 .. DEVICE_PD + 1
  BY <1>3, Sizes DEF PTs
<1>5. m \in LocType
  BY <1>2, <1>4 DEF LocType, NextEntry
<1>6. m.slot = loc[t].slot /\ m.dir = d /\ m.tab = k /\ m.pd = p /\ m.pt = n + 1
  BY <1>a, <1>2 DEF LocType, NextEntry
<1>7. LocalOk("clone_pte", m) /\ PlaceOf("clone_pte", m) = "clone_pte" /\ PlaceOf("clone_pte", m) \in Forks
  <2>1. ForkOk("clone_pte", m)
    BY <1>2, <1>3, <1>4, <1>6 DEF ForkOk, PlaceOf
  <2>2. QED
    BY <2>1, CloneLocal DEF Forks, PlaceOf
<1>8. pc'[current'] = "clone_pte" /\ loc'[current'] = m /\ Place(current)' = "clone_pte" /\ current' = t
  BY <1>7, MovesTo, PlacesMove
<1>9. own2[d] = DirOf(NULL)
  BY <1>3 DEF Keeps, Settled, DirOf
<1>10. CallInv(own2)'
  BY <1>6, <1>8, <1>9 DEF CallInv, AllocReturns
<1>11. SeenInv'
  BY <1>a, <1>2, <1>3, <1>6, <1>8, SMTT(30) DEF SeenInv, Maps, Forks
<1>12. AloneInv'
  <2>1. Device' = Device
    BY DEF Device
  <2>2. QED
    BY <1>0, <1>4, <1>6, <1>8, <2>1 DEF AloneInv
<1>13. table' = [table EXCEPT ![k][n] = x]
  BY DEF Enters
<1>14. \A f \in RAM : f # k => table'[f] = table[f]
  BY <1>2, <1>13 DEF Tables
<1>15. CopyInv(own2)'
  <2>1. PICK T, T2, E, z, v, h : T = table /\ T2 = table' /\ E = dir[d] /\ z = Zero /\ v = Device /\ h = s.f
    OBVIOUS
  <2>2. Shape(T, own, E, d, p, z, v)
    BY <1>3, <2>1
  <2>3. Untouched(T, T2, own, own2, d)
    BY <1>3, <1>14, <2>1 DEF Untouched, Mine, Keeps, Settled, Copying
  <2>4. Shape(T2, own2, E, d, p, z, v)
    BY <1>4, <2>2, <2>3, ShapeKept
  <2>5. E = dir'[d] /\ z = Zero' /\ v = Device' /\ h = dir'[page_dir'[t]][p].f
    BY <1>a, <2>1 DEF Zero, Device
  <2>6. CopyShape(T2, own2, k, d, p, n + 1, h)
    BY <2>1
  <2>7. QED
    BY <1>6, <1>8, <2>1, <2>4, <2>5, <2>6 DEF CopyInv
<1>16. Good(own2)'
  <2>1. \A f \in RAM : own[f][1] \notin {"got", "copying"} => table'[f] = table[f]
    BY <1>3, <1>14 DEF Copying
  <2>2. \A f \in RAM : own[f] # DirOf(NULL) => dir'[f] = dir[f]
    OBVIOUS
  <2>3. QED
    BY <1>1, <1>7, <1>10, <1>11, <1>12, <1>15, <2>1, <2>2, CloneMove
<1>17. MemTypes'
  <2>1. "clone_pte" \in Labels
    BY DEF Labels
  <2>2. dir' \in [RAM -> [PDs -> Entries]]
    BY <1>2
  <2>3. table' \in [RAM -> [PTs -> Entries]]
    <3>1. PICK T, T2 : T = table /\ T2 = table'
      OBVIOUS
    <3>2. T \in Tables /\ T2 = [T EXCEPT ![k][n] = x]
      BY <1>2, <1>13, <3>1
    <3>3. T2 \in Tables
      BY <1>3, <3>2, EntrySet
    <3>4. QED
      BY <3>1, <3>3 DEF Tables
  <2>4. QED
    BY <1>5, <2>1, <2>2, <2>3, CloneTypes
<1>18. QED
  BY <1>16, <1>17

\* The new table is entered in the new directory.
LEMMA EnterStep ==
    ASSUME NEW own, MemTypes, Good(own), NEW t \in Slots, state[t] = "live", UNCHANGED <<hw, current>>,
           pc[t] = "clone_pte", t = current, cpu \in {"boot", "run"},
           UNCHANGED <<pfaVars, table, mem, nic, taskVars, cpu>>,
           NEW d, NEW k, NEW p, NEW n, NEW s,
           CopyAt(t, d, k, p, n, s),
           n \notin PTs, NEW x, x = MappedEntry(k, s), Links(d, p, x),
           NEW m, m = NextTable(loc[t], p), Moves(t, "clone_pde", m)
    PROVE  MemTypes' /\ \E own2 : Good(own2)'
<1>0. AloneInv
  BY GoodParts
<1>1. pc[t] \in Forks
  BY DEF Forks
<1>2. /\ loc[t] \in LocType /\ ForkOk(pc[t], loc[t]) /\ Place(t) = pc[t] /\ PlaceOf(pc[t], loc[t]) = pc[t] /\ cpu = "run"
      /\ dir \in [RAM -> [PDs -> Entries]] /\ table \in Tables /\ state[loc[t].slot] = "free" /\ loc[t].slot \in Slots
      /\ Booted
  BY <1>1, CloneFacts
<1>3. /\ d \in RAM /\ own[d] = DirOf(NULL) /\ k \in RAM /\ own[k] = Copying
      /\ p \in 1 .. DEVICE_PD /\ n \in Nat /\ s # Absent /\ s.u = TRUE
      /\ p = DEVICE_PD => n = 0
      /\ p # DEVICE_PD => /\ p \in 1 .. DEVICE_PD - 1 /\ UserEntry(table, own, s, page_dir[t], p)
                          /\ s.f \in RAM /\ s.f # k
      /\ Shape(table, own, dir[d], d, p, Zero, Device)
      /\ CopyShape(table, own, k, d, p, n, s.f)
  <2>1. CopySource(own, t, d, k, p, n, s)
    BY CopyFacts, Zenon
  <2>2. QED
    BY <2>1 DEF CopySource
<1>a. d = loc[t].dir /\ k = loc[t].tab /\ p = loc[t].pd /\ n = loc[t].pt /\ s = dir[page_dir[t]][p]
  BY DEF CopyAt
<1>4. n = PTES /\ p \in 1 .. DEVICE_PD - 1
  <2>1. n <= PTES
    BY <1>a, <1>1, <1>2 DEF ForkOk
  <2>2. n = PTES
    BY <1>3, <2>1, Sizes DEF PTs
  <2>3. p # DEVICE_PD
    BY <1>3, <2>2, Sizes
  <2>4. QED
    BY <1>3, <2>2, <2>3
<1>5. p \in PDs /\ p + 1 \in Nat /\ p + 1 <= DEVICE_PD /\ p + 1 <= DEVICE_PD + 1 /\ p + 1 \in 0 .. DEVICE_PD + 1
      /\ p \in 0 .. DEVICE_PD + 1 /\ p # 0 /\ p # DEVICE_PD
  BY <1>4, Sizes DEF PDs
<1>6. x = [f |-> k, u |-> TRUE]
  BY <1>3 DEF MappedEntry
<1>7. PICK own2 : own2 = Retag(own, k, TableOf(d, p))
  OBVIOUS
<1>8. m \in LocType
  BY <1>2, <1>5 DEF LocType, NextTable
<1>9. m.slot = loc[t].slot /\ m.dir = d /\ m.tab = NULL /\ m.pd = p + 1
  BY <1>a, <1>2 DEF LocType, NextTable
<1>u. /\ UNCHANGED <<page_frames, page_frame_count, table, mem, nic, cpu>>
      /\ UNCHANGED <<state, parent, page_dir, kstack, running>>
  BY DEF pfaVars, taskVars
<1>11. LocalOk("clone_pde", m) /\ PlaceOf("clone_pde", m) = "clone_pde" /\ PlaceOf("clone_pde", m) \in Forks
  <2>1. ForkOk("clone_pde", m)
    BY <1>2, <1>3, <1>5, <1>9 DEF ForkOk, PlaceOf
  <2>2. QED
    BY <2>1, CloneLocal DEF Forks, PlaceOf
<1>12. pc'[current'] = "clone_pde" /\ loc'[current'] = m /\ Place(current)' = "clone_pde" /\ current' = t
  BY <1>11, MovesTo, PlacesMove
<1>13. Keeps(own, own2, Settled) /\ Keeps(own, own2, {"free"})
  BY <1>3, <1>7, RetagKeeps DEF Copying, Settled
<1>14. own2[d] = DirOf(NULL)
  BY <1>3, <1>13 DEF Keeps, Settled, DirOf
<1>15. CallInv(own2)'
  BY <1>9, <1>12, <1>14 DEF CallInv, AllocReturns
<1>16. SeenInv'
  BY <1>u, <1>2, <1>9, <1>12 DEF SeenInv, Maps, Forks
<1>17. \A f \in RAM : f # d => dir'[f] = dir[f]
  BY <1>2 DEF Links
<1>18. page_dir[0] \in RAM /\ own[page_dir[0]] = DirOf(0)
  <2>1. TaskInv(own)
    BY GoodParts
  <2>2. page_dir[0] # NULL
    BY <1>2, <2>1 DEF TaskInv
  <2>3. QED
    BY <2>1, <2>2, ZeroIsSlot DEF TaskInv, MemTypes, TaskTypes
<1>19. Device' = Device /\ Zero' = Zero
  <2>1. page_dir[0] # d
    BY <1>3, <1>18 DEF DirOf, NULL
  <2>2. QED
    BY <1>u, <1>17, <1>18, <2>1 DEF Device, Zero
<1>20. AloneInv'
  BY <1>u, <1>0, <1>5, <1>9, <1>12, <1>19 DEF AloneInv
<1>21. CopyInv(own2)'
  <2>1. PICK T, E, z, v, c : T = table /\ E = dir[d] /\ z = Zero /\ v = Device /\ c = page_dir[t]
    OBVIOUS
  <2>2. E \in [PDs -> Entries] /\ Shape(T, own, E, d, p, z, v)
    BY <1>2, <1>3, <2>1
  <2>3. Untouched(T, T, own, own2, d)
    BY <1>13 DEF Untouched, Mine, Keeps, Settled
  <2>4. Shape(T, own2, E, d, p, z, v)
    BY <1>5, <2>2, <2>3, ShapeKept
  <2>5. UserEntry(T, own2, x, d, p)
    <3>1. UserEntry(T, own, s, c, p) /\ CopyShape(T, own, k, d, p, PTES, s.f)
      BY <1>3, <1>4, <1>5, <2>1
    <3>2. UserEntry(T, Retag(own, k, TableOf(d, p)), [f |-> k, u |-> TRUE], d, p)
      BY <1>3, <3>1, CopyDone
    <3>3. QED
      BY <1>6, <1>7, <3>2
  <2>6. Shape(T, own2, [E EXCEPT ![p] = x], d, p + 1, z, v)
    BY <1>5, <2>2, <2>4, <2>5, ShapeGrows
  <2>7. dir'[d] = [E EXCEPT ![p] = x] /\ T = table' /\ z = Zero' /\ v = Device'
    BY <1>u, <1>2, <1>3, <1>19, <2>1 DEF Links
  <2>8. QED
    BY <1>9, <1>12, <2>6, <2>7 DEF CopyInv
<1>22. Good(own2)'
  <2>1. \A f \in RAM : own[f] # DirOf(NULL) => dir'[f] = dir[f]
    BY <1>3, <1>17
  <2>2. QED
    BY <1>u, <1>1, <1>2, <1>11, <1>13, <1>15, <1>16, <1>20, <1>21, <2>1, CloneMove
<1>23. MemTypes'
  <2>1. "clone_pde" \in Labels
    BY DEF Labels
  <2>2. x \in Entries
    BY <1>3, <1>6, Sizes DEF Entries, RAM
  <2>3. dir' \in [RAM -> [PDs -> Entries]]
    BY <1>2, <2>2 DEF Links
  <2>4. table' \in [RAM -> [PTs -> Entries]]
    BY <1>u, <1>2 DEF Tables
  <2>5. mem' = [f \in RAM |-> [w \in Words |-> mem'[f][w]]]
    BY <1>u, SameMemory
  <2>6. QED
    BY <1>u, <1>8, <2>1, <2>3, <2>4, <2>5, CloneTypes
<1>24. QED
  BY <1>22, <1>23

\* clone_pte: a page is to be copied, an entry is, or the table is complete.
LEMMA ClonePteStep ==
    ASSUME NEW own, MemTypes, Good(own), NEW t \in Slots, state[t] = "live", UNCHANGED <<hw, current>>,
           clone_pte(t)
    PROVE  MemTypes' /\ \E own2 : Good(own2)'
<1>1. /\ pc[t] \in Forks /\ pc[t] = "clone_pte" /\ t = current /\ cpu \in {"boot", "run"}
      /\ UNCHANGED <<pfaVars, mem, nic, taskVars, cpu>>
  BY DEF Forks, clone_pte, At
<1>2. loc[t] \in LocType /\ cpu = "run" /\ table \in Tables /\ dir \in [RAM -> [PDs -> Entries]]
  BY <1>1, CloneFacts
<1>3. PICK d, k, p, n, s : CopyAt(t, d, k, p, n, s)
  BY DEF CopyAt
<1>4. CopySource(own, t, d, k, p, n, s)
  BY <1>1, <1>3, CopyFacts, Zenon
<1>5. PICK e : e = table[s.f][n]
  OBVIOUS
<1>u. /\ UNCHANGED <<page_frames, page_frame_count, mem, nic, cpu>>
      /\ UNCHANGED <<state, parent, page_dir, kstack, running>>
  BY <1>1 DEF pfaVars, taskVars
<1>6. CASE n \in PTs /\ e.u
  <2>1. Alloc(t, loc[t], "clone_page") /\ UNCHANGED <<dir, table>>
    BY <1>3, <1>5, <1>6 DEF clone_pte, CopyAt
  <2>2. loc[t].pt \in PTs /\ table[dir[page_dir[t]][loc[t].pd].f][loc[t].pt].u
    BY <1>3, <1>5, <1>6 DEF CopyAt
  <2>3. QED
    BY <1>1, <2>1, <2>2, CloneAlloc
<1>7. CASE n \in PTs /\ ~e.u
  <2>1. Enters(k, n, e) /\ UNCHANGED <<dir, pc>> /\ loc' = [loc EXCEPT ![t].pt = @ + 1]
    BY <1>3, <1>5, <1>7 DEF clone_pte, CopyAt, Enters
  <2>2. PICK m : m = NextEntry(loc[t], n)
    OBVIOUS
  <2>3. Moves(t, "clone_pte", m)
    <3>1. loc' = [loc EXCEPT ![t] = m]
      BY <1>2, <1>3, <2>1, <2>2 DEF CopyAt, NextEntry, LocType
    <3>2. QED
      BY <1>1, <2>1, <3>1 DEF Moves, MemTypes, CallTypes
  <2>4. p # DEVICE_PD
    BY <1>4, <1>5, <1>7 DEF CopySource
  <2>5. s.f \in RAM /\ k \in RAM /\ s.f # k /\ own[k] = Copying /\ CopyShape(table, own, k, d, p, n, s.f)
    BY <1>4, <2>4 DEF CopySource
  <2>6. e = Absent
    <3>1. UserEntry(table, own, s, page_dir[t], p) /\ s # Absent
      BY <1>4, <2>4 DEF CopySource
    <3>2. PageOk(own, e, page_dir[t], p, n)
      BY <1>5, <1>7, <3>1 DEF UserEntry
    <3>3. QED
      BY <1>7, <3>2 DEF PageOk
  <2>7. CopyShape(table', own, k, d, p, n + 1, s.f)
    <3>1. PICK T, h : T = table /\ h = s.f
      OBVIOUS
    <3>2. T \in Tables /\ h \in RAM /\ h # k /\ CopyShape(T, own, k, d, p, n, h) /\ T[h][n] = Absent
      BY <1>2, <1>5, <2>5, <2>6, <3>1
    <3>3. CopyShape([T EXCEPT ![k][n] = T[h][n]], own, k, d, p, n + 1, h)
      BY <1>7, <2>5, <3>2, CopySkip
    <3>4. table' = [T EXCEPT ![k][n] = T[h][n]]
      BY <1>5, <2>1, <3>1 DEF Enters
    <3>5. QED
      BY <3>1, <3>3, <3>4
  <2>8. Keeps(own, own, Settled) /\ Keeps(own, own, {"free"})
    BY DEF Keeps
  <2>9. e \in Entries
    BY <2>6 DEF Entries
  <2>10. mem' = [f \in RAM |-> [w \in Words |-> mem'[f][w]]]
    BY <1>u, SameMemory
  <2>11. UNCHANGED <<hw, current, cpu, page_frames, page_frame_count, dir, nic>>
         /\ UNCHANGED <<state, parent, page_dir, kstack, running>>
    BY <1>u, <2>1
  <2>12. n \in PTs /\ pc[t] \in {"clone_pte", "clone_page"}
    BY <1>1, <1>7
  <2>13. MemTypes' /\ Good(own)'
    BY <1>1, <1>2, <1>3, <2>1, <2>2, <2>3, <2>4, <2>5, <2>7, <2>8, <2>9, <2>10, <2>11, <2>12, FillMove
  <2>14. QED
    BY <2>13
<1>8. CASE n \notin PTs
  <2>1. PICK m, x : m = NextTable(loc[t], p) /\ x = MappedEntry(k, s)
    OBVIOUS
  <2>2. /\ Links(d, p, x) /\ UNCHANGED table /\ Goto(t, "clone_pde")
        /\ loc' = [loc EXCEPT ![t].pd = @ + 1, ![t].tab = NULL]
    BY <1>3, <1>8, <2>1 DEF clone_pte, CopyAt, Links, MappedEntry
  <2>3. Moves(t, "clone_pde", m)
    <3>1. loc' = [loc EXCEPT ![t] = m]
      BY <1>2, <1>3, <2>1, <2>2 DEF CopyAt, NextTable, LocType
    <3>2. QED
      BY <2>2, <3>1 DEF Moves, Goto
  <2>4. QED
    BY <1>1, <1>3, <1>8, <2>1, <2>2, <2>3, EnterStep
<1>9. QED
  BY <1>6, <1>7, <1>8

\* The page is copied, or its source is a page of the frame buffer, which is not RAM.
LEMMA ClonePageStep ==
    ASSUME NEW own, MemTypes, Good(own), NEW t \in Slots, state[t] = "live", UNCHANGED <<hw, current>>,
           clone_page(t)
    PROVE  MemTypes' /\ ((cpu' = "page fault" /\ hw.vbe /\ ~hw.nic) \/ (cpu' = cpu /\ \E own2 : Good(own2)'))
<1>0. CallInv(own) /\ SeenInv
  BY GoodParts
<1>1. /\ pc[t] \in Forks /\ pc[t] = "clone_page" /\ t = current /\ cpu \in {"boot", "run"}
      /\ UNCHANGED <<pfaVars, dir, nic, taskVars>>
  BY DEF Forks, clone_page, At
<1>2. /\ loc[t] \in LocType /\ ForkOk(pc[t], loc[t]) /\ PlaceOf(pc[t], loc[t]) = pc[t] /\ Place(t) = pc[t]
      /\ cpu = "run" /\ table \in Tables /\ dir \in [RAM -> [PDs -> Entries]]
  BY <1>1, CloneFacts
<1>3. PICK d, k, p, n, s : CopyAt(t, d, k, p, n, s)
  BY DEF CopyAt
<1>4. CopySource(own, t, d, k, p, n, s)
  BY <1>1, <1>3, CopyFacts, Zenon
<1>5. PICK e : e = table[s.f][n]
  OBVIOUS
<1>6. PICK g \in RAM : g = loc[t].got /\ own[g] = Got
  BY <1>0, <1>1 DEF CallInv, AllocReturns
<1>7. n \in PTs /\ e.u
  <2>1. n \in PTs
    BY <1>1, <1>2, <1>3 DEF ForkOk, CopyAt
  <2>2. e.u
    BY <1>0, <1>1, <1>2, <1>3, <1>5 DEF SeenInv, CopyAt
  <2>3. QED
    BY <2>1, <2>2
<1>u. /\ UNCHANGED <<page_frames, page_frame_count, dir, nic>>
      /\ UNCHANGED <<state, parent, page_dir, kstack, running>>
  BY <1>1 DEF pfaVars, taskVars
<1>8. p # DEVICE_PD => /\ s.f \in RAM /\ s.f # k /\ e.f \in RAM
  <2> SUFFICES ASSUME p # DEVICE_PD PROVE s.f \in RAM /\ s.f # k /\ e.f \in RAM
    OBVIOUS
  <2>1. UserEntry(table, own, s, page_dir[t], p) /\ s # Absent /\ s.f \in RAM /\ s.f # k
    BY <1>4 DEF CopySource
  <2>2. PageOk(own, e, page_dir[t], p, n)
    BY <1>5, <1>7, <2>1 DEF UserEntry
  <2>3. e # Absent
    BY <1>7 DEF Absent
  <2>4. QED
    BY <2>1, <2>2, <2>3 DEF PageOk
<1>9. p = DEVICE_PD => hw.vbe /\ ~hw.nic /\ e.f \notin RAM
  <2>1. p = DEVICE_PD => hw.vbe /\ ~hw.nic /\ e = [f |-> FbPhys(0), u |-> TRUE]
    BY <1>4, <1>5 DEF CopySource
  <2>2. FbPhys(0) \notin RAM
    BY Sizes DEF FbPhys, RAM
  <2>3. QED
    BY <2>1, <2>2
<1>10. CASE e.f \notin RAM
  <2>1. cpu' = "page fault" /\ UNCHANGED <<mem, table, loc, pc>>
    BY <1>3, <1>5, <1>10 DEF clone_page, CopyAt
  <2>2. hw.vbe /\ ~hw.nic
    BY <1>8, <1>9, <1>10
  <2>3. MemTypes'
    <3>1. SpaceTypes'
      BY <1>u, <2>1 DEF MemTypes, SpaceTypes
    <3>2. PoolTypes' /\ TaskTypes' /\ CallTypes'
      BY <1>u, <2>1 DEF MemTypes, PoolTypes, TaskTypes, CallTypes
    <3>3. QED
      BY <2>1, <3>1, <3>2 DEF MemTypes
  <2>4. QED
    BY <2>1, <2>2, <2>3
<1>11. CASE e.f \in RAM
  <2>1. p # DEVICE_PD
    BY <1>9, <1>11
  <2>2. PICK m, x : m = NextEntry(loc[t], n) /\ x = [f |-> g, u |-> TRUE]
    OBVIOUS
  <2>3. /\ Enters(k, n, x) /\ mem' = [mem EXCEPT ![g] = mem[e.f]] /\ UNCHANGED cpu
        /\ loc' = [loc EXCEPT ![t].pt = @ + 1] /\ Goto(t, "clone_pte")
    BY <1>3, <1>5, <1>6, <1>11, <2>2 DEF clone_page, CopyAt, Enters
  <2>4. Moves(t, "clone_pte", m)
    <3>1. loc' = [loc EXCEPT ![t] = m]
      BY <1>2, <1>3, <2>2, <2>3 DEF CopyAt, NextEntry, LocType
    <3>2. QED
      BY <2>3, <3>1 DEF Moves, Goto
  <2>5. PICK own2 : own2 = Retag(own, g, PageOf(d, p, n))
    OBVIOUS
  <2>6. Keeps(own, own2, Settled) /\ Keeps(own, own2, {"free"})
    BY <1>6, <2>5, RetagKeeps DEF Got, Settled
  <2>7. s.f \in RAM /\ k \in RAM /\ s.f # k /\ own[k] = Copying /\ CopyShape(table, own, k, d, p, n, s.f)
    BY <1>4, <1>8, <2>1 DEF CopySource
  <2>8. own2[k] = Copying
    <3>1. k # g
      BY <1>6, <2>7 DEF Got, Copying
    <3>2. QED
      BY <2>5, <2>7, <3>1 DEF Retag
  <2>9. CopyShape(table', own2, k, d, p, n + 1, s.f)
    <3>1. PICK T, h : T = table /\ h = s.f
      OBVIOUS
    <3>2. T \in Tables /\ h \in RAM /\ h # k /\ CopyShape(T, own, k, d, p, n, h) /\ T[h][n].u
      BY <1>2, <1>5, <1>7, <2>7, <3>1
    <3>3. CopyShape([T EXCEPT ![k][n] = [f |-> g, u |-> TRUE]], Retag(own, g, PageOf(d, p, n)), k, d, p, n + 1, h)
      BY <1>6, <1>7, <2>7, <3>2, CopyPage
    <3>4. table' = [T EXCEPT ![k][n] = [f |-> g, u |-> TRUE]]
      BY <2>2, <2>3, <3>1 DEF Enters
    <3>5. QED
      BY <2>5, <3>1, <3>3, <3>4
  <2>10. x \in Entries
    BY <2>2, Sizes DEF Entries, RAM
  <2>11. mem' = [f \in RAM |-> [w \in Words |-> mem'[f][w]]]
    <3>1. PICK M, M2, row : M = mem /\ M2 = mem' /\ row = mem[e.f]
      OBVIOUS
    <3>2. M = [f \in RAM |-> [w \in Words |-> M[f][w]]]
      BY <3>1 DEF MemTypes, SpaceTypes
    <3>3. row = [w \in Words |-> row[w]]
      BY <1>11, <3>1, <3>2
    <3>4. M2 = [M EXCEPT ![g] = row]
      BY <2>3, <3>1
    <3>5. M2 = [f \in RAM |-> [w \in Words |-> M2[f][w]]]
      BY <3>2, <3>3, <3>4, PageWritten
    <3>6. QED
      BY <3>1, <3>5
  <2>12. UNCHANGED <<hw, current, cpu, page_frames, page_frame_count, dir, nic>>
         /\ UNCHANGED <<state, parent, page_dir, kstack, running>>
    BY <1>u, <2>3
  <2>13. n \in PTs /\ pc[t] \in {"clone_pte", "clone_page"}
    BY <1>1, <1>7
  <2>14. MemTypes' /\ Good(own2)'
    BY <1>1, <1>2, <1>3, <2>1, <2>2, <2>3, <2>4, <2>6, <2>8, <2>9, <2>10, <2>11, <2>12, <2>13, FillMove
  <2>15. QED
    BY <2>12, <2>14
<1>12. QED
  BY <1>10, <1>11

\* The child comes to life: the new directory and the stack are its own.
LEMMA ForkFillStep ==
    ASSUME NEW own, MemTypes, Good(own), NEW t \in Slots, state[t] = "live", UNCHANGED <<hw, current>>,
           fork_fill(t)
    PROVE  MemTypes' /\ \E own2 : Good(own2)'
<1>0. /\ CallInv(own) /\ AloneInv /\ TurnInv /\ WaitInv /\ PoolInv(own) /\ TaskInv(own) /\ NicInv(own) /\ DeviceInv
  BY GoodParts
<1>1. pc[t] \in Forks /\ pc[t] = "fork_stack" /\ t = current /\ cpu \in {"boot", "run"}
  BY DEF Forks, fork_fill, At
<1>2. /\ loc[t] \in LocType /\ ForkOk(pc[t], loc[t]) /\ Place(t) = pc[t] /\ PlaceOf(pc[t], loc[t]) = pc[t] /\ cpu = "run"
      /\ state[loc[t].slot] = "free" /\ loc[t].slot \in Slots
      /\ LiveInv(own) /\ CopyInv(own) /\ KernelInv(own) /\ Booted
  BY <1>1, CloneFacts
<1>3. PICK g \in RAM : g = loc[t].got /\ own[g] = Got
  BY <1>0, <1>1 DEF CallInv, AllocReturns
<1>d. PICK d : d = loc[t].dir
  OBVIOUS
<1>4. PICK c \in Slots : c = loc[t].slot /\ d = loc[t].dir /\ state[c] = "free"
  BY <1>2, <1>d
<1>5. c # t /\ c # 0
  BY <1>0, <1>4 DEF TaskInv
<1>6. d \in RAM /\ loc[t].pd = DEVICE_PD + 1
  BY <1>1, <1>2, <1>4 DEF ForkOk
<1>7. d # NULL /\ own[d] = DirOf(NULL)
  <2>1. d # NULL
    BY <1>6 DEF RAM, NULL
  <2>2. QED
    BY <1>0, <1>1, <1>4, <2>1 DEF CallInv
<1>8. Shape(table, own, dir[d], d, DEVICE_PD + 1, Zero, Device)
  BY <1>1, <1>2, <1>4, <1>6, <1>7 DEF CopyInv
<1>9. /\ UNCHANGED <<page_frames, page_frame_count, dir, table, mem, nic, cpu>>
  BY DEF fork_fill, pfaVars, memVars
<1>10. /\ state'[c] = "live" /\ parent'[c] = t /\ page_dir'[c] = d /\ kstack'[c] = g
       /\ \A s \in Slots : s # c => /\ state'[s] = state[s] /\ parent'[s] = parent[s]
                                    /\ page_dir'[s] = page_dir[s] /\ kstack'[s] = kstack[s]
  BY <1>3, <1>4 DEF fork_fill, MemTypes, TaskTypes
<1>11. Moves(t, "user", NoLocals)
  <2>1. pc[c] = "user"
    BY <1>0, <1>4 DEF TurnInv
  <2>2. pc' = [pc EXCEPT ![t] = "user", ![c] = "user"]
    BY <1>4 DEF fork_fill
  <2>3. pc' = [pc EXCEPT ![t] = "user"]
    BY <2>1, <2>2, <1>5 DEF MemTypes, CallTypes
  <2>4. QED
    BY <2>3 DEF fork_fill, Local, Moves
<1>12. PlaceOf("user", NoLocals) = "user" /\ PurposeOf("user", NoLocals) = "user"
  BY DEF PlaceOf, PurposeOf, Maps
<1>13. /\ pc'[current'] = "user" /\ loc'[current'] = NoLocals /\ Place(current)' = "user"
       /\ Purpose(current)' = "user" /\ current' = t
  BY <1>1, <1>11, <1>12, MovesTo, PlacesMove
<1>14. \A s \in Slots : s # t => pc'[s] = pc[s] /\ loc'[s] = loc[s] /\ Place(s)' = Place(s)
  BY <1>11, MovesTo, PlacesMove
<1>n. NoLocals.slot = NULL /\ NoLocals.dir = NULL /\ NoLocals.tab = NULL /\ NULL \notin Slots
  BY DEF NoLocals, NULL, Slots
<1>15. PICK own2 : own2 = Retag(Retag(own, g, KStack(c)), d, DirOf(c))
  OBVIOUS
<1>16. /\ own2[g] = KStack(c) /\ own2[d] = DirOf(c)
       /\ \A f \in RAM : f # g /\ f # d => own2[f] = own[f]
       /\ g # d
  <2>1. g # d
    BY <1>3, <1>7 DEF Got, DirOf
  <2>2. QED
    BY <1>3, <1>6, <1>15, <2>1 DEF Retag
<1>17. \A f \in RAM : own[f] # Got /\ own[f] # DirOf(NULL) => own2[f] = own[f]
  BY <1>3, <1>7, <1>16
<1>18. /\ Keeps(own, own2, {"device"}) /\ Keeps(own, own2, {"table", "page"}) /\ Keeps(own, own2, {"kernel"})
       /\ Keeps(own, own2, {"free"})
  BY <1>17 DEF Keeps, Got, DirOf
<1>19. TurnInv'
  <2>1. LocalOk("user", NoLocals)
    BY NoLocalsType
  <2>2. ASSUME NEW s \in Slots
        PROVE  /\ LocalOk(pc'[s], loc'[s])
               /\ s # current' => pc'[s] \in Calm
               /\ state'[s] # "live" => pc'[s] = "user"
    <3>1. CASE s = t
      BY <1>13, <2>1, <3>1
    <3>2. CASE s # t
      <4>1. LocalOk(pc[s], loc[s]) /\ (s # current => pc[s] \in Calm) /\ (state[s] # "live" => pc[s] = "user")
        BY <1>0 DEF TurnInv
      <4>2. state'[s] # "live" => state[s] # "live"
        BY <1>10
      <4>3. QED
        BY <1>1, <1>13, <1>14, <3>2, <4>1, <4>2
    <3>3. QED
      BY <3>1, <3>2
  <2>3. QED
    BY <2>2 DEF TurnInv
<1>20. BootInv'
  BY <1>2, <1>9, <1>13 DEF BootInv, Boots
<1>21. WaitInv'
  <2>1. ASSUME NEW s \in Slots, Place(s)' \in Waits
        PROVE  state'[loc'[s].slot] = "zombie" /\ parent'[loc'[s].slot] = s
    <3>1. s # t
      BY <1>13, <2>1 DEF Waits
    <3>2. Place(s) \in Waits /\ loc'[s] = loc[s]
      BY <1>14, <2>1, <3>1
    <3>3. state[loc[s].slot] = "zombie" /\ parent[loc[s].slot] = s
      BY <1>0, <3>2 DEF WaitInv
    <3>4. LocalOk(pc[s], loc[s]) /\ PlaceOf(pc[s], loc[s]) \in Waits
      BY <1>0, <3>2 DEF TurnInv, Place
    <3>5. loc[s].slot \in Slots
      BY <3>4 DEF LocalOk, CallOk
    <3>6. loc[s].slot # c
      BY <1>4, <3>3
    <3>7. QED
      BY <1>10, <3>2, <3>3, <3>5, <3>6
  <2>2. QED
    BY <2>1 DEF WaitInv
<1>22. SeenInv'
  BY <1>13 DEF SeenInv, Maps, Forks
<1>23. PoolInv(own2)'
  <2>1. PoolTop' = PoolTop /\ PoolTop = page_frame_count /\ page_frame_count \in 0 .. NFRAMES
    BY <1>1, <1>9, <1>13 DEF PoolTop, MemTypes, PoolTypes
  <2>2. ASSUME NEW i \in 0 .. PoolTop - 1 PROVE own2[page_frames[i]] = Free(i)
    <3>1. i \in RAM
      BY <2>1, Sizes DEF RAM
    <3>2. own[page_frames[i]] = Free(i) /\ page_frames[i] \in RAM
      BY <1>0, <3>1 DEF PoolInv, MemTypes, PoolTypes
    <3>3. QED
      BY <1>18, <3>2 DEF Keeps, Free
  <2>3. QED
    BY <1>9, <2>1, <2>2 DEF PoolInv
<1>24. \A s \in Slots : state[s] # "free" => s # c
  BY <1>4
<1>25. ASSUME NEW s \in Slots, s # c, NEW places, places \subseteq Waits
       PROVE  Reaped(s, places)' <=> Reaped(s, places)
  <2>1. parent'[s] = parent[s] /\ (parent[s] = NULL \/ parent[s] \in Slots)
    BY <1>10, <1>25 DEF MemTypes, TaskTypes
  <2>2. CASE parent[s] = t
    <3>1. Place(t) \notin places /\ Place(t)' \notin places
      BY <1>1, <1>2, <1>13, <1>25 DEF Waits
    <3>2. QED
      BY <2>1, <2>2, <3>1 DEF Reaped
  <2>3. CASE parent[s] # t
    BY <1>14, <2>1, <2>3 DEF Reaped
  <2>4. QED
    BY <2>2, <2>3
<1>26. TaskInv(own2)'
  <2>1. 0 \in Slots
    BY ZeroIsSlot
  <2>2. state'[0] # "free" /\ parent'[0] = NULL /\ page_dir'[0] = page_dir[0] /\ page_dir[0] # NULL
    BY <1>0, <1>2, <1>5, <1>10, <2>1 DEF TaskInv
  <2>3. own2[page_dir'[0]] = DirOf(0)
    <3>1. own[page_dir[0]] = DirOf(0) /\ page_dir[0] \in RAM
      BY <1>0, <2>1, <2>2 DEF TaskInv, MemTypes, TaskTypes
    <3>2. DirOf(0) # Got /\ DirOf(0) # DirOf(NULL)
      BY DEF DirOf, Got, NULL
    <3>3. QED
      BY <1>17, <2>2, <3>1, <3>2
  <2>4. ASSUME NEW s \in Slots, s # 0, state'[s] # "free"
        PROVE  /\ ~StackGone(s)' => kstack'[s] \in RAM /\ own2[kstack'[s]] = KStack(s)
               /\ ~DirGone(s)' => page_dir'[s] \in RAM /\ own2[page_dir'[s]] = DirOf(s)
    <3>1. CASE s = c
      BY <1>6, <1>10, <1>16, <3>1
    <3>2. CASE s # c
      <4>1. state[s] # "free"
        BY <1>10, <2>4, <3>2
      <4>2. /\ ~StackGone(s) => kstack[s] \in RAM /\ own[kstack[s]] = KStack(s)
            /\ ~DirGone(s) => page_dir[s] \in RAM /\ own[page_dir[s]] = DirOf(s)
        BY <1>0, <2>4, <4>1 DEF TaskInv
      <4>3. (StackGone(s)' <=> StackGone(s)) /\ (DirGone(s)' <=> DirGone(s))
        <5>1. {"wait_dir", "wait_clear"} \subseteq Waits /\ {"wait_clear"} \subseteq Waits
          BY DEF Waits
        <5>2. QED
          BY <1>25, <3>2, <5>1 DEF StackGone, DirGone
      <4>4. KStack(s) # Got /\ KStack(s) # DirOf(NULL)
        BY DEF KStack, Got, DirOf
      <4>5. DirOf(s) # Got /\ DirOf(s) # DirOf(NULL)
        BY DEF DirOf, Got, NULL, Slots
      <4>6. kstack'[s] = kstack[s] /\ page_dir'[s] = page_dir[s]
        BY <1>10, <3>2
      <4>7. QED
        BY <1>17, <4>2, <4>3, <4>4, <4>5, <4>6
    <3>3. QED
      BY <3>1, <3>2
  <2>5. QED
    BY <1>2, <1>9, <2>2, <2>3, <2>4 DEF TaskInv
<1>27. NicInv(own2)'
  BY <1>0, <1>9, <1>18, NicKept
<1>28. Booted'
  BY <1>2, <1>9 DEF Booted
<1>29. EarlyInv(own2)'
  BY <1>28 DEF EarlyInv
<1>30. CallInv(own2)'
  BY <1>13, <1>n DEF CallInv, AllocReturns
<1>31. Zero' = Zero /\ Device' = Device
  <2>1. page_dir'[0] = page_dir[0]
    BY <1>5, <1>10, ZeroIsSlot
  <2>2. QED
    BY <1>9, <2>1 DEF Zero, Device
<1>32. LiveInv(own2)'
  <2>1. ASSUME NEW s \in Slots, state'[s] = "live"
        PROVE  Shape(table', own2, dir'[page_dir'[s]], page_dir'[s], DEVICE_PD + 1, Zero', Device')
    <3>1. PICK T, e, D, z, v : T = table /\ e = page_dir'[s] /\ D = dir[e] /\ z = Zero /\ v = Device
      OBVIOUS
    <3>2. Shape(T, own, D, e, DEVICE_PD + 1, z, v)
      <4>1. CASE s = c
        BY <1>8, <1>10, <3>1, <4>1
      <4>2. CASE s # c
        BY <1>2, <1>10, <2>1, <3>1, <4>2 DEF LiveInv
      <4>3. QED
        BY <4>1, <4>2
    <3>3. Untouched(T, T, own, own2, e)
      BY <1>18 DEF Untouched, Mine, Keeps
    <3>4. DEVICE_PD + 1 \in 0 .. DEVICE_PD + 1
      BY Sizes
    <3>5. Shape(T, own2, D, e, DEVICE_PD + 1, z, v)
      BY <3>2, <3>3, <3>4, ShapeKept
    <3>6. QED
      BY <1>9, <1>31, <3>1, <3>5
  <2>2. QED
    BY <2>1 DEF LiveInv
<1>33. CopyInv(own2)'
  BY <1>13, <1>n DEF CopyInv
<1>34. KernelInv(own2)'
  BY <1>2, <1>9, <1>18, <1>31, KernelKept
<1>35. SpaceInv(own2)'
  BY <1>32, <1>33, <1>34 DEF SpaceInv
<1>36. DeviceInv'
  BY <1>0, <1>2, <1>9, <1>31, DeviceKept
<1>37. AloneInv'
  <2>1. ~(Device # Absent /\ Device.u)
    <3>1. ~(DEVICE_PD + 1 <= DEVICE_PD)
      BY Sizes
    <3>2. QED
      BY <1>0, <1>1, <1>2, <1>6, <3>1 DEF AloneInv
  <2>2. QED
    BY <1>31, <2>1 DEF AloneInv
<1>38. Good(own2)'
  BY <1>19, <1>20, <1>21, <1>22, <1>23, <1>26, <1>27, <1>29, <1>30, <1>35, <1>36, <1>37 DEF Good, Placed, HoldInv
<1>39. MemTypes'
  <2>1. CallTypes'
    <3>1. "user" \in Labels /\ NoLocals \in LocType
      BY NoLocalsType DEF Labels
    <3>2. QED
      BY <1>11, <3>1, MovesTo
  <2>2. SpaceTypes' /\ PoolTypes'
    BY <1>9 DEF MemTypes, SpaceTypes, PoolTypes
  <2>3. TaskTypes'
    BY <1>3, <1>4, <1>6 DEF fork_fill, MemTypes, TaskTypes
  <2>4. QED
    BY <1>9, <2>1, <2>2, <2>3 DEF MemTypes
<1>40. QED
  BY <1>38, <1>39

\* Boot.
LEMMA BootFacts ==
    ASSUME NEW own, MemTypes, Good(own), NEW t \in Slots, state[t] = "live", t = current, cpu \in {"boot", "run"},
           pc[t] \in Boots
    PROVE  /\ loc[t] \in LocType /\ LocalOk(pc[t], loc[t]) /\ loc[t].dir = NULL /\ loc[t].tab = NULL
           /\ Place(t) = pc[t] /\ Purpose(t) = pc[t] /\ cpu = "boot" /\ t = 0
           /\ \A s \in Slots : s # 0 => state[s] = "free"
           /\ Booted <=> pc[t] \notin {"init_dir", "init_table"}
           /\ pc[t] # "fb" => loc[t].pt = 0
           /\ pc[t] = "fb" => loc[t].pt <= FbPages
           /\ pc[t] # "init_dir" => page_dir[0] \in RAM /\ own[page_dir[0]] = DirOf(0)
<1>0. TurnInv /\ BootInv /\ TaskInv(own)
  BY GoodParts
<1>1. loc[t] \in LocType /\ LocalOk(pc[t], loc[t])
  BY <1>0 DEF MemTypes, CallTypes, TurnInv
<1>2. PlaceOf(pc[t], loc[t]) = pc[t] /\ PurposeOf(pc[t], loc[t]) = pc[t] /\ pc[t] \notin Forks
  BY DEF PlaceOf, PurposeOf, Maps, Forks, Boots
<1>3. Place(t) = pc[t] /\ Purpose(t) = pc[t]
  BY <1>2 DEF Place, Purpose
<1>4. cpu = "boot" /\ t = 0 /\ \A s \in Slots : s # 0 => state[s] = "free"
  BY <1>0, <1>3 DEF BootInv
<1>5. Booted <=> pc[t] \notin {"init_dir", "init_table"}
  BY <1>3, <1>4 DEF Booted
<1>6. loc[t].dir = NULL /\ loc[t].tab = NULL
  BY <1>1, <1>2 DEF LocalOk, CallOk
<1>7. (pc[t] # "fb" => loc[t].pt = 0) /\ (pc[t] = "fb" => loc[t].pt <= FbPages)
  BY <1>1, <1>2 DEF LocalOk, MapOk, Boots
<1>8. pc[t] # "init_dir" => page_dir[0] \in RAM /\ own[page_dir[0]] = DirOf(0)
  BY <1>0, <1>3, <1>4, ZeroIsSlot DEF TaskInv, MemTypes, TaskTypes
<1>9. QED
  BY <1>1, <1>3, <1>4, <1>5, <1>6, <1>7, <1>8

\* What a label of boot asks of the locals, and no more.
LEMMA BootLocal ==
    ASSUME NEW q \in Boots \ {"nic_got"}, NEW m, m.dir = NULL, m.tab = NULL,
           q # "fb" => m.pt = 0, q = "fb" => m.pt <= FbPages
    PROVE  /\ LocalOk(q, m) /\ PlaceOf(q, m) = q /\ PurposeOf(q, m) = q
<1>1. PlaceOf(q, m) = q /\ PurposeOf(q, m) = q /\ q \notin Forks /\ q \notin Waits /\ q \notin Execs /\ q \notin Maps
  BY DEF PlaceOf, PurposeOf, Boots, Forks, Waits, Execs, Maps
<1>2. CallOk(q, m)
  BY <1>1 DEF CallOk, Boots
<1>3. MapOk(q, m)
  BY <1>1 DEF MapOk, Maps, Boots
<1>4. ExecOk(q, m) /\ ForkOk(q, m)
  BY <1>1 DEF ExecOk, ForkOk
<1>5. QED
  BY <1>1, <1>2, <1>3, <1>4 DEF LocalOk

\* init_dir: the first directory.
LEMMA InitDirStep ==
    ASSUME NEW own, MemTypes, Good(own), NEW t \in Slots, state[t] = "live", UNCHANGED <<hw, current>>,
           init_dir(t)
    PROVE  MemTypes' /\ \E own2 : Good(own2)'
<1>0. /\ CallInv(own) /\ TurnInv /\ WaitInv /\ BootInv /\ PoolInv(own) /\ TaskInv(own) /\ EarlyInv(own)
  BY GoodParts
<1>1. pc[t] \in Boots /\ pc[t] = "init_dir" /\ t = current /\ cpu \in {"boot", "run"}
  BY DEF Boots, init_dir, At
<1>2. /\ loc[t] \in LocType /\ loc[t].dir = NULL /\ loc[t].tab = NULL /\ Place(t) = pc[t]
      /\ cpu = "boot" /\ t = 0 /\ ~Booted /\ loc[t].pt = 0 /\ \A s \in Slots : s # 0 => state[s] = "free"
  BY <1>1, BootFacts
<1>3. PICK g \in RAM : g = loc[t].got /\ own[g] = Got
  BY <1>0, <1>1 DEF CallInv, AllocReturns
<1>4. PICK own2, m : own2 = Retag(own, g, DirOf(0)) /\ m = [loc[t] EXCEPT !.ret = "init_table"]
  OBVIOUS
<1>5. m \in LocType
  BY <1>2, <1>4 DEF LocType, Labels
<1>6. m.ret = "init_table" /\ m.dir = NULL /\ m.tab = NULL /\ m.pt = 0
  BY <1>2, <1>4 DEF LocType
<1>u. UNCHANGED <<page_frames, page_frame_count, dir, table, mem, nic, cpu, state, parent, kstack, running>>
  BY DEF init_dir, pfaVars, memVars
<1>7. page_dir' = [page_dir EXCEPT ![0] = g]
  BY <1>2, <1>3 DEF init_dir
<1>8. Moves(t, "pfa_alloc", m)
  BY <1>4 DEF init_dir, Alloc, Goto, Local, Moves
<1>9. LocalOk("pfa_alloc", m) /\ PlaceOf("pfa_alloc", m) = "init_table" /\ PurposeOf("pfa_alloc", m) = "init_table"
  <2>1. PlaceOf("pfa_alloc", m) = "init_table" /\ PurposeOf("pfa_alloc", m) = "init_table"
    BY <1>6 DEF PlaceOf, PurposeOf, Maps
  <2>2. CallOk("pfa_alloc", m)
    BY <1>6, <2>1 DEF CallOk, AllocReturns, Waits
  <2>3. MapOk("pfa_alloc", m)
    BY <1>6, <2>1 DEF MapOk
  <2>4. ExecOk("pfa_alloc", m) /\ ForkOk("pfa_alloc", m)
    BY <2>1 DEF ExecOk, ForkOk, Execs, Forks
  <2>5. QED
    BY <2>1, <2>2, <2>3, <2>4 DEF LocalOk
<1>10. /\ pc'[current'] = "pfa_alloc" /\ loc'[current'] = m /\ Place(current)' = "init_table"
       /\ Purpose(current)' = "init_table" /\ current' = t
  BY <1>1, <1>8, <1>9, MovesTo, PlacesMove
<1>11. TurnInv'
  BY <1>0, <1>1, <1>8, <1>9, <1>u, TurnKept
<1>12. BootInv'
  BY <1>0, <1>2, <1>10, <1>u DEF BootInv, Boots
<1>13. WaitInv'
  BY <1>0, <1>8, <1>9, <1>u, WaitKept DEF Waits
<1>14. SeenInv'
  BY <1>10 DEF SeenInv, Maps, Forks
<1>15. Keeps(own, own2, {"free"}) /\ Keeps(own, own2, {"nobody"}) /\ own2[g] = DirOf(0)
  <2>1. Keeps(own, own2, {"free"}) /\ Keeps(own, own2, {"nobody"})
    BY <1>3, <1>4, RetagKeeps DEF Got
  <2>2. QED
    BY <1>3, <1>4, <2>1 DEF Retag
<1>16. PoolInv(own2)'
  <2>1. PoolTop' = PoolTop /\ PoolTop = page_frame_count /\ page_frame_count \in 0 .. NFRAMES
    BY <1>1, <1>u, <1>10 DEF PoolTop, MemTypes, PoolTypes
  <2>2. ASSUME NEW i \in 0 .. PoolTop - 1 PROVE own2[page_frames[i]] = Free(i)
    <3>1. i \in RAM
      BY <2>1, Sizes DEF RAM
    <3>2. own[page_frames[i]] = Free(i) /\ page_frames[i] \in RAM
      BY <1>0, <3>1 DEF PoolInv, MemTypes, PoolTypes
    <3>3. QED
      BY <1>15, <3>2 DEF Keeps, Free
  <2>3. QED
    BY <1>u, <2>1, <2>2 DEF PoolInv
<1>17. page_dir'[0] = g /\ g # NULL
  <2>1. g # NULL
    BY DEF RAM, NULL
  <2>2. page_dir \in [Slots -> RAM \cup {NULL}]
    BY DEF MemTypes, TaskTypes
  <2>3. QED
    BY <1>7, <2>1, <2>2, ZeroIsSlot
<1>18. TaskInv(own2)'
  <2>1. \A s \in Slots : s # 0 => state'[s] = "free"
    BY <1>2, <1>u
  <2>2. state'[0] # "free" /\ parent'[0] = NULL
    BY <1>0, <1>u DEF TaskInv
  <2>3. QED
    BY <1>10, <1>15, <1>17, <2>1, <2>2 DEF TaskInv
<1>19. ~Booted'
  BY <1>2, <1>10, <1>u DEF Booted
<1>20. NicInv(own2)'
  BY <1>0, <1>2, <1>u DEF NicInv, EarlyInv
<1>21. EarlyInv(own2)'
  <2>1. PoolTypes /\ PoolTypes'
    BY <1>u DEF MemTypes, PoolTypes
  <2>2. page_frame_count' <= page_frame_count
    <3>1. page_frame_count \in 0 .. NFRAMES
      BY DEF MemTypes, PoolTypes
    <3>2. QED
      BY <1>u, <3>1, Sizes
  <2>3. QED
    BY <1>0, <1>2, <1>15, <1>u, <2>1, <2>2, EarlyKept
<1>22. CallInv(own2)'
  BY <1>6, <1>10 DEF CallInv, AllocReturns
<1>23. SpaceInv(own2)' /\ DeviceInv'
  BY <1>19 DEF SpaceInv, DeviceInv
<1>24. AloneInv'
  BY <1>2, <1>u DEF AloneInv
<1>25. Good(own2)'
  BY <1>11, <1>12, <1>13, <1>14, <1>16, <1>18, <1>20, <1>21, <1>22, <1>23, <1>24 DEF Good, Placed, HoldInv
<1>26. MemTypes'
  <2>1. CallTypes'
    <3>1. "pfa_alloc" \in Labels
      BY DEF Labels
    <3>2. QED
      BY <1>5, <1>8, <3>1, MovesTo
  <2>2. SpaceTypes' /\ PoolTypes'
    BY <1>u DEF MemTypes, SpaceTypes, PoolTypes
  <2>3. TaskTypes'
    BY <1>u, <1>7 DEF MemTypes, TaskTypes
  <2>4. QED
    BY <1>u, <2>1, <2>2, <2>3 DEF MemTypes
<1>27. QED
  BY <1>25, <1>26

\* The pool after paging_init, and its frames.
Pushed == page_frame_count + NFRAMES - BOOT_FRAMES
PoolMade == [i \in RAM |-> IF i \in page_frame_count .. Pushed - 1
                           THEN BOOT_FRAMES + i - page_frame_count ELSE page_frames[i]]
AllPushed(own, g, c) == [f \in RAM |-> IF f >= BOOT_FRAMES THEN Free(c + f - BOOT_FRAMES)
                                       ELSE IF f = g THEN KernelTable(0) ELSE own[f]]

\* The rest of the pool is pushed: every frame is free once.
LEMMA PoolWhole ==
    ASSUME NEW own, MemTypes, PoolInv(own), EarlyInv(own), ~Booted, pc[current] # "pfa_store",
           NEW g \in RAM, own[g] = Got, NEW own2, own2 = AllPushed(own, g, page_frame_count)
    PROVE  /\ Pushed \in 0 .. NFRAMES /\ PoolMade \in [RAM -> RAM]
           /\ \A i \in 0 .. Pushed - 1 : own2[PoolMade[i]] = Free(i)
           /\ own2[g] = KernelTable(0)
           /\ \A f \in RAM : own[f] # Nobody /\ f # g => own2[f] = own[f]
<1>1. PICK c \in Nat : c = page_frame_count /\ c <= BOOT_FRAMES /\ c <= NFRAMES
  <2>1. page_frame_count \in 0 .. NFRAMES /\ page_frame_count <= BOOT_FRAMES
    BY DEF MemTypes, PoolTypes, EarlyInv
  <2>2. QED
    BY <2>1, Sizes
<1>2. \A f \in RAM : f >= BOOT_FRAMES => own[f] = Nobody
  BY DEF EarlyInv
<1>3. Pushed = c + NFRAMES - BOOT_FRAMES /\ Pushed \in Int /\ Pushed >= c /\ Pushed <= NFRAMES
  BY <1>1, Sizes DEF Pushed
<1>4. page_frames \in [RAM -> RAM]
  BY DEF MemTypes, PoolTypes
<1>5. \A f \in RAM : own2[f] = IF f >= BOOT_FRAMES THEN Free(c + f - BOOT_FRAMES)
                               ELSE IF f = g THEN KernelTable(0) ELSE own[f]
  BY <1>1 DEF AllPushed
<1>6. Got # Nobody /\ \A i : Free(i) # Nobody /\ Free(i) # Got
  BY DEF Got, Nobody, Free
<1>7. ~(g >= BOOT_FRAMES)
  BY <1>2, <1>6
<1>8. own2[g] = KernelTable(0)
  BY <1>5, <1>7
<1>9. \A f \in RAM : own[f] # Nobody /\ f # g => own2[f] = own[f]
  BY <1>2, <1>5
<1>10. ASSUME NEW i \in RAM, i \in c .. Pushed - 1
       PROVE  BOOT_FRAMES + i - c \in RAM /\ BOOT_FRAMES + i - c >= BOOT_FRAMES
              /\ c + (BOOT_FRAMES + i - c) - BOOT_FRAMES = i
  BY <1>1, <1>3, <1>10, Sizes DEF RAM
<1>11. PoolMade = [i \in RAM |-> IF i \in c .. Pushed - 1 THEN BOOT_FRAMES + i - c ELSE page_frames[i]]
  BY <1>1 DEF PoolMade
<1>12. PoolMade \in [RAM -> RAM]
  BY <1>4, <1>10, <1>11
<1>13. ASSUME NEW i \in 0 .. Pushed - 1 PROVE own2[PoolMade[i]] = Free(i)
  <2>1. i \in RAM
    BY <1>3, Sizes DEF RAM
  <2>2. CASE i \in c .. Pushed - 1
    <3>1. PICK f \in RAM : f = BOOT_FRAMES + i - c /\ f >= BOOT_FRAMES /\ c + f - BOOT_FRAMES = i
      BY <1>10, <2>1, <2>2
    <3>2. PoolMade[i] = f
      BY <1>11, <2>1, <2>2, <3>1
    <3>3. QED
      BY <1>5, <3>1, <3>2
  <2>3. CASE i \notin c .. Pushed - 1
    <3>1. PoolMade[i] = page_frames[i] /\ page_frames[i] \in RAM
      BY <1>4, <1>11, <2>1, <2>3
    <3>2. PoolTop = c /\ i \in 0 .. c - 1
      BY <1>1, <1>3, <2>3 DEF PoolTop
    <3>3. own[page_frames[i]] = Free(i)
      BY <3>2 DEF PoolInv
    <3>4. QED
      BY <1>6, <1>9, <3>1, <3>3
  <2>4. QED
    BY <2>2, <2>3
<1>14. Pushed \in 0 .. NFRAMES
  BY <1>1, <1>3, Sizes
<1>15. QED
  BY <1>8, <1>9, <1>12, <1>13, <1>14

\* init_table: the identity map and the pool.
LEMMA InitTableStep ==
    ASSUME NEW own, MemTypes, Good(own), NEW t \in Slots, state[t] = "live", UNCHANGED <<hw, current>>,
           init_table(t)
    PROVE  MemTypes' /\ \E own2 : Good(own2)'
<1>0. /\ CallInv(own) /\ TurnInv /\ WaitInv /\ BootInv /\ PoolInv(own) /\ TaskInv(own) /\ EarlyInv(own)
  BY GoodParts
<1>1. pc[t] \in Boots /\ pc[t] = "init_table" /\ t = current /\ cpu \in {"boot", "run"}
  BY DEF Boots, init_table, At
<1>2. /\ loc[t] \in LocType /\ loc[t].dir = NULL /\ loc[t].tab = NULL /\ Place(t) = pc[t]
      /\ cpu = "boot" /\ t = 0 /\ ~Booted /\ loc[t].pt = 0 /\ \A s \in Slots : s # 0 => state[s] = "free"
      /\ page_dir[0] \in RAM /\ own[page_dir[0]] = DirOf(0)
  BY <1>1, BootFacts
<1>3. PICK g \in RAM : g = loc[t].got /\ own[g] = Got
  BY <1>0, <1>1 DEF CallInv, AllocReturns
<1>4. PICK own2 : own2 = AllPushed(own, g, page_frame_count)
  OBVIOUS
<1>u. UNCHANGED <<table, mem, nic, cpu, loc, state, parent, page_dir, kstack, running>>
  BY DEF init_table, taskVars
<1>5. page_frames' = PoolMade /\ page_frame_count' = Pushed
  BY DEF init_table, PoolMade, Pushed
<1>6. /\ Pushed \in 0 .. NFRAMES /\ PoolMade \in [RAM -> RAM]
      /\ \A i \in 0 .. Pushed - 1 : own2[PoolMade[i]] = Free(i)
      /\ own2[g] = KernelTable(0)
      /\ \A f \in RAM : own[f] # Nobody /\ f # g => own2[f] = own[f]
  <2>1. pc[current] # "pfa_store"
    BY <1>1
  <2>2. QED
    BY <1>0, <1>2, <1>3, <1>4, <2>1, PoolWhole
<1>7. Moves(t, "nic", loc[t])
  <2>1. loc' = [loc EXCEPT ![t] = loc[t]]
    BY <1>u DEF MemTypes, CallTypes
  <2>2. QED
    BY <2>1 DEF init_table, Goto, Moves
<1>8. LocalOk("nic", loc[t]) /\ PlaceOf("nic", loc[t]) = "nic" /\ PurposeOf("nic", loc[t]) = "nic"
  BY <1>2, BootLocal DEF Boots
<1>9. /\ pc'[current'] = "nic" /\ loc'[current'] = loc[t] /\ Place(current)' = "nic"
      /\ Purpose(current)' = "nic" /\ current' = t
  BY <1>1, <1>7, <1>8, MovesTo, PlacesMove
<1>10. TurnInv'
  BY <1>0, <1>1, <1>7, <1>8, <1>u, TurnKept
<1>11. BootInv'
  BY <1>0, <1>2, <1>9, <1>u DEF BootInv, Boots
<1>12. WaitInv'
  BY <1>0, <1>7, <1>8, <1>u, WaitKept DEF Waits
<1>13. SeenInv'
  BY <1>9 DEF SeenInv, Maps, Forks
<1>14. PoolInv(own2)'
  <2>1. PoolTop' = Pushed
    BY <1>5, <1>9 DEF PoolTop
  <2>2. QED
    BY <1>5, <1>6, <2>1 DEF PoolInv
<1>15. own2[page_dir[0]] = DirOf(0)
  <2>1. DirOf(0) # Nobody /\ DirOf(0) # Got
    BY DEF DirOf, Nobody, Got
  <2>2. QED
    BY <1>2, <1>3, <1>6, <2>1
<1>16. TaskInv(own2)'
  <2>1. \A s \in Slots : s # 0 => state'[s] = "free"
    BY <1>2, <1>u
  <2>2. state'[0] # "free" /\ parent'[0] = NULL
    BY <1>0, <1>u DEF TaskInv
  <2>3. page_dir'[0] = page_dir[0] /\ page_dir[0] # NULL
    BY <1>2, <1>u DEF RAM, NULL
  <2>4. QED
    BY <1>9, <1>15, <2>1, <2>2, <2>3 DEF TaskInv
<1>17. Booted'
  BY <1>9 DEF Booted
<1>18. nic = [i \in PTs |-> NULL] /\ dir = [f \in RAM |-> EmptyDir] /\ table = [f \in RAM |-> EmptyTable]
  BY <1>0, <1>2 DEF EarlyInv
<1>19. NicInv(own2)'
  BY <1>18, <1>u DEF NicInv
<1>20. EarlyInv(own2)'
  BY <1>17 DEF EarlyInv
<1>21. CallInv(own2)'
  BY <1>2, <1>9 DEF CallInv, AllocReturns
<1>22. PICK z : z = [f |-> g, u |-> FALSE]
  OBVIOUS
<1>23. dir' = [dir EXCEPT ![page_dir[0]][0] = z]
  BY <1>2, <1>3, <1>22 DEF init_table
<1>24. 0 \in PDs /\ DEVICE_PD \in PDs /\ DEVICE_PD # 0
  BY Sizes DEF PDs
<1>25. dir'[page_dir[0]][0] = z /\ \A p \in PDs : p # 0 => dir'[page_dir[0]][p] = Absent
  <2>1. dir'[page_dir[0]] = [EmptyDir EXCEPT ![0] = z]
    BY <1>2, <1>18, <1>23
  <2>2. QED
    BY <1>24, <2>1 DEF EmptyDir
<1>26. Zero' = z /\ Device' = Absent
  BY <1>24, <1>25, <1>u DEF Zero, Device
<1>27. LiveInv(own2)'
  <2>1. ASSUME NEW s \in Slots, state'[s] = "live"
        PROVE  Shape(table', own2, dir'[page_dir'[s]], page_dir'[s], DEVICE_PD + 1, Zero', Device')
    <3>1. s = 0
      BY <1>2, <1>u, <2>1
    <3>2. PICK T, D, d : T = table' /\ D = dir'[page_dir'[s]] /\ d = page_dir'[s]
      OBVIOUS
    <3>3. D[0] = z /\ \A p \in PDs : p # 0 => D[p] = Absent
      BY <1>25, <1>u, <3>1, <3>2
    <3>4. \A p \in 1 .. DEVICE_PD - 1 : D[p] = Absent
      BY <3>3, Sizes DEF PDs
    <3>5. D[DEVICE_PD] = Absent
      BY <1>24, <3>3
    <3>6. Shape(T, own2, D, d, DEVICE_PD + 1, z, Absent)
      BY <3>3, <3>4, <3>5 DEF Shape, UserEntry
    <3>7. QED
      BY <1>26, <3>2, <3>6
  <2>2. QED
    BY <2>1 DEF LiveInv
<1>28. CopyInv(own2)'
  BY <1>2, <1>9 DEF CopyInv
<1>29. KernelInv(own2)'
  <2>1. z.f = g /\ z.u = FALSE
    BY <1>22
  <2>2. \A i \in PTs : ~table[g][i].u
    BY <1>3, <1>18 DEF EmptyTable, Absent
  <2>3. QED
    BY <1>6, <1>26, <1>u, <2>1, <2>2 DEF KernelInv
<1>30. SpaceInv(own2)'
  BY <1>27, <1>28, <1>29 DEF SpaceInv
<1>31. DeviceInv'
  <2>1. \A i \in PTs : nic'[i] = NULL
    BY <1>18, <1>u
  <2>2. Shown' = 0 /\ \A i \in 0 .. 0 - 1 : FALSE
    BY <1>2, <1>9, <1>u DEF Shown
  <2>3. QED
    BY <1>2, <1>9, <1>26, <1>u, <2>1, <2>2 DEF DeviceInv
<1>32. AloneInv'
  BY <1>2, <1>u DEF AloneInv
<1>33. Good(own2)'
  BY <1>10, <1>11, <1>12, <1>13, <1>14, <1>16, <1>19, <1>20, <1>21, <1>30, <1>31, <1>32 DEF Good, Placed, HoldInv
<1>34. MemTypes'
  <2>1. CallTypes'
    <3>1. "nic" \in Labels
      BY DEF Labels
    <3>2. QED
      BY <1>2, <1>7, <3>1, MovesTo
  <2>2. PoolTypes'
    BY <1>5, <1>6 DEF PoolTypes
  <2>3. TaskTypes'
    BY <1>u DEF MemTypes, TaskTypes
  <2>4. z \in Entries
    BY <1>22, Sizes DEF Entries, RAM
  <2>5. dir' \in [RAM -> [PDs -> Entries]]
    BY <1>23, <2>4 DEF MemTypes, SpaceTypes
  <2>6. table' \in [RAM -> [PTs -> Entries]]
    BY <1>u DEF MemTypes, SpaceTypes
  <2>7. SpaceTypes'
    BY <1>u, <2>5, <2>6, SpaceStays
  <2>8. QED
    BY <1>u, <2>1, <2>2, <2>3, <2>7 DEF MemTypes
<1>35. QED
  BY <1>33, <1>34

\* Locals and label of boot change, and nothing else.
LEMMA BootMove ==
    ASSUME NEW own, MemTypes, Good(own), NEW t \in Slots, state[t] = "live", t = current, cpu = "boot",
           UNCHANGED <<hw, current, cpu, page_frames, page_frame_count, dir, table, mem, nic>>,
           UNCHANGED <<state, parent, page_dir, kstack, running>>,
           pc[t] \in {"nic", "fb"}, NEW q \in Labels, NEW m \in LocType, Moves(t, q, m), LocalOk(q, m),
           q \in {"pfa_alloc", "map_page", "fb"}, PlaceOf(q, m) \in {"map_got", "map_page", "fb"},
           PurposeOf(q, m) \in {"nic_got", "fb"}, m.dir = NULL, m.tab = NULL,
           PlaceOf(q, m) = "map_got" => hw.nic /\ nic[PT(m.vp)] = NULL,
           PlaceOf(q, m) = "map_page" => hw.vbe /\ m.back = "fb",
           PurposeOf(q, m) = "nic_got" <=> m.ret = "map_got" /\ q = "pfa_alloc",
           PurposeOf(q, m) = "nic_got" => m.back = "nic_got" /\ pc[t] = "nic",
           PurposeOf(q, m) = "fb" /\ hw.nic => \A i \in NicPages : nic[i] # NULL,
           Shown' = Shown
    PROVE  MemTypes' /\ Good(own)'
<1>0. DeviceInv
  BY GoodParts
<1>1. pc[t] \in Boots
  BY DEF Boots
<1>2. /\ loc[t] \in LocType /\ Place(t) = pc[t] /\ Purpose(t) = pc[t] /\ t = 0 /\ Booted
  BY <1>1, BootFacts
<1>3. /\ pc'[current'] = q /\ loc'[current'] = m /\ Place(current)' = PlaceOf(q, m)
      /\ Purpose(current)' = PurposeOf(q, m) /\ current' = t
  BY MovesTo, PlacesMove
<1>4. CallInv(own)'
  BY <1>3 DEF CallInv, AllocReturns
<1>5. SeenInv'
  <2>1. PlaceOf(q, m) \in {"map_got", "map_page"} => (m.back = "nic_got" => hw.nic /\ nic[PT(m.vp)] = NULL)
    OBVIOUS
  <2>2. PlaceOf(q, m) \in Maps /\ m.back = "fb" => hw.vbe
    <3>1. PlaceOf(q, m) = "map_got" => PurposeOf(q, m) = m.back
      BY DEF PurposeOf, Maps
    <3>2. PlaceOf(q, m) = "map_got" => q = "pfa_alloc" /\ m.ret = "map_got"
      BY DEF PlaceOf
    <3>3. QED
      BY <3>1, <3>2 DEF Maps
  <2>3. QED
    BY <1>3, <2>1, <2>2 DEF SeenInv, Maps, Forks
<1>6. AloneInv'
  BY DEF AloneInv
<1>7. CopyInv(own)'
  BY <1>3 DEF CopyInv
<1>8. Booted'
  BY <1>3 DEF Booted
<1>9. DeviceInv'
  <2>1. Device' = Device
    BY DEF Device
  <2>2. PurposeOf(q, m) # "fb" => Purpose(t) # "fb"
    BY <1>2
  <2>3. QED
    BY <1>0, <1>2, <1>3, <2>1, <2>2 DEF DeviceInv
<1>10. Keeps(own, own, Settled) /\ Keeps(own, own, {"free"})
  BY DEF Keeps
<1>11. Good(own)'
  <2>1. Place(t) \notin Waits /\ PlaceOf(q, m) \notin Waits
    BY <1>2 DEF Waits
  <2>2. PurposeOf(q, m) \in Boots <=> Purpose(t) \in Boots
    BY <1>2 DEF Boots
  <2>3. PlaceOf(q, m) \notin {"init_dir", "init_table"} /\ pc[t] # "pfa_store" /\ q # "pfa_store"
    OBVIOUS
  <2>4. QED
    BY <1>2, <1>4, <1>5, <1>6, <1>7, <1>9, <1>10, <2>1, <2>2, <2>3, StaticMove
<1>12. MemTypes'
  <2>1. CallTypes'
    BY MovesTo
  <2>2. SpaceTypes' /\ PoolTypes' /\ TaskTypes'
    BY DEF MemTypes, SpaceTypes, PoolTypes, TaskTypes
  <2>3. QED
    BY <2>1, <2>2 DEF MemTypes
<1>13. QED
  BY <1>11, <1>12

\* init_buffers: a frame for the card, or on to the frame buffer.
LEMMA BuffersStep ==
    ASSUME NEW own, MemTypes, Good(own), NEW t \in Slots, state[t] = "live", UNCHANGED <<hw, current>>,
           init_buffers(t)
    PROVE  MemTypes' /\ Good(own)'
<1>1. pc[t] \in Boots /\ pc[t] = "nic" /\ t = current /\ cpu \in {"boot", "run"}
  BY DEF Boots, init_buffers, At
<1>2. /\ loc[t] \in LocType /\ loc[t].dir = NULL /\ loc[t].tab = NULL /\ Place(t) = pc[t]
      /\ Purpose(t) = pc[t] /\ cpu = "boot" /\ t = 0 /\ Booted /\ loc[t].pt = 0
  BY <1>1, BootFacts
<1>u. /\ UNCHANGED <<page_frames, page_frame_count, dir, table, mem, nic, cpu>>
      /\ UNCHANGED <<state, parent, page_dir, kstack, running>>
  BY DEF init_buffers, pfaVars, memVars, taskVars
<1>3. Shown = 0
  BY <1>1, <1>2 DEF Shown
<1>4. PICK todo : todo = {i \in NicPages : nic[i] = NULL}
  OBVIOUS
<1>5. CASE hw.nic /\ todo # {}
  <2>1. AllocPage(t, DEVICE_PD * PTES + Min(todo), FALSE, "nic_got")
    BY <1>4, <1>5 DEF init_buffers
  <2>2. PICK i \in NicPages : i = Min(todo) /\ nic[i] = NULL /\ i \in PTs
    <3>0. NicPages \subseteq Nat
      BY Sizes DEF PTs
    <3>1. todo \in SUBSET Nat
      BY <1>4, <3>0
    <3>2. Min(todo) \in todo
      BY <1>5, <3>1, LeastIs
    <3>3. QED
      BY <1>4, <3>2, Sizes
  <2>3. PICK v \in Nat : v = DEVICE_PD * PTES + i /\ PD(v) = DEVICE_PD /\ PT(v) = i
    BY <2>2, DevicePages
  <2>4. PICK m : m = [loc[t] EXCEPT !.vp = v, !.u = FALSE, !.back = "nic_got", !.ret = "map_got"]
    OBVIOUS
  <2>5. m \in LocType
    <3>1. "nic_got" \in Labels /\ "map_got" \in Labels /\ v \in Int
      BY DEF Labels
    <3>2. QED
      BY <1>2, <2>4, <3>1 DEF LocType
  <2>6. /\ m.ret = "map_got" /\ m.back = "nic_got" /\ m.u = FALSE /\ m.vp = v /\ m.dir = NULL /\ m.tab = NULL /\ m.pt = 0
    BY <1>2, <2>4 DEF LocType
  <2>7. Moves(t, "pfa_alloc", m)
    <3>1. loc' = [loc EXCEPT ![t] = m]
      BY <1>2, <2>1, <2>2, <2>3, <2>4 DEF AllocPage, Alloc, Local, LocType
    <3>2. QED
      BY <2>1, <3>1 DEF AllocPage, Alloc, Goto, Moves
  <2>8. PlaceOf("pfa_alloc", m) = "map_got" /\ PurposeOf("pfa_alloc", m) = "nic_got"
    BY <2>6 DEF PlaceOf, PurposeOf, Maps
  <2>9. LocalOk("pfa_alloc", m)
    <3>1. CallOk("pfa_alloc", m)
      BY <2>6, <2>8 DEF CallOk, AllocReturns, Waits
    <3>2. ForCard(m)
      BY <2>2, <2>3, <2>6 DEF ForCard, DevicePage
    <3>3. MapOk("pfa_alloc", m)
      BY <2>6, <2>8, <3>2 DEF MapOk
    <3>4. ExecOk("pfa_alloc", m) /\ ForkOk("pfa_alloc", m)
      BY <2>8 DEF ExecOk, ForkOk, Execs, Forks
    <3>5. QED
      BY <3>1, <3>3, <3>4 DEF LocalOk
  <2>10. Shown' = Shown
    <3>1. Purpose(current)' = "nic_got"
      BY <1>1, <2>7, <2>8, PlacesMove
    <3>2. QED
      BY <1>2, <1>3, <1>u, <3>1 DEF Shown
  <2>11. "pfa_alloc" \in Labels
    BY DEF Labels
  <2>12. nic[PT(m.vp)] = NULL
    BY <2>2, <2>3, <2>6
  <2>13. QED
    BY <1>1, <1>2, <1>u, <1>5, <2>5, <2>6, <2>7, <2>8, <2>9, <2>10, <2>11, <2>12, BootMove
<1>6. CASE ~(hw.nic /\ todo # {})
  <2>1. Goto(t, "fb") /\ UNCHANGED loc
    BY <1>4, <1>6 DEF init_buffers
  <2>2. Moves(t, "fb", loc[t])
    BY <2>1 DEF Goto, Moves, MemTypes, CallTypes
  <2>3. LocalOk("fb", loc[t]) /\ PlaceOf("fb", loc[t]) = "fb" /\ PurposeOf("fb", loc[t]) = "fb"
    <3>1. loc[t].pt <= FbPages
      BY <1>2, Sizes
    <3>2. QED
      BY <1>2, <3>1, BootLocal DEF Boots
  <2>4. Shown' = Shown
    <3>1. Purpose(current)' = "fb" /\ Place(current)' = "fb" /\ loc'[current'] = loc[t]
      BY <1>1, <2>2, <2>3, MovesTo, PlacesMove
    <3>2. QED
      BY <1>2, <1>3, <1>u, <3>1 DEF Shown
  <2>5. "fb" \in Labels
    BY DEF Labels
  <2>6. hw.nic => \A i \in NicPages : nic[i] # NULL
    BY <1>4, <1>6
  <2>7. QED
    BY <1>1, <1>2, <1>u, <2>2, <2>3, <2>4, <2>5, <2>6, BootMove
<1>7. QED
  BY <1>5, <1>6

\* init_buffer_set: the card has its buffer.
LEMMA BufferSetStep ==
    ASSUME NEW own, MemTypes, Good(own), NEW t \in Slots, state[t] = "live", UNCHANGED <<hw, current>>,
           init_buffer_set(t)
    PROVE  MemTypes' /\ Good(own)'
<1>0. /\ CallInv(own) /\ TurnInv /\ WaitInv /\ BootInv /\ SeenInv /\ PoolInv(own) /\ TaskInv(own) /\ NicInv(own)
      /\ SpaceInv(own) /\ DeviceInv
  BY GoodParts
<1>1. pc[t] \in Boots /\ pc[t] = "nic_got" /\ t = current /\ cpu \in {"boot", "run"}
  BY DEF Boots, init_buffer_set, At
<1>2. /\ loc[t] \in LocType /\ LocalOk(pc[t], loc[t]) /\ loc[t].dir = NULL /\ loc[t].tab = NULL /\ Place(t) = pc[t]
      /\ Purpose(t) = pc[t] /\ cpu = "boot" /\ t = 0 /\ Booted /\ loc[t].pt = 0
  BY <1>1, BootFacts
<1>u. /\ UNCHANGED <<page_frames, page_frame_count, dir, table, mem, cpu, loc>>
      /\ UNCHANGED <<state, parent, page_dir, kstack, running>>
  BY DEF init_buffer_set, pfaVars, memVars, taskVars
<1>3. PICK i \in NicPages : DevicePage(loc[t], i)
  BY <1>1, <1>2 DEF LocalOk, MapOk
<1>4. PT(loc[t].vp) = i /\ PD(loc[t].vp) = DEVICE_PD /\ i \in PTs
  BY <1>3, Sizes DEF DevicePage
<1>5. PICK g \in RAM : g = Entry(page_dir[t], loc[t].vp).f /\ own[g] = Buffer(i)
  BY <1>0, <1>1, <1>4 DEF CallInv
<1>6. nic' = [nic EXCEPT ![i] = g]
  BY <1>4, <1>5 DEF init_buffer_set
<1>7. Device # Absent /\ table[Device.f][i].f = g
  <2>1. Entry(page_dir[t], loc[t].vp) = IF Device = Absent THEN Absent ELSE table[Device.f][i]
    BY <1>2, <1>4 DEF Entry, Device
  <2>2. Absent.f \notin RAM
    BY DEF Absent, RAM, NULL
  <2>3. QED
    BY <1>5, <2>1, <2>2
<1>8. nic \in [PTs -> RAM \cup {NULL}]
  BY DEF MemTypes, SpaceTypes
<1>9. nic'[i] = g /\ g # NULL /\ \A j \in PTs : j # i => nic'[j] = nic[j]
  <2>1. g # NULL
    BY DEF RAM, NULL
  <2>2. QED
    BY <1>4, <1>6, <1>8, <2>1
<1>10. Moves(t, "nic", loc[t])
  BY <1>u DEF init_buffer_set, Goto, Moves, MemTypes, CallTypes
<1>11. LocalOk("nic", loc[t]) /\ PlaceOf("nic", loc[t]) = "nic" /\ PurposeOf("nic", loc[t]) = "nic"
  BY <1>2, BootLocal DEF Boots
<1>12. /\ pc'[current'] = "nic" /\ loc'[current'] = loc[t] /\ Place(current)' = "nic"
       /\ Purpose(current)' = "nic" /\ current' = t
  BY <1>1, <1>10, <1>11, MovesTo, PlacesMove
<1>13. TurnInv'
  BY <1>0, <1>1, <1>10, <1>11, <1>u, TurnKept
<1>14. BootInv'
  BY <1>0, <1>1, <1>2, <1>12, <1>u DEF BootInv, Boots
<1>15. WaitInv'
  BY <1>0, <1>10, <1>11, <1>u, WaitKept DEF Waits
<1>16. SeenInv'
  BY <1>12 DEF SeenInv, Maps, Forks
<1>17. PoolInv(own)'
  <2>1. PoolTop' = PoolTop
    BY <1>1, <1>u, <1>12 DEF PoolTop
  <2>2. QED
    BY <1>0, <1>u, <2>1 DEF PoolInv
<1>k. Keeps(own, own, {"stack", "dir"}) /\ Keeps(own, own, {"table", "page"}) /\ Keeps(own, own, {"kernel"})
  BY DEF Keeps
<1>18. TaskInv(own)'
  BY <1>0, <1>1, <1>2, <1>10, <1>11, <1>u, <1>k, TasksKept
<1>19. NicInv(own)'
  <2>1. ASSUME NEW j \in PTs, nic'[j] # NULL PROVE own[nic'[j]] = Buffer(j)
    <3>1. CASE j = i
      BY <1>5, <1>9, <3>1
    <3>2. CASE j # i
      BY <1>0, <1>9, <2>1, <3>2 DEF NicInv
    <3>3. QED
      BY <3>1, <3>2
  <2>2. QED
    BY <2>1 DEF NicInv
<1>20. Booted'
  BY <1>12 DEF Booted
<1>21. EarlyInv(own)'
  BY <1>20 DEF EarlyInv
<1>22. CallInv(own)'
  BY <1>2, <1>12 DEF CallInv, AllocReturns
<1>23. Zero' = Zero /\ Device' = Device
  BY <1>u DEF Zero, Device
<1>24. SpaceInv(own)'
  <2>1. LiveInv(own) /\ KernelInv(own)
    BY <1>0, <1>2 DEF SpaceInv
  <2>2. LiveInv(own)'
    BY <1>u, <1>k, <2>1, LiveKept
  <2>3. KernelInv(own)'
    BY <1>u, <1>k, <1>23, <2>1, KernelKept
  <2>4. CopyInv(own)'
    BY <1>2, <1>12 DEF CopyInv
  <2>5. QED
    BY <2>2, <2>3, <2>4 DEF SpaceInv
<1>25. DeviceInv'
  <2>1. hw.nic
    BY <1>0, <1>1 DEF SeenInv
  <2>2. Shown' = 0 /\ \A j \in 0 .. 0 - 1 : FALSE
    BY <1>2, <1>12, <1>u DEF Shown
  <2>3. ~hw.vbe => \A j \in PTs : nic[j] # NULL => table[Device.f][j].f = nic[j]
    BY <1>0, <1>2, <2>1 DEF DeviceInv
  <2>4. ~hw.vbe => \A j \in PTs : nic'[j] # NULL => table'[Device'.f][j].f = nic'[j]
    BY <1>7, <1>9, <1>23, <1>u, <2>3
  <2>5. QED
    BY <1>2, <1>7, <1>12, <1>23, <1>u, <2>1, <2>2, <2>4 DEF DeviceInv
<1>26. AloneInv'
  BY <1>2, <1>u DEF AloneInv
<1>27. Good(own)'
  BY <1>13, <1>14, <1>15, <1>16, <1>17, <1>18, <1>19, <1>21, <1>22, <1>24, <1>25, <1>26 DEF Good, Placed, HoldInv
<1>28. MemTypes'
  <2>1. CallTypes'
    <3>1. "nic" \in Labels
      BY DEF Labels
    <3>2. QED
      BY <1>2, <1>10, <3>1, MovesTo
  <2>2. nic' \in [PTs -> RAM \cup {NULL}]
    BY <1>6, <1>8
  <2>3. SpaceTypes'
    BY <1>u, <2>2 DEF MemTypes, SpaceTypes
  <2>4. PoolTypes' /\ TaskTypes'
    BY <1>u DEF MemTypes, PoolTypes, TaskTypes
  <2>5. QED
    BY <1>u, <2>1, <2>3, <2>4 DEF MemTypes
<1>29. QED
  BY <1>27, <1>28

\* framebuffer_map: the next page.
LEMMA ScreenPageStep ==
    ASSUME NEW own, MemTypes, Good(own), NEW t \in Slots, state[t] = "live", UNCHANGED <<hw, current>>,
           framebuffer_map(t), hw.vbe, loc[t].pt < FbPages
    PROVE  MemTypes' /\ Good(own)'
<1>1. pc[t] \in Boots /\ pc[t] = "fb" /\ t = current /\ cpu \in {"boot", "run"}
  BY DEF Boots, framebuffer_map, At
<1>2. /\ loc[t] \in LocType /\ loc[t].dir = NULL /\ loc[t].tab = NULL /\ Place(t) = pc[t]
      /\ Purpose(t) = pc[t] /\ cpu = "boot" /\ t = 0 /\ Booted
  BY <1>1, BootFacts
<1>3. PICK n \in Nat : n = loc[t].pt /\ n < FbPages
  BY <1>2 DEF LocType
<1>4. n \in PTs /\ n # FbPages
  BY <1>3, Sizes DEF PTs
<1>5. PICK v \in Nat : v = DEVICE_PD * PTES + n /\ PD(v) = DEVICE_PD /\ PT(v) = n
  BY <1>4, DevicePages
<1>6. PICK g \in Int : g = FbPhys(n)
  BY Sizes DEF FbPhys
<1>7. PICK m : m = [loc[t] EXCEPT !.vp = v, !.u = TRUE, !.f = g, !.pt = n + 1, !.back = "fb"]
  OBVIOUS
<1>8. m \in LocType
  <2>1. "fb" \in Labels /\ v \in Int /\ n + 1 \in Nat
    BY DEF Labels
  <2>2. QED
    BY <1>2, <1>7, <2>1 DEF LocType
<1>9. /\ m.vp = v /\ m.u = TRUE /\ m.f = g /\ m.pt = n + 1 /\ m.back = "fb" /\ m.dir = NULL /\ m.tab = NULL
  BY <1>2, <1>7 DEF LocType
<1>u. /\ UNCHANGED <<page_frames, page_frame_count, dir, table, mem, nic>>
      /\ UNCHANGED <<state, parent, page_dir, kstack, running>>
  BY DEF framebuffer_map, pfaVars, memVars, taskVars
<1>10. /\ loc' = [loc EXCEPT ![t].vp = v, ![t].u = TRUE, ![t].f = g, ![t].pt = @ + 1, ![t].back = "fb"]
       /\ Goto(t, "map_page") /\ cpu' = cpu
  BY <1>3, <1>4, <1>5, <1>6 DEF framebuffer_map
<1>11. Moves(t, "map_page", m)
  <2>1. loc' = [loc EXCEPT ![t] = m]
    BY <1>2, <1>3, <1>7, <1>10 DEF LocType, MemTypes, CallTypes
  <2>2. QED
    BY <1>10, <2>1 DEF Goto, Moves
<1>12. PlaceOf("map_page", m) = "map_page" /\ PurposeOf("map_page", m) = "fb"
  BY <1>9 DEF PlaceOf, PurposeOf, Maps
<1>13. LocalOk("map_page", m)
  <2>1. CallOk("map_page", m)
    BY <1>9, <1>12 DEF CallOk, Waits
  <2>2. ForScreen(m) /\ m.pt <= FbPages
    <3>1. n + 1 \in 1 .. FbPages /\ n + 1 - 1 = n
      BY <1>3, Sizes
    <3>2. QED
      BY <1>5, <1>6, <1>9, <3>1, Sizes DEF ForScreen, DevicePage
  <2>3. MapOk("map_page", m)
    BY <1>12, <2>2 DEF MapOk
  <2>4. ExecOk("map_page", m) /\ ForkOk("map_page", m)
    BY <1>12 DEF ExecOk, ForkOk, Execs, Forks
  <2>5. QED
    BY <2>1, <2>3, <2>4 DEF LocalOk
<1>14. Shown' = Shown
  <2>1. Purpose(current)' = "fb" /\ Place(current)' = "map_page" /\ loc'[current'] = m
    BY <1>1, <1>11, <1>12, MovesTo, PlacesMove
  <2>2. Shown = n
    BY <1>1, <1>2, <1>3 DEF Shown
  <2>3. cpu' # "run" /\ loc'[current'].pt = n + 1
    BY <1>2, <1>9, <1>10, <2>1
  <2>4. Shown' = loc'[current'].pt - 1
    BY <2>1, <2>3 DEF Shown
  <2>5. QED
    BY <2>2, <2>3, <2>4
<1>15. "map_page" \in Labels
  BY DEF Labels
<1>16. hw.nic => \A i \in NicPages : nic[i] # NULL
  BY <1>1, <1>2, GoodParts DEF DeviceInv
<1>17. QED
  BY <1>1, <1>2, <1>u, <1>8, <1>9, <1>10, <1>11, <1>12, <1>13, <1>14, <1>15, <1>16, BootMove

\* framebuffer_map is done, the machine is up.
LEMMA BootEndStep ==
    ASSUME NEW own, MemTypes, Good(own), NEW t \in Slots, state[t] = "live", UNCHANGED <<hw, current>>,
           framebuffer_map(t), ~(hw.vbe /\ loc[t].pt < FbPages)
    PROVE  MemTypes' /\ Good(own)'
<1>0. /\ CallInv(own) /\ TurnInv /\ WaitInv /\ BootInv /\ SeenInv /\ PoolInv(own) /\ TaskInv(own) /\ NicInv(own)
      /\ SpaceInv(own) /\ DeviceInv
  BY GoodParts
<1>1. pc[t] \in Boots /\ pc[t] = "fb" /\ t = current /\ cpu \in {"boot", "run"}
  BY DEF Boots, framebuffer_map, At
<1>2. /\ loc[t] \in LocType /\ Place(t) = pc[t] /\ Purpose(t) = pc[t] /\ cpu = "boot" /\ t = 0 /\ Booted
      /\ \A s \in Slots : s # 0 => state[s] = "free"
      /\ page_dir[0] \in RAM /\ own[page_dir[0]] = DirOf(0)
  BY <1>1, BootFacts
<1>u. /\ UNCHANGED <<page_frames, page_frame_count, dir, table, mem, nic>>
      /\ UNCHANGED <<state, parent, page_dir, kstack, running>>
  BY DEF framebuffer_map, pfaVars, memVars, taskVars
<1>3. cpu' = "run" /\ Local(t, NoLocals) /\ Goto(t, "user") /\ (hw.vbe => loc[t].pt = FbPages)
  BY DEF framebuffer_map
<1>4. Moves(t, "user", NoLocals)
  BY <1>3 DEF Moves, Local, Goto
<1>5. NoLocals \in LocType /\ LocalOk("user", NoLocals)
  BY NoLocalsType
<1>6. PlaceOf("user", NoLocals) = "user" /\ PurposeOf("user", NoLocals) = "user"
  BY DEF PlaceOf, PurposeOf, Maps
<1>7. /\ pc'[current'] = "user" /\ loc'[current'] = NoLocals /\ Place(current)' = "user"
      /\ Purpose(current)' = "user" /\ current' = t
  BY <1>1, <1>4, <1>6, MovesTo, PlacesMove
<1>8. TurnInv'
  BY <1>0, <1>1, <1>4, <1>5, <1>u, TurnKept
<1>9. BootInv'
  BY <1>3, <1>7 DEF BootInv, Boots
<1>10. WaitInv'
  BY <1>0, <1>4, <1>6, <1>u, WaitKept DEF Waits
<1>11. SeenInv'
  BY <1>7 DEF SeenInv, Maps, Forks
<1>12. PoolInv(own)'
  <2>1. PoolTop' = PoolTop
    BY <1>1, <1>u, <1>7 DEF PoolTop
  <2>2. QED
    BY <1>0, <1>u, <2>1 DEF PoolInv
<1>13. TaskInv(own)'
  <2>1. page_dir[0] # NULL
    BY <1>2 DEF RAM, NULL
  <2>2. QED
    BY <1>0, <1>2, <1>3, <1>u, <2>1 DEF TaskInv
<1>14. NicInv(own)'
  BY <1>0, <1>u DEF NicInv
<1>15. Booted'
  BY <1>3 DEF Booted
<1>16. EarlyInv(own)'
  BY <1>15 DEF EarlyInv
<1>17. NoLocals.dir = NULL /\ NoLocals.tab = NULL
  BY DEF NoLocals
<1>18. CallInv(own)'
  BY <1>7, <1>17 DEF CallInv, AllocReturns
<1>19. Zero' = Zero /\ Device' = Device
  BY <1>u DEF Zero, Device
<1>k. Keeps(own, own, {"table", "page"}) /\ Keeps(own, own, {"kernel"})
  BY DEF Keeps
<1>20. SpaceInv(own)'
  <2>1. LiveInv(own) /\ KernelInv(own)
    BY <1>0, <1>2 DEF SpaceInv
  <2>2. LiveInv(own)'
    BY <1>u, <1>k, <2>1, LiveKept
  <2>3. KernelInv(own)'
    BY <1>u, <1>k, <1>19, <2>1, KernelKept
  <2>4. CopyInv(own)'
    BY <1>7, <1>17 DEF CopyInv
  <2>5. QED
    BY <2>2, <2>3, <2>4 DEF SpaceInv
<1>21. DeviceInv'
  <2>1. hw.vbe => Shown = FbPages
    BY <1>1, <1>2, <1>3 DEF Shown
  <2>2. Shown' = FbPages
    BY <1>3 DEF Shown
  <2>3. hw.nic => \A i \in NicPages : nic[i] # NULL
    BY <1>0, <1>1, <1>2 DEF DeviceInv
  <2>4. hw.vbe => \A i \in 0 .. Shown' - 1 :
              Device # Absent /\ table[Device.f][i] = [f |-> FbPhys(i), u |-> TRUE]
    BY <1>0, <1>2, <2>1, <2>2 DEF DeviceInv
  <2>5. cpu' # "boot"
    BY <1>3
  <2>6. QED
    BY <1>0, <1>2, <1>19, <1>u, <2>3, <2>4, <2>5 DEF DeviceInv
<1>22. AloneInv'
  BY <1>2, <1>7, <1>u DEF AloneInv, Forks
<1>23. Good(own)'
  BY <1>8, <1>9, <1>10, <1>11, <1>12, <1>13, <1>14, <1>16, <1>18, <1>20, <1>21, <1>22 DEF Good, Placed, HoldInv
<1>24. MemTypes'
  <2>1. CallTypes'
    <3>1. "user" \in Labels
      BY DEF Labels
    <3>2. QED
      BY <1>4, <1>5, <3>1, MovesTo
  <2>2. SpaceTypes' /\ PoolTypes' /\ TaskTypes'
    BY <1>u DEF MemTypes, SpaceTypes, PoolTypes, TaskTypes
  <2>3. QED
    BY <1>3, <2>1, <2>2 DEF MemTypes
<1>25. QED
  BY <1>23, <1>24

\* framebuffer_map.
LEMMA FramebufferStep ==
    ASSUME NEW own, MemTypes, Good(own), NEW t \in Slots, state[t] = "live", UNCHANGED <<hw, current>>,
           framebuffer_map(t)
    PROVE  MemTypes' /\ Good(own)'
BY ScreenPageStep, BootEndStep

-----------------------------------------------------------------------------
(* Every step keeps the invariant.                                           *)

\* Tasks take steps while the machine runs.
LEMMA TaskRuns ==
    ASSUME NEW t \in Slots, Kernel(t) \/ User(t) \/ Counted(t)
    PROVE  Running
BY DEF Kernel, User, Counted, pfa_alloc, pfa_read, pfa_store, paging_map_page, map_table, init_dir, init_table,
       init_buffers, init_buffer_set, framebuffer_map, clone_dir, clone_pde, clone_table, clone_pte, clone_page,
       fork_fill, wait_free, wait_clear, exec_fail, exec_phdr, seg_file, seg_copy, seg_bss, setup_user_stack,
       task_exit, task_wait, Write, task_fork, elf_load_and_exec, At, Running

\* Only fork's copy of a page faults.
LEMMA FaultingStep ==
    ASSUME NEW t \in Slots, Kernel(t) \/ User(t) \/ Counted(t), cpu' = "page fault"
    PROVE  clone_page(t)
<1>1. cpu = "page fault" \/ clone_page(t)
  BY DEF Kernel, User, Counted, pfa_alloc, pfa_read, pfa_store, paging_map_page, map_table, init_dir, init_table,
         init_buffers, init_buffer_set, framebuffer_map, clone_dir, clone_pde, clone_table, clone_pte,
         fork_fill, wait_free, wait_clear, exec_fail, exec_phdr, seg_file, seg_copy, seg_bss, setup_user_stack,
         task_exit, task_wait, Write, task_fork, elf_load_and_exec
<1>2. cpu # "page fault"
  BY TaskRuns DEF Running
<1>3. QED
  BY <1>1, <1>2

\* A step of a task: memory runs out, fork faults, or the holders are known again.
Outcome ==
    /\ MemTypes'
    /\ \/ cpu' = "out of memory"
       \/ cpu' = "page fault" /\ hw.vbe /\ ~hw.nic
       \/ \E own : Good(own)'

\* Steps of boot and of the system calls in progress.
LEMMA KernelStep ==
    ASSUME Orderly, NEW own, MemTypes, Good(own), NEW t \in Slots, state[t] = "live", UNCHANGED <<hw, current>>,
           Kernel(t)
    PROVE  Outcome
<1>1. CASE pfa_alloc(t)
  BY <1>1, AllocStep DEF Outcome
<1>2. CASE pfa_read(t)
  BY <1>2, ReadStep DEF Outcome
<1>3. CASE pfa_store(t)
  BY <1>3, StoreStep DEF Outcome
<1>4. CASE paging_map_page(t)
  BY <1>4, MapStep DEF Outcome
<1>5. CASE map_table(t)
  BY <1>5, TableStep DEF Outcome
<1>6. CASE init_dir(t)
  BY <1>6, InitDirStep DEF Outcome
<1>7. CASE init_table(t)
  BY <1>7, InitTableStep DEF Outcome
<1>8. CASE init_buffers(t)
  BY <1>8, BuffersStep DEF Outcome
<1>9. CASE init_buffer_set(t)
  BY <1>9, BufferSetStep DEF Outcome
<1>10. CASE framebuffer_map(t)
  BY <1>10, FramebufferStep DEF Outcome
<1>11. CASE clone_dir(t)
  BY <1>11, CloneDirStep DEF Outcome
<1>12. CASE clone_pde(t)
  BY <1>12, ClonePdeStep DEF Outcome
<1>13. CASE clone_table(t)
  BY <1>13, CloneTableStep DEF Outcome
<1>14. CASE clone_pte(t)
  BY <1>14, ClonePteStep DEF Outcome
<1>15. CASE clone_page(t)
  BY <1>15, ClonePageStep DEF Outcome
<1>16. CASE fork_fill(t)
  BY <1>16, ForkFillStep DEF Outcome
<1>17. CASE wait_free(t)
  BY <1>17, FreeStep DEF Outcome
<1>18. CASE wait_clear(t)
  BY <1>18, ClearStep DEF Outcome
<1>19. CASE exec_fail(t)
  BY <1>19, ReturnStep DEF Outcome
<1>20. CASE exec_phdr(t)
  BY <1>20, PhdrStep DEF Outcome
<1>21. CASE seg_file(t)
  BY <1>21, FileStep DEF Outcome
<1>22. CASE seg_copy(t)
  BY <1>22, CopyStep DEF Outcome
<1>23. CASE seg_bss(t)
  BY <1>23, BssStep DEF Outcome
<1>24. CASE setup_user_stack(t)
  BY <1>24, StackStep DEF Outcome
<1>25. QED
  BY <1>1, <1>2, <1>3, <1>4, <1>5, <1>6, <1>7, <1>8, <1>9, <1>10, <1>11, <1>12, <1>13, <1>14, <1>15, <1>16,
     <1>17, <1>18, <1>19, <1>20, <1>21, <1>22, <1>23, <1>24 DEF Kernel

\* Steps of programs.
LEMMA CallStep ==
    ASSUME Orderly, NEW own, MemTypes, Good(own), NEW t \in Slots, state[t] = "live", UNCHANGED <<hw, current>>,
           User(t) \/ Counted(t)
    PROVE  Outcome
<1>1. CASE task_exit(t)
  BY <1>1, ExitStep DEF Outcome
<1>2. CASE task_wait(t)
  BY <1>2, WaitStep DEF Outcome
<1>3. ASSUME NEW a \in Touched, NEW x \in Writes, Write(t, a, x) PROVE Outcome
  BY <1>3, WriteStep DEF Outcome
<1>4. CASE task_fork(t)
  BY <1>4, ForkStep DEF Outcome
<1>5. ASSUME NEW p \in Programs, elf_load_and_exec(t, p) PROVE Outcome
  BY <1>5, ExecStep DEF Outcome
<1>6. QED
  BY <1>1, <1>2, <1>3, <1>4, <1>5 DEF User, Counted

\* Every step keeps the invariant.
LEMMA InvariantKept ==
    ASSUME Orderly, MemInv, Next
    PROVE  MemInv'
<1>1. CASE Switch
  <2>1. UNCHANGED <<hw, cpu>> /\ Running
    BY <1>1 DEF Next, Switch, Running
  <2>2. PICK own : Good(own)
    BY <2>1 DEF MemInv
  <2>3. MemTypes' /\ Good(own)'
    BY <1>1, <2>1, <2>2, SwitchStep DEF MemInv
  <2>4. QED
    BY <2>1, <2>3 DEF MemInv, FaultsOnlyOnFrameBuffer
<1>2. ASSUME NEW t \in Slots, state[t] = "live", Kernel(t) \/ User(t) \/ Counted(t), UNCHANGED current
      PROVE  MemInv'
  <2>1. Running /\ UNCHANGED hw
    BY <1>2, TaskRuns DEF Next
  <2>2. PICK own : Good(own)
    BY <2>1 DEF MemInv
  <2>3. Outcome
    BY <1>2, <2>1, <2>2, KernelStep, CallStep DEF MemInv
  <2>4. FaultsOnlyOnFrameBuffer'
    <3>1. SUFFICES ASSUME cpu' = "page fault" PROVE hw.vbe /\ ~hw.nic
      BY <2>1 DEF FaultsOnlyOnFrameBuffer
    <3>2. clone_page(t)
      BY <1>2, <3>1, FaultingStep
    <3>3. (hw.vbe /\ ~hw.nic) \/ cpu' = cpu
      BY <1>2, <2>1, <2>2, <3>2, ClonePageStep DEF MemInv
    <3>4. QED
      BY <2>1, <3>1, <3>3 DEF Running
  <2>5. QED
    BY <2>3, <2>4 DEF Outcome, MemInv, Running
<1>3. QED
  BY <1>1, <1>2 DEF Next

\* So does one that changes nothing.
LEMMA InvariantStutters ==
    ASSUME MemInv, UNCHANGED vars
    PROVE  MemInv'
<1>u. /\ UNCHANGED <<hw, page_frames, page_frame_count, dir, table, mem, nic, current, cpu, pc, loc>>
      /\ UNCHANGED <<state, parent, page_dir, kstack, running>>
  BY DEF vars, pfaVars, memVars, taskVars
<1>1. MemTypes'
  <2>1. SpaceTypes'
    BY <1>u DEF MemInv, MemTypes, SpaceTypes
  <2>2. PoolTypes' /\ TaskTypes' /\ CallTypes'
    BY <1>u DEF MemInv, MemTypes, PoolTypes, TaskTypes, CallTypes
  <2>3. QED
    BY <1>u, <2>1, <2>2 DEF MemInv, MemTypes
<1>2. FaultsOnlyOnFrameBuffer' /\ (Running' <=> Running)
  BY <1>u DEF MemInv, FaultsOnlyOnFrameBuffer, Running
<1>3. ASSUME NEW own, Good(own) PROVE Good(own)'
  <2>0. /\ CallInv(own) /\ TurnInv /\ WaitInv /\ BootInv /\ SeenInv /\ PoolInv(own) /\ TaskInv(own) /\ NicInv(own)
        /\ SpaceInv(own) /\ DeviceInv /\ AloneInv /\ EarlyInv(own)
    BY <1>3, GoodParts
  <2>1. /\ \A t \in Slots : Place(t)' = Place(t) /\ Purpose(t)' = Purpose(t)
        /\ Place(current)' = Place(current) /\ Purpose(current)' = Purpose(current)
    BY <1>u DEF Place, Purpose
  <2>2. /\ (Booted' <=> Booted) /\ PoolTop' = PoolTop /\ Shown' = Shown /\ Zero' = Zero /\ Device' = Device
    BY <1>u, <2>1 DEF Booted, PoolTop, Shown, Zero, Device
  <2>3. TurnInv' /\ BootInv' /\ WaitInv'
    BY <1>u, <2>0, <2>1 DEF TurnInv, BootInv, WaitInv
  <2>4. SeenInv'
    BY <1>u, <2>0, <2>1 DEF SeenInv
  <2>5. PoolInv(own)' /\ NicInv(own)'
    BY <1>u, <2>0, <2>2 DEF PoolInv, NicInv
  <2>6. TaskInv(own)'
    BY <1>u, <2>0, <2>1 DEF TaskInv, StackGone, DirGone, Reaped, Place
  <2>7. EarlyInv(own)'
    BY <1>u, <2>0, <2>2 DEF EarlyInv
  <2>8. CallInv(own)'
    BY <1>u, <2>0, <2>1 DEF CallInv, Entry
  <2>9. SpaceInv(own)'
    BY <1>u, <2>0, <2>2 DEF SpaceInv, LiveInv, CopyInv, KernelInv
  <2>10. DeviceInv' /\ AloneInv'
    BY <1>u, <2>0, <2>1, <2>2 DEF DeviceInv, AloneInv
  <2>11. QED
    BY <2>3, <2>4, <2>5, <2>6, <2>7, <2>8, <2>9, <2>10 DEF Good, Placed, HoldInv
<1>4. QED
  BY <1>1, <1>2, <1>3 DEF MemInv

\* It holds at power on: the boot frames are free, the others nobody's.
LEMMA InvariantAtStart ==
    ASSUME Init
    PROVE  MemInv
<1>0. 0 \in Slots /\ 0 \in RAM /\ 0 \in PDs /\ Absent \in Entries
  BY ZeroIsSlot, Sizes DEF RAM, PDs, Entries
<1>1. /\ cpu = "boot" /\ current = 0 /\ state[0] = "live" /\ page_dir[0] = NULL /\ parent[0] = NULL
      /\ \A t \in Slots : t # 0 => state[t] = "free"
      /\ pc = [t \in Slots |-> IF t = 0 THEN "pfa_alloc" ELSE "user"]
      /\ loc = [t \in Slots |-> [NoLocals EXCEPT !.ret = IF t = 0 THEN "init_dir" ELSE "user"]]
      /\ dir = [f \in RAM |-> EmptyDir] /\ table = [f \in RAM |-> EmptyTable] /\ nic = [i \in PTs |-> NULL]
      /\ page_frame_count = BOOT_FRAMES
      /\ page_frames = [i \in RAM |-> IF i < BOOT_FRAMES THEN i ELSE 0]
  BY <1>0 DEF Init
<1>2. PICK b : b = [NoLocals EXCEPT !.ret = "init_dir"]
  OBVIOUS
<1>3. b \in LocType /\ b.ret = "init_dir" /\ b.dir = NULL /\ b.tab = NULL /\ b.pt = 0 /\ b.back = "user"
  <2>1. "init_dir" \in Labels
    BY DEF Labels
  <2>2. QED
    BY <1>2, <2>1, NoLocalsType DEF LocType, NoLocals
<1>4. NoLocals = [NoLocals EXCEPT !.ret = "user"]
  <2>1. NoLocals.ret = "user"
    BY DEF NoLocals
  <2>2. QED
    BY <2>1, NoLocalsType DEF LocType
<1>5. /\ pc[0] = "pfa_alloc" /\ loc[0] = b
      /\ \A t \in Slots : t # 0 => pc[t] = "user" /\ loc[t] = NoLocals
  BY <1>0, <1>1, <1>2, <1>4
<1>6. /\ PlaceOf("pfa_alloc", b) = "init_dir" /\ PurposeOf("pfa_alloc", b) = "init_dir"
      /\ PlaceOf("user", NoLocals) = "user"
  BY <1>3 DEF PlaceOf, PurposeOf, Maps
<1>7. /\ Place(0) = "init_dir" /\ Purpose(0) = "init_dir"
      /\ \A t \in Slots : t # 0 => Place(t) = "user"
  BY <1>5, <1>6 DEF Place, Purpose
<1>8. LocalOk("pfa_alloc", b) /\ LocalOk("user", NoLocals)
  <2>1. CallOk("pfa_alloc", b)
    BY <1>3, <1>6 DEF CallOk, AllocReturns, Waits
  <2>2. MapOk("pfa_alloc", b)
    BY <1>3, <1>6 DEF MapOk
  <2>3. ExecOk("pfa_alloc", b) /\ ForkOk("pfa_alloc", b)
    BY <1>6 DEF ExecOk, ForkOk, Execs, Forks
  <2>4. QED
    BY <2>1, <2>2, <2>3, NoLocalsType DEF LocalOk
<1>9. MemTypes
  <2>1. CallTypes
    <3>1. "pfa_alloc" \in Labels /\ "user" \in Labels
      BY DEF Labels
    <3>2. \A t \in Slots : pc[t] \in Labels /\ loc[t] \in LocType
      BY <1>3, <1>5, <3>1, NoLocalsType
    <3>3. QED
      BY <1>1, <3>2 DEF CallTypes
  <2>2. TaskTypes
    BY <1>0 DEF Init, TaskTypes
  <2>3. EmptyDir \in [PDs -> Entries] /\ EmptyTable \in [PTs -> Entries]
    BY <1>0 DEF EmptyDir, EmptyTable
  <2>4. dir \in [RAM -> [PDs -> Entries]] /\ table \in [RAM -> [PTs -> Entries]] /\ nic \in [PTs -> RAM \cup {NULL}]
    BY <1>1, <2>3
  <2>5. mem = [f \in RAM |-> [w \in Words |-> mem[f][w]]]
    BY DEF Init
  <2>6. page_frames \in [RAM -> RAM]
    BY <1>0, <1>1
  <2>7. page_frame_count \in 0 .. NFRAMES
    BY <1>1, Sizes
  <2>8. QED
    BY <1>0, <1>1, <2>1, <2>2, <2>4, <2>5, <2>6, <2>7 DEF Init, MemTypes, SpaceTypes, PoolTypes
<1>10. PICK own : own = [f \in RAM |-> IF f < BOOT_FRAMES THEN Free(f) ELSE Nobody]
  OBVIOUS
<1>11. ~Booted
  BY <1>1, <1>7 DEF Booted
<1>12. TurnInv /\ BootInv /\ WaitInv
  <2>1. "user" \in Calm
    BY DEF Calm
  <2>2. TurnInv
    BY <1>1, <1>5, <1>8, <2>1 DEF TurnInv
  <2>3. BootInv
    BY <1>1, <1>7 DEF BootInv, Boots
  <2>4. WaitInv
    BY <1>7 DEF WaitInv, Waits
  <2>5. QED
    BY <2>2, <2>3, <2>4
<1>13. SeenInv
  BY <1>1, <1>5, <1>7 DEF SeenInv, Maps, Forks
<1>14. PoolInv(own)
  <2>1. PoolTop = BOOT_FRAMES
    BY <1>1, <1>5 DEF PoolTop
  <2>2. ASSUME NEW i \in 0 .. BOOT_FRAMES - 1 PROVE own[page_frames[i]] = Free(i)
    <3>1. i \in RAM /\ i < BOOT_FRAMES
      BY Sizes DEF RAM
    <3>2. QED
      BY <1>1, <1>10, <3>1
  <2>3. QED
    BY <2>1, <2>2 DEF PoolInv
<1>15. TaskInv(own) /\ NicInv(own)
  BY <1>1, <1>7 DEF TaskInv, NicInv
<1>16. EarlyInv(own)
  <2>1. ASSUME NEW f \in RAM, f >= BOOT_FRAMES PROVE own[f] = Nobody
    <3>1. ~(f < BOOT_FRAMES)
      BY <2>1, Sizes DEF RAM
    <3>2. QED
      BY <1>10, <3>1
  <2>2. QED
    BY <1>1, <2>1, Sizes DEF EarlyInv
<1>17. CallInv(own)
  <2>1. pc[current] = "pfa_alloc" /\ loc[current] = b /\ Place(current) = "init_dir"
    BY <1>1, <1>5, <1>7
  <2>2. QED
    BY <1>3, <2>1 DEF CallInv, AllocReturns
<1>18. SpaceInv(own) /\ DeviceInv
  BY <1>11 DEF SpaceInv, DeviceInv
<1>19. AloneInv /\ FaultsOnlyOnFrameBuffer
  BY <1>1 DEF AloneInv, FaultsOnlyOnFrameBuffer
<1>20. Good(own)
  BY <1>12, <1>13, <1>14, <1>15, <1>16, <1>17, <1>18, <1>19 DEF Good, Placed, HoldInv
<1>21. QED
  BY <1>9, <1>19, <1>20 DEF MemInv

-----------------------------------------------------------------------------
(* No frame has two holders: the one it has can be read off own.             *)

\* What Held says of frame f.
Holder(own, f) ==
    LET k == own[f] IN
    CASE f \notin RAM         -> <<"page", <<page_dir[0], <<DEVICE_PD, f - NFRAMES>>>>, f>>
      [] f \in RAM /\ k[1] = "copying" -> <<"copying", current, f>>
      [] f \in RAM /\ k[1] = "dir"     -> <<"dir", f, f>>
      [] f \in RAM /\ k[1] = "table"   -> <<"table", <<k[2], k[3]>>, f>>
      [] f \in RAM /\ k[1] = "page"    -> <<"page", <<k[2], <<k[3], k[4]>>>>, f>>
      [] f \in RAM /\ k[1] = "kernel" /\ k[2] = DEVICE_PD /\ Device.u
                              -> <<"table", <<page_dir[0], DEVICE_PD>>, f>>
      [] OTHER                -> <<k[1], k[2], f>>

\* Holder, by tag.
LEMMA HolderIs ==
    ASSUME NEW own, NEW f \in RAM
    PROVE  /\ \A i : own[f] = Free(i) => Holder(own, f) = <<"free", i, f>>
           /\ \A i : own[f] = KStack(i) => Holder(own, f) = <<"stack", i, f>>
           /\ \A i : own[f] = Buffer(i) => Holder(own, f) = <<"device", i, f>>
           /\ own[f] = Copying => Holder(own, f) = <<"copying", current, f>>
           /\ \A i : own[f] = DirOf(i) => Holder(own, f) = <<"dir", f, f>>
           /\ \A d, p : own[f] = TableOf(d, p) => Holder(own, f) = <<"table", <<d, p>>, f>>
           /\ \A d, p, i : own[f] = PageOf(d, p, i) => Holder(own, f) = <<"page", <<d, <<p, i>>>>, f>>
           /\ own[f] = KernelTable(DEVICE_PD) /\ Device.u => Holder(own, f) = <<"table", <<page_dir[0], DEVICE_PD>>, f>>
           /\ \A p : own[f] = KernelTable(p) /\ ~(p = DEVICE_PD /\ Device.u) => Holder(own, f) = <<"kernel", p, f>>
<1>1. ASSUME NEW i, own[f] = Free(i) PROVE Holder(own, f) = <<"free", i, f>>
  BY <1>1 DEF Holder, Free
<1>2. ASSUME NEW i, own[f] = KStack(i) PROVE Holder(own, f) = <<"stack", i, f>>
  BY <1>2 DEF Holder, KStack
<1>3. ASSUME NEW i, own[f] = Buffer(i) PROVE Holder(own, f) = <<"device", i, f>>
  BY <1>3 DEF Holder, Buffer
<1>4. ASSUME own[f] = Copying PROVE Holder(own, f) = <<"copying", current, f>>
  BY <1>4 DEF Holder, Copying
<1>5. ASSUME NEW i, own[f] = DirOf(i) PROVE Holder(own, f) = <<"dir", f, f>>
  BY <1>5 DEF Holder, DirOf
<1>6. ASSUME NEW d, NEW p, own[f] = TableOf(d, p) PROVE Holder(own, f) = <<"table", <<d, p>>, f>>
  BY <1>6 DEF Holder, TableOf
<1>7. ASSUME NEW d, NEW p, NEW i, own[f] = PageOf(d, p, i) PROVE Holder(own, f) = <<"page", <<d, <<p, i>>>>, f>>
  BY <1>7 DEF Holder, PageOf
<1>8. ASSUME own[f] = KernelTable(DEVICE_PD), Device.u PROVE Holder(own, f) = <<"table", <<page_dir[0], DEVICE_PD>>, f>>
  BY <1>8 DEF Holder, KernelTable
<1>9. ASSUME NEW p, own[f] = KernelTable(p), ~(p = DEVICE_PD /\ Device.u) PROVE Holder(own, f) = <<"kernel", p, f>>
  BY <1>9 DEF Holder, KernelTable
<1>10. QED
  BY <1>1, <1>2, <1>3, <1>4, <1>5, <1>6, <1>7, <1>8, <1>9

\* Elements named by their third component are as many as those are.
LEMMA NamedByThird ==
    ASSUME NEW H, NEW n \in Nat, NEW R, \A h \in H : h[3] \in 0 .. n /\ h = R[h[3]]
    PROVE  Cardinality(H) = Cardinality({h[3] : h \in H})
<1>1. PICK T : T = {h[3] : h \in H}
  OBVIOUS
<1>2. IsFiniteSet(T)
  <2>1. T \in SUBSET Nat /\ \A s \in T : s <= n
    BY <1>1
  <2>2. QED
    BY <2>1, FS_BoundedSetOfNaturals
<1>3. PICK w : w = [x \in T |-> R[x]]
  OBVIOUS
<1>4. w \in [T -> H] /\ (\A x \in T : w[x][3] = x) /\ \A h \in H : h[3] \in T /\ w[h[3]] = h
  BY <1>1, <1>3
<1>5. w \in Injection(T, H)
  <2>1. \A x, y \in T : w[x] = w[y] => x = y
    BY <1>4
  <2>2. QED
    BY <1>3, <1>4, <2>1 DEF Injection, IsInjective
<1>6. w \in Surjection(T, H)
  BY <1>4 DEF Surjection
<1>7. ExistsBijection(T, H)
  BY <1>5, <1>6 DEF ExistsBijection, Bijection
<1>8. QED
  BY <1>1, <1>2, <1>7, FS_Bijection

\* Held is right about h.
Right(own, h) == h[3] \in 0 .. NFRAMES + PTES /\ h = Holder(own, h[3])

\* Right, for a frame of RAM.
LEMMA RightInRam ==
    ASSUME NEW own, NEW a, NEW b, NEW f \in RAM, Holder(own, f) = <<a, b, f>>
    PROVE  Right(own, <<a, b, f>>)
<1>1. f \in 0 .. NFRAMES + PTES
  BY Sizes DEF RAM
<1>2. QED
  BY <1>1 DEF Right

\* Only the running task is in fork.
LEMMA ForkIsCurrent ==
    ASSUME MemTypes, TurnInv, NEW t \in Slots, loc[t].dir # NULL \/ loc[t].tab # NULL
    PROVE  t = current /\ Place(t) \in Forks
<1>1. LocalOk(pc[t], loc[t]) /\ (t # current => pc[t] \in Calm)
  BY DEF TurnInv
<1>2. Place(t) \in Forks
  BY <1>1 DEF LocalOk, CallOk, Place
<1>3. pc[t] \in Calm => Place(t) \notin Forks
  BY DEF Place, PlaceOf, Calm, Forks
<1>4. QED
  BY <1>1, <1>2, <1>3

\* The pool, the stacks, the card and the table fork is filling.
LEMMA PlainHolders ==
    ASSUME NEW own, MemTypes, Good(own), Running
    PROVE  /\ \A i \in (0 .. page_frame_count - 1) \ Pushing : Right(own, <<"free", i, page_frames[i]>>)
           /\ \A t \in {u \in Slots : state[u] = "live"} \ {0} : Right(own, <<"stack", t, kstack[t]>>)
           /\ \A i \in {j \in PTs : nic[j] # NULL} : Right(own, <<"device", i, nic[i]>>)
           /\ \A t \in {u \in Slots : loc[u].tab # NULL} : Right(own, <<"copying", t, loc[t].tab>>)
<1>0. TurnInv /\ WaitInv /\ PoolInv(own) /\ TaskInv(own) /\ NicInv(own) /\ CallInv(own)
  BY GoodParts
<1>1. ASSUME NEW i \in (0 .. page_frame_count - 1) \ Pushing PROVE Right(own, <<"free", i, page_frames[i]>>)
  <2>1. current \in Slots /\ page_frame_count \in 0 .. NFRAMES /\ page_frames \in [RAM -> RAM]
    BY DEF MemTypes, PoolTypes
  <2>2. i \in RAM
    BY <2>1, Sizes DEF RAM
  <2>3. pc[current] = "pfa_store" => loc[current].pt = page_frame_count - 1 /\ i # loc[current].pt
    BY <1>0, <1>1, <2>1 DEF CallInv, Pushing
  <2>4. i \in 0 .. PoolTop - 1
    BY <2>1, <2>3 DEF PoolTop
  <2>5. PICK f \in RAM : f = page_frames[i] /\ own[f] = Free(i)
    BY <1>0, <2>1, <2>2, <2>4 DEF PoolInv
  <2>6. QED
    BY <2>5, HolderIs, RightInRam
<1>2. ASSUME NEW t \in {u \in Slots : state[u] = "live"} \ {0} PROVE Right(own, <<"stack", t, kstack[t]>>)
  <2>1. t \in Slots /\ state[t] = "live" /\ t # 0
    OBVIOUS
  <2>2. ~StackGone(t)
    <3>1. SUFFICES ASSUME StackGone(t) PROVE FALSE
      OBVIOUS
    <3>2. parent[t] \in Slots /\ loc[parent[t]].slot = t /\ Place(parent[t]) \in Waits
      BY <2>1, <3>1 DEF StackGone, Reaped, Waits, MemTypes, TaskTypes
    <3>3. state[t] = "zombie"
      BY <1>0, <3>2 DEF WaitInv
    <3>4. QED
      BY <2>1, <3>3
  <2>3. PICK f \in RAM : f = kstack[t] /\ own[f] = KStack(t)
    BY <1>0, <2>1, <2>2 DEF TaskInv
  <2>4. QED
    BY <2>3, HolderIs, RightInRam
<1>3. ASSUME NEW i \in {j \in PTs : nic[j] # NULL} PROVE Right(own, <<"device", i, nic[i]>>)
  <2>1. PICK f \in RAM : f = nic[i] /\ own[f] = Buffer(i)
    BY <1>0 DEF NicInv, MemTypes, SpaceTypes
  <2>2. QED
    BY <2>1, HolderIs, RightInRam
<1>4. ASSUME NEW t \in {u \in Slots : loc[u].tab # NULL} PROVE Right(own, <<"copying", t, loc[t].tab>>)
  <2>1. t = current
    BY <1>0, ForkIsCurrent
  <2>2. loc[t] \in LocType
    BY DEF MemTypes, CallTypes
  <2>3. PICK f \in RAM : f = loc[t].tab /\ own[f] = Copying
    BY <1>0, <2>1, <2>2 DEF CallInv, LocType
  <2>4. QED
    BY <2>1, <2>3, HolderIs, RightInRam
<1>5. QED
  BY <1>1, <1>2, <1>3, <1>4

\* A directory, of a task or of a fork, with its entries below n.
DirFacts(own, d, n) ==
    /\ d \in RAM /\ (\E i : own[d] = DirOf(i))
    /\ n \in 0 .. DEVICE_PD + 1
    /\ Booted => Shape(table, own, dir[d], d, n, Zero, Device)
    /\ ~Booted => dir[d] = EmptyDir
    /\ n > DEVICE_PD /\ Booted /\ Device.u => d = page_dir[0]

\* The directories Held looks at.
LEMMA DirectoryIs ==
    ASSUME NEW own, MemTypes, Good(own), Running, NEW e \in Directories
    PROVE  DirFacts(own, e[1], e[2])
<1>0. TurnInv /\ BootInv /\ TaskInv(own) /\ EarlyInv(own) /\ CallInv(own) /\ SpaceInv(own) /\ AloneInv
  BY GoodParts
<1>1. Absent.u = FALSE
  BY DEF Absent
<1>2. ASSUME NEW t \in Slots, state[t] = "live", page_dir[t] # NULL
      PROVE  DirFacts(own, page_dir[t], DEVICE_PD + 1)
  <2>1. page_dir[t] \in RAM /\ DEVICE_PD + 1 \in 0 .. DEVICE_PD + 1
    <3>1. page_dir[t] \in RAM
      BY <1>2 DEF MemTypes, TaskTypes
    <3>2. QED
      BY <3>1, Sizes
  <2>2. CASE Booted
    <3>1. own[page_dir[t]] = DirOf(t)
      BY <1>2, <2>2, LiveDir
    <3>2. Shape(table, own, dir[page_dir[t]], page_dir[t], DEVICE_PD + 1, Zero, Device)
      BY <1>0, <1>2, <2>2 DEF SpaceInv, LiveInv
    <3>3. Device.u => t = 0
      BY <1>0, <1>1, <1>2 DEF AloneInv, BootInv, Running
    <3>4. QED
      BY <2>1, <2>2, <3>1, <3>2, <3>3 DEF DirFacts
  <2>3. CASE ~Booted
    <3>1. cpu = "boot"
      BY <2>3 DEF Booted
    <3>2. t = 0
      BY <1>0, <1>2, <3>1 DEF BootInv
    <3>3. own[page_dir[t]] = DirOf(0)
      BY <1>0, <1>2, <3>2 DEF TaskInv
    <3>4. dir[page_dir[t]] = EmptyDir
      BY <1>0, <2>1, <2>3 DEF EarlyInv
    <3>5. QED
      BY <2>1, <2>3, <3>3, <3>4 DEF DirFacts
  <2>4. QED
    BY <2>2, <2>3
<1>3. ASSUME NEW t \in Slots, loc[t].dir # NULL
      PROVE  DirFacts(own, loc[t].dir, loc[t].pd)
  <2>1. t = current /\ Place(t) \in Forks
    BY <1>0, <1>3, ForkIsCurrent
  <2>2. ForkOk(pc[t], loc[t]) /\ loc[t] \in LocType
    BY <1>0 DEF TurnInv, LocalOk, MemTypes, CallTypes
  <2>3. loc[t].dir \in RAM /\ loc[t].pd \in 0 .. DEVICE_PD + 1
    BY <1>3, <2>1, <2>2, Sizes DEF ForkOk, Place, LocType
  <2>4. own[loc[t].dir] = DirOf(NULL)
    BY <1>0, <1>3, <2>1 DEF CallInv
  <2>5. cpu = "run"
    <3>1. Purpose(current) = Place(current) /\ Place(current) \notin Boots
      BY <2>1, PlaceNames DEF Purpose, PurposeOf, Place
    <3>2. QED
      BY <1>0, <2>1, <3>1 DEF BootInv, Running
  <2>6. Booted
    BY <2>5 DEF Booted
  <2>7. Shape(table, own, dir[loc[t].dir], loc[t].dir, loc[t].pd, Zero, Device)
    BY <1>0, <1>3, <2>1, <2>6 DEF SpaceInv, CopyInv
  <2>8. Device.u => loc[t].pd <= DEVICE_PD
    BY <1>0, <1>1, <2>1, <2>5 DEF AloneInv
  <2>9. Device.u => ~(loc[t].pd > DEVICE_PD)
    BY <2>3, <2>8, Sizes
  <2>10. QED
    BY <2>3, <2>4, <2>6, <2>7, <2>9 DEF DirFacts
<1>4. CASE \E t \in Slots : state[t] = "live" /\ page_dir[t] # NULL /\ e = <<page_dir[t], DEVICE_PD + 1>>
  BY <1>2, <1>4
<1>5. CASE \E t \in Slots : loc[t].dir # NULL /\ e = <<loc[t].dir, loc[t].pd>>
  BY <1>3, <1>5
<1>6. QED
  BY <1>4, <1>5 DEF Directories

\* The entry at p of such a directory, when it is there.
LEMMA EntryOfDirectory ==
    ASSUME NEW own, MemTypes, Good(own), NEW d, NEW n, DirFacts(own, d, n), NEW p \in 0 .. n - 1, dir[d][p] # Absent
    PROVE  /\ Booted /\ p \in PDs
           /\ p \in 1 .. DEVICE_PD - 1 => UserEntry(table, own, dir[d][p], d, p)
           /\ p = 0 => dir[d][p] = Zero
           /\ p = DEVICE_PD => dir[d][p] = Device /\ (Device.u => d = page_dir[0])
           /\ p = 0 \/ p \in 1 .. DEVICE_PD - 1 \/ p = DEVICE_PD
<1>1. n \in Nat /\ n <= DEVICE_PD + 1 /\ p \in Nat /\ p < n /\ p \in PDs
  BY Sizes DEF DirFacts, PDs
<1>2. Booted
  BY <1>1 DEF DirFacts, EmptyDir
<1>3. Shape(table, own, dir[d], d, n, Zero, Device)
  BY <1>2 DEF DirFacts
<1>4. p = 0 \/ p \in 1 .. DEVICE_PD - 1 \/ p = DEVICE_PD
  BY <1>1, Sizes DEF PDs
<1>5. p \in 1 .. DEVICE_PD - 1 => UserEntry(table, own, dir[d][p], d, p)
  BY <1>1, <1>3 DEF Shape
<1>6. n > 0 /\ (p = DEVICE_PD => n > DEVICE_PD)
  BY <1>1, Sizes
<1>7. QED
  BY <1>1, <1>2, <1>3, <1>4, <1>5, <1>6 DEF Shape, DirFacts

\* A private entry is there, and no kernel's.
LEMMA PrivateMeans ==
    ASSUME NEW d, NEW n \in Nat, NEW p \in Private(d, n)
    PROVE  p \in 0 .. n - 1 /\ p # 0 /\ dir[d][p] # Absent /\ (p = DEVICE_PD => dir[d][p].u)
<1>1. p \in 1 .. n - 1 /\ CopiesTable(p, dir[d][p])
  BY DEF Private
<1>2. ~(DEVICE_PD <= 1)
  BY Sizes
<1>3. QED
  BY <1>1, <1>2 DEF CopiesTable

\* The tables of user pages.
LEMMA TableHolder ==
    ASSUME NEW own, MemTypes, Good(own), NEW d, NEW n, DirFacts(own, d, n), NEW p \in Private(d, n)
    PROVE  Right(own, <<"table", <<d, p>>, dir[d][p].f>>)
<1>0. n \in Nat
  BY Sizes DEF DirFacts
<1>1. p \in 0 .. n - 1 /\ p # 0 /\ dir[d][p] # Absent /\ (p = DEVICE_PD => dir[d][p].u)
  BY <1>0, PrivateMeans
<1>2. CASE p \in 1 .. DEVICE_PD - 1
  <2>1. UserEntry(table, own, dir[d][p], d, p)
    BY <1>1, <1>2, EntryOfDirectory
  <2>2. PICK f \in RAM : f = dir[d][p].f /\ own[f] = TableOf(d, p)
    BY <1>1, <2>1 DEF UserEntry
  <2>3. QED
    BY <2>2, HolderIs, RightInRam
<1>3. CASE p = DEVICE_PD
  <2>1. dir[d][p] = Device /\ Device.u /\ d = page_dir[0] /\ Booted /\ Device # Absent
    BY <1>1, <1>3, EntryOfDirectory
  <2>2. PICK f \in RAM : f = Device.f /\ own[f] = KernelTable(DEVICE_PD)
    BY <2>1, GoodParts DEF SpaceInv, KernelInv
  <2>3. QED
    BY <1>3, <2>1, <2>2, HolderIs, RightInRam
<1>4. QED
  BY <1>1, <1>2, <1>3, EntryOfDirectory

\* The user pages.
LEMMA PageHolder ==
    ASSUME NEW own, MemTypes, Good(own), NEW d, NEW n, DirFacts(own, d, n), NEW p \in Private(d, n),
           NEW i \in PTs, table[dir[d][p].f][i].u
    PROVE  Right(own, <<"page", <<d, <<p, i>>>>, table[dir[d][p].f][i].f>>)
<1>0. n \in Nat
  BY Sizes DEF DirFacts
<1>1. p \in 0 .. n - 1 /\ p # 0 /\ dir[d][p] # Absent /\ (p = DEVICE_PD => dir[d][p].u)
  BY <1>0, PrivateMeans
<1>2. PICK x : x = table[dir[d][p].f][i] /\ x.u /\ x # Absent
  BY DEF Absent
<1>3. CASE p \in 1 .. DEVICE_PD - 1
  <2>1. UserEntry(table, own, dir[d][p], d, p)
    BY <1>1, <1>3, EntryOfDirectory
  <2>2. PageOk(own, x, d, p, i)
    BY <1>1, <1>2, <2>1 DEF UserEntry
  <2>3. PICK f \in RAM : f = x.f /\ own[f] = PageOf(d, p, i)
    BY <1>2, <2>2 DEF PageOk
  <2>4. QED
    BY <1>2, <2>3, HolderIs, RightInRam
<1>4. CASE p = DEVICE_PD
  <2>1. dir[d][p] = Device /\ Device.u /\ d = page_dir[0] /\ Booted /\ Device # Absent
    BY <1>1, <1>4, EntryOfDirectory
  <2>2. ~hw.nic
    BY <2>1, GoodParts DEF SpaceInv, KernelInv
  <2>3. x \in {Absent, [f |-> FbPhys(i), u |-> TRUE]}
    BY <1>2, <2>1, <2>2, GoodParts DEF DeviceInv
  <2>4. PICK f : f = x.f /\ f = NFRAMES + i
    BY <1>2, <2>3 DEF FbPhys
  <2>5. f \notin RAM /\ f - NFRAMES = i /\ f \in 0 .. NFRAMES + PTES
    BY <2>4, Sizes DEF RAM, PTs
  <2>6. Holder(own, f) = <<"page", <<d, <<p, i>>>>, f>>
    BY <1>4, <2>1, <2>5 DEF Holder
  <2>7. QED
    BY <1>2, <2>4, <2>5, <2>6 DEF Right
<1>5. QED
  BY <1>1, <1>3, <1>4, EntryOfDirectory

\* The tables that all share.
LEMMA KernelHolder ==
    ASSUME NEW own, MemTypes, Good(own), NEW d, NEW n, DirFacts(own, d, n), NEW p \in 0 .. n - 1,
           dir[d][p] # Absent, p \notin Private(d, n)
    PROVE  Right(own, <<"kernel", p, dir[d][p].f>>)
<1>1. Booted /\ KernelInv(own)
  BY EntryOfDirectory, GoodParts DEF SpaceInv
<1>2. ASSUME p # 0 PROVE ~CopiesTable(p, dir[d][p])
  <2>1. p \in 1 .. n - 1
    BY <1>2, Sizes DEF DirFacts
  <2>2. QED
    BY <2>1 DEF Private
<1>3. CASE p = 0
  <2>1. dir[d][p] = Zero
    BY <1>3, EntryOfDirectory
  <2>2. PICK f \in RAM : f = Zero.f /\ own[f] = KernelTable(0)
    BY <1>1 DEF KernelInv
  <2>3. 0 # DEVICE_PD
    BY Sizes
  <2>4. QED
    BY <1>3, <2>1, <2>2, <2>3, HolderIs, RightInRam
<1>4. CASE p \in 1 .. DEVICE_PD - 1
  <2>1. UserEntry(table, own, dir[d][p], d, p) /\ p # 0
    BY <1>4, EntryOfDirectory
  <2>2. dir[d][p].u /\ \E i \in PTs : table[dir[d][p].f][i].u
    BY <2>1 DEF UserEntry
  <2>3. CopiesTable(p, dir[d][p])
    BY <2>2 DEF CopiesTable
  <2>4. QED
    BY <1>2, <2>1, <2>3
<1>5. CASE p = DEVICE_PD
  <2>1. dir[d][p] = Device /\ Device # Absent
    BY <1>5, EntryOfDirectory
  <2>2. p # 0 /\ ~(p <= 1)
    BY <1>5, Sizes
  <2>3. ~Device.u
    BY <1>2, <2>1, <2>2 DEF CopiesTable
  <2>4. PICK f \in RAM : f = Device.f /\ own[f] = KernelTable(DEVICE_PD)
    BY <1>1, <2>1 DEF KernelInv
  <2>5. QED
    BY <1>5, <2>1, <2>3, <2>4, HolderIs, RightInRam
<1>6. QED
  BY <1>3, <1>4, <1>5, EntryOfDirectory

\* Held is right about every frame.
LEMMA HeldIsRight ==
    ASSUME NEW own, MemTypes, Good(own), Running, NEW h \in Held
    PROVE  Right(own, h)
<1>1. CASE h \in HeldByPool
  BY <1>1, PlainHolders DEF HeldByPool
<1>2. CASE h \in HeldAsStack
  BY <1>2, PlainHolders DEF HeldAsStack
<1>3. CASE h \in HeldByCard
  BY <1>3, PlainHolders DEF HeldByCard
<1>4. CASE h \in HeldByFork
  BY <1>4, PlainHolders DEF HeldByFork
<1>5. CASE h \in HeldAsDirectory
  <2>1. PICK e \in Directories : h = <<"dir", e[1], e[1]>>
    BY <1>5 DEF HeldAsDirectory
  <2>2. PICK d, n : d = e[1] /\ n = e[2] /\ DirFacts(own, d, n)
    BY DirectoryIs
  <2>3. d \in RAM /\ \E i : own[d] = DirOf(i)
    BY <2>2 DEF DirFacts
  <2>4. QED
    BY <2>1, <2>2, <2>3, HolderIs, RightInRam
<1>6. CASE h \in HeldAsTable
  <2>1. PICK e \in Directories : \E p \in Private(e[1], e[2]) : h = <<"table", <<e[1], p>>, dir[e[1]][p].f>>
    BY <1>6 DEF HeldAsTable
  <2>2. QED
    BY <2>1, DirectoryIs, TableHolder
<1>7. CASE h \in HeldAsPage
  <2>1. PICK e \in Directories : \E v \in PrivatePages(e[1], e[2]) :
               h = <<"page", <<e[1], v>>, table[dir[e[1]][v[1]].f][v[2]].f>>
    BY <1>7 DEF HeldAsPage
  <2>2. PICK v \in PrivatePages(e[1], e[2]) : h = <<"page", <<e[1], v>>, table[dir[e[1]][v[1]].f][v[2]].f>>
    BY <2>1
  <2>3. v \in Private(e[1], e[2]) \X PTs /\ table[dir[e[1]][v[1]].f][v[2]].u
    BY DEF PrivatePages
  <2>4. PICK p \in Private(e[1], e[2]), i \in PTs : v = <<p, i>>
    <3>1. PICK A, B : A = Private(e[1], e[2]) /\ B = PTs
      OBVIOUS
    <3>2. v \in A \X B
      BY <2>3, <3>1
    <3>3. \E p \in A, i \in B : v = <<p, i>>
      BY <3>2
    <3>4. QED
      BY <3>1, <3>3
  <2>5. h = <<"page", <<e[1], <<p, i>>>>, table[dir[e[1]][p].f][i].f>> /\ table[dir[e[1]][p].f][i].u
    BY <2>2, <2>3, <2>4
  <2>6. QED
    BY <2>5, DirectoryIs, PageHolder
<1>8. CASE h \in HeldByKernel
  <2>1. PICK e \in Directories : \E p \in 0 .. e[2] - 1 :
               /\ dir[e[1]][p] # Absent /\ p \notin Private(e[1], e[2])
               /\ h = <<"kernel", p, dir[e[1]][p].f>>
    BY <1>8 DEF HeldByKernel
  <2>2. QED
    BY <2>1, DirectoryIs, KernelHolder
<1>9. QED
  BY <1>1, <1>2, <1>3, <1>4, <1>5, <1>6, <1>7, <1>8 DEF Held

\* So no frame has two holders.
LEMMA HeldOnce ==
    ASSUME MemInv
    PROVE  FramesHeldOnce
<1>1. TypeOK
  BY TypesImply DEF MemInv
<1>2. ASSUME cpu \in {"boot", "run"} PROVE Cardinality(Held) = Cardinality({h[3] : h \in Held})
  <2>1. PICK own : Good(own)
    BY <1>2 DEF MemInv, Running
  <2>0. PICK n \in Nat : n = NFRAMES + PTES
    BY Sizes
  <2>2. PICK H, R : H = Held /\ R = [f \in 0 .. n |-> Holder(own, f)]
    OBVIOUS
  <2>3. \A h \in H : h[3] \in 0 .. n /\ h = R[h[3]]
    BY <1>2, <2>0, <2>1, <2>2, HeldIsRight DEF MemInv, Running, Right
  <2>4. Cardinality(H) = Cardinality({h[3] : h \in H})
    BY <2>3, NamedByThird
  <2>5. QED
    BY <2>2, <2>4
<1>3. QED
  BY <1>1, <1>2 DEF FramesHeldOnce

\* All directories have the kernel's device table, which has the devices.
LEMMA Reachable ==
    ASSUME MemInv
    PROVE  DevicesReachable
<1>1. SUFFICES ASSUME NEW t \in Slots, state[t] = "live", cpu = "run"
      PROVE  /\ hw.vbe => \A i \in 0 .. FbPages - 1 : Entry(page_dir[t], DEVICE_PD * PTES + i).f = FbPhys(i)
             /\ hw.nic /\ ~hw.vbe => \A i \in NicPages : Entry(page_dir[t], DEVICE_PD * PTES + i).f = nic[i]
  BY DEF DevicesReachable
<1>2. PICK own : Good(own)
  BY <1>1 DEF MemInv, Running
<1>3. Booted
  BY <1>1 DEF Booted
<1>4. dir[page_dir[t]][DEVICE_PD] = Device
  <2>1. Shape(table, own, dir[page_dir[t]], page_dir[t], DEVICE_PD + 1, Zero, Device)
    BY <1>1, <1>2, <1>3, GoodParts DEF SpaceInv, LiveInv
  <2>2. DEVICE_PD + 1 > DEVICE_PD
    BY Sizes
  <2>3. QED
    BY <2>1, <2>2 DEF Shape
<1>5. ASSUME NEW i \in PTs, Device # Absent
      PROVE  Entry(page_dir[t], DEVICE_PD * PTES + i) = table[Device.f][i]
  BY <1>4, <1>5, DevicePages DEF Entry
<1>6. ASSUME hw.vbe, NEW i \in 0 .. FbPages - 1
      PROVE  Entry(page_dir[t], DEVICE_PD * PTES + i).f = FbPhys(i)
  <2>1. Shown = FbPages /\ i \in PTs
    BY <1>1, Sizes DEF Shown, PTs
  <2>2. Device # Absent /\ table[Device.f][i] = [f |-> FbPhys(i), u |-> TRUE]
    BY <1>2, <1>3, <1>6, <2>1, GoodParts DEF DeviceInv
  <2>3. QED
    BY <1>5, <2>1, <2>2
<1>7. ASSUME hw.nic, ~hw.vbe, NEW i \in NicPages
      PROVE  Entry(page_dir[t], DEVICE_PD * PTES + i).f = nic[i]
  <2>1. i \in PTs
    BY Sizes
  <2>2. Device # Absent /\ table[Device.f][i].f = nic[i]
    BY <1>1, <1>2, <1>3, <1>7, <2>1, GoodParts DEF DeviceInv
  <2>3. QED
    BY <1>5, <2>1, <2>2
<1>8. QED
  BY <1>6, <1>7

-----------------------------------------------------------------------------
(* The theorems.                                                             *)

\* The invariant holds in every state.
LEMMA InvariantHolds ==
    ASSUME Orderly
    PROVE  Spec => []MemInv
<1>1. Init => MemInv
  BY InvariantAtStart
<1>2. MemInv /\ [Next]_vars => MemInv'
  BY InvariantKept, InvariantStutters
<1>3. QED
  BY <1>1, <1>2, PTL DEF Spec

\* Page frames, directories, tables, tasks and the locals of every call have their types:
\* the count never leaves page_frames (paging.c:18, paging.c:23), however many frames
\* wait returns, and every entry names RAM or the frame buffer.
THEOREM MemoryTypeCorrect ==
    ASSUME Orderly
    PROVE  Spec => []TypeOK
<1>1. MemInv => TypeOK
  BY TypesImply DEF MemInv
<1>2. QED
  BY <1>1, InvariantHolds, PTL

\* However forks, execs, exits and waits of any number of tasks follow one another, the
\* frame pfa_alloc hands out (paging.c:18) is nobody else's: pool, stacks, directories,
\* tables, pages and the card's buffers are disjoint.
THEOREM FramesAreHeldOnce ==
    ASSUME Orderly
    PROVE  Spec => []FramesHeldOnce
<1>1. MemInv => FramesHeldOnce
  BY HeldOnce
<1>2. QED
  BY <1>1, InvariantHolds, PTL

\* Every live task's directory maps the frame buffer (framebuffer.c:181) and, where it did
\* not replace them, the card's buffers (rtl8139.c:64), so interrupts may draw and receive
\* whichever task runs.
THEOREM DevicesStayReachable ==
    ASSUME Orderly
    PROVE  Spec => []DevicesReachable
<1>1. MemInv => DevicesReachable
  BY Reachable
<1>2. QED
  BY <1>1, InvariantHolds, PTL

\* The copy fork makes of a page (paging.c:244) faults on no machine, except one with a
\* frame buffer and no card, where the frame buffer's table is copied as a user's.
THEOREM ForkFaultsOnlyOnFrameBuffer ==
    ASSUME Orderly
    PROVE  Spec => []FaultsOnlyOnFrameBuffer
<1>1. MemInv => FaultsOnlyOnFrameBuffer
  BY DEF MemInv
<1>2. QED
  BY <1>1, InvariantHolds, PTL
=============================================================================
