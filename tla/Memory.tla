------------------------------- MODULE Memory -------------------------------
(***************************************************************************)
(* Page frames, page tables and the programs that live in them:            *)
(* kernel/paging.c, kernel/elf_loader.c, what task_fork, task_exit and     *)
(* task_wait do with memory, and the mappings the kernel makes at boot     *)
(* for the network card and the frame buffer.                              *)
(*                                                                         *)
(* The kernel works with interrupts on, so a tick may switch tasks between *)
(* any two steps; PreemptAt says at which labels it does (Scheduler models *)
(* who runs next: here it is anybody).  Every task works on the directory  *)
(* in its own CR3.                                                         *)
(*                                                                         *)
(* Scaled down: a word is the unit of memory, a page has PAGE_SIZE words,  *)
(* a table PTES entries.  The first directory entry is the identity map:   *)
(* its table is not kept, a physical page is reachable through it exactly  *)
(* when it is RAM.  The self-map is a way to reach tables and is left out. *)
(***************************************************************************)
EXTENDS Integers, FiniteSets, FiniteSetsExt, Functions, Sequences

CONSTANTS
    MAX_TASKS, PAGE_SIZE, PTES, USER_STACK_PAGES,
    NFRAMES,             \* page frames the kernel ever pushes
    BOOT_FRAMES,         \* those pushed before paging_init
    PROG_PD, STACK_PD, DEVICE_PD,  \* directory indices of the regions
    NicPages,            \* table indices of the card's buffers at 0xF0040000, 0xF0050000
    FbPages,             \* pages of the frame buffer
    Programs,            \* the ELF files: sequences of PT_LOAD segments
    Touched, Writes,     \* addresses a program writes to, and the words it writes
    Hardware,            \* the machines: records [nic, vbe]
    MaxCalls,            \* bound: fork and exec are called so many times in all
    PreemptAt

ASSUME MemoryAssumption ==
    /\ MAX_TASKS \in Nat \ {0} /\ PAGE_SIZE \in Nat \ {0} /\ PTES \in Nat \ {0}
    /\ BOOT_FRAMES \in 2 .. NFRAMES /\ NFRAMES \in Nat
    /\ {PROG_PD, STACK_PD, DEVICE_PD} \subseteq Nat
    /\ 1 < PROG_PD /\ PROG_PD < STACK_PD /\ STACK_PD < DEVICE_PD
    /\ (STACK_PD - PROG_PD) * (PTES + 1) >= NFRAMES   \* RAM never fills the gap between them
    /\ USER_STACK_PAGES \in 0 .. PTES
    /\ NicPages \subseteq 0 .. PTES - 1 /\ NicPages # {} /\ FbPages \in 0 .. PTES
    /\ MaxCalls \in Nat
    /\ Hardware \subseteq [nic : BOOLEAN, vbe : BOOLEAN]

NULL  == -1
Slots == 0 .. MAX_TASKS - 1
RAM   == 0 .. NFRAMES - 1
PDs   == 0 .. DEVICE_PD
PTs   == 0 .. PTES - 1
Words == 0 .. PAGE_SIZE - 1
U32   == (DEVICE_PD + 1) * PTES * PAGE_SIZE    \* words of the address space

Page(a) == a \div PAGE_SIZE
PD(p)   == p \div PTES
PT(p)   == p % PTES

\* Physical pages of the frame buffer lie above RAM.
FbPhys(i) == NFRAMES + i

VARIABLES
    hw,                  \* the machine it boots on
    page_frames, page_frame_count,
    dir,                 \* a frame read as a page directory
    table,               \* a frame read as a page table
    mem,                 \* a frame read as a page of words
    nic,                 \* tx_phys and rx_phys: table index -> frame
    state, parent, page_dir, kstack, running,   \* of the PCB; running is where eip points
    current, cpu,
    calls,               \* fork and exec calls so far
    pc, loc              \* label and locals of the call in progress

pfaVars  == <<page_frames, page_frame_count>>
memVars  == <<dir, table, mem>>
taskVars == <<state, parent, page_dir, kstack, running>>
vars == <<hw, pfaVars, memVars, nic, taskVars, current, cpu, calls, pc, loc>>

\* The shell is linked into the kernel: an image without segments.
Shell == <<>>

Absent == [f |-> NULL, u |-> FALSE]
Entries == {Absent} \cup [f : 0 .. NFRAMES + FbPages - 1, u : BOOLEAN]
EmptyDir   == [p \in PDs |-> Absent]
EmptyTable == [i \in PTs |-> Absent]

\* The entry the directory d has for the page p.
Entry(d, p) ==
    IF dir[d][PD(p)] = Absent THEN Absent ELSE table[dir[d][PD(p)].f][PT(p)]

\* ret, got: where pfa_alloc returns to and what it returned; vp, f, u, back:
\* paging_map_page; slot, dir, tab, pd, pt: fork; prog, seg,
\* a, left: exec, which has left more words of segment seg to put at address a.
NoLocals == [ret |-> "user", got |-> NULL, vp |-> NULL, f |-> NULL, u |-> FALSE, back |-> "user",
             slot |-> NULL, dir |-> NULL, tab |-> NULL, pd |-> 0, pt |-> 0,
             prog |-> <<>>, seg |-> 0, a |-> 0, left |-> 0]

Init ==
    /\ hw \in Hardware
    /\ page_frames = [i \in RAM |-> IF i < BOOT_FRAMES THEN i ELSE 0]
    /\ page_frame_count = BOOT_FRAMES
    /\ dir = [f \in RAM |-> EmptyDir]
    /\ table = [f \in RAM |-> EmptyTable]
    /\ mem = [f \in RAM |-> [w \in Words |-> 0]]
    /\ nic = [i \in PTs |-> NULL]
    /\ state = [t \in Slots |-> IF t = 0 THEN "live" ELSE "free"]
    /\ parent = [t \in Slots |-> NULL]
    /\ page_dir = [t \in Slots |-> NULL]
    /\ kstack = [t \in Slots |-> NULL]
    /\ running = [t \in Slots |-> Shell]
    /\ current = 0
    /\ cpu = "boot"
    /\ calls = 0
    /\ pc = [t \in Slots |-> IF t = 0 THEN "pfa_alloc" ELSE "user"]
    /\ loc = [t \in Slots |-> [NoLocals EXCEPT !.ret = IF t = 0 THEN "init_dir" ELSE "user"]]

-----------------------------------------------------------------------------
(* A step of the running task.                                               *)

At(t, l) == cpu \in {"boot", "run"} /\ current = t /\ pc[t] = l
Goto(t, l) == pc' = [pc EXCEPT ![t] = l]
Local(t, new) == loc' = [loc EXCEPT ![t] = new]

\* With these locals, call pfa_alloc, which returns to l.
Alloc(t, locals, l) == Goto(t, "pfa_alloc") /\ Local(t, [locals EXCEPT !.ret = l])

\* A tick switches to another task.
Switch ==
    /\ cpu = "run"
    /\ pc[current] \in PreemptAt \/ state[current] # "live"
    /\ \E t \in Slots \ {current} : state[t] = "live" /\ current' = t
    /\ UNCHANGED <<pfaVars, memVars, nic, taskVars, cpu, pc, loc>>

-----------------------------------------------------------------------------
(* The page frame stack.                                                     *)

\* page_frames[--page_frame_count]: the count is stored, then read again as index.
pfa_alloc(t) ==
    /\ At(t, "pfa_alloc")
    /\ \/ /\ page_frame_count = 0
          /\ cpu' = "out of memory"
          /\ UNCHANGED <<page_frame_count, pc>>
       \/ /\ page_frame_count > 0
          /\ page_frame_count' = page_frame_count - 1
          /\ Goto(t, "pfa_read")
          /\ UNCHANGED cpu
    /\ UNCHANGED <<page_frames, memVars, nic, taskVars, loc>>

pfa_read(t) ==
    /\ At(t, "pfa_read")
    /\ loc' = [loc EXCEPT ![t].got = page_frames[page_frame_count]]
    /\ Goto(t, loc[t].ret)
    /\ UNCHANGED <<pfaVars, memVars, nic, taskVars, cpu>>

\* page_frames[page_frame_count++] = f: the count is stored, then the frame.
pfa_free(t, f, l) ==
    /\ loc' = [loc EXCEPT ![t].f = f, ![t].pt = page_frame_count, ![t].back = l]
    /\ page_frame_count' = page_frame_count + 1
    /\ Goto(t, "pfa_store")

pfa_store(t) ==
    /\ At(t, "pfa_store")
    /\ page_frames' = [page_frames EXCEPT ![loc[t].pt] = loc[t].f]
    /\ Goto(t, loc[t].back)
    /\ UNCHANGED <<page_frame_count, memVars, nic, taskVars, cpu, loc>>

-----------------------------------------------------------------------------
(* Page tables.                                                              *)

\* Mutation of paging_map_page: a table that exists gets the page's User bit too.
MapWidensTable(t) ==
    LET l == loc[t]  d == page_dir[t]  f == IF pc[t] = "map_got" THEN l.got ELSE l.f IN
    /\ At(t, "map_got") \/ At(t, "map_page")
    /\ \/ /\ dir[d][PD(l.vp)] # Absent
          /\ dir' = [dir EXCEPT ![d][PD(l.vp)].u = @ \/ l.u]
          /\ table' = [table EXCEPT ![dir[d][PD(l.vp)].f][PT(l.vp)] = [f |-> f, u |-> l.u]]
          /\ Goto(t, l.back)
          /\ UNCHANGED loc
       \/ /\ dir[d][PD(l.vp)] = Absent
          /\ Alloc(t, [l EXCEPT !.f = f], "map_table")
          /\ UNCHANGED <<dir, table>>
    /\ UNCHANGED <<pfaVars, mem, nic, taskVars, cpu>>

\* paging_map_page, and paging_alloc_page when the label is "map_got": enter
\* the frame for the page vp; a missing table is allocated first.
paging_map_page(t) ==
    LET l == loc[t]  d == page_dir[t]  f == IF pc[t] = "map_got" THEN l.got ELSE l.f IN
    /\ At(t, "map_got") \/ At(t, "map_page")
    /\ \/ /\ dir[d][PD(l.vp)] # Absent
          /\ table' = [table EXCEPT ![dir[d][PD(l.vp)].f][PT(l.vp)] = [f |-> f, u |-> l.u]]
          /\ Goto(t, l.back)
          /\ UNCHANGED loc
       \/ /\ dir[d][PD(l.vp)] = Absent
          /\ Alloc(t, [l EXCEPT !.f = f], "map_table")
          /\ UNCHANGED table
    /\ UNCHANGED <<pfaVars, dir, mem, nic, taskVars, cpu>>

\* The new table takes its User bit from the first page mapped through it.
map_table(t) ==
    LET l == loc[t] IN
    /\ At(t, "map_table")
    /\ dir' = [dir EXCEPT ![page_dir[t]][PD(l.vp)] = [f |-> loc[t].got, u |-> l.u]]
    /\ table' = [table EXCEPT ![loc[t].got] =
                    [EmptyTable EXCEPT ![PT(l.vp)] = [f |-> l.f, u |-> l.u]]]
    /\ Goto(t, l.back)
    /\ UNCHANGED <<pfaVars, mem, nic, taskVars, cpu, loc>>

\* Call paging_alloc_page (or, at boot, pfa_alloc and paging_map_page) for vp.
AllocPage(t, vp, u, back) ==
    Alloc(t, [loc[t] EXCEPT !.vp = vp, !.u = u, !.back = back], "map_got")

-----------------------------------------------------------------------------
(* Boot: paging_init, the rest of the pool, the card, the frame buffer.      *)

init_dir(t) ==
    /\ At(t, "init_dir")
    /\ page_dir' = [page_dir EXCEPT ![t] = loc[t].got]
    /\ Alloc(t, loc[t], "init_table")
    /\ UNCHANGED <<pfaVars, memVars, nic, state, parent, kstack, running, cpu>>

\* The table of the identity map, which no User page is in, and then the pool.
init_table(t) ==
    /\ At(t, "init_table")
    /\ dir' = [dir EXCEPT ![page_dir[t]][0] = [f |-> loc[t].got, u |-> FALSE]]
    /\ LET pushed == page_frame_count + NFRAMES - BOOT_FRAMES IN
          /\ page_frames' = [i \in RAM |->
                IF i \in page_frame_count .. pushed - 1
                THEN BOOT_FRAMES + i - page_frame_count ELSE page_frames[i]]
          /\ page_frame_count' = pushed
    /\ Goto(t, "nic")
    /\ UNCHANGED <<table, mem, nic, taskVars, cpu, loc>>

\* init_tx_buffers and init_rx_buffer: a frame for each buffer page, P+W only.
init_buffers(t) ==
    LET todo == {i \in NicPages : nic[i] = NULL} IN
    /\ At(t, "nic")
    /\ \/ /\ hw.nic /\ todo # {}
          /\ AllocPage(t, DEVICE_PD * PTES + Min(todo), FALSE, "nic_got")
       \/ /\ ~hw.nic \/ todo = {}
          /\ Goto(t, "fb") /\ UNCHANGED loc
    /\ UNCHANGED <<pfaVars, memVars, nic, taskVars, cpu>>

init_buffer_set(t) ==
    /\ At(t, "nic_got")
    /\ nic' = [nic EXCEPT ![PT(loc[t].vp)] = Entry(page_dir[t], loc[t].vp).f]
    /\ Goto(t, "nic")
    /\ UNCHANGED <<pfaVars, memVars, taskVars, cpu, loc>>

framebuffer_map(t) ==
    /\ At(t, "fb")
    /\ \/ /\ hw.vbe /\ loc[t].pt < FbPages
          /\ loc' = [loc EXCEPT ![t].vp = DEVICE_PD * PTES + loc[t].pt, ![t].u = TRUE,
                                ![t].f = FbPhys(loc[t].pt), ![t].pt = @ + 1,
                                ![t].back = "fb"]
          /\ Goto(t, "map_page")
          /\ UNCHANGED cpu
       \/ /\ ~hw.vbe \/ loc[t].pt = FbPages
          /\ Local(t, NoLocals) /\ Goto(t, "user")
          /\ cpu' = "run"
    /\ UNCHANGED <<pfaVars, memVars, nic, taskVars>>

-----------------------------------------------------------------------------
(* fork: a slot, a copy of the directory, a kernel stack, and the PCB.       *)

task_fork(t) ==
    LET free == {s \in Slots : state[s] = "free"} IN
    /\ At(t, "user")
    /\ free # {}
    /\ Alloc(t, [NoLocals EXCEPT !.slot = Min(free)], "clone_dir")
    /\ UNCHANGED <<pfaVars, memVars, nic, taskVars, cpu>>

clone_dir(t) ==
    /\ At(t, "clone_dir")
    /\ loc' = [loc EXCEPT ![t].dir = loc[t].got]
    /\ Goto(t, "clone_pde")
    /\ UNCHANGED <<pfaVars, memVars, nic, taskVars, cpu>>

\* Below 8 MB a table is copied when it maps a User page; above, when its own
\* directory entry has the User bit.  (No page of the kernel binary is User.)
CopiesTable(pd, e) ==
    /\ e # Absent
    /\ IF pd <= 1 THEN \E i \in PTs : table[e.f][i].u ELSE e.u

\* Mutation of clone_pde: directory entries of the kernel are left out.
CloneUserOnly(t) ==
    LET l == loc[t]  old == dir[page_dir[t]][l.pd] IN
    /\ At(t, "clone_pde")
    /\ \/ /\ l.pd \in PDs /\ CopiesTable(l.pd, old)
          /\ Alloc(t, l, "clone_table")
          /\ UNCHANGED dir
       \/ /\ l.pd \in PDs /\ ~CopiesTable(l.pd, old)
          /\ dir' = [dir EXCEPT ![l.dir][l.pd] = IF l.pd = 0 THEN old ELSE Absent]
          /\ loc' = [loc EXCEPT ![t].pd = @ + 1]
          /\ UNCHANGED pc
       \/ /\ l.pd \notin PDs
          /\ Alloc(t, l, "fork_stack")
          /\ UNCHANGED dir
    /\ UNCHANGED <<pfaVars, table, mem, nic, taskVars, cpu>>

clone_pde(t) ==
    LET l == loc[t]  old == dir[page_dir[t]][l.pd] IN
    /\ At(t, "clone_pde")
    /\ \/ /\ l.pd \in PDs /\ CopiesTable(l.pd, old)
          /\ Alloc(t, l, "clone_table")
          /\ UNCHANGED dir
       \/ /\ l.pd \in PDs /\ ~CopiesTable(l.pd, old)
          /\ dir' = [dir EXCEPT ![l.dir][l.pd] = old]
          /\ loc' = [loc EXCEPT ![t].pd = @ + 1]
          /\ UNCHANGED pc
       \/ /\ l.pd \notin PDs
          /\ Alloc(t, l, "fork_stack")
          /\ UNCHANGED dir
    /\ UNCHANGED <<pfaVars, table, mem, nic, taskVars, cpu>>

clone_table(t) ==
    /\ At(t, "clone_table")
    /\ table' = [table EXCEPT ![loc[t].got] = EmptyTable]
    /\ loc' = [loc EXCEPT ![t].tab = loc[t].got, ![t].pt = 0]
    /\ Goto(t, "clone_pte")
    /\ UNCHANGED <<pfaVars, dir, mem, nic, taskVars, cpu>>

\* User pages get a frame of their own, the others are shared; when the table
\* is done it is entered in the new directory.
clone_pte(t) ==
    LET l == loc[t]  old == dir[page_dir[t]][l.pd]  e == table[old.f][l.pt] IN
    /\ At(t, "clone_pte")
    /\ \/ /\ l.pt \in PTs /\ e.u
          /\ Alloc(t, l, "clone_page")
          /\ UNCHANGED <<dir, table>>
       \/ /\ l.pt \in PTs /\ ~e.u
          /\ table' = [table EXCEPT ![l.tab][l.pt] = e]
          /\ loc' = [loc EXCEPT ![t].pt = @ + 1]
          /\ UNCHANGED <<dir, pc>>
       \/ /\ l.pt \notin PTs
          /\ dir' = [dir EXCEPT ![l.dir][l.pd] = [f |-> l.tab, u |-> old.u]]
          /\ loc' = [loc EXCEPT ![t].pd = @ + 1, ![t].tab = NULL]
          /\ Goto(t, "clone_pde")
          /\ UNCHANGED table
    /\ UNCHANGED <<pfaVars, mem, nic, taskVars, cpu>>

\* memcpy reads the source page at its physical address, through the identity map.
clone_page(t) ==
    LET l == loc[t]  e == table[dir[page_dir[t]][l.pd].f][l.pt] IN
    /\ At(t, "clone_page")
    /\ \/ /\ e.f \in RAM
          /\ mem' = [mem EXCEPT ![loc[t].got] = mem[e.f]]
          /\ table' = [table EXCEPT ![l.tab][l.pt] = [f |-> loc[t].got, u |-> TRUE]]
          /\ loc' = [loc EXCEPT ![t].pt = @ + 1]
          /\ Goto(t, "clone_pte")
          /\ UNCHANGED cpu
       \/ /\ e.f \notin RAM
          /\ cpu' = "page fault"
          /\ UNCHANGED <<mem, table, loc, pc>>
    /\ UNCHANGED <<pfaVars, dir, nic, taskVars>>

fork_fill(t) ==
    LET l == loc[t] IN
    /\ At(t, "fork_stack")
    /\ state' = [state EXCEPT ![l.slot] = "live"]
    /\ parent' = [parent EXCEPT ![l.slot] = t]
    /\ page_dir' = [page_dir EXCEPT ![l.slot] = l.dir]
    /\ kstack' = [kstack EXCEPT ![l.slot] = loc[t].got]
    /\ running' = [running EXCEPT ![l.slot] = running[t]]
    /\ pc' = [pc EXCEPT ![t] = "user", ![l.slot] = "user"]
    /\ Local(t, NoLocals)
    /\ UNCHANGED <<pfaVars, memVars, nic, cpu>>

-----------------------------------------------------------------------------
(* exit keeps the memory for the parent, whose wait returns two frames of it *)
(* to the pool: the kernel stack and the directory.                          *)

task_exit(t) ==
    /\ At(t, "user")
    /\ state' = [state EXCEPT ![t] = "zombie"]
    /\ UNCHANGED <<pfaVars, memVars, nic, parent, page_dir, kstack, running,
                   cpu, pc, loc>>

task_wait(t) ==
    LET ended == {s \in Slots : state[s] = "zombie" /\ parent[s] = t} IN
    /\ At(t, "user")
    /\ ended # {}
    /\ loc' = [loc EXCEPT ![t].slot = Min(ended)]
    /\ Goto(t, "wait_stack")
    /\ UNCHANGED <<pfaVars, memVars, nic, taskVars, cpu>>

\* Mutation of wait_free: a table of the child is freed, which is everybody's.
WaitFreesTable(t) ==
    /\ \/ At(t, "wait_stack") /\ pfa_free(t, kstack[loc[t].slot], "wait_dir")
       \/ At(t, "wait_dir") /\ pfa_free(t, dir[page_dir[loc[t].slot]][0].f, "wait_clear")
    /\ UNCHANGED <<page_frames, memVars, nic, taskVars, cpu>>

wait_free(t) ==
    /\ \/ At(t, "wait_stack") /\ pfa_free(t, kstack[loc[t].slot], "wait_dir")
       \/ At(t, "wait_dir") /\ pfa_free(t, page_dir[loc[t].slot], "wait_clear")
    /\ UNCHANGED <<page_frames, memVars, nic, taskVars, cpu>>

wait_clear(t) ==
    LET c == loc[t].slot IN
    /\ At(t, "wait_clear")
    /\ state' = [state EXCEPT ![c] = "free"]
    /\ parent' = [parent EXCEPT ![c] = NULL]
    /\ page_dir' = [page_dir EXCEPT ![c] = NULL]
    /\ kstack' = [kstack EXCEPT ![c] = NULL]
    /\ running' = [running EXCEPT ![c] = Shell]
    /\ Local(t, NoLocals) /\ Goto(t, "user")
    /\ UNCHANGED <<pfaVars, memVars, nic, cpu>>

-----------------------------------------------------------------------------
(* exec.  A read that fails on the way makes it return -1 to its caller with *)
(* what was mapped so far in place.                                          *)

elf_load_and_exec(t, p) ==
    /\ At(t, "user")
    /\ Local(t, [NoLocals EXCEPT !.prog = p, !.seg = 1])
    /\ Goto(t, "exec_phdr")
    /\ UNCHANGED <<pfaVars, memVars, nic, taskVars, cpu>>

exec_fail(t) ==
    /\ \/ At(t, "exec_phdr") /\ loc[t].seg <= Len(loc[t].prog)
       \/ At(t, "seg_copy")
    /\ Local(t, NoLocals) /\ Goto(t, "user")
    /\ UNCHANGED <<pfaVars, memVars, nic, taskVars, cpu>>

exec_phdr(t) ==
    LET l == loc[t]  s == l.prog[l.seg] IN
    /\ At(t, "exec_phdr")
    /\ \/ /\ l.seg <= Len(l.prog)
          /\ loc' = [loc EXCEPT ![t].a = s.vaddr, ![t].left = Len(s.data)]
          /\ Goto(t, "seg_file")
       \/ /\ l.seg > Len(l.prog)
          /\ loc' = [loc EXCEPT ![t].pt = 0]
          /\ Goto(t, "exec_stack")
    /\ UNCHANGED <<pfaVars, memVars, nic, taskVars, cpu>>

\* Words of the current page that this round of the loop covers.
Chunk(l) == Min({PAGE_SIZE - (l.a % PAGE_SIZE), l.left})

\* The addresses of those words.
Covered(l) == l.a .. l.a + Chunk(l) - 1

\* Put the words, by address, into memory through t's own mapping.
Fill(t, word) ==
    LET l == loc[t]  f == Entry(page_dir[t], Page(l.a)).f  base == Page(l.a) * PAGE_SIZE IN
    mem' = [mem EXCEPT ![f] = [w \in Words |->
                IF base + w \in DOMAIN word THEN word[base + w] ELSE @[w]]]

Advance(t, l) == loc' = [loc EXCEPT ![t].a = @ + Chunk(l), ![t].left = @ - Chunk(l)]

\* Mutation of seg_file: the clearing starts where the segment does.
SegBssFromStart(t) ==
    LET l == loc[t]  s == l.prog[l.seg] IN
    /\ At(t, "seg_file")
    /\ \/ /\ l.left > 0
          /\ AllocPage(t, Page(l.a), TRUE, "seg_copy")
       \/ /\ l.left = 0
          /\ loc' = [loc EXCEPT ![t].a = s.vaddr, ![t].left = (s.memsz - Len(s.data)) % U32]
          /\ Goto(t, "seg_bss")
    /\ UNCHANGED <<pfaVars, memVars, nic, taskVars, cpu>>

\* A fresh frame for every page of file data, whatever is mapped there.
seg_file(t) ==
    LET l == loc[t]  s == l.prog[l.seg] IN
    /\ At(t, "seg_file")
    /\ \/ /\ l.left > 0
          /\ AllocPage(t, Page(l.a), TRUE, "seg_copy")
       \/ /\ l.left = 0
          /\ loc' = [loc EXCEPT ![t].left = (s.memsz - Len(s.data)) % U32]
          /\ Goto(t, "seg_bss")
    /\ UNCHANGED <<pfaVars, memVars, nic, taskVars, cpu>>

seg_copy(t) ==
    LET l == loc[t]  s == l.prog[l.seg] IN
    /\ At(t, "seg_copy")
    /\ Fill(t, [a \in Covered(l) |-> s.data[a - s.vaddr + 1]])
    /\ Advance(t, l)
    /\ Goto(t, "seg_file")
    /\ UNCHANGED <<pfaVars, dir, table, nic, taskVars, cpu>>

\* Zero what the file does not fill; a page already mapped is kept.
seg_bss(t) ==
    LET l == loc[t] IN
    /\ At(t, "seg_bss")
    /\ \/ /\ l.left > 0 /\ Entry(page_dir[t], Page(l.a)) = Absent
          /\ AllocPage(t, Page(l.a), TRUE, "seg_bss")
          /\ UNCHANGED mem
       \/ /\ l.left > 0 /\ Entry(page_dir[t], Page(l.a)) # Absent
          /\ Fill(t, [a \in Covered(l) |-> 0])
          /\ Advance(t, l)
          /\ UNCHANGED pc
       \/ /\ l.left = 0
          /\ loc' = [loc EXCEPT ![t].seg = @ + 1]
          /\ Goto(t, "exec_phdr")
          /\ UNCHANGED mem
    /\ UNCHANGED <<pfaVars, dir, table, nic, taskVars, cpu>>

\* setup_user_stack from the top down, then eip = e_entry.
setup_user_stack(t) ==
    LET l == loc[t] IN
    /\ At(t, "exec_stack")
    /\ \/ /\ l.pt < USER_STACK_PAGES
          /\ Alloc(t, [l EXCEPT !.vp = (STACK_PD + 1) * PTES - (l.pt + 1), !.u = TRUE,
                                !.back = "exec_stack", !.pt = @ + 1], "map_got")
          /\ UNCHANGED running
       \/ /\ l.pt = USER_STACK_PAGES
          /\ running' = [running EXCEPT ![t] = l.prog]
          /\ Local(t, NoLocals) /\ Goto(t, "user")
    /\ UNCHANGED <<pfaVars, memVars, nic, state, parent, page_dir, kstack,
                   cpu>>

\* The program writes a word of its memory.
Write(t, a, v) ==
    LET e == Entry(page_dir[t], Page(a)) IN
    /\ At(t, "user")
    /\ e # Absent
    /\ mem' = [mem EXCEPT ![e.f][a % PAGE_SIZE] = v]
    /\ UNCHANGED <<pfaVars, dir, table, nic, taskVars, cpu, pc, loc>>

-----------------------------------------------------------------------------
\* Boot and the system calls in progress.
Kernel(t) ==
    \/ pfa_alloc(t) \/ pfa_read(t) \/ pfa_store(t)
    \/ paging_map_page(t) \/ map_table(t)
    \/ init_dir(t) \/ init_table(t) \/ init_buffers(t) \/ init_buffer_set(t)
    \/ framebuffer_map(t)
    \/ clone_dir(t) \/ clone_pde(t) \/ clone_table(t) \/ clone_pte(t) \/ clone_page(t)
    \/ fork_fill(t)
    \/ wait_free(t) \/ wait_clear(t)
    \/ exec_fail(t) \/ exec_phdr(t) \/ seg_file(t) \/ seg_copy(t) \/ seg_bss(t)
    \/ setup_user_stack(t)

User(t) ==
    \/ task_exit(t) \/ task_wait(t)
    \/ \E a \in Touched, v \in Writes : Write(t, a, v)

Counted(t) ==
    \/ task_fork(t)
    \/ \E p \in Programs : elf_load_and_exec(t, p)

Next ==
    /\ UNCHANGED hw
    /\ \/ Switch /\ UNCHANGED calls
       \/ \E t \in Slots :
             /\ state[t] = "live"
             /\ \/ (Kernel(t) \/ User(t)) /\ UNCHANGED calls
                \/ Counted(t) /\ calls < MaxCalls /\ calls' = calls + 1
             /\ UNCHANGED current

Spec == Init /\ [][Next]_vars

-----------------------------------------------------------------------------
(* Properties.                                                               *)

Labels == {"init_dir", "init_table", "nic", "nic_got", "fb", "user", "pfa_alloc", "pfa_read", "pfa_store", "map_got", "map_page", "map_table",
           "clone_dir", "clone_pde", "clone_table", "clone_pte", "clone_page", "fork_stack",
           "wait_stack", "wait_dir", "wait_clear",
           "exec_phdr", "seg_file", "seg_copy", "seg_bss", "exec_stack"}

TypeOK ==
    /\ hw \in Hardware
    /\ page_frames \in [RAM -> RAM] /\ page_frame_count \in 0 .. NFRAMES
    /\ dir \in [RAM -> [PDs -> Entries]]
    /\ table \in [RAM -> [PTs -> Entries]]
    /\ DOMAIN mem = RAM /\ (\A f \in RAM : DOMAIN mem[f] = Words)
    /\ nic \in [PTs -> RAM \cup {NULL}]
    /\ state \in [Slots -> {"free", "live", "zombie"}]
    /\ parent \in [Slots -> Slots \cup {NULL}]
    /\ page_dir \in [Slots -> RAM \cup {NULL}]
    /\ kstack \in [Slots -> RAM \cup {NULL}]
    /\ running \in [Slots -> Programs \cup {Shell}]
    /\ current \in Slots
    /\ cpu \in {"boot", "run", "out of memory", "page fault"}
    /\ pc \in [Slots -> Labels]
    /\ \A t \in Slots : /\ DOMAIN loc[t] = DOMAIN NoLocals
                        /\ loc[t].ret \in Labels /\ loc[t].back \in Labels
                        /\ {loc[t].got, loc[t].dir, loc[t].tab} \subseteq RAM \cup {NULL}

\* The directory entries below index n of d that lead to pages of one task only.
Private(d, n) == {p \in 1 .. n - 1 : CopiesTable(p, dir[d][p])}
PrivatePages(d, n) == {v \in Private(d, n) \X PTs : table[dir[d][v[1]].f][v[2]].u}

\* Who holds which frame: the pool, a task, a fork in progress, or the kernel.
\* A frame being pushed is in the pool only once it is stored.
Pushing == {loc[t].pt : t \in {u \in Slots : pc[u] = "pfa_store"}}
Directories ==
    {<<page_dir[t], DEVICE_PD + 1>> : t \in {u \in Slots : state[u] = "live" /\ page_dir[u] # NULL}}
    \cup {<<loc[t].dir, loc[t].pd>> : t \in {u \in Slots : loc[u].dir # NULL}}

HeldByPool == {<<"free", i, page_frames[i]>> : i \in (0 .. page_frame_count - 1) \ Pushing}
HeldAsStack == {<<"stack", t, kstack[t]>> : t \in {u \in Slots : state[u] = "live"} \ {0}}
HeldByCard == {<<"device", i, nic[i]>> : i \in {j \in PTs : nic[j] # NULL}}
HeldByFork == {<<"copying", t, loc[t].tab>> : t \in {u \in Slots : loc[u].tab # NULL}}
HeldAsDirectory == {<<"dir", e[1], e[1]>> : e \in Directories}
HeldAsTable ==
    UNION {{<<"table", <<e[1], p>>, dir[e[1]][p].f>> : p \in Private(e[1], e[2])} : e \in Directories}
HeldAsPage ==
    UNION {{<<"page", <<e[1], v>>, table[dir[e[1]][v[1]].f][v[2]].f>>
               : v \in PrivatePages(e[1], e[2])} : e \in Directories}
HeldByKernel ==
    UNION {{<<"kernel", p, dir[e[1]][p].f>>
               : p \in {q \in 0 .. e[2] - 1 : dir[e[1]][q] # Absent /\ q \notin Private(e[1], e[2])}}
            : e \in Directories}

Held == HeldByPool \cup HeldAsStack \cup HeldByCard \cup HeldByFork
        \cup HeldAsDirectory \cup HeldAsTable \cup HeldAsPage \cup HeldByKernel

\* No frame has two holders: what pfa_alloc hands out (paging.c:18) is nobody
\* else's table, page, stack or directory, however forks, execs and waits of
\* several tasks follow one another.
FramesHeldOnce ==
    /\ TypeOK
    /\ cpu \in {"boot", "run"} => Cardinality(Held) = Cardinality({h[3] : h \in Held})

\* The timer draws the cursor and the keyboard the console while any task
\* runs: every live task's directory maps the frame buffer (framebuffer.c:181)
\* and, where it did not replace them, the card's buffers (rtl8139.c:64).
DevicesReachable ==
    \A t \in Slots : state[t] = "live" /\ cpu = "run" =>
        /\ hw.vbe => \A i \in 0 .. FbPages - 1 :
              Entry(page_dir[t], DEVICE_PD * PTES + i).f = FbPhys(i)
        /\ hw.nic /\ ~hw.vbe => \A i \in NicPages :
              Entry(page_dir[t], DEVICE_PD * PTES + i).f = nic[i]

\* fork reads every page it copies at its physical address (paging.c:244), which
\* only RAM has in the identity map: it faults on no machine, except when the
\* frame buffer was the first to be mapped at 0xF0000000 and so made that
\* directory entry a User entry.
FaultsOnlyOnFrameBuffer ==
    cpu = "page fault" => hw.vbe /\ ~hw.nic

-----------------------------------------------------------------------------
(* Programs see AddressSpaces.                                               *)

UserAddresses == PTES * PAGE_SIZE .. (STACK_PD + 1) * PTES * PAGE_SIZE - 1

View(t) == [a \in UserAddresses |->
    IF page_dir[t] = NULL THEN -1
    ELSE LET e == Entry(page_dir[t], Page(a)) IN
         IF e.f \in RAM THEN mem[e.f][a % PAGE_SIZE] ELSE -1]

Spaces == INSTANCE AddressSpaces WITH
    Owners <- Slots,
    Addresses <- UserAddresses,
    Contents <- {0} \cup Writes \cup UNION {Range(s.data) : s \in UNION {Range(p) : p \in Programs}},
    Images <- Programs,
    Stack <- (STACK_PD + 1) * PTES * PAGE_SIZE - USER_STACK_PAGES * PAGE_SIZE
             .. (STACK_PD + 1) * PTES * PAGE_SIZE - 1,
    space <- [t \in Slots |->
                CASE state[t] # "live" -> [st |-> "none", mem |-> <<>>]
                  [] state[t] = "live" /\ loc[t].seg > 0 -> [st |-> "loading", mem |-> <<>>]
                  [] OTHER -> [st |-> "own", mem |-> View(t)]],
    running <- [t \in Slots |-> IF state[t] = "live" THEN running[t] ELSE Shell]

\* Fork copies and exec loads: a program's memory is its own and its image is
\* complete when it starts (paging.c:131, elf_loader.c:114).
RefinesSpaces == Spaces!Spec
=============================================================================
