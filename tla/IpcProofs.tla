----------------------------- MODULE IpcProofs -----------------------------
(***************************************************************************)
(* What holds of semaphores and message queues for every size of every     *)
(* table and every workload, with ticks arriving anywhere interrupts are   *)
(* on: the type invariant, the order of the rings, no waiter at a          *)
(* semaphore that has units, the refinement of bounded FIFO queues.  The   *)
(* last part is about tasks that use the objects and do nothing else: then *)
(* units are conserved and no wakeup is lost.                              *)
(***************************************************************************)
EXTENDS Ipc, SchedulerProofs, SequenceTheorems

\* The scheduler's facts are instantiated with the labels of Ipc.
LEMMA LabelsKnown == ProcLabels \subseteq Labels
BY DEF Labels

SchedTypes == SchedType(Labels) /\ ProcLocals

\* The pc labels at which ProcLocals says something.
TypedAt == {"fork_clone", "fork_pid", "fork_fill", "fork_link", "fork_tail",
            "exit_link", "exit_tail", "wait_reap", "wait_free"}

\* A step that moves task t to l, touches no other task's locals and leaves the
\* table alone, keeps the scheduler's types if what it does to the lists does.
LEMMA LocalStepTypes ==
    ASSUME SchedTypes, NEW t \in Slots, NEW l \in Labels \ TypedAt,
           state' \in [Slots -> States], next' \in [Slots -> Slots \cup {NULL}],
           rq' \in Queues, current' \in Slots, cpu' \in CpuStates, UNCHANGED tableVars,
           pc' = [pc EXCEPT ![t] = l],
           arg' \in [Slots -> Int], val' \in [Slots -> Int],
           \A u \in Slots : u # t => arg'[u] = arg[u] /\ val'[u] = val[u]
    PROVE  SchedTypes'
<1>1. SchedType(Labels)'
  BY DEF SchedTypes, SchedType, tableVars
<1>2. ProcLocals'
  BY DEF SchedTypes, SchedType, ProcLocals, TypedAt
<1>3. QED
  BY <1>1, <1>2 DEF SchedTypes

\* task_wake of the first waiter keeps the lists inside the task table.
LEMMA WakeTypes ==
    ASSUME SchedTypes, NEW q \in Queues, WakeFirst(q)
    PROVE  /\ state' \in [Slots -> States]
           /\ next' \in [Slots -> Slots \cup {NULL}]
           /\ rq' \in Queues
<1>1. /\ next \in [Slots -> Slots \cup {NULL}] /\ rq \in Queues
      /\ state \in [Slots -> States]
  BY DEF SchedTypes, SchedType
<1>2. CASE q.head = NULL
  BY <1>1, <1>2 DEF WakeFirst
<1>3. CASE q.head # NULL
  <2>1. q.head \in Slots /\ DequeueNext(next, q) \in [Slots -> Slots \cup {NULL}]
    BY <1>1, <1>3, DequeueTypes
  <2>2. /\ EnqueueNext(DequeueNext(next, q), rq, q.head) \in [Slots -> Slots \cup {NULL}]
        /\ EnqueueQ(rq, q.head) \in Queues
    BY <1>1, <2>1, EnqueueTypes
  <2>3. QED
    BY <1>1, <1>3, <2>1, <2>2 DEF WakeFirst, States
<1>4. QED
  BY <1>2, <1>3

\* Popping a wait queue leaves a legal queue.
LEMMA PoppedType ==
    ASSUME SchedTypes, NEW q \in Queues
    PROVE  Popped(q) \in Queues
BY DequeueTypes DEF Popped, SchedTypes, SchedType

\* Blocking on a wait queue keeps the scheduler's types, and so does being woken.
LEMMA BlockOnTypes ==
    ASSUME SchedTypes, NEW t \in Slots, NEW q \in Queues, NEW l \in Labels \ TypedAt,
           BlockOn(t, q, l)
    PROVE  SchedTypes'
<1> DEFINE st == [state EXCEPT ![t] = "BLOCKED"]
           nx == EnqueueNext(next, q, t)
<1>1. st \in [Slots -> States] /\ nx \in [Slots -> Slots \cup {NULL}]
  BY EnqueueTypes DEF SchedTypes, SchedType, States
<1>2. scheduler_tick(st, nx, rq) /\ current \in Slots /\ cpu \in CpuStates /\ rq \in Queues
  BY DEF BlockOn, SchedTypes, SchedType
<1> HIDE DEF st, nx
<1>3. /\ state' \in [Slots -> States] /\ next' \in [Slots -> Slots \cup {NULL}]
      /\ rq' \in Queues /\ current' \in Slots /\ cpu' \in CpuStates
  BY <1>1, <1>2, TickTypes
<1>4. QED
  BY <1>3, LocalStepTypes DEF BlockOn, Goto, SchedTypes, SchedType

\* Entering a call, returning from one, loading a counter.
LEMMA EnterTypes ==
    ASSUME SchedTypes, NEW t \in Slots, NEW l \in Labels \ TypedAt, NEW s \in Int, Enter(t, l, s)
    PROVE  SchedTypes'
BY LocalStepTypes DEF Enter, Goto, SchedTypes, SchedType, listVars

\* Returning from an ipc call keeps every type.
LEMMA ReturnStepTypes ==
    ASSUME SchedTypes, NEW t \in Slots, Return(t),
           state' \in [Slots -> States], next' \in [Slots -> Slots \cup {NULL}],
           rq' \in Queues, UNCHANGED <<current, cpu, tableVars>>
    PROVE  SchedTypes'
<1>1. "user" \in Labels \ TypedAt /\ pc' = [pc EXCEPT ![t] = "user"]
  BY DEF Return, Goto, Labels, ProcLabels, TypedAt
<1>2. arg' \in [Slots -> Int] /\ val' \in [Slots -> Int]
  BY DEF Return, SchedTypes, SchedType, NULL
<1>3. \A u \in Slots : u # t => arg'[u] = arg[u] /\ val'[u] = val[u]
  BY DEF Return, SchedTypes, SchedType
<1>4. current' \in Slots /\ cpu' \in CpuStates
  BY DEF SchedTypes, SchedType
<1>5. QED
  BY <1>1, <1>2, <1>3, <1>4, LocalStepTypes

\* A call that only returns keeps every type.
LEMMA QuietReturnTypes ==
    ASSUME SchedTypes, NEW t \in Slots, Return(t), UNCHANGED <<tableVars, listVars>>
    PROVE  SchedTypes'
<1>1. /\ state' \in [Slots -> States] /\ next' \in [Slots -> Slots \cup {NULL}]
      /\ rq' \in Queues /\ UNCHANGED <<current, cpu, tableVars>>
  BY DEF SchedTypes, SchedType, listVars
<1>2. QED
  BY <1>1, ReturnStepTypes

-----------------------------------------------------------------------------
(* The ring.  head and tail are indices below MSGQUEUE_SIZE, so the sum      *)
(* head + count wraps at most once.                                          *)

\* An index inside the ring is its own remainder.
LEMMA ModSmall == ASSUME NEW S \in Nat \ {0}, NEW k \in 0 .. S - 1 PROVE k % S = k
BY SMT

\* Going once round the ring comes back to the same index.
LEMMA ModWrap == ASSUME NEW S \in Nat \ {0}, NEW k \in 0 .. S - 1 PROVE (k + S) % S = k
BY SMT

\* The next index of a ring is one more, or 0 after the last.
LEMMA ModNext ==
    ASSUME NEW S \in Nat \ {0}, NEW k \in 0 .. S - 1
    PROVE  (k + 1) % S = IF k = S - 1 THEN 0 ELSE k + 1
BY SMT

\* Where the tail is when the head is at h and n messages are queued.
LEMMA TailPlace ==
    ASSUME NEW S \in Nat \ {0}, NEW h \in 0 .. S - 1, NEW n \in 0 .. S
    PROVE  (h + n) % S = IF h + n < S THEN h + n ELSE h + n - S
<1>1. CASE h + n < S
  <2>1. h + n \in 0 .. S - 1
    BY <1>1
  <2>2. QED
    BY <1>1, <2>1, ModSmall
<1>2. CASE ~(h + n < S)
  <2>1. h + n - S \in 0 .. S - 1
    BY <1>2
  <2>2. ((h + n - S) + S) % S = h + n - S
    BY <2>1, ModWrap
  <2>3. (h + n - S) + S = h + n
    OBVIOUS
  <2>4. QED
    BY <1>2, <2>2, <2>3
<1>3. QED
  BY <1>1, <1>2

\* Writing at tail and counting one more keeps the ring in order.
LEMMA PushPlace ==
    ASSUME NEW S \in Nat \ {0}, NEW h \in 0 .. S - 1, NEW n \in 0 .. S - 1,
           NEW k, k = (h + n) % S
    PROVE  (k + 1) % S = (h + (n + 1)) % S /\ (k + 1) % S \in 0 .. S - 1
<1>0. n \in 0 .. S /\ n + 1 \in 0 .. S
  OBVIOUS
<1>1. k = IF h + n < S THEN h + n ELSE h + n - S
  BY <1>0, TailPlace
<1>2. (h + (n + 1)) % S = IF h + (n + 1) < S THEN h + (n + 1) ELSE h + (n + 1) - S
  BY <1>0, TailPlace
<1>3. k \in 0 .. S - 1
  BY <1>1
<1>4. (k + 1) % S = IF k = S - 1 THEN 0 ELSE k + 1
  BY <1>3, ModNext
<1>5. QED
  BY <1>1, <1>2, <1>3, <1>4

\* Reading at head and counting one less keeps the ring in order.
LEMMA PullPlace ==
    ASSUME NEW S \in Nat \ {0}, NEW h \in 0 .. S - 1, NEW n \in 1 .. S
    PROVE  (((h + 1) % S) + (n - 1)) % S = (h + n) % S /\ (h + 1) % S \in 0 .. S - 1
<1>1. (h + 1) % S = IF h = S - 1 THEN 0 ELSE h + 1
  BY ModNext
<1>2. (h + 1) % S \in 0 .. S - 1 /\ n - 1 \in 0 .. S /\ n \in 0 .. S
  BY <1>1
<1>3. (h + n) % S = IF h + n < S THEN h + n ELSE h + n - S
  BY <1>2, TailPlace
<1>4. (((h + 1) % S) + (n - 1)) % S
        = IF ((h + 1) % S) + (n - 1) < S THEN ((h + 1) % S) + (n - 1)
                                       ELSE ((h + 1) % S) + (n - 1) - S
  BY <1>2, TailPlace
<1>5. QED
  BY <1>1, <1>2, <1>3, <1>4

-----------------------------------------------------------------------------
(* The inductive invariant, table by table.                                  *)

SemTable ==
    /\ sem \in [Sems -> [id : -1 .. MaxIds, value : 0 .. MaxValue, q : Queues]]
    /\ sem_count \in 0 .. MaxIds
    /\ credit \in [Sems -> Int]
    /\ NoWaiterWithUnits

MqTable ==
    /\ mq \in [Mqs -> [id : -1 .. MaxIds,
                       msgs : [Ring -> Messages \cup {NoMessage}],
                       head : Ring, tail : Ring, count : Int,
                       recvq : Queues, sendq : Queues]]
    /\ mq_count \in 0 .. MaxIds
    /\ RingInOrder

Buffers ==
    /\ buf \in [Slots -> Messages \cup {NoMessage}]
    /\ got \in [Slots -> Messages \cup {NoMessage}]

IpcInv == SchedTypes /\ SemTable /\ MqTable /\ Buffers /\ IpcLocals

\* Calls that touch one table leave the invariant of the other alone.
LEMMA SemUntouched ==
    ASSUME SemTable, UNCHANGED <<sem, sem_count, credit>> PROVE SemTable'
BY DEF SemTable, NoWaiterWithUnits

\* A step that leaves the message queues alone keeps their invariant.
LEMMA MqUntouched ==
    ASSUME MqTable, UNCHANGED <<mq, mq_count>> PROVE MqTable'
BY DEF MqTable, RingInOrder

\* A step that leaves the rings alone keeps what their indices say.
LEMMA BuffersUntouched ==
    ASSUME Buffers, UNCHANGED <<buf, got>> PROVE Buffers'
BY DEF Buffers

\* A task that leaves the IPC calls for user code has no locals to account for.
LEMMA LocalsReturn ==
    ASSUME SchedTypes, IpcLocals, NEW t \in Slots, Return(t),
           \A u \in Slots : u # t => buf'[u] = buf[u]
    PROVE  IpcLocals'
<1>1. pc'[t] = "user"
  BY DEF Return, Goto, SchedTypes, SchedType
<1>2. \A u \in Slots : u # t => pc'[u] = pc[u] /\ arg'[u] = arg[u] /\ val'[u] = val[u]
  BY DEF Return, Goto, SchedTypes, SchedType
<1>3. QED
  BY <1>1, <1>2 DEF IpcLocals

\* A task that moves on inside a call keeps its slot.
LEMMA LocalsGoto ==
    ASSUME SchedTypes, IpcLocals, NEW t \in Slots, NEW l, Goto(t, l),
           UNCHANGED <<arg, val, buf>>,
           l \in {"sc_load", "sc_id", "sc_fill", "sw_cli", "sw_woken", "sp_cli", "sd_loop"}
               => arg[t] \in Sems,
           l \in {"mc_load", "mc_id", "mc_fill", "ms_cli", "mr_cli", "md_recv", "md_send"}
               => arg[t] \in Mqs,
           l \notin {"sc_id", "mc_id"}, l = "ms_cli" => pc[t] = "ms_cli"
    PROVE  IpcLocals'
BY DEF Goto, SchedTypes, SchedType, IpcLocals

\* A call that starts has looked its slot up in the right table.
LEMMA LocalsEnter ==
    ASSUME SchedTypes, IpcLocals, NEW t \in Slots, NEW l, NEW s, Enter(t, l, s),
           \A u \in Slots : u # t => buf'[u] = buf[u],
           \/ l \in {"sc_load", "sw_cli", "sp_cli", "sd_loop"} /\ s \in Sems
           \/ l \in {"mc_load", "mr_cli", "md_recv"} /\ s \in Mqs
           \/ l = "ms_cli" /\ s \in Mqs /\ buf'[t] \in Messages
    PROVE  IpcLocals'
<1>1. pc'[t] = l /\ arg'[t] = s
  BY DEF Enter, Goto, SchedTypes, SchedType
<1>2. \A u \in Slots : u # t => pc'[u] = pc[u] /\ arg'[u] = arg[u] /\ val'[u] = val[u]
  BY DEF Enter, Goto, SchedTypes, SchedType
<1>3. QED
  BY <1>1, <1>2 DEF IpcLocals

\* Loading a semaphore or queue count keeps the locals of the ipc calls.
LEMMA LocalsLoad ==
    ASSUME SchedTypes, IpcLocals, NEW t \in Slots, NEW at, NEW n, NEW l,
           Load(t, at, n, l), n \in 0 .. MaxIds - 1, buf' = buf,
           l = "sc_id" => arg[t] \in Sems, l = "mc_id" => arg[t] \in Mqs,
           l \in {"sc_id", "mc_id"}
    PROVE  IpcLocals'
<1>1. pc'[t] = l /\ arg'[t] = arg[t] /\ val'[t] = n
  BY DEF Load, Goto, SchedTypes, SchedType
<1>2. \A u \in Slots : u # t => pc'[u] = pc[u] /\ arg'[u] = arg[u] /\ val'[u] = val[u]
  BY DEF Load, Goto, SchedTypes, SchedType
<1>3. QED
  BY <1>1, <1>2 DEF IpcLocals

\* Loading a counter keeps every type.
LEMMA LoadStepTypes ==
    ASSUME SchedTypes, NEW t \in Slots, NEW at, NEW n \in Int, NEW l \in Labels \ TypedAt,
           Load(t, at, n, l)
    PROVE  SchedTypes'
<1>1. val' \in [Slots -> Int] /\ \A u \in Slots : u # t => val'[u] = val[u]
  BY DEF Load, SchedTypes, SchedType
<1>2. pc' = [pc EXCEPT ![t] = l] /\ UNCHANGED <<tableVars, listVars, arg>>
  BY DEF Load, Goto
<1>3. QED
  BY <1>1, <1>2, LocalStepTypes DEF SchedTypes, SchedType, listVars

\* The table searches return a slot of their table.
LEMMA SearchTypes ==
    ASSUME SemTable, MqTable, NEW id
    PROVE  /\ FreeOf(sem) # {} => Min(FreeOf(sem)) \in Sems
           /\ SlotsOf(sem, id) # {} => Min(SlotsOf(sem, id)) \in Sems
           /\ FreeOf(mq) # {} => Min(FreeOf(mq)) \in Mqs
           /\ SlotsOf(mq, id) # {} => Min(SlotsOf(mq, id)) \in Mqs
<1>1. DOMAIN sem = Sems /\ DOMAIN mq = Mqs
  BY DEF SemTable, MqTable
<1>2. /\ FreeOf(sem) \in SUBSET Nat /\ FreeOf(sem) \subseteq Sems
      /\ SlotsOf(sem, id) \in SUBSET Nat /\ SlotsOf(sem, id) \subseteq Sems
  BY <1>1 DEF FreeOf, SlotsOf, Sems
<1>3. /\ FreeOf(mq) \in SUBSET Nat /\ FreeOf(mq) \subseteq Mqs
      /\ SlotsOf(mq, id) \in SUBSET Nat /\ SlotsOf(mq, id) \subseteq Mqs
  BY <1>1 DEF FreeOf, SlotsOf, Mqs
<1>4. QED
  BY <1>2, <1>3, MinIsMember

-----------------------------------------------------------------------------
(* Steps of the scheduler.                                                   *)

\* A step of a process system call leaves a task where it was, with its locals,
\* or takes it to a place that is not inside an IPC call.
LEMMA ProcPlaces ==
    ASSUME SchedTypes, NEW t \in Slots, ProcCall(t) \/ ProcStep(t), NEW u \in Slots
    PROVE  \/ pc'[u] \in ProcLabels
           \/ pc'[u] = pc[u] /\ arg'[u] = arg[u] /\ val'[u] = val[u]
<1> USE DEF SchedTypes, SchedType, ProcLabels, Goto, Return
<1>1. CASE ProcCall(t)
  BY <1>1 DEF ProcCall, SysFork, SysExit, SysWait
<1>2. CASE ForkClone(t) \/ ForkPid(t) \/ ForkFill(t) \/ ForkLink(t) \/ ForkTail(t)
  BY <1>2 DEF ForkClone, ForkPid, ForkFill, ForkLink, ForkTail, Load, LinkReady, TailReady
<1>3. CASE ForkCount(t) \/ ForkStore(t) \/ ExitZombie(t) \/ ExitLink(t) \/ ExitTail(t)
  BY <1>3 DEF ForkCount, ForkStore, ExitZombie, ExitLink, ExitTail, Load, LinkReady, TailReady
<1>4. CASE ExitWake(t) \/ ExitSwitch(t) \/ ExitDead(t)
  BY <1>4 DEF ExitWake, ExitSwitch, ExitDead
<1>5. CASE WaitScan(t) \/ WaitReap(t) \/ WaitFree(t) \/ WaitCount(t) \/ WaitStore(t)
  BY <1>5 DEF WaitScan, WaitReap, WaitFree, WaitCount, WaitStore, Load
<1>6. CASE WaitAlive(t) \/ WaitBlock(t) \/ WaitSwitch(t)
  BY <1>6 DEF WaitAlive, WaitBlock, WaitSwitch
<1>7. QED
  BY <1>1, <1>2, <1>3, <1>4, <1>5, <1>6 DEF ProcStep

\* The steps of scheduler.c keep the invariant of the ipc objects.
LEMMA SchedulerKeepsInv ==
    ASSUME IpcInv, SchedTick \/ \E t \in Slots : SchedCall(t) \/ SchedStep(t)
    PROVE  IpcInv'
<1>1. UNCHANGED ipcVars
  BY DEF SchedTick, SchedCall, SchedStep
<1>2. SemTable' /\ MqTable' /\ Buffers'
  BY <1>1, SemUntouched, MqUntouched, BuffersUntouched DEF IpcInv, ipcVars
<1>3. CASE SchedTick
  <2>1. SchedTypes'
    BY <1>3, TickStepTypes DEF SchedTick, SchedTypes, IpcInv
  <2>2. IpcLocals'
    BY <1>1, <1>3 DEF SchedTick, Tick, IpcLocals, IpcInv, ipcVars
  <2>3. QED
    BY <1>2, <2>1, <2>2 DEF IpcInv
<1>4. ASSUME NEW t \in Slots, SchedCall(t) \/ SchedStep(t) PROVE IpcInv'
  <2>1. SchedTypes'
    BY <1>4, ProcCallTypes, ProcStepTypes, LabelsKnown
       DEF SchedCall, SchedStep, SchedTypes, IpcInv
  <2>2. \A u \in Slots : \/ pc'[u] \in ProcLabels
                         \/ pc'[u] = pc[u] /\ arg'[u] = arg[u] /\ val'[u] = val[u]
    BY <1>4, ProcPlaces DEF SchedCall, SchedStep, IpcInv
  <2>3. IpcLocals'
    BY <1>1, <2>2 DEF IpcLocals, IpcInv, ipcVars, ProcLabels
  <2>4. QED
    BY <1>2, <2>1, <2>3 DEF IpcInv
<1>5. QED
  BY <1>3, <1>4

-----------------------------------------------------------------------------
(* Steps of the IPC calls.                                                   *)

\* Entering an ipc call keeps the invariant.
LEMMA IpcCallKeepsInv ==
    ASSUME IpcInv, NEW t \in Slots, IpcCall(t)
    PROVE  IpcInv'
<1> DEFINE Places == {"sc_load", "sw_cli", "sp_cli", "sd_loop",
                      "mc_load", "ms_cli", "mr_cli", "md_recv"}
<1>1. ASSUME NEW l \in Places, NEW s, Enter(t, l, s),
             s \in Sems \/ s \in Mqs
      PROVE  SchedTypes'
  <2>1. l \in Labels \ TypedAt /\ s \in Int
    BY <1>1 DEF Labels, ProcLabels, IpcLabels, CliLabels, TypedAt, Sems, Mqs
  <2>2. QED
    BY <1>1, <2>1, EnterTypes DEF IpcInv
<1>2. UNCHANGED ipcVars => SemTable' /\ MqTable' /\ Buffers'
  BY SemUntouched, MqUntouched, BuffersUntouched DEF IpcInv, ipcVars
<1>0. UNCHANGED ipcVars => \A u \in Slots : u # t => buf'[u] = buf[u]
  BY DEF ipcVars
<1>3. CASE SysSemCreate(t)
  <2>1. Enter(t, "sc_load", Min(FreeOf(sem))) /\ UNCHANGED ipcVars /\ Min(FreeOf(sem)) \in Sems
    BY <1>3, SearchTypes DEF SysSemCreate, IpcInv
  <2>2. IpcLocals'
    <3>1. SchedTypes /\ IpcLocals /\ \A u \in Slots : u # t => buf'[u] = buf[u]
      BY <1>0, <2>1 DEF IpcInv
    <3>2. QED
      BY <2>1, <3>1, LocalsEnter
  <2>3. SchedTypes'
    BY <1>1, <2>1
  <2>4. QED
    BY <1>2, <2>1, <2>2, <2>3 DEF IpcInv
<1>4. CASE SysMsgCreate(t)
  <2>1. Enter(t, "mc_load", Min(FreeOf(mq))) /\ UNCHANGED ipcVars /\ Min(FreeOf(mq)) \in Mqs
    BY <1>4, SearchTypes DEF SysMsgCreate, IpcInv
  <2>2. IpcLocals'
    <3>1. SchedTypes /\ IpcLocals /\ \A u \in Slots : u # t => buf'[u] = buf[u]
      BY <1>0, <2>1 DEF IpcInv
    <3>2. QED
      BY <2>1, <3>1, LocalsEnter
  <2>3. SchedTypes'
    BY <1>1, <2>1
  <2>4. QED
    BY <1>2, <2>1, <2>2, <2>3 DEF IpcInv
<1>5. ASSUME NEW id \in Ids, SysSemWait(t, id) \/ SysSemPost(t, id) \/ SysSemDestroy(t, id)
      PROVE  IpcInv'
  <2>1. PICK l \in {"sw_cli", "sp_cli", "sd_loop"} : Enter(t, l, Min(SlotsOf(sem, id)))
    BY <1>5 DEF SysSemWait, SysSemPost, SysSemDestroy
  <2>2. UNCHANGED ipcVars /\ Min(SlotsOf(sem, id)) \in Sems
    BY <1>5, SearchTypes DEF SysSemWait, SysSemPost, SysSemDestroy, IpcInv
  <2>3. IpcLocals'
    <3>1. SchedTypes /\ IpcLocals /\ \A u \in Slots : u # t => buf'[u] = buf[u]
      BY <1>0, <2>2 DEF IpcInv
    <3>2. QED
      BY <2>1, <2>2, <3>1, LocalsEnter
  <2>4. SchedTypes'
    BY <1>1, <2>1, <2>2
  <2>5. QED
    BY <1>2, <2>2, <2>3, <2>4 DEF IpcInv
<1>6. ASSUME NEW id \in Ids, SysMsgRecv(t, id) \/ SysMsgDestroy(t, id) PROVE IpcInv'
  <2>1. PICK l \in {"mr_cli", "md_recv"} : Enter(t, l, Min(SlotsOf(mq, id)))
    BY <1>6 DEF SysMsgRecv, SysMsgDestroy
  <2>2. UNCHANGED ipcVars /\ Min(SlotsOf(mq, id)) \in Mqs
    BY <1>6, SearchTypes DEF SysMsgRecv, SysMsgDestroy, IpcInv
  <2>3. IpcLocals'
    <3>1. SchedTypes /\ IpcLocals /\ \A u \in Slots : u # t => buf'[u] = buf[u]
      BY <1>0, <2>2 DEF IpcInv
    <3>2. QED
      BY <2>1, <2>2, <3>1, LocalsEnter
  <2>4. SchedTypes'
    BY <1>1, <2>1, <2>2
  <2>5. QED
    BY <1>2, <2>2, <2>3, <2>4 DEF IpcInv
<1>7. ASSUME NEW id \in Ids, NEW x \in Payloads, NEW len \in SendLens, SysMsgSend(t, id, x, len)
      PROVE  IpcInv'
  <2>1. Enter(t, "ms_cli", Min(SlotsOf(mq, id))) /\ Min(SlotsOf(mq, id)) \in Mqs
    BY <1>7, SearchTypes DEF SysMsgSend, IpcInv
  <2>2. Clamp(len) \in 0 .. MSG_MAX_DATA
    BY IpcAssumption DEF Clamp
  <2>3. buf' = [buf EXCEPT ![t] = [data |-> x, len |-> Clamp(len)]]
    BY <1>7 DEF SysMsgSend
  <2>4. [data |-> x, len |-> Clamp(len)] \in Messages
    BY <2>2 DEF Messages
  <2>5. /\ buf'[t] \in Messages /\ \A u \in Slots : u # t => buf'[u] = buf[u]
        /\ buf' \in [Slots -> Messages \cup {NoMessage}]
    BY <2>3, <2>4 DEF IpcInv, Buffers
  <2>6. Buffers'
    BY <1>7, <2>5 DEF SysMsgSend, Buffers, IpcInv
  <2>7. SemTable' /\ MqTable'
    BY <1>7, SemUntouched, MqUntouched DEF SysMsgSend, IpcInv
  <2>8. IpcLocals'
    BY <2>1, <2>5, LocalsEnter DEF IpcInv
  <2>9. QED
    BY <1>1, <2>1, <2>6, <2>7, <2>8 DEF IpcInv
<1>8. QED
  BY <1>3, <1>4, <1>5, <1>6, <1>7 DEF IpcCall

\* Task t between its lookup and its return, in a semaphore call.
LEMMA SemStepKeepsInv ==
    ASSUME IpcInv, NEW t \in Slots,
           \/ SemCreateLoad(t) \/ SemCreateId(t)
           \/ \E v \in SemInits : SemCreateFill(t, v)
           \/ SemWaitCli(t) \/ SemWaitWoken(t) \/ SemPostCli(t)
           \/ SemDestroyWake(t) \/ SemDestroyFree(t)
    PROVE  IpcInv'
<1>1. UNCHANGED <<mq, mq_count, buf, got>>
  BY DEF SemCreateLoad, SemCreateId, SemCreateFill, SemWaitCli, SemWaitWoken, SemPostCli,
         SemDestroyWake, SemDestroyFree, ipcVars
<1>2. MqTable' /\ Buffers'
  BY <1>1, MqUntouched, BuffersUntouched DEF IpcInv
<1>3. SchedTypes /\ IpcLocals /\ SemTable /\ UNCHANGED buf
      /\ (\A u \in Slots : u # t => buf'[u] = buf[u])
  BY <1>1 DEF IpcInv
<1>4. /\ sem \in [Sems -> [id : -1 .. MaxIds, value : 0 .. MaxValue, q : Queues]]
      /\ sem_count \in 0 .. MaxIds /\ credit \in [Sems -> Int]
      /\ \A s \in Sems : sem[s].value > 0 => sem[s].q.head = NULL
  BY DEF IpcInv, SemTable, NoWaiterWithUnits
<1>5. EmptyQueue \in Queues /\ EmptyQueue.head = NULL /\ MaxIds \in Nat /\ MaxValue \in Nat
  BY IpcAssumption DEF EmptyQueue, Queues
<1>6. \A s \in Sems : sem[s].q \in Queues
  BY <1>4
<1>7. SUFFICES SchedTypes' /\ IpcLocals' /\ SemTable'
  BY <1>2 DEF IpcInv
<1>8. {"sc_id", "sc_fill", "sw_woken"} \subseteq Labels \ TypedAt
  BY DEF Labels, IpcLabels, TypedAt
<1>9. ASSUME NEW s \in Sems, NEW n \in Int, Charge(s, n) PROVE credit' \in [Sems -> Int]
  BY <1>4, <1>9 DEF Charge
<1>10. CASE SemCreateLoad(t)
  <2>1. Load(t, "sc_load", sem_count, "sc_id") /\ sem_count \in 0 .. MaxIds - 1
    BY <1>4, <1>5, <1>10 DEF SemCreateLoad
  <2>2. arg[t] \in Sems
    BY <1>3, <2>1 DEF Load, At, IpcLocals
  <2>3. IpcLocals'
    <3>1. SchedTypes /\ IpcLocals /\ buf' = buf
      BY <1>3
    <3>2. QED
      BY <2>1, <2>2, <3>1, LocalsLoad
  <2>4. SchedTypes'
    BY <1>3, <1>8, <2>1, LoadStepTypes
  <2>5. SemTable'
    BY <1>3, <1>10, SemUntouched DEF SemCreateLoad, ipcVars
  <2>6. QED
    BY <2>3, <2>4, <2>5
<1>11. CASE SemCreateId(t)
  <2>1. arg[t] \in Sems /\ val[t] \in 0 .. MaxIds - 1
    BY <1>3, <1>11 DEF SemCreateId, At, IpcLocals
  <2>2. Goto(t, "sc_fill") /\ UNCHANGED <<arg, val, buf>>
    BY <1>3, <1>11 DEF SemCreateId
  <2>3. IpcLocals'
    BY <1>3, <2>1, <2>2, LocalsGoto
  <2>4. SchedTypes'
    BY <1>3, <1>8, <1>11, LocalStepTypes
       DEF SemCreateId, Goto, SchedTypes, SchedType, listVars
  <2>5. /\ sem' = [sem EXCEPT ![arg[t]].id = val[t]] /\ sem_count' = val[t] + 1
        /\ credit' = credit /\ val[t] \in -1 .. MaxIds /\ val[t] + 1 \in 0 .. MaxIds
    BY <1>5, <1>11, <2>1 DEF SemCreateId
  <2>6. SemTable'
    BY <1>4, <2>1, <2>5 DEF SemTable, NoWaiterWithUnits
  <2>7. QED
    BY <2>3, <2>4, <2>6
<1>12. ASSUME NEW v \in SemInits, SemCreateFill(t, v) PROVE SchedTypes' /\ IpcLocals' /\ SemTable'
  <2> DEFINE w == IF v < 0 THEN 0 ELSE v
  <2>1. arg[t] \in Sems /\ w \in 0 .. MaxValue
    BY <1>3, <1>12, IpcAssumption DEF SemCreateFill, At, IpcLocals
  <2>2. /\ sem' = [sem EXCEPT ![arg[t]].value = w, ![arg[t]].q = EmptyQueue]
        /\ credit' = [credit EXCEPT ![arg[t]] = w] /\ sem_count' = sem_count
        /\ Return(t) /\ UNCHANGED <<tableVars, listVars>>
    BY <1>12 DEF SemCreateFill, StartValue
  <2> HIDE DEF w
  <2>3. SemTable'
    BY <1>4, <1>5, <2>1, <2>2 DEF SemTable, NoWaiterWithUnits
  <2>4. QED
    BY <1>3, <2>2, <2>3, LocalsReturn, QuietReturnTypes
<1>13. CASE SemWaitCli(t)
  <2> DEFINE s == arg[t]
  <2>1. s \in Sems
    BY <1>3, <1>13 DEF SemWaitCli, At, IpcLocals
  <2>2. CASE sem[s].value > 0
    <3>1. /\ sem' = [sem EXCEPT ![s].value = @ - 1] /\ Charge(s, -1) /\ Return(t)
          /\ UNCHANGED <<tableVars, listVars>> /\ sem_count' = sem_count
      BY <1>4, <1>13, <2>1, <2>2 DEF SemWaitCli
    <3>2. credit' \in [Sems -> Int]
      BY <1>9, <2>1, <3>1
    <3>3. sem[s].value - 1 \in 0 .. MaxValue
      BY <1>4, <1>5, <2>1, <2>2
    <3> HIDE DEF s
    <3>4. SemTable'
      BY <1>4, <2>1, <2>2, <3>1, <3>2, <3>3 DEF SemTable, NoWaiterWithUnits
    <3>5. QED
      BY <1>3, <3>1, <3>4, LocalsReturn, QuietReturnTypes
  <2>3. CASE ~(sem[s].value > 0)
    <3>1. /\ sem' = [sem EXCEPT ![s].q = EnqueueQ(@, t)] /\ BlockOn(t, sem[s].q, "sw_woken")
          /\ UNCHANGED <<sem_count, credit>>
      BY <1>4, <1>13, <2>1, <2>3 DEF SemWaitCli
    <3>2. EnqueueQ(sem[s].q, t) \in Queues
      BY <1>6, <2>1, EnqueueTypes DEF SchedTypes, SchedType, IpcInv
    <3>3. SchedTypes'
      BY <1>3, <1>6, <1>8, <2>1, <3>1, BlockOnTypes
    <3>4. Goto(t, "sw_woken") /\ UNCHANGED <<arg, val, buf>>
      BY <1>3, <3>1 DEF BlockOn
    <3>5. IpcLocals'
      BY <1>3, <2>1, <3>4, LocalsGoto
    <3> HIDE DEF s
    <3>6. SemTable'
      BY <1>4, <2>1, <2>3, <3>1, <3>2 DEF SemTable, NoWaiterWithUnits
    <3>7. QED
      BY <3>3, <3>5, <3>6
  <2>4. QED
    BY <2>2, <2>3
<1>14. CASE SemWaitWoken(t)
  <2>1. arg[t] \in Sems
    BY <1>3, <1>14 DEF SemWaitWoken, At, IpcLocals
  <2>2. /\ Charge(arg[t], -1) /\ Return(t) /\ UNCHANGED <<tableVars, listVars>>
        /\ UNCHANGED <<sem, sem_count>>
    BY <1>14 DEF SemWaitWoken
  <2>3. credit' \in [Sems -> Int]
    BY <1>9, <2>1, <2>2
  <2>4. SemTable'
    BY <1>4, <2>2, <2>3 DEF SemTable, NoWaiterWithUnits
  <2>5. QED
    BY <1>3, <2>2, <2>4, LocalsReturn, QuietReturnTypes
<1>15. CASE SemPostCli(t)
  <2> DEFINE s == arg[t]
  <2>1. s \in Sems
    BY <1>3, <1>15 DEF SemPostCli, At, IpcLocals
  <2>2. /\ sem' = IF sem[s].q.head # NULL THEN [sem EXCEPT ![s].q = Popped(@)]
                                          ELSE [sem EXCEPT ![s].value = @ + 1]
        /\ WakeFirst(sem[s].q) /\ Charge(s, 1) /\ Return(t) /\ sem[s].value < MaxValue
        /\ UNCHANGED <<current, cpu, tableVars>> /\ sem_count' = sem_count
    <3>1. sem' = [sem EXCEPT ![s] = Posted(@)] /\ sem[s] = sem[s]
      BY <1>15 DEF SemPostCli
    <3>2. CASE sem[s].q.head # NULL
      BY <1>4, <1>15, <2>1, <3>1, <3>2 DEF SemPostCli, Posted
    <3>3. CASE sem[s].q.head = NULL
      BY <1>4, <1>15, <2>1, <3>1, <3>3 DEF SemPostCli, Posted
    <3>4. QED
      BY <3>2, <3>3
  <2>3. credit' \in [Sems -> Int]
    BY <1>9, <2>1, <2>2
  <2>4. Popped(sem[s].q) \in Queues
    BY <1>3, <1>6, <2>1, PoppedType
  <2>5. SchedTypes' /\ IpcLocals'
    <3>1. /\ state' \in [Slots -> States] /\ next' \in [Slots -> Slots \cup {NULL}]
          /\ rq' \in Queues
      BY <1>3, <1>6, <2>1, <2>2, WakeTypes
    <3>2. QED
      BY <1>3, <2>2, <3>1, LocalsReturn, ReturnStepTypes
  <2> HIDE DEF s
  <2>6. SemTable'
    <3>1. CASE sem[s].q.head # NULL
      BY <1>4, <2>1, <2>2, <2>3, <2>4, <3>1 DEF SemTable, NoWaiterWithUnits
    <3>2. CASE sem[s].q.head = NULL
      <4>1. sem' = [sem EXCEPT ![s].value = @ + 1] /\ sem[s].value + 1 \in 0 .. MaxValue
        BY <1>4, <1>5, <2>1, <2>2, <3>2
      <4>2. QED
        BY <1>4, <2>1, <2>2, <2>3, <3>2, <4>1 DEF SemTable, NoWaiterWithUnits
    <3>3. QED
      BY <3>1, <3>2
  <2>7. QED
    BY <2>5, <2>6
<1>16. CASE SemDestroyWake(t)
  <2> DEFINE s == arg[t]
  <2>1. s \in Sems
    BY <1>3, <1>16 DEF SemDestroyWake, At, IpcLocals
  <2>2. /\ sem' = [sem EXCEPT ![s].q.head = next[@]] /\ sem[s].q.head # NULL
        /\ WakeFirst(sem[s].q) /\ UNCHANGED <<tableVars, current, cpu, pc, arg, val>>
        /\ UNCHANGED <<sem_count, credit>>
    BY <1>16 DEF SemDestroyWake
  <2>3. SchedTypes'
    <3>1. /\ state' \in [Slots -> States] /\ next' \in [Slots -> Slots \cup {NULL}]
          /\ rq' \in Queues
      BY <1>3, <1>6, <2>1, <2>2, WakeTypes
    <3>2. QED
      BY <1>3, <2>2, <3>1 DEF SchedTypes, SchedType, ProcLocals, tableVars
  <2>4. IpcLocals'
    BY <1>3, <2>2 DEF IpcLocals
  <2>5. next[sem[s].q.head] \in Slots \cup {NULL}
    BY <1>3, <1>6, <2>1, <2>2 DEF SchedTypes, SchedType, Queues
  <2> HIDE DEF s
  <2>6. sem[s].value = 0
    BY <1>4, <2>1, <2>2
  <2>7. [sem[s].q EXCEPT !.head = next[@]] \in Queues
    BY <1>6, <2>1, <2>5 DEF Queues
  <2>8. sem' = [sem EXCEPT ![s].q = [sem[s].q EXCEPT !.head = next[@]]]
    BY <1>4, <2>1, <2>2
  <2>9. SemTable'
    BY <1>4, <2>1, <2>2, <2>6, <2>7, <2>8 DEF SemTable, NoWaiterWithUnits
  <2>10. QED
    BY <2>3, <2>4, <2>9
<1>17. CASE SemDestroyFree(t)
  <2>1. arg[t] \in Sems
    BY <1>3, <1>17 DEF SemDestroyFree, At, IpcLocals
  <2>2. /\ sem' = [sem EXCEPT ![arg[t]] = [id |-> -1, value |-> 0, q |-> EmptyQueue]]
        /\ credit' = [credit EXCEPT ![arg[t]] = 0] /\ sem_count' = sem_count
        /\ Return(t) /\ UNCHANGED <<tableVars, listVars>>
    BY <1>17 DEF SemDestroyFree
  <2>3. -1 \in -1 .. MaxIds /\ 0 \in 0 .. MaxValue
    BY <1>5
  <2>4. [id |-> -1, value |-> 0, q |-> EmptyQueue]
            \in [id : -1 .. MaxIds, value : 0 .. MaxValue, q : Queues]
    BY <1>5, <2>3
  <2>5. SemTable'
    BY <1>4, <1>5, <2>1, <2>2, <2>4 DEF SemTable, NoWaiterWithUnits
  <2>6. QED
    BY <1>3, <2>2, <2>5, LocalsReturn, QuietReturnTypes
<1>18. QED
  BY <1>10, <1>11, <1>12, <1>13, <1>14, <1>15, <1>16, <1>17

\* Emptying a ring, adding a message, taking one and changing a wait list keep
\* one entry of the message queue table well typed and in order.
MqEntry(m) ==
    /\ m \in [id : -1 .. MaxIds, msgs : [Ring -> Messages \cup {NoMessage}],
              head : Ring, tail : Ring, count : Int, recvq : Queues, sendq : Queues]
    /\ m.count \in 0 .. MSGQUEUE_SIZE
    /\ m.tail = (m.head + m.count) % MSGQUEUE_SIZE

\* What the table of message queues says of one of them.
LEMMA EntryOf ==
    ASSUME MqTable, NEW m \in Mqs PROVE MqEntry(mq[m])
BY DEF MqTable, RingInOrder, MqEntry

\* Storing a legal entry keeps the table legal.
LEMMA EntryChanged ==
    ASSUME MqTable, NEW m \in Mqs, NEW e, MqEntry(e), mq' = [mq EXCEPT ![m] = e],
           mq_count' \in 0 .. MaxIds
    PROVE  MqTable'
BY DEF MqTable, RingInOrder, MqEntry

\* Creating or destroying a queue leaves a legal, empty entry.
LEMMA EmptiedEntry ==
    ASSUME NEW m, MqEntry(m), NEW i \in -1 .. MaxIds
    PROVE  MqEntry(Emptied(i, m))
<1>1. MSGQUEUE_SIZE \in Nat \ {0} /\ EmptyQueue \in Queues
  BY IpcAssumption DEF EmptyQueue, Queues
<1>2. 0 \in Ring /\ 0 \in 0 .. MSGQUEUE_SIZE /\ 0 \in 0 .. MSGQUEUE_SIZE - 1
  BY <1>1 DEF Ring
<1>3. 0 = (0 + 0) % MSGQUEUE_SIZE
  BY <1>1, <1>2, ModSmall
<1>4. m.msgs \in [Ring -> Messages \cup {NoMessage}]
  BY DEF MqEntry
<1>5. QED
  BY <1>1, <1>2, <1>3, <1>4 DEF Emptied, MqEntry

\* msg_send leaves the ring and its indices legal.
LEMMA PushedEntry ==
    ASSUME SchedTypes, NEW m, MqEntry(m), NEW x \in Messages, m.count < MSGQUEUE_SIZE
    PROVE  MqEntry(Pushed(m, x))
<1>1. /\ MSGQUEUE_SIZE \in Nat \ {0} /\ m.head \in 0 .. MSGQUEUE_SIZE - 1
      /\ m.count \in 0 .. MSGQUEUE_SIZE - 1
  BY IpcAssumption DEF MqEntry, Ring
<1>2. /\ (m.tail + 1) % MSGQUEUE_SIZE = (m.head + (m.count + 1)) % MSGQUEUE_SIZE
      /\ (m.tail + 1) % MSGQUEUE_SIZE \in Ring
  BY <1>1, PushPlace DEF MqEntry, Ring
<1>3. Popped(m.recvq) \in Queues
  BY PoppedType DEF MqEntry
<1>4. m.count + 1 \in 0 .. MSGQUEUE_SIZE /\ m.count + 1 \in Int
  BY <1>1
<1>5. [m.msgs EXCEPT ![m.tail] = x] \in [Ring -> Messages \cup {NoMessage}]
  BY DEF MqEntry
<1>6. QED
  BY <1>2, <1>3, <1>4, <1>5 DEF Pushed, MqEntry

\* msg_recv leaves the ring and its indices legal.
LEMMA PulledEntry ==
    ASSUME SchedTypes, NEW m, MqEntry(m), m.count > 0
    PROVE  MqEntry(Pulled(m))
<1>1. /\ MSGQUEUE_SIZE \in Nat \ {0} /\ m.head \in 0 .. MSGQUEUE_SIZE - 1
      /\ m.count \in 1 .. MSGQUEUE_SIZE
  BY IpcAssumption DEF MqEntry, Ring
<1>2. /\ (((m.head + 1) % MSGQUEUE_SIZE) + (m.count - 1)) % MSGQUEUE_SIZE
            = (m.head + m.count) % MSGQUEUE_SIZE
      /\ (m.head + 1) % MSGQUEUE_SIZE \in Ring
  BY <1>1, PullPlace DEF Ring
<1>3. Popped(m.sendq) \in Queues
  BY PoppedType DEF MqEntry
<1>4. m.count - 1 \in 0 .. MSGQUEUE_SIZE /\ m.count - 1 \in Int
  BY <1>1
<1>5. QED
  BY <1>2, <1>3, <1>4 DEF Pulled, MqEntry

\* Changing only the wait lists of a queue keeps its ring.
LEMMA WaitListEntry ==
    ASSUME NEW m, MqEntry(m), NEW q \in Queues, NEW id \in -1 .. MaxIds
    PROVE  /\ MqEntry([m EXCEPT !.recvq = q]) /\ MqEntry([m EXCEPT !.sendq = q])
           /\ MqEntry([m EXCEPT !.id = id])
BY DEF MqEntry

\* Task t between its lookup and its return, in a message queue call.
LEMMA MsgStepKeepsInv ==
    ASSUME IpcInv, NEW t \in Slots,
           \/ MsgCreateLoad(t) \/ MsgCreateId(t) \/ MsgCreateFill(t)
           \/ MsgSendCli(t) \/ MsgRecvCli(t)
           \/ MsgDestroyRecv(t) \/ MsgDestroySend(t) \/ MsgDestroyFree(t)
    PROVE  IpcInv'
<1> DEFINE m == arg[t]
<1>1. UNCHANGED <<sem, sem_count, credit>>
  BY DEF MsgCreateLoad, MsgCreateId, MsgCreateFill, MsgSendCli, MsgRecvCli,
         MsgDestroyRecv, MsgDestroySend, MsgDestroyFree, ipcVars
<1>2. SemTable'
  BY <1>1, SemUntouched DEF IpcInv
<1>3. SchedTypes /\ IpcLocals /\ MqTable /\ Buffers
  BY DEF IpcInv
<1>4. m \in Mqs
  BY <1>3 DEF MsgCreateLoad, MsgCreateId, MsgCreateFill, MsgSendCli, MsgRecvCli,
              MsgDestroyRecv, MsgDestroySend, MsgDestroyFree, Load, At, IpcLocals
<1>5. MqEntry(mq[m]) /\ mq[m].recvq \in Queues /\ mq[m].sendq \in Queues
  <2>1. MqEntry(mq[m])
    BY <1>3, <1>4, EntryOf
  <2>2. QED
    BY <2>1 DEF MqEntry
<1>6. /\ mq_count \in 0 .. MaxIds /\ mq \in [Mqs -> [id : -1 .. MaxIds,
                       msgs : [Ring -> Messages \cup {NoMessage}],
                       head : Ring, tail : Ring, count : Int,
                       recvq : Queues, sendq : Queues]]
      /\ MaxIds \in Nat
  BY <1>3, IpcAssumption DEF MqTable
<1>7. SUFFICES SchedTypes' /\ IpcLocals' /\ MqTable' /\ Buffers'
  BY <1>2 DEF IpcInv
<1>8. {"mc_id", "mc_fill", "ms_cli", "mr_cli", "md_send"} \subseteq Labels \ TypedAt
  BY DEF Labels, IpcLabels, CliLabels, TypedAt
<1> HIDE DEF m
<1>9. CASE MsgCreateLoad(t)
  <2>1. Load(t, "mc_load", mq_count, "mc_id") /\ mq_count \in 0 .. MaxIds - 1
    BY <1>6, <1>9 DEF MsgCreateLoad
  <2>2. UNCHANGED <<mq, mq_count, buf, got>>
    BY <1>9 DEF MsgCreateLoad, ipcVars
  <2>3. IpcLocals'
    <3>1. arg[t] \in Mqs /\ buf' = buf
      BY <1>4, <2>2 DEF m
    <3>2. QED
      BY <1>3, <2>1, <3>1, LocalsLoad
  <2>4. SchedTypes'
    BY <1>3, <1>8, <2>1, LoadStepTypes
  <2>5. QED
    BY <1>3, <2>2, <2>3, <2>4, MqUntouched, BuffersUntouched
<1>10. CASE MsgCreateId(t)
  <2>1. val[t] \in 0 .. MaxIds - 1
    BY <1>3, <1>10 DEF MsgCreateId, At, IpcLocals
  <2>2. /\ Goto(t, "mc_fill") /\ UNCHANGED <<arg, val, buf>> /\ UNCHANGED <<buf, got>>
        /\ mq' = [mq EXCEPT ![m].id = val[t]] /\ mq_count' = val[t] + 1
    BY <1>10 DEF MsgCreateId, m
  <2>3. IpcLocals'
    BY <1>3, <1>4, <2>2, LocalsGoto DEF m
  <2>4. SchedTypes'
    BY <1>3, <1>8, <1>10, LocalStepTypes
       DEF MsgCreateId, Goto, SchedTypes, SchedType, listVars
  <2>5. /\ mq' = [mq EXCEPT ![m] = [mq[m] EXCEPT !.id = val[t]]]
        /\ mq_count' \in 0 .. MaxIds /\ val[t] \in -1 .. MaxIds
    BY <1>6, <2>1, <2>2
  <2>6. MqEntry([mq[m] EXCEPT !.id = val[t]])
    BY <1>5, <2>5, WaitListEntry
  <2>7. MqTable'
    BY <1>3, <1>4, <2>5, <2>6, EntryChanged
  <2>8. QED
    BY <1>3, <2>2, <2>3, <2>4, <2>7, BuffersUntouched
<1>11. CASE MsgCreateFill(t)
  <2>1. /\ mq' = [mq EXCEPT ![m] = Emptied(mq[m].id, mq[m])] /\ mq_count' \in 0 .. MaxIds
        /\ Return(t) /\ UNCHANGED <<tableVars, listVars>> /\ UNCHANGED <<buf, got>>
    BY <1>4, <1>6, <1>11 DEF MsgCreateFill, m
  <2>2. MqEntry(Emptied(mq[m].id, mq[m]))
    BY <1>4, <1>5, <1>6, EmptiedEntry
  <2>3. MqTable'
    BY <1>3, <1>4, <2>1, <2>2, EntryChanged
  <2>4. QED
    BY <1>3, <2>1, <2>3, LocalsReturn, QuietReturnTypes, BuffersUntouched
<1>12. CASE MsgSendCli(t)
  <2>1. CASE mq[m].count >= MSGQUEUE_SIZE
    <3>1. /\ mq' = [mq EXCEPT ![m].sendq = EnqueueQ(@, t)] /\ BlockOn(t, mq[m].sendq, "ms_cli")
          /\ UNCHANGED <<mq_count, buf, got>>
      BY <1>5, <1>12, <2>1, IpcAssumption DEF MsgSendCli, m, MqEntry
    <3>2. EnqueueQ(mq[m].sendq, t) \in Queues
      BY <1>3, <1>5, EnqueueTypes DEF SchedTypes, SchedType
    <3>3. MqEntry([mq[m] EXCEPT !.sendq = EnqueueQ(mq[m].sendq, t)])
      <4>1. mq[m].id \in -1 .. MaxIds
        BY <1>4, <1>6
      <4>2. QED
        BY <1>5, <3>2, <4>1, WaitListEntry
    <3>4. mq' = [mq EXCEPT ![m] = [mq[m] EXCEPT !.sendq = EnqueueQ(mq[m].sendq, t)]]
      BY <1>4, <1>6, <3>1
    <3>5. MqTable'
      BY <1>3, <1>4, <1>6, <3>1, <3>3, <3>4, EntryChanged
    <3>6. SchedTypes'
      BY <1>3, <1>5, <1>8, <3>1, BlockOnTypes
    <3>7. Goto(t, "ms_cli") /\ UNCHANGED <<arg, val, buf>> /\ pc[t] = "ms_cli"
      BY <1>12, <3>1 DEF BlockOn, MsgSendCli, At
    <3>8. IpcLocals'
      BY <1>3, <1>4, <3>7, LocalsGoto DEF m
    <3>9. QED
      BY <1>3, <3>1, <3>5, <3>6, <3>8, BuffersUntouched
  <2>2. CASE ~(mq[m].count >= MSGQUEUE_SIZE)
    <3>1. /\ mq' = [mq EXCEPT ![m] = Pushed(@, buf[t])] /\ WakeFirst(mq[m].recvq)
          /\ buf' = [buf EXCEPT ![t] = NoMessage] /\ Return(t)
          /\ UNCHANGED <<current, cpu, tableVars>> /\ UNCHANGED <<mq_count, got>>
      BY <1>5, <1>12, <2>2, IpcAssumption DEF MsgSendCli, m, MqEntry
    <3>2. buf[t] \in Messages
      BY <1>3, <1>12 DEF MsgSendCli, At, IpcLocals
    <3>3. MqEntry(Pushed(mq[m], buf[t]))
      <4>1. mq[m].count < MSGQUEUE_SIZE
        BY <1>5, <2>2, IpcAssumption DEF MqEntry
      <4>2. QED
        BY <1>3, <1>5, <3>2, <4>1, PushedEntry
    <3>4. mq' = [mq EXCEPT ![m] = Pushed(mq[m], buf[t])]
      BY <1>4, <1>6, <3>1
    <3>5. MqTable'
      BY <1>3, <1>4, <1>6, <3>1, <3>3, <3>4, EntryChanged
    <3>6. Buffers' /\ \A u \in Slots : u # t => buf'[u] = buf[u]
      BY <1>3, <3>1 DEF Buffers
    <3>7. /\ state' \in [Slots -> States] /\ next' \in [Slots -> Slots \cup {NULL}]
          /\ rq' \in Queues
      BY <1>3, <1>5, <3>1, WakeTypes
    <3>8. QED
      BY <1>3, <3>1, <3>5, <3>6, <3>7, LocalsReturn, ReturnStepTypes
  <2>3. QED
    BY <2>1, <2>2
<1>13. CASE MsgRecvCli(t)
  <2>1. CASE mq[m].count <= 0
    <3>1. /\ mq' = [mq EXCEPT ![m].recvq = EnqueueQ(@, t)] /\ BlockOn(t, mq[m].recvq, "mr_cli")
          /\ UNCHANGED <<mq_count, buf, got>>
      BY <1>5, <1>13, <2>1 DEF MsgRecvCli, m, MqEntry
    <3>2. EnqueueQ(mq[m].recvq, t) \in Queues
      BY <1>3, <1>5, EnqueueTypes DEF SchedTypes, SchedType
    <3>3. MqEntry([mq[m] EXCEPT !.recvq = EnqueueQ(mq[m].recvq, t)])
      <4>1. mq[m].id \in -1 .. MaxIds
        BY <1>4, <1>6
      <4>2. QED
        BY <1>5, <3>2, <4>1, WaitListEntry
    <3>4. mq' = [mq EXCEPT ![m] = [mq[m] EXCEPT !.recvq = EnqueueQ(mq[m].recvq, t)]]
      BY <1>4, <1>6, <3>1
    <3>5. MqTable'
      BY <1>3, <1>4, <1>6, <3>1, <3>3, <3>4, EntryChanged
    <3>6. SchedTypes'
      BY <1>3, <1>5, <1>8, <3>1, BlockOnTypes
    <3>7. Goto(t, "mr_cli") /\ UNCHANGED <<arg, val, buf>>
      BY <3>1 DEF BlockOn
    <3>8. IpcLocals'
      BY <1>3, <1>4, <3>7, LocalsGoto DEF m
    <3>9. QED
      BY <1>3, <3>1, <3>5, <3>6, <3>8, BuffersUntouched
  <2>2. CASE ~(mq[m].count <= 0)
    <3>1. /\ mq' = [mq EXCEPT ![m] = Pulled(@)] /\ WakeFirst(mq[m].sendq)
          /\ got' = [got EXCEPT ![t] = Oldest(mq[m])] /\ Return(t)
          /\ UNCHANGED <<current, cpu, tableVars>> /\ UNCHANGED <<mq_count, buf>>
      BY <1>5, <1>13, <2>2 DEF MsgRecvCli, m, MqEntry
    <3>2. Oldest(mq[m]) \in Messages \cup {NoMessage}
      BY <1>5 DEF MqEntry, Oldest
    <3>3. MqEntry(Pulled(mq[m]))
      <4>1. mq[m].count > 0
        BY <1>5, <2>2 DEF MqEntry
      <4>2. QED
        BY <1>3, <1>5, <4>1, PulledEntry
    <3>4. mq' = [mq EXCEPT ![m] = Pulled(mq[m])]
      BY <1>4, <1>6, <3>1
    <3>5. MqTable'
      BY <1>3, <1>4, <1>6, <3>1, <3>3, <3>4, EntryChanged
    <3>6. Buffers' /\ \A u \in Slots : u # t => buf'[u] = buf[u]
      BY <1>3, <3>1, <3>2 DEF Buffers
    <3>7. /\ state' \in [Slots -> States] /\ next' \in [Slots -> Slots \cup {NULL}]
          /\ rq' \in Queues
      BY <1>3, <1>5, <3>1, WakeTypes
    <3>8. QED
      BY <1>3, <3>1, <3>5, <3>6, <3>7, LocalsReturn, ReturnStepTypes
  <2>3. QED
    BY <2>1, <2>2
<1>14. CASE MsgDestroyRecv(t)
  <2>1. /\ WakeFirst(mq[m].recvq) /\ UNCHANGED <<tableVars, current, cpu, arg, val>>
        /\ UNCHANGED <<mq_count, buf, got>>
    BY <1>14 DEF MsgDestroyRecv, m
  <2>2. /\ state' \in [Slots -> States] /\ next' \in [Slots -> Slots \cup {NULL}]
        /\ rq' \in Queues /\ next \in [Slots -> Slots \cup {NULL}]
    BY <1>3, <1>5, <2>1, WakeTypes DEF SchedTypes, SchedType
  <2>3. CASE mq[m].recvq.head # NULL
    <3>1. mq' = [mq EXCEPT ![m].recvq.head = next[@]] /\ pc' = pc
      BY <1>14, <2>3 DEF MsgDestroyRecv, m
    <3>2. SchedTypes' /\ IpcLocals'
      BY <1>3, <2>1, <2>2, <3>1 DEF SchedTypes, SchedType, ProcLocals, IpcLocals, tableVars
    <3>3. [mq[m].recvq EXCEPT !.head = next[@]] \in Queues /\ mq[m].id \in -1 .. MaxIds
      BY <1>4, <1>5, <1>6, <2>2, <2>3 DEF Queues
    <3>4. mq' = [mq EXCEPT ![m] = [mq[m] EXCEPT !.recvq = [mq[m].recvq EXCEPT !.head = next[@]]]]
      BY <1>4, <1>6, <3>1
    <3>5. MqEntry([mq[m] EXCEPT !.recvq = [mq[m].recvq EXCEPT !.head = next[@]]])
      BY <1>5, <3>3, WaitListEntry
    <3>6. MqTable'
      BY <1>3, <1>4, <1>6, <2>1, <3>4, <3>5, EntryChanged
    <3>7. QED
      BY <1>3, <2>1, <3>2, <3>6, BuffersUntouched
  <2>4. CASE mq[m].recvq.head = NULL
    <3>1. mq' = [mq EXCEPT ![m].recvq = EmptyQueue] /\ Goto(t, "md_send")
      BY <1>14, <2>4 DEF MsgDestroyRecv, m
    <3>2. SchedTypes'
      <4>1. /\ pc' = [pc EXCEPT ![t] = "md_send"] /\ UNCHANGED tableVars
            /\ current' \in Slots /\ cpu' \in CpuStates
            /\ arg' \in [Slots -> Int] /\ val' \in [Slots -> Int]
            /\ \A u \in Slots : u # t => arg'[u] = arg[u] /\ val'[u] = val[u]
        BY <1>3, <2>1, <3>1 DEF Goto, SchedTypes, SchedType
      <4>2. QED
        BY <1>3, <1>8, <2>2, <4>1, LocalStepTypes
    <3>3. IpcLocals'
      BY <1>3, <1>4, <2>1, <3>1, LocalsGoto DEF m
    <3>4. EmptyQueue \in Queues /\ mq[m].id \in -1 .. MaxIds
      BY <1>4, <1>6 DEF EmptyQueue, Queues
    <3>5. MqEntry([mq[m] EXCEPT !.recvq = EmptyQueue])
      BY <1>5, <3>4, WaitListEntry
    <3>6. MqTable'
      BY <1>3, <1>4, <1>6, <2>1, <3>1, <3>5, EntryChanged
    <3>7. QED
      BY <1>3, <2>1, <3>2, <3>3, <3>6, BuffersUntouched
  <2>5. QED
    BY <2>3, <2>4
<1>15. CASE MsgDestroySend(t)
  <2>1. /\ WakeFirst(mq[m].sendq) /\ UNCHANGED <<tableVars, current, cpu, pc, arg, val>>
        /\ UNCHANGED <<mq_count, buf, got>> /\ mq[m].sendq.head # NULL
        /\ mq' = [mq EXCEPT ![m].sendq.head = next[@]]
    BY <1>15 DEF MsgDestroySend, m
  <2>2. /\ state' \in [Slots -> States] /\ next' \in [Slots -> Slots \cup {NULL}]
        /\ rq' \in Queues /\ next \in [Slots -> Slots \cup {NULL}]
    BY <1>3, <1>5, <2>1, WakeTypes DEF SchedTypes, SchedType
  <2>3. SchedTypes' /\ IpcLocals'
    BY <1>3, <2>1, <2>2 DEF SchedTypes, SchedType, ProcLocals, IpcLocals, tableVars
  <2>4. [mq[m].sendq EXCEPT !.head = next[@]] \in Queues /\ mq[m].id \in -1 .. MaxIds
    BY <1>4, <1>5, <1>6, <2>1, <2>2 DEF Queues
  <2>5. mq' = [mq EXCEPT ![m] = [mq[m] EXCEPT !.sendq = [mq[m].sendq EXCEPT !.head = next[@]]]]
    BY <1>4, <1>6, <2>1
  <2>6. MqEntry([mq[m] EXCEPT !.sendq = [mq[m].sendq EXCEPT !.head = next[@]]])
    BY <1>5, <2>4, WaitListEntry
  <2>7. MqTable'
    BY <1>3, <1>4, <1>6, <2>1, <2>5, <2>6, EntryChanged
  <2>8. QED
    BY <1>3, <2>1, <2>3, <2>7, BuffersUntouched
<1>16. CASE MsgDestroyFree(t)
  <2>1. /\ mq' = [mq EXCEPT ![m] = Emptied(-1, mq[m])] /\ mq_count' \in 0 .. MaxIds
        /\ Return(t) /\ UNCHANGED <<tableVars, listVars>> /\ UNCHANGED <<buf, got>>
    BY <1>4, <1>6, <1>16 DEF MsgDestroyFree, m
  <2>2. -1 \in -1 .. MaxIds
    BY <1>6
  <2>3. MqEntry(Emptied(-1, mq[m]))
    BY <1>5, <2>2, EmptiedEntry
  <2>4. MqTable'
    BY <1>3, <1>4, <2>1, <2>3, EntryChanged
  <2>5. QED
    BY <1>3, <2>1, <2>4, LocalsReturn, QuietReturnTypes, BuffersUntouched
<1>17. QED
  BY <1>9, <1>10, <1>11, <1>12, <1>13, <1>14, <1>15, <1>16

-----------------------------------------------------------------------------
(* The theorems.                                                             *)

\* ipc_init establishes the invariant.
LEMMA InitKeepsInv == Init => IpcInv
<1> SUFFICES ASSUME Init PROVE IpcInv
  OBVIOUS
<1>1. /\ MAX_TASKS \in Nat \ {0} /\ MaxPid \in Nat \ {0} /\ Family \in 1 .. MAX_TASKS
      /\ Family <= MaxPid
      /\ MaxIds \in Nat /\ MaxValue \in Nat /\ MSGQUEUE_SIZE \in Nat \ {0}
  BY SlotsAssumption, IpcAssumption
<1>2. SchedType(Labels)
  <2>1. pid \in [Slots -> -1 .. MaxPid] /\ parent \in [Slots -> -1 .. MaxPid]
    BY <1>1 DEF Init, InitFamily, Slots
  <2>2. state \in [Slots -> States] /\ pc \in [Slots -> Labels]
    BY DEF Init, InitFamily, States, Labels, ProcLabels
  <2>3. next \in [Slots -> Slots \cup {NULL}] /\ rq \in Queues
    BY <1>1 DEF Init, InitFamily, Slots, Queues, EmptyQueue, NULL
  <2>4. current \in Slots /\ task_count \in Int /\ next_pid \in 1 .. MaxPid /\ cpu \in CpuStates
    BY <1>1 DEF Init, InitFamily, Slots, CpuStates
  <2>5. arg \in [Slots -> Int] /\ val \in [Slots -> Int]
    BY DEF Init, InitFamily, NULL
  <2>6. QED
    BY <2>1, <2>2, <2>3, <2>4, <2>5 DEF SchedType
<1>3. ProcLocals /\ IpcLocals
  BY DEF Init, InitFamily, ProcLocals, IpcLocals
<1>4. EmptyQueue \in Queues /\ EmptyQueue.head = NULL
  BY DEF EmptyQueue, Queues
<1>5. -1 \in -1 .. MaxIds /\ 0 \in 0 .. MaxValue /\ 0 \in 0 .. MaxIds
  BY <1>1
<1>6. SemTable
  <2>1. [id |-> -1, value |-> 0, q |-> EmptyQueue]
            \in [id : -1 .. MaxIds, value : 0 .. MaxValue, q : Queues]
    BY <1>4, <1>5
  <2>2. QED
    BY <1>5, <2>1 DEF Init, InitIpc, EmptyTables, SemTable, NoWaiterWithUnits
<1>7. MqTable
  <2> DEFINE e == [id |-> -1, msgs |-> [i \in Ring |-> NoMessage],
                   head |-> 0, tail |-> 0, count |-> 0,
                   recvq |-> EmptyQueue, sendq |-> EmptyQueue]
  <2>1. 0 \in Ring /\ 0 \in 0 .. MSGQUEUE_SIZE /\ 0 \in 0 .. MSGQUEUE_SIZE - 1
    BY <1>1 DEF Ring
  <2>2. 0 = (0 + 0) % MSGQUEUE_SIZE
    BY <1>1, <2>1, ModSmall
  <2>3. MqEntry(e)
    BY <1>4, <1>5, <2>1, <2>2 DEF MqEntry
  <2>4. mq = [m \in Mqs |-> e] /\ mq_count = 0
    BY DEF Init, InitIpc, EmptyTables
  <2> HIDE DEF e
  <2>5. QED
    BY <1>5, <2>3, <2>4 DEF MqTable, RingInOrder, MqEntry
<1>8. Buffers
  BY DEF Init, InitIpc, EmptyTables, Buffers
<1>9. QED
  BY <1>2, <1>3, <1>6, <1>7, <1>8 DEF IpcInv, SchedTypes

\* Every step of the composed system keeps the invariant.
LEMMA NextKeepsInv == IpcInv /\ [IpcNext]_allVars => IpcInv'
<1> SUFFICES ASSUME IpcInv, [IpcNext]_allVars PROVE IpcInv'
  OBVIOUS
<1>1. CASE UNCHANGED allVars
  BY <1>1 DEF allVars, vars, ipcVars, IpcInv, SchedTypes, SchedType, ProcLocals, SemTable,
              NoWaiterWithUnits, MqTable, RingInOrder, Buffers, IpcLocals
<1>2. CASE SchedTick \/ \E t \in Slots : SchedCall(t) \/ SchedStep(t)
  BY <1>2, SchedulerKeepsInv
<1>3. ASSUME NEW t \in Slots, IpcCall(t) \/ IpcStep(t) PROVE IpcInv'
  BY <1>3, IpcCallKeepsInv, SemStepKeepsInv, MsgStepKeepsInv DEF IpcStep
<1>4. QED
  BY <1>1, <1>2, <1>3 DEF IpcNext

\* Whatever the sizes of the tables, the calls made and the places where ticks
\* arrive, every IPC variable keeps its type.
THEOREM IpcTypeCorrect == IpcSpec => []IpcTypeOK
<1>1. IpcInv => IpcTypeOK
  BY DEF IpcInv, SchedTypes, SemTable, MqTable, Buffers, IpcTypeOK
<1>2. QED
  BY <1>1, InitKeepsInv, NextKeepsInv, PTL DEF IpcSpec

\* msg_queue_send and msg_queue_recv keep every ring in order, for every ring size.
THEOREM RingsStayInOrder == IpcSpec => []RingInOrder
<1>1. IpcInv => RingInOrder
  BY DEF IpcInv, MqTable
<1>2. QED
  BY <1>1, InitKeepsInv, NextKeepsInv, PTL DEF IpcSpec

\* sem_wait, sem_post and sem_destroy leave no task waiting at a semaphore that
\* has units.
THEOREM UnitsAreNotKept == IpcSpec => []NoWaiterWithUnits
<1>1. IpcInv => NoWaiterWithUnits
  BY DEF IpcInv, SemTable
<1>2. QED
  BY <1>1, InitKeepsInv, NextKeepsInv, PTL DEF IpcSpec

\* Sleeping on a semaphore or a queue and being woken make no second task RUNNING.
LEMMA BlockOnRunning ==
    ASSUME SchedTypes, RunningIsCurrent, NEW t \in Slots, NEW q \in Queues, NEW l, BlockOn(t, q, l)
    PROVE  RunningIsCurrent'
<1> DEFINE st == [state EXCEPT ![t] = "BLOCKED"]
           nx == EnqueueNext(next, q, t)
<1>1. /\ st \in [Slots -> States] /\ nx \in [Slots -> Slots \cup {NULL}]
      /\ \A u \in Slots : st[u] = "RUNNING" => u = current
  BY EnqueueTypes DEF SchedTypes, SchedType, States, RunningIsCurrent
<1>2. scheduler_tick(st, nx, rq) /\ current \in Slots /\ rq \in Queues
  BY DEF BlockOn, SchedTypes, SchedType
<1> HIDE DEF st, nx
<1>3. QED
  BY <1>1, <1>2, TickRunning

\* Waking a waiter makes no second task RUNNING.
LEMMA WakeRunning ==
    ASSUME SchedTypes, RunningIsCurrent, NEW q \in Queues, WakeFirst(q), UNCHANGED current
    PROVE  RunningIsCurrent'
BY DEF WakeFirst, SchedTypes, SchedType, RunningIsCurrent, Queues

\* With semaphores and message queues in use, and ticks arriving wherever interrupts
\* are on, at most one task is RUNNING and it is the one that has the CPU.
THEOREM AtMostOneRunningIpc == IpcSpec => []RunningIsCurrent
<1>1. Init => RunningIsCurrent
  BY DEF Init, InitFamily, RunningIsCurrent
<1>2. IpcInv /\ RunningIsCurrent /\ [IpcNext]_allVars => RunningIsCurrent'
  <2> SUFFICES ASSUME IpcInv, RunningIsCurrent, [IpcNext]_allVars PROVE RunningIsCurrent'
    OBVIOUS
  <2>0. SchedTypes /\ SchedType(Labels) /\ ProcLocals
    BY DEF IpcInv, SchedTypes
  <2>1. CASE UNCHANGED allVars
    BY <2>1 DEF allVars, vars, RunningIsCurrent
  <2>2. CASE SchedTick \/ \E t \in Slots : SchedCall(t) \/ SchedStep(t)
    BY <2>0, <2>2, RunningStep DEF SchedTick, SchedCall, SchedStep
  <2>3. CASE UNCHANGED <<state, current>>
    BY <2>3 DEF RunningIsCurrent
  <2>4. ASSUME NEW t \in Slots, IpcCall(t) PROVE UNCHANGED <<state, current>>
    BY <2>4 DEF IpcCall, SysSemCreate, SysMsgCreate, SysSemWait, SysSemPost, SysSemDestroy,
       SysMsgRecv, SysMsgDestroy, SysMsgSend, Enter, listVars
  <2>5. ASSUME NEW t \in Slots,
               \/ SemCreateLoad(t) \/ SemCreateId(t) \/ (\E v \in SemInits : SemCreateFill(t, v))
               \/ SemWaitWoken(t) \/ SemDestroyFree(t)
               \/ MsgCreateLoad(t) \/ MsgCreateId(t) \/ MsgCreateFill(t) \/ MsgDestroyFree(t)
        PROVE  UNCHANGED <<state, current>>
    BY <2>5 DEF SemCreateLoad, SemCreateId, SemCreateFill, SemWaitWoken, SemDestroyFree,
       MsgCreateLoad, MsgCreateId, MsgCreateFill, MsgDestroyFree, Load, listVars
  <2>6. ASSUME NEW t \in Slots, SemWaitCli(t) \/ SemPostCli(t) \/ SemDestroyWake(t)
        PROVE  RunningIsCurrent'
    <3>1. sem[arg[t]].q \in Queues
      BY <2>6 DEF IpcInv, IpcLocals, SemTable, SemWaitCli, SemPostCli, SemDestroyWake, At
    <3>2. \/ WakeFirst(sem[arg[t]].q) /\ UNCHANGED current
          \/ BlockOn(t, sem[arg[t]].q, "sw_woken")
          \/ UNCHANGED <<state, current>>
      BY <2>6 DEF SemWaitCli, SemPostCli, SemDestroyWake, listVars
    <3>3. QED
      BY <2>0, <2>3, <3>1, <3>2, WakeRunning, BlockOnRunning
  <2>7. ASSUME NEW t \in Slots,
               MsgSendCli(t) \/ MsgRecvCli(t) \/ MsgDestroyRecv(t) \/ MsgDestroySend(t)
        PROVE  RunningIsCurrent'
    <3>1. mq[arg[t]].recvq \in Queues /\ mq[arg[t]].sendq \in Queues
      BY <2>7 DEF IpcInv, IpcLocals, MqTable, MsgSendCli, MsgRecvCli, MsgDestroyRecv,
                  MsgDestroySend, At
    <3>2. \E q \in {mq[arg[t]].recvq, mq[arg[t]].sendq}, l \in Labels :
             (WakeFirst(q) /\ UNCHANGED current) \/ BlockOn(t, q, l)
      BY <2>7 DEF MsgSendCli, MsgRecvCli, MsgDestroyRecv, MsgDestroySend,
                  Labels, IpcLabels
    <3>3. QED
      BY <2>0, <3>1, <3>2, WakeRunning, BlockOnRunning
  <2>8. QED
    BY <2>1, <2>2, <2>3, <2>4, <2>5, <2>6, <2>7 DEF IpcNext, IpcStep
<1>3. QED
  BY <1>1, <1>2, InitKeepsInv, NextKeepsInv, PTL DEF IpcSpec

-----------------------------------------------------------------------------
(* The rings implement the FIFO queues of MsgFifo.                           *)

\* The messages of a ring in the order in which they will be received.
Contents(e) == [i \in 1 .. e.count |-> e.msgs[(e.head + i - 1) % MSGQUEUE_SIZE]]

\* The i-th message from head is at head + i - 1, or that less the ring's size.
LEMMA PlaceOf ==
    ASSUME NEW e, MqEntry(e), NEW i \in 1 .. MSGQUEUE_SIZE
    PROVE  /\ (e.head + i - 1) % MSGQUEUE_SIZE
                = IF e.head + i - 1 < MSGQUEUE_SIZE THEN e.head + i - 1
                                                  ELSE e.head + i - 1 - MSGQUEUE_SIZE
           /\ (e.head + i - 1) % MSGQUEUE_SIZE \in Ring
<1> DEFINE S == MSGQUEUE_SIZE  h == e.head
<1>1. /\ S \in Nat \ {0} /\ h \in 0 .. S - 1 /\ i - 1 \in 0 .. S /\ Ring = 0 .. S - 1
      /\ h + i - 1 = h + (i - 1) /\ i \in 1 .. S
  BY IpcAssumption DEF MqEntry, Ring
<1> HIDE DEF S, h
<1>2. (h + (i - 1)) % S = IF h + (i - 1) < S THEN h + (i - 1) ELSE h + (i - 1) - S
  BY <1>1, TailPlace
<1>3. QED
  BY <1>1, <1>2 DEF S, h

\* The contents of a ring are a sequence of messages as long as its count.
LEMMA ContentsType ==
    ASSUME NEW e, MqEntry(e)
    PROVE  /\ Contents(e) \in Seq(Messages \cup {NoMessage})
           /\ Len(Contents(e)) = e.count
           /\ DOMAIN Contents(e) = 1 .. e.count
<1>1. e.count \in 0 .. MSGQUEUE_SIZE /\ e.msgs \in [Ring -> Messages \cup {NoMessage}]
  BY DEF MqEntry
<1>2. \A i \in 1 .. e.count : (e.head + i - 1) % MSGQUEUE_SIZE \in Ring
  BY <1>1, PlaceOf, IpcAssumption
<1>3. QED
  BY <1>1, <1>2, IpcAssumption DEF Contents

\* msg_queue_send appends: the place it writes is the one behind the last message,
\* and it is none of the places already in use.
LEMMA PushAppends ==
    ASSUME NEW e, MqEntry(e), NEW x \in Messages, e.count < MSGQUEUE_SIZE
    PROVE  Contents(Pushed(e, x)) = Append(Contents(e), x)
<1> DEFINE S == MSGQUEUE_SIZE  n == e.count  h == e.head  p == Pushed(e, x)
<1>1. /\ S \in Nat \ {0} /\ n \in 0 .. S - 1 /\ h \in Ring /\ e.tail \in Ring
      /\ e.msgs \in [Ring -> Messages \cup {NoMessage}] /\ e.tail = (h + n) % S
      /\ Ring = 0 .. S - 1
  BY IpcAssumption DEF MqEntry, Ring
<1>2. p.count = n + 1 /\ p.head = h /\ p.msgs = [e.msgs EXCEPT ![e.tail] = x]
  BY DEF Pushed, MqEntry
<1>3. ASSUME NEW i \in 1 .. n PROVE (h + i - 1) % S \in Ring /\ (h + i - 1) % S # e.tail
  <2>1. i \in 1 .. S /\ n + 1 \in 1 .. S /\ h + (n + 1) - 1 = h + n
    BY <1>1
  <2>2. /\ (h + i - 1) % S = (IF h + i - 1 < S THEN h + i - 1 ELSE h + i - 1 - S)
        /\ (h + i - 1) % S \in Ring
    BY <2>1, PlaceOf
  <2>3. (h + (n + 1) - 1) % S
            = IF h + (n + 1) - 1 < S THEN h + (n + 1) - 1 ELSE h + (n + 1) - 1 - S
    BY <2>1, PlaceOf
  <2> HIDE DEF S, n, h, p
  <2>4. e.tail = IF h + n < S THEN h + n ELSE h + n - S
    BY <1>1, <2>1, <2>3
  <2>5. QED
    BY <1>1, <2>2, <2>4
<1>4. Contents(p) = [i \in 1 .. n + 1 |-> p.msgs[(h + i - 1) % S]]
  BY <1>2 DEF Contents
<1>5. Contents(e) = [i \in 1 .. n |-> e.msgs[(h + i - 1) % S]] /\ Len(Contents(e)) = n
  BY ContentsType DEF Contents
<1>6. Append(Contents(e), x) = [i \in 1 .. n + 1 |-> IF i <= n THEN Contents(e)[i] ELSE x]
  BY <1>1, <1>5, ContentsType
<1>7. ASSUME NEW i \in 1 .. n + 1
      PROVE  p.msgs[(h + i - 1) % S] = IF i <= n THEN Contents(e)[i] ELSE x
  <2> HIDE DEF p, S, n, h
  <2>1. CASE i <= n
    <3>1. i \in 1 .. n
      BY <1>1, <2>1
    <3>2. QED
      BY <1>1, <1>2, <1>3, <1>5, <2>1, <3>1
  <2>2. CASE i = n + 1
    <3>1. h + i - 1 = h + n /\ ~(i <= n)
      BY <1>1, <2>2
    <3>2. QED
      BY <1>1, <1>2, <3>1
  <2>3. QED
    BY <1>1, <2>1, <2>2
<1>8. QED
  BY <1>4, <1>6, <1>7

\* The tail of a sequence given by a function is the function shifted by one.
LEMMA TailOfSequence ==
    ASSUME NEW T, NEW s \in Seq(T), s # << >>
    PROVE  Tail(s) = [i \in 1 .. Len(s) - 1 |-> s[i + 1]]
<1>1. /\ Tail(s) \in Seq(T) /\ Len(Tail(s)) = Len(s) - 1
      /\ \A i \in 1 .. Len(Tail(s)) : Tail(s)[i] = s[i + 1]
  BY HeadTailProperties
<1> DEFINE r == Tail(s)
<1>2. r \in Seq(T) /\ Len(r) = Len(s) - 1 /\ \A i \in 1 .. Len(r) : r[i] = s[i + 1]
  BY <1>1
<1> HIDE DEF r
<1>3. r = [i \in 1 .. Len(r) |-> r[i]]
  BY <1>2
<1>4. r = [i \in 1 .. Len(s) - 1 |-> s[i + 1]]
  BY <1>2, <1>3
<1>5. QED
  BY <1>4 DEF r

\* msg_queue_recv takes the oldest message and leaves the others in their order.
LEMMA PullTakesFirst ==
    ASSUME NEW e, MqEntry(e), e.count > 0
    PROVE  /\ Contents(e) # << >>
           /\ Oldest(e) = Head(Contents(e))
           /\ Contents(Pulled(e)) = Tail(Contents(e))
<1> DEFINE S == MSGQUEUE_SIZE  n == e.count  h == e.head  p == Pulled(e)
<1>1. /\ S \in Nat \ {0} /\ n \in 1 .. S /\ h \in Ring /\ Ring = 0 .. S - 1
  BY IpcAssumption DEF MqEntry, Ring
<1>2. p.count = n - 1 /\ p.head = (h + 1) % S /\ p.msgs = e.msgs
  BY DEF Pulled, MqEntry
<1>3. Contents(e) = [i \in 1 .. n |-> e.msgs[(h + i - 1) % S]] /\ Len(Contents(e)) = n
  BY ContentsType DEF Contents
<1>4. Contents(e) # << >>
  BY <1>1, <1>3
<1>5. Oldest(e) = Head(Contents(e))
  <2>1. Head(Contents(e)) = e.msgs[(h + 1 - 1) % S]
    BY <1>1, <1>3, ContentsType
  <2>2. h + 1 - 1 = h /\ h % S = h
    BY <1>1, ModSmall
  <2>3. QED
    BY <2>1, <2>2 DEF Oldest
<1>6. ASSUME NEW i \in 1 .. n - 1 PROVE (p.head + i - 1) % S = (h + (i + 1) - 1) % S
  <2>1. /\ i \in 1 .. S /\ i - 1 \in 0 .. S /\ i + 1 \in 1 .. S
        /\ h \in 0 .. S - 1
    BY <1>1
  <2>2. (h + 1) % S = IF h = S - 1 THEN 0 ELSE h + 1
    BY <1>1, ModNext
  <2>3. (h + 1) % S \in 0 .. S - 1
    BY <1>1, <2>2
  <2>4. (((h + 1) % S) + (i - 1)) % S
            = IF ((h + 1) % S) + (i - 1) < S THEN ((h + 1) % S) + (i - 1)
                                           ELSE ((h + 1) % S) + (i - 1) - S
    BY <1>1, <2>1, <2>3, TailPlace
  <2>5. (h + (i + 1) - 1) % S = IF h + (i + 1) - 1 < S THEN h + (i + 1) - 1
                                                       ELSE h + (i + 1) - 1 - S
    BY <2>1, PlaceOf
  <2> HIDE DEF p, S, n, h
  <2>6. p.head + i - 1 = ((h + 1) % S) + (i - 1)
    <3>1. (h + 1) % S \in Int /\ i \in Int
      BY <2>1, <2>3
    <3>2. QED
      BY <1>2, <3>1
  <2>7. CASE h = S - 1
    <3>1. ((h + 1) % S) + (i - 1) = i - 1 /\ h + (i + 1) - 1 - S = i - 1
          /\ i - 1 < S /\ ~(h + (i + 1) - 1 < S)
      BY <1>1, <2>1, <2>2, <2>7
    <3>2. QED
      BY <2>4, <2>5, <2>6, <3>1
  <2>8. CASE h # S - 1
    <3>1. ((h + 1) % S) + (i - 1) = h + (i + 1) - 1
      BY <1>1, <2>1, <2>2, <2>8
    <3>2. QED
      BY <2>4, <2>5, <2>6, <3>1
  <2>9. QED
    BY <2>7, <2>8
<1>7. Contents(p) = [i \in 1 .. n - 1 |-> e.msgs[(p.head + i - 1) % S]]
  BY <1>2 DEF Contents
<1>8. Tail(Contents(e)) = [i \in 1 .. n - 1 |-> Contents(e)[i + 1]]
  <2>1. Contents(e) \in Seq(Messages \cup {NoMessage})
    BY ContentsType
  <2>2. QED
    BY <1>3, <1>4, <2>1, TailOfSequence
<1>9. ASSUME NEW i \in 1 .. n - 1 PROVE e.msgs[(p.head + i - 1) % S] = Contents(e)[i + 1]
  <2>1. i + 1 \in 1 .. n
    BY <1>1
  <2>2. QED
    BY <1>3, <1>6, <2>1
<1>10. QED
  BY <1>4, <1>5, <1>7, <1>8, <1>9

\* A queue whose ring indices and messages are left alone holds what it held; an
\* emptied one holds nothing.
LEMMA QuietContents ==
    ASSUME NEW e, NEW f, e.count = f.count, e.head = f.head, e.msgs = f.msgs
    PROVE  Contents(e) = Contents(f)
BY DEF Contents

\* A ring with count 0 holds no message.
LEMMA EmptyContents == ASSUME NEW e, e.count = 0 PROVE Contents(e) = << >>
BY DEF Contents

\* The refinement mapping is the contents of every ring.
LEMMA QueuedIsContents ==
    [m \in Mqs |-> Queued(m)] = [m \in Mqs |-> Contents(mq[m])]
BY DEF Queued, Contents

\* When one ring changes, the others hold what they held.
LEMMA OneRingChanged ==
    ASSUME MqTable, NEW m \in Mqs, NEW e, mq' = [mq EXCEPT ![m] = e]
    PROVE  [k \in Mqs |-> Contents(mq'[k])]
             = [[k \in Mqs |-> Contents(mq[k])] EXCEPT ![m] = Contents(e)]
BY DEF MqTable

\* What a step of the kernel is in terms of FIFO queues.
FifoStep ==
    LET f == [m \in Mqs |-> Contents(mq[m])]
        g == [m \in Mqs |-> Contents(mq'[m])]
    IN  \/ g = f /\ got' = got
        \/ \E m \in Mqs : g = [f EXCEPT ![m] = << >>] /\ got' = got
        \/ \E m \in Mqs, x \in Messages :
               Len(f[m]) < MSGQUEUE_SIZE /\ g = [f EXCEPT ![m] = Append(f[m], x)] /\ got' = got
        \/ \E m \in Mqs, t \in Slots :
               /\ f[m] # << >> /\ got' = [got EXCEPT ![t] = Head(f[m])]
               /\ g = [f EXCEPT ![m] = Tail(f[m])]

\* Every step of ipc.c is a send, a receive or a reset of one queue, or invisible.
LEMMA StepsAreFifo ==
    ASSUME IpcInv, [IpcNext]_allVars
    PROVE  FifoStep
<1> DEFINE f == [m \in Mqs |-> Contents(mq[m])]
           g == [m \in Mqs |-> Contents(mq'[m])]
<1>0. MqTable /\ Buffers /\ IpcLocals
  BY DEF IpcInv
<1>1. CASE UNCHANGED <<mq, got>>
  BY <1>1 DEF FifoStep
<1>2. ASSUME NEW m \in Mqs, NEW e, mq' = [mq EXCEPT ![m] = e], UNCHANGED got,
             e.count = mq[m].count, e.head = mq[m].head, e.msgs = mq[m].msgs
      PROVE  FifoStep
  <2>1. Contents(e) = Contents(mq[m])
    BY <1>2, QuietContents
  <2>2. g = [f EXCEPT ![m] = Contents(e)]
    BY <1>0, <1>2, OneRingChanged
  <2>3. f[m] = Contents(mq[m])
    OBVIOUS
  <2>4. [f EXCEPT ![m] = f[m]] = f
    OBVIOUS
  <2>5. g = f
    BY <2>1, <2>2, <2>3, <2>4
  <2>6. QED
    BY <1>2, <2>5 DEF FifoStep
<1>3. ASSUME NEW m \in Mqs, NEW e, mq' = [mq EXCEPT ![m] = e], UNCHANGED got, e.count = 0
      PROVE  FifoStep
  <2>1. Contents(e) = << >>
    BY <1>3, EmptyContents
  <2>2. g = [f EXCEPT ![m] = Contents(e)]
    BY <1>0, <1>3, OneRingChanged
  <2>3. QED
    BY <1>3, <2>1, <2>2 DEF FifoStep
<1>4. ASSUME NEW t \in Slots, MsgSendCli(t) PROVE FifoStep
  <2> DEFINE m == arg[t]
  <2>1. m \in Mqs /\ buf[t] \in Messages
    BY <1>0, <1>4 DEF MsgSendCli, At, IpcLocals
  <2>2. MqEntry(mq[m]) /\ MqEntry(mq[m])!1 /\ mq[m].count \in 0 .. MSGQUEUE_SIZE
    BY <1>0, <2>1, EntryOf DEF MqEntry
  <2>3. CASE mq' = [mq EXCEPT ![m].sendq = EnqueueQ(@, t)] /\ UNCHANGED got
    <3>1. mq' = [mq EXCEPT ![m] = [mq[m] EXCEPT !.sendq = EnqueueQ(mq[m].sendq, t)]]
      BY <1>0, <2>1, <2>3 DEF MqTable
    <3>2. QED
      BY <1>2, <2>1, <2>2, <2>3, <3>1
  <2>4. CASE /\ mq[m].count < MSGQUEUE_SIZE /\ mq' = [mq EXCEPT ![m] = Pushed(@, buf[t])]
             /\ UNCHANGED got
    <3>1. mq' = [mq EXCEPT ![m] = Pushed(mq[m], buf[t])]
      BY <1>0, <2>1, <2>4 DEF MqTable
    <3>2. Contents(Pushed(mq[m], buf[t])) = Append(f[m], buf[t]) /\ Len(f[m]) = mq[m].count
      BY <2>1, <2>2, <2>4, PushAppends, ContentsType
    <3>3. g = [f EXCEPT ![m] = Append(f[m], buf[t])]
      <4> DEFINE e == Pushed(mq[m], buf[t])
      <4>1. mq' = [mq EXCEPT ![m] = e]
        BY <3>1
      <4>2. Contents(e) = Append(f[m], buf[t])
        BY <3>2
      <4> HIDE DEF e, m
      <4>3. g = [f EXCEPT ![m] = Contents(e)]
        BY <1>0, <2>1, <4>1, OneRingChanged
      <4> HIDE DEF f, g
      <4>4. QED
        BY <4>2, <4>3
    <3>4. QED
      BY <2>1, <2>4, <3>2, <3>3 DEF FifoStep
  <2>5. QED
    BY <1>4, <2>3, <2>4 DEF MsgSendCli
<1>5. ASSUME NEW t \in Slots, MsgRecvCli(t) PROVE FifoStep
  <2> DEFINE m == arg[t]
  <2>1. m \in Mqs
    BY <1>0, <1>5 DEF MsgRecvCli, At, IpcLocals
  <2>2. MqEntry(mq[m]) /\ MqEntry(mq[m])!1
    BY <1>0, <2>1, EntryOf DEF MqEntry
  <2>3. CASE mq' = [mq EXCEPT ![m].recvq = EnqueueQ(@, t)] /\ UNCHANGED got
    <3>1. mq' = [mq EXCEPT ![m] = [mq[m] EXCEPT !.recvq = EnqueueQ(mq[m].recvq, t)]]
      BY <1>0, <2>1, <2>3 DEF MqTable
    <3>2. QED
      BY <1>2, <2>1, <2>2, <2>3, <3>1
  <2>4. CASE /\ mq[m].count > 0 /\ mq' = [mq EXCEPT ![m] = Pulled(@)]
             /\ got' = [got EXCEPT ![t] = Oldest(mq[m])]
    <3>1. mq' = [mq EXCEPT ![m] = Pulled(mq[m])]
      BY <1>0, <2>1, <2>4 DEF MqTable
    <3>2. /\ f[m] # << >> /\ Oldest(mq[m]) = Head(f[m])
          /\ Contents(Pulled(mq[m])) = Tail(f[m])
      BY <2>1, <2>2, <2>4, PullTakesFirst
    <3>3. g = [f EXCEPT ![m] = Tail(f[m])]
      <4> DEFINE e == Pulled(mq[m])
      <4>1. mq' = [mq EXCEPT ![m] = e]
        BY <3>1
      <4>2. Contents(e) = Tail(f[m])
        BY <3>2
      <4> HIDE DEF e, m
      <4>3. g = [f EXCEPT ![m] = Contents(e)]
        BY <1>0, <2>1, <4>1, OneRingChanged
      <4> HIDE DEF f, g
      <4>4. QED
        BY <4>2, <4>3
    <3>4. QED
      BY <1>5, <2>1, <2>4, <3>2, <3>3 DEF FifoStep
  <2>5. QED
    BY <1>5, <2>3, <2>4 DEF MsgRecvCli
<1>6. ASSUME NEW t \in Slots,
             \/ MsgCreateLoad(t) \/ MsgCreateId(t) \/ MsgCreateFill(t)
             \/ MsgDestroyRecv(t) \/ MsgDestroySend(t) \/ MsgDestroyFree(t)
      PROVE  FifoStep
  <2> DEFINE m == arg[t]
  <2>1. m \in Mqs /\ UNCHANGED got
    BY <1>0, <1>6 DEF MsgCreateLoad, MsgCreateId, MsgCreateFill, MsgDestroyRecv, MsgDestroySend,
                      MsgDestroyFree, Load, At, IpcLocals, ipcVars
  <2>2. MqEntry(mq[m]) /\ MqEntry(mq[m])!1
    BY <1>0, <2>1, EntryOf DEF MqEntry
  <2>3. CASE MsgCreateLoad(t)
    BY <1>1, <2>3 DEF MsgCreateLoad, ipcVars
  <2>4. CASE MsgCreateId(t)
    <3>1. mq' = [mq EXCEPT ![m] = [mq[m] EXCEPT !.id = val[t]]]
      BY <1>0, <2>1, <2>4 DEF MqTable, MsgCreateId
    <3>2. QED
      BY <1>2, <2>1, <2>2, <3>1
  <2>5. CASE MsgCreateFill(t)
    <3>1. mq' = [mq EXCEPT ![m] = Emptied(mq[m].id, mq[m])]
      BY <1>0, <2>1, <2>5 DEF MqTable, MsgCreateFill
    <3>2. Emptied(mq[m].id, mq[m]).count = 0
      BY DEF Emptied
    <3>3. QED
      BY <1>3, <2>1, <3>1, <3>2
  <2>6. CASE MsgDestroyRecv(t)
    <3>1. \/ mq' = [mq EXCEPT ![m] = [mq[m] EXCEPT !.recvq.head = next[@]]]
          \/ mq' = [mq EXCEPT ![m] = [mq[m] EXCEPT !.recvq = EmptyQueue]]
      BY <1>0, <2>1, <2>6 DEF MqTable, MsgDestroyRecv
    <3>2. QED
      BY <1>2, <2>1, <2>2, <3>1
  <2>7. CASE MsgDestroySend(t)
    <3>1. mq' = [mq EXCEPT ![m] = [mq[m] EXCEPT !.sendq.head = next[@]]]
      BY <1>0, <2>1, <2>7 DEF MqTable, MsgDestroySend
    <3>2. QED
      BY <1>2, <2>1, <2>2, <3>1
  <2>8. CASE MsgDestroyFree(t)
    <3>1. mq' = [mq EXCEPT ![m] = Emptied(-1, mq[m])]
      BY <1>0, <2>1, <2>8 DEF MqTable, MsgDestroyFree
    <3>2. Emptied(-1, mq[m]).count = 0
      BY DEF Emptied
    <3>3. QED
      BY <1>3, <2>1, <3>1, <3>2
  <2>9. QED
    BY <1>6, <2>3, <2>4, <2>5, <2>6, <2>7, <2>8
<1>7. ASSUME NEW t \in Slots,
             \/ IpcCall(t) \/ SemCreateLoad(t) \/ SemCreateId(t)
             \/ (\E v \in SemInits : SemCreateFill(t, v))
             \/ SemWaitCli(t) \/ SemWaitWoken(t) \/ SemPostCli(t)
             \/ SemDestroyWake(t) \/ SemDestroyFree(t)
      PROVE  UNCHANGED <<mq, got>>
  BY <1>7 DEF IpcCall, SysSemCreate, SysMsgCreate, SysSemWait, SysSemPost, SysSemDestroy,
     SysMsgRecv, SysMsgDestroy, SysMsgSend, SemCreateLoad, SemCreateId, SemCreateFill,
     SemWaitCli, SemWaitWoken, SemPostCli, SemDestroyWake, SemDestroyFree, ipcVars
<1>8. CASE UNCHANGED allVars \/ SchedTick \/ \E t \in Slots : SchedCall(t) \/ SchedStep(t)
  BY <1>1, <1>8 DEF SchedTick, SchedCall, SchedStep, allVars, ipcVars
<1>9. ASSUME NEW t \in Slots, IpcCall(t) \/ IpcStep(t) PROVE FifoStep
  BY <1>1, <1>4, <1>5, <1>6, <1>7, <1>9 DEF IpcStep
<1>10. QED
  BY <1>8, <1>9 DEF IpcNext

\* For every ring size, every number of queues and tasks and wherever ticks arrive,
\* the rings of ipc.c implement bounded FIFO queues: a message is received once, by
\* one task, unchanged and in the order sent.
THEOREM RingsImplementFifo == IpcSpec => RefinesFifo
<1>1. Init => Fifo!Init
  <2> SUFFICES ASSUME Init PROVE Fifo!Init
    OBVIOUS
  <2>1. \A m \in Mqs : Contents(mq[m]) = << >>
    BY EmptyContents DEF Init, InitIpc, EmptyTables
  <2>2. [m \in Mqs |-> Queued(m)] = [m \in Mqs |-> << >>]
    BY <2>1, QueuedIsContents
  <2>3. got = [t \in Slots |-> NoMessage]
    BY DEF Init, InitIpc, EmptyTables
  <2>4. QED
    BY <2>2, <2>3 DEF Fifo!Init
<1>2. IpcInv /\ [IpcNext]_allVars => [Fifo!Next]_<<[m \in Mqs |-> Queued(m)], got>>
  <2> SUFFICES ASSUME IpcInv, [IpcNext]_allVars
               PROVE  [Fifo!Next]_<<[m \in Mqs |-> Queued(m)], got>>
    OBVIOUS
  <2>1. FifoStep
    BY StepsAreFifo
  <2> DEFINE f == [m \in Mqs |-> Queued(m)]
             g == [m \in Mqs |-> Queued(m)']
  <2>2. f = [m \in Mqs |-> Contents(mq[m])] /\ g = [m \in Mqs |-> Contents(mq'[m])]
    BY DEF Queued, Contents
  <2>3. f' = g
    OBVIOUS
  <2>4. QED
    BY <2>1, <2>2, <2>3 DEF FifoStep, Fifo!Next, Fifo!Send, Fifo!Receive, Fifo!Reset
<1>3. QED
  BY <1>1, <1>2, InitKeepsInv, NextKeepsInv, PTL DEF IpcSpec, RefinesFifo, Fifo!Spec

-----------------------------------------------------------------------------
(* Tasks that use semaphores and queues and do nothing else: none exits, no  *)
(* object is destroyed, ticks stay out of the create calls, and one task     *)
(* never sleeps (scheduler_tick lets a BLOCKED task go on when nothing is    *)
(* READY).  Then the wait lists are exact and no wakeup is lost.             *)

Crew == 0 .. Family - 1

Creating == {"sc_load", "sc_id", "sc_fill", "mc_load", "mc_id", "mc_fill"}

Steady ==
    /\ PreemptAt \cap Creating = {}
    /\ \A t \in Slots : Calls[t] \subseteq {"sem_create", "sem_wait", "sem_post",
                                            "msg_create", "msg_send", "msg_recv"}
    /\ \E t \in Crew : Calls[t] \cap {"sem_wait", "msg_send", "msg_recv"} = {}

\* Where tasks sleep, on which objects, and on which list.
SleepAt == {"sw_woken", "ms_cli", "mr_cli"}

Objects(l) == IF l = "sw_woken" THEN Sems ELSE Mqs

WaitList(l, k) == IF l = "sw_woken" THEN sem[k].q
                  ELSE IF l = "mr_cli" THEN mq[k].recvq ELSE mq[k].sendq

Asleep(l, k) == {t \in Crew : pc[t] = l /\ arg[t] = k /\ state[t] = "BLOCKED"}
Coming(l, k) == {t \in Crew : pc[t] = l /\ arg[t] = k /\ state[t] # "BLOCKED"}

ReadyCrew == {t \in Crew : state[t] = "READY"}

\* Who runs, who sleeps and where.
CrewInv ==
    /\ pid = [t \in Slots |-> IF t < Family THEN t ELSE -1]
    /\ cpu = "run" /\ current \in Crew
    /\ \A t \in Slots : pc[t] \in {"user"} \cup IpcLabels
    /\ \A t \in Crew :
          /\ state[t] # "ZOMBIE" /\ (state[t] = "RUNNING" <=> t = current)
          /\ state[t] = "BLOCKED" => pc[t] \in SleepAt
          /\ pc[t] \in {"sw_cli", "sw_woken"} => "sem_wait" \in Calls[t]
          /\ pc[t] = "ms_cli" => "msg_send" \in Calls[t]
          /\ pc[t] = "mr_cli" => "msg_recv" \in Calls[t]
          /\ pc[t] \in Creating => t = current

\* Every list holds exactly the tasks that belong on it.
ListInv ==
    /\ Lists(next, rq, ReadyCrew)
    /\ \A l \in SleepAt : \A k \in Objects(l) : Lists(next, WaitList(l, k), Asleep(l, k))

\* An object that nobody can have found yet.
SemFresh(s) == sem[s].id = -1 \/ (pc[current] = "sc_fill" /\ arg[current] = s)
MqFresh(m)  == mq[m].id = -1 \/ (pc[current] = "mc_fill" /\ arg[current] = m)

FoundInv ==
    \A t \in Crew :
        /\ pc[t] \in {"sw_cli", "sw_woken", "sp_cli"} => ~SemFresh(arg[t])
        /\ pc[t] \in {"sc_load", "sc_id"} => SemFresh(arg[t])
        /\ pc[t] \in {"ms_cli", "mr_cli"} => ~MqFresh(arg[t])
        /\ pc[t] \in {"mc_load", "mc_id"} => MqFresh(arg[t])

UnitsInv == \A s \in Sems : credit[s] = sem[s].value + Cardinality(Coming("sw_woken", s))

\* A receiver sleeps only while each message has an awake receiver coming for it, a
\* sender only while each free place has an awake sender.
WakeupsInv ==
    \A m \in Mqs :
        /\ Asleep("mr_cli", m) # {} => mq[m].count <= Cardinality(Coming("mr_cli", m))
        /\ Asleep("ms_cli", m) # {} => MSGQUEUE_SIZE - mq[m].count <= Cardinality(Coming("ms_cli", m))

\* The crew are slots of the table.
LEMMA CrewSlots == Crew \subseteq Slots /\ Crew \subseteq Nat
BY IpcAssumption, SlotsAssumption DEF Crew, Slots

\* The tail of a list is one of its tasks.
LEMMA ListTail ==
    ASSUME NEW nx, NEW q, NEW M, Lists(nx, q, M), q.tail # NULL
    PROVE  q.tail \in M
<1>1. PICK n, s : Enumerates(s, n, nx, q) /\ M = Elements(s, n)
  BY DEF Lists
<1>2. n \in Nat /\ n > 0 /\ q.tail = s[n]
  BY <1>1 DEF Enumerates
<1>3. QED
  BY <1>1, <1>2 DEF Elements

\* Appending to one list leaves the links of all tasks outside it alone.
LEMMA EnqueueFrame ==
    ASSUME NEW nx \in [Slots -> Slots \cup {NULL}], NEW q, NEW M, Lists(nx, q, M),
           NEW t \in Slots, NEW x \in Slots, x \notin M, x # t
    PROVE  EnqueueNext(nx, q, t)[x] = nx[x]
<1>1. q.tail # NULL => q.tail \in M
  BY ListTail
<1>2. CASE q.tail = NULL
  BY <1>2 DEF EnqueueNext
<1>3. CASE q.tail # NULL
  <2> DEFINE n1 == [nx EXCEPT ![t] = NULL]
  <2>1. n1[x] = nx[x] /\ x \in DOMAIN n1
    OBVIOUS
  <2>2. EnqueueNext(nx, q, t) = [n1 EXCEPT ![q.tail] = t]
    BY <1>3 DEF EnqueueNext
  <2> HIDE DEF n1
  <2>3. QED
    BY <2>1, <2>2, <1>1, <1>3
<1>4. QED
  BY <1>2, <1>3

\* scheduler_tick touches the links of the ready tasks and of the interrupted one.
LEMMA TickFrame ==
    ASSUME NEW st \in [Slots -> States], NEW nx \in [Slots -> Slots \cup {NULL}],
           NEW q \in Queues, current \in Slots, NEW M, Lists(nx, q, M), current \notin M,
           scheduler_tick(st, nx, q), NEW x \in Slots, x \notin M, x # current
    PROVE  next'[x] = nx[x]
<1> DEFINE requeue == Requeued(st[current])
           nx1 == IF requeue THEN EnqueueNext(nx, q, current) ELSE nx
           q1  == IF requeue THEN EnqueueQ(q, current) ELSE q
           J   == IF requeue THEN M \cup {current} ELSE M
<1>1. nx1 \in [Slots -> Slots \cup {NULL}] /\ nx1[x] = nx[x]
  BY EnqueueTypes, EnqueueFrame
<1>2. Lists(nx1, q1, J)
  BY ListEnqueue
<1>3. q1.head # NULL => q1.head # x
  BY <1>2, ListEmpty
<1>4. next' = nx \/ next' = nx1 \/ (q1.head # NULL /\ next' = DequeueNext(nx1, q1))
  BY DEF scheduler_tick
<1> HIDE DEF nx1, q1
<1>5. QED
  BY <1>1, <1>3, <1>4 DEF DequeueNext

\* What the places and states of the crew say about the lists.
LEMMA CrewFacts ==
    ASSUME SchedTypes, CrewInv
    PROVE  /\ current \in Slots /\ current \notin ReadyCrew /\ ReadyCrew \subseteq Slots
           /\ state[current] = "RUNNING"
           /\ next \in [Slots -> Slots \cup {NULL}] /\ rq \in Queues /\ state \in [Slots -> States]
           /\ \A l, k : /\ Asleep(l, k) \subseteq Slots /\ current \notin Asleep(l, k)
                        /\ Asleep(l, k) \cap ReadyCrew = {}
           /\ \A l, k, m, j : l # m \/ k # j => Asleep(l, k) \cap Asleep(m, j) = {}
BY CrewSlots DEF SchedTypes, SchedType, CrewInv, ReadyCrew, Asleep

\* A tick moves the CPU along the ready list and leaves the sleepers asleep.
LEMMA TickCrew ==
    ASSUME Steady, SchedTypes, CrewInv, ListInv, Tick, UNCHANGED <<sem, mq>>
    PROVE  /\ CrewInv' /\ ListInv'
           /\ UNCHANGED <<pc, arg>> /\ pc[current] \notin Creating
           /\ \A u \in Crew : state'[u] = "BLOCKED" <=> state[u] = "BLOCKED"
<1>0. /\ current \in Slots /\ current \notin ReadyCrew /\ ReadyCrew \subseteq Slots
      /\ state[current] = "RUNNING"
      /\ next \in [Slots -> Slots \cup {NULL}] /\ rq \in Queues /\ state \in [Slots -> States]
      /\ \A l, k : /\ Asleep(l, k) \subseteq Slots /\ current \notin Asleep(l, k)
                   /\ Asleep(l, k) \cap ReadyCrew = {}
  BY CrewFacts
<1>1. /\ scheduler_tick(state, next, rq) /\ UNCHANGED <<pid, pc, arg>>
      /\ pc[current] \notin Creating
  BY DEF Tick, tableVars, Steady
<1>2. Requeued(state[current]) /\ Joined(state, ReadyCrew) = ReadyCrew \cup {current}
  BY <1>0 DEF Requeued, Joined
<1>3. Lists(next, rq, ReadyCrew)
  BY DEF ListInv
<1>4. \/ /\ state' = [state EXCEPT ![current] = "RUNNING"]
         /\ Lists(next', rq', ReadyCrew) /\ UNCHANGED <<current, cpu>>
      \/ \E h \in ReadyCrew \cup {current} :
            /\ current' = h /\ UNCHANGED cpu
            /\ state' = Switched(state, TRUE, h)
            /\ Lists(next', rq', (ReadyCrew \cup {current}) \ {h})
  <2>1. state[current] \notin {"BLOCKED", "ZOMBIE"}
    BY <1>0
  <2>2. Requeued(state[current]) = TRUE
    BY <1>2 DEF Requeued
  <2>3. QED
    BY <1>0, <1>1, <1>2, <1>3, <2>1, <2>2, TickEffect
<1> DEFINE Moved ==
        /\ cpu' = cpu /\ current' \in Crew /\ Lists(next', rq', ReadyCrew')
        /\ \A u \in Crew : /\ state'[u] = "BLOCKED" <=> state[u] = "BLOCKED"
                           /\ state'[u] # "ZOMBIE" /\ (state'[u] = "RUNNING" <=> u = current')
<1>5. Moved
  <2>0. current \in Crew /\ \A u \in Crew : u \in Slots /\ state[u] # "ZOMBIE" /\ (state[u] = "RUNNING" <=> u = current)
    BY CrewSlots DEF CrewInv
  <2>1. CASE /\ state' = [state EXCEPT ![current] = "RUNNING"]
             /\ Lists(next', rq', ReadyCrew) /\ UNCHANGED <<current, cpu>>
    <3>1. \A u \in Crew : state'[u] = state[u]
      BY <2>1, <2>0, <1>0
    <3>2. ReadyCrew' = ReadyCrew
      BY <3>1 DEF ReadyCrew
    <3>3. QED
      BY <2>0, <2>1, <3>1, <3>2
  <2>2. ASSUME NEW h \in ReadyCrew \cup {current},
               current' = h, UNCHANGED cpu, state' = Switched(state, TRUE, h),
               Lists(next', rq', (ReadyCrew \cup {current}) \ {h})
        PROVE  Moved
    <3>1. h \in Crew
      BY <2>0 DEF ReadyCrew
    <3>2. state' = [[state EXCEPT ![current] = "READY"] EXCEPT ![h] = "RUNNING"]
      BY <2>2 DEF Switched
    <3>3. \A u \in Crew : state'[u] = IF u = h THEN "RUNNING" ELSE IF u = current THEN "READY" ELSE state[u]
      BY <3>1, <3>2, <2>0, <1>0
    <3>4. \A u \in Crew : u \in ReadyCrew' <=> u \in (ReadyCrew \cup {current}) \ {h}
      BY <3>3, <2>0 DEF ReadyCrew
    <3>5. ReadyCrew' = (ReadyCrew \cup {current}) \ {h}
      BY <3>4, <2>0 DEF ReadyCrew
    <3>6. h = current \/ state[h] = "READY"
      BY DEF ReadyCrew
    <3>7. \A u \in Crew : state'[u] = "BLOCKED" <=> state[u] = "BLOCKED"
      BY <3>3, <3>6, <1>0
    <3>8. \A u \in Crew : state'[u] # "ZOMBIE" /\ (state'[u] = "RUNNING" <=> u = h)
      BY <3>3, <2>0
    <3>9. QED
      BY <2>2, <3>1, <3>5, <3>7, <3>8
  <2>3. QED
    BY <1>4, <2>1, <2>2
<1>6. CrewInv'
  BY <1>1, <1>5 DEF CrewInv
<1>7. ASSUME NEW l \in SleepAt, NEW k \in Objects(l)
      PROVE  Lists(next', WaitList(l, k)', Asleep(l, k)')
  <2>1. WaitList(l, k)' = WaitList(l, k)
    BY DEF WaitList
  <2>2. Asleep(l, k)' = Asleep(l, k)
    BY <1>1, <1>5 DEF Asleep
  <2>3. \A x \in Asleep(l, k) : next'[x] = next[x]
    BY <1>0, <1>1, <1>3, TickFrame
  <2>4. Lists(next, WaitList(l, k), Asleep(l, k))
    BY DEF ListInv
  <2>5. QED
    BY <2>1, <2>2, <2>3, <2>4, ListFrame
<1>8. ListInv'
  BY <1>5, <1>7 DEF ListInv, Objects
<1>9. QED
  BY <1>1, <1>5, <1>6, <1>8

\* What a step does to the states of the crew: t goes to sleep, or h is woken.
FallsAsleep(t) == \A u \in Crew : state'[u] = "BLOCKED" <=> state[u] = "BLOCKED" \/ u = t
IsWoken(h) == \A u \in Crew : state'[u] = IF u = h THEN "READY" ELSE state[u]

\* A list that a step replaces, or one that it leaves alone.
LEMMA OtherLists ==
    ASSUME ListInv, NEW l \in SleepAt, NEW k \in Objects(l)
    PROVE  Lists(next, WaitList(l, k), Asleep(l, k))
BY DEF ListInv

\* Going to sleep: the task joins the wait list and the CPU goes to a ready task,
\* which there is because one of the crew never sleeps.
LEMMA BlockCrew ==
    ASSUME Steady, SchedTypes, CrewInv, ListInv, NEW t \in Crew, current = t,
           NEW l \in SleepAt, NEW k \in Objects(l), arg[t] = k,
           IF l = "sw_woken" THEN pc[t] = "sw_cli" ELSE pc[t] = l,
           BlockOn(t, WaitList(l, k), l),
           WaitList(l, k)' = EnqueueQ(WaitList(l, k), t),
           \A m \in SleepAt : \A j \in Objects(m) :
               m # l \/ j # k => WaitList(m, j)' = WaitList(m, j)
    PROVE  /\ CrewInv' /\ ListInv'
           /\ pc' = [pc EXCEPT ![t] = l] /\ arg' = arg
           /\ FallsAsleep(t)
<1> DEFINE q == WaitList(l, k)
           st == [state EXCEPT ![t] = "BLOCKED"]
           nx == EnqueueNext(next, q, t)
<1>0. /\ current \in Slots /\ current \notin ReadyCrew /\ ReadyCrew \subseteq Slots
      /\ state[current] = "RUNNING"
      /\ next \in [Slots -> Slots \cup {NULL}] /\ rq \in Queues /\ state \in [Slots -> States]
      /\ \A m, j : /\ Asleep(m, j) \subseteq Slots /\ current \notin Asleep(m, j)
                   /\ Asleep(m, j) \cap ReadyCrew = {}
      /\ \A m, j, n, i : m # n \/ j # i => Asleep(m, j) \cap Asleep(n, i) = {}
  BY CrewFacts
<1>1. /\ scheduler_tick(st, nx, rq) /\ UNCHANGED <<pid, arg>>
      /\ pc' = [pc EXCEPT ![t] = l] /\ pc \in [Slots -> Labels]
  BY DEF BlockOn, Goto, tableVars, SchedTypes, SchedType
<1>2. Lists(next, q, Asleep(l, k)) /\ Lists(next, rq, ReadyCrew)
  BY DEF ListInv
<1>3. Lists(nx, EnqueueQ(q, t), Asleep(l, k) \cup {t})
  BY <1>0, <1>2, ListEnqueue
<1>4. \A x \in Slots : x \notin Asleep(l, k) /\ x # t => nx[x] = next[x]
  BY <1>0, <1>2, EnqueueFrame
<1>5. Lists(nx, rq, ReadyCrew)
  BY <1>0, <1>2, <1>4, ListFrame
<1>6. /\ st \in [Slots -> States] /\ st[current] = "BLOCKED" /\ ~Requeued(st[current])
      /\ \A u \in Slots : st[u] = IF u = t THEN "BLOCKED" ELSE state[u]
  BY <1>0 DEF States, Requeued
<1>7. ReadyCrew # {}
  <2>1. PICK a \in Crew : Calls[a] \cap {"sem_wait", "msg_send", "msg_recv"} = {}
    BY DEF Steady
  <2>2. state[a] # "BLOCKED"
    BY <2>1 DEF CrewInv, SleepAt
  <2>3. a # current
    BY <2>1 DEF CrewInv, SleepAt
  <2>4. state[a] = "READY"
    <3>1. a \in Slots
      BY CrewSlots
    <3>2. state[a] \in States /\ state[a] # "ZOMBIE" /\ state[a] # "RUNNING"
      BY <1>0, <2>3, <3>1 DEF CrewInv
    <3>3. QED
      BY <2>2, <3>2 DEF States
  <2>5. QED
    BY <2>4 DEF ReadyCrew
<1>8. nx \in [Slots -> Slots \cup {NULL}]
  <2>1. q.tail # NULL => q.tail \in Slots
    BY <1>0, <1>2, ListTail
  <2>2. QED
    BY <1>0, <2>1 DEF EnqueueNext
<1> HIDE DEF q, st, nx
<1>9. PICK h \in ReadyCrew : /\ current' = h /\ cpu' = cpu
                             /\ state' = Switched(st, FALSE, h)
                             /\ Lists(next', rq', ReadyCrew \ {h})
  <2>1. Joined(st, ReadyCrew) = ReadyCrew /\ Requeued(st[current]) = FALSE
    BY <1>6 DEF Joined, Requeued
  <2>2. \E h \in Joined(st, ReadyCrew) :
              /\ current' = h /\ UNCHANGED cpu
              /\ state' = Switched(st, Requeued(st[current]), h)
              /\ Lists(next', rq', Joined(st, ReadyCrew) \ {h})
    BY <1>0, <1>1, <1>5, <1>6, <1>7, <1>8, TickEffect
  <2>3. QED
    BY <2>1, <2>2
<1>10. h \in Crew /\ h # t /\ state[h] = "READY"
  BY <1>0 DEF ReadyCrew
<1>11. \A u \in Crew : state'[u] = IF u = h THEN "RUNNING" ELSE IF u = t THEN "BLOCKED" ELSE state[u]
  <2>1. \A u \in Crew : u \in Slots
    BY CrewSlots
  <2>2. state' = [[st EXCEPT ![current] = st[current]] EXCEPT ![h] = "RUNNING"]
    BY <1>9 DEF Switched
  <2>3. QED
    BY <1>6, <1>10, <2>1, <2>2
<1>12. FallsAsleep(t)
  BY <1>10, <1>11 DEF FallsAsleep
<1>13. \A u \in Crew : pc'[u] = IF u = t THEN l ELSE pc[u]
  BY <1>1, CrewSlots
<1>14. CrewInv'
  <2>1. /\ pid' = [u \in Slots |-> IF u < Family THEN u ELSE -1]
        /\ cpu' = "run" /\ current' \in Crew
    BY <1>1, <1>9, <1>10 DEF CrewInv
  <2>2. \A u \in Slots : pc'[u] \in {"user"} \cup IpcLabels
    BY <1>1 DEF CrewInv, SleepAt, IpcLabels
  <2>3. ASSUME NEW u \in Crew
        PROVE  /\ state'[u] # "ZOMBIE" /\ (state'[u] = "RUNNING" <=> u = current')
               /\ state'[u] = "BLOCKED" => pc'[u] \in SleepAt
               /\ pc'[u] \in {"sw_cli", "sw_woken"} => "sem_wait" \in Calls[u]
               /\ pc'[u] = "ms_cli" => "msg_send" \in Calls[u]
               /\ pc'[u] = "mr_cli" => "msg_recv" \in Calls[u]
               /\ pc'[u] \in Creating => u = current'
    <3>1. CASE u = t
      <4>1. pc'[u] = l /\ state'[u] = "BLOCKED" /\ u # current'
        BY <1>9, <1>10, <1>11, <1>13, <3>1
      <4>2. CASE l = "sw_woken"
        BY <3>1, <4>1, <4>2 DEF CrewInv, SleepAt, Creating
      <4>3. CASE l = "ms_cli"
        BY <3>1, <4>1, <4>3 DEF CrewInv, SleepAt, Creating
      <4>4. CASE l = "mr_cli"
        BY <3>1, <4>1, <4>4 DEF CrewInv, SleepAt, Creating
      <4>5. QED
        BY <4>2, <4>3, <4>4 DEF SleepAt
    <3>2. CASE u # t
      BY <1>9, <1>10, <1>11, <1>13, <3>2 DEF CrewInv
    <3>3. QED
      BY <3>1, <3>2
  <2>4. QED
    BY <2>1, <2>2, <2>3 DEF CrewInv
<1>15. Lists(next', rq', ReadyCrew')
  <2>1. \A u \in Crew : u \in ReadyCrew' <=> u \in ReadyCrew \ {h}
    BY <1>0, <1>11 DEF ReadyCrew
  <2>2. ReadyCrew' = ReadyCrew \ {h}
    BY <2>1 DEF ReadyCrew
  <2>3. QED
    BY <1>9, <2>2
<1>16. \A x \in Slots : x \notin ReadyCrew /\ x # t => next'[x] = nx[x]
  <2> SUFFICES ASSUME NEW x \in Slots, x \notin ReadyCrew, x # t PROVE next'[x] = nx[x]
    OBVIOUS
  <2>1. rq \in Queues /\ current \in Slots /\ current \notin ReadyCrew /\ x # current
    BY <1>0
  <2>2. QED
    BY <2>1, <1>1, <1>5, <1>6, <1>8, TickFrame
<1>17. next'[t] = nx[t]
  \* the task that goes to sleep is not put back on the ready list
  <2>1. ~Requeued(st[current])
    BY <1>6
  <2>2. next' = nx \/ (rq.head # NULL /\ next' = DequeueNext(nx, rq))
    BY <1>1, <2>1 DEF scheduler_tick
  <2>3. rq.head # NULL => rq.head # t
    BY <1>0, <1>2, ListEmpty
  <2>4. QED
    BY <1>0, <1>8, <2>2, <2>3 DEF DequeueNext
<1>18. ASSUME NEW m \in SleepAt, NEW j \in Objects(m)
       PROVE  Lists(next', WaitList(m, j)', Asleep(m, j)')
  <2>1. CASE m = l /\ j = k
    <3>1. \A u \in Crew : u \in Asleep(m, j)' <=> u \in Asleep(l, k) \cup {t}
      BY <1>1, <1>12, <1>13, <2>1 DEF Asleep, FallsAsleep
    <3>2. Asleep(m, j)' = Asleep(l, k) \cup {t}
      BY <3>1 DEF Asleep
    <3>3. \A x \in Asleep(l, k) \cup {t} : next'[x] = nx[x]
      BY <1>0, <1>16, <1>17
    <3>4. Lists(next', EnqueueQ(q, t), Asleep(l, k) \cup {t})
      BY <1>3, <3>3, ListFrame
    <3>5. QED
      BY <2>1, <3>2, <3>4 DEF q
  <2>2. CASE m # l \/ j # k
    <3>1. \A u \in Crew : u \in Asleep(m, j)' <=> u \in Asleep(m, j)
      BY <1>0, <1>1, <1>12, <1>13, <2>2 DEF Asleep, FallsAsleep
    <3>2. Asleep(m, j)' = Asleep(m, j)
      BY <3>1 DEF Asleep
    <3>3. \A x \in Asleep(m, j) : next'[x] = next[x]
      <4> TAKE x \in Asleep(m, j)
      <4>1. x \in Slots /\ x \notin ReadyCrew /\ x # t
        BY <1>0
      <4>2. x \notin Asleep(l, k)
        BY <1>0, <2>2
      <4>3. QED
        BY <4>1, <4>2, <1>4, <1>16
    <3>4. Lists(next', WaitList(m, j), Asleep(m, j))
      BY <3>3, OtherLists, ListFrame
    <3>5. QED
      BY <2>2, <3>2, <3>4
  <2>3. QED
    BY <2>1, <2>2
<1>19. ListInv'
  BY <1>15, <1>18 DEF ListInv, Objects
<1>20. QED
  BY <1>1, <1>12, <1>14, <1>19

\* A step that moves the running task to another place and touches no list.
LEMMA StayCrew ==
    ASSUME SchedTypes, CrewInv, ListInv, NEW t \in Crew, current = t,
           NEW l \in {"user"} \cup IpcLabels, pc' = [pc EXCEPT ![t] = l],
           \A u \in Crew : u # t => arg'[u] = arg[u],
           l \in {"sw_cli", "sw_woken"} => "sem_wait" \in Calls[t],
           l = "ms_cli" => "msg_send" \in Calls[t],
           l = "mr_cli" => "msg_recv" \in Calls[t],
           UNCHANGED <<pid, state, next, rq, current, cpu>>,
           \A m \in SleepAt : \A j \in Objects(m) : WaitList(m, j)' = WaitList(m, j)
    PROVE  CrewInv' /\ ListInv'
<1>0. state[t] = "RUNNING" /\ pc \in [Slots -> Labels]
  BY DEF CrewInv, SchedTypes, SchedType
<1>1. \A u \in Crew : pc'[u] = IF u = t THEN l ELSE pc[u]
  BY <1>0, CrewSlots
<1>2. CrewInv'
  <2>1. \A u \in Slots : pc'[u] \in {"user"} \cup IpcLabels
    BY <1>0 DEF CrewInv
  <2>2. QED
    BY <1>0, <1>1, <2>1 DEF CrewInv
<1>3. ReadyCrew' = ReadyCrew
  BY DEF ReadyCrew
<1>4. ASSUME NEW m \in SleepAt, NEW j \in Objects(m) PROVE Asleep(m, j)' = Asleep(m, j)
  <2>1. \A u \in Crew : u \in Asleep(m, j)' <=> u \in Asleep(m, j)
    BY <1>0, <1>1 DEF Asleep
  <2>2. QED
    BY <2>1 DEF Asleep
<1>5. ListInv'
  BY <1>3, <1>4 DEF ListInv, Objects
<1>6. QED
  BY <1>2, <1>5

\* Waking the first task of a wait list moves it to the ready list.
LEMMA WakeCrew ==
    ASSUME SchedTypes, CrewInv, ListInv, NEW t \in Crew, current = t,
           NEW l \in SleepAt, NEW k \in Objects(l), WakeFirst(WaitList(l, k)),
           Return(t), UNCHANGED <<pid, current, cpu>>,
           WaitList(l, k)' = Popped(WaitList(l, k)),
           \A m \in SleepAt : \A j \in Objects(m) :
               m # l \/ j # k => WaitList(m, j)' = WaitList(m, j)
    PROVE  /\ CrewInv' /\ ListInv'
           /\ pc' = [pc EXCEPT ![t] = "user"] /\ \A u \in Crew : u # t => arg'[u] = arg[u]
           /\ \/ /\ Asleep(l, k) = {} /\ WaitList(l, k).head = NULL /\ state' = state
              \/ /\ WaitList(l, k).head # NULL
                 /\ \E h \in Asleep(l, k) : IsWoken(h)
<1> DEFINE q == WaitList(l, k)
<1>0. /\ current \in Slots /\ current \notin ReadyCrew /\ ReadyCrew \subseteq Slots
      /\ state[current] = "RUNNING"
      /\ next \in [Slots -> Slots \cup {NULL}] /\ rq \in Queues /\ state \in [Slots -> States]
      /\ \A m, j : /\ Asleep(m, j) \subseteq Slots /\ current \notin Asleep(m, j)
                   /\ Asleep(m, j) \cap ReadyCrew = {}
      /\ \A m, j, n, i : m # n \/ j # i => Asleep(m, j) \cap Asleep(n, i) = {}
  BY CrewFacts
<1>1. /\ pc' = [pc EXCEPT ![t] = "user"] /\ pc \in [Slots -> Labels] /\ arg \in [Slots -> Int]
      /\ arg' = [arg EXCEPT ![t] = NULL]
  BY DEF Return, Goto, SchedTypes, SchedType
<1>2. \A u \in Crew : u # t => arg'[u] = arg[u] /\ pc'[u] = pc[u]
  BY <1>1, CrewSlots
<1>3. Lists(next, q, Asleep(l, k)) /\ Lists(next, rq, ReadyCrew)
  BY DEF ListInv
<1>4. CASE q.head = NULL
  <2>1. UNCHANGED <<state, next, rq>>
    BY <1>4 DEF WakeFirst
  <2>2. Asleep(l, k) = {}
    BY <1>3, <1>4, ListEmpty
  <2>3. \A m \in SleepAt : \A j \in Objects(m) : WaitList(m, j)' = WaitList(m, j)
    BY <1>4 DEF Popped
  <2>4. "user" \in {"user"} \cup IpcLabels
    OBVIOUS
  <2>5. CrewInv' /\ ListInv'
    BY <1>1, <1>2, <2>1, <2>3, <2>4, StayCrew
  <2>6. QED
    BY <1>1, <1>2, <1>4, <2>1, <2>2, <2>5
<1>5. CASE q.head # NULL
  <2> DEFINE h == q.head
             nx == DequeueNext(next, q)
  <2>1. /\ state' = [state EXCEPT ![h] = "READY"]
        /\ next' = EnqueueNext(nx, rq, h) /\ rq' = EnqueueQ(rq, h)
    BY <1>5 DEF WakeFirst
  <2>2. h \in Asleep(l, k) /\ Lists(nx, DequeueQ(next, q), Asleep(l, k) \ {h})
    BY <1>0, <1>3, <1>5, ListDequeue
  <2>3. h \in Slots /\ h \in Crew /\ h # t /\ state[h] = "BLOCKED" /\ h \notin ReadyCrew
    BY <1>0, <2>2 DEF Asleep, ReadyCrew
  <2>4. /\ nx \in [Slots -> Slots \cup {NULL}]
        /\ \A x \in Slots : x # h => nx[x] = next[x]
    BY <1>0, <2>3 DEF DequeueNext
  <2>5. Lists(nx, rq, ReadyCrew)
    BY <1>0, <1>3, <2>3, <2>4, ListFrame
  <2>6. WaitList(l, k)' = DequeueQ(next, q)
    BY <1>5 DEF Popped
  <2> HIDE DEF nx, h, q
  <2>7. Lists(next', rq', ReadyCrew \cup {h})
    BY <2>1, <2>3, <2>4, <2>5, ListEnqueue
  <2>8. \A x \in Slots : x \notin ReadyCrew /\ x # h => next'[x] = nx[x]
    <3> TAKE x \in Slots
    <3> QED
      BY <2>1, <2>3, <2>4, <2>5, EnqueueFrame
  <2>9. \A u \in Crew : state'[u] = IF u = h THEN "READY" ELSE state[u]
    BY <1>0, <2>1, <2>3, CrewSlots
  <2>10. \A u \in Crew : pc'[u] = IF u = t THEN "user" ELSE pc[u]
    BY <1>1, CrewSlots
  <2>11. CrewInv'
    <3>1. \A u \in Slots : pc'[u] \in {"user"} \cup IpcLabels
      BY <1>1 DEF CrewInv
    <3>2. QED
      BY <3>1, <2>3, <2>9, <2>10, <1>0 DEF CrewInv, Creating
  <2>12. ReadyCrew' = ReadyCrew \cup {h}
    <3>1. \A u \in Crew : u \in ReadyCrew' <=> u \in ReadyCrew \cup {h}
      BY <2>9 DEF ReadyCrew
    <3>2. QED
      BY <3>1, <2>3 DEF ReadyCrew
  <2>13. ASSUME NEW m \in SleepAt, NEW j \in Objects(m)
         PROVE  Lists(next', WaitList(m, j)', Asleep(m, j)')
    <3>1. CASE m = l /\ j = k
      <4>1. \A u \in Crew : u \in Asleep(m, j)' <=> u \in Asleep(l, k) \ {h}
        BY <1>0, <1>2, <2>3, <2>9, <2>10, <3>1 DEF Asleep
      <4>2. Asleep(m, j)' = Asleep(l, k) \ {h}
        BY <4>1 DEF Asleep
      <4>3. \A x \in Asleep(l, k) \ {h} : next'[x] = nx[x]
        BY <1>0, <2>8
      <4>4. Lists(next', DequeueQ(next, q), Asleep(l, k) \ {h})
        BY <2>2, <4>3, ListFrame
      <4>5. QED
        BY <2>6, <3>1, <4>2, <4>4
    <3>2. CASE m # l \/ j # k
      <4>1. h \notin Asleep(m, j)
        BY <1>0, <2>2, <3>2
      <4>2. \A u \in Crew : u \in Asleep(m, j)' <=> u \in Asleep(m, j)
        BY <1>0, <1>2, <2>3, <2>9, <2>10, <4>1 DEF Asleep
      <4>3. Asleep(m, j)' = Asleep(m, j)
        BY <4>2 DEF Asleep
      <4>4. \A x \in Asleep(m, j) : next'[x] = next[x]
        BY <1>0, <2>4, <2>8, <4>1
      <4>5. Lists(next', WaitList(m, j), Asleep(m, j))
        BY <4>4, OtherLists, ListFrame
      <4>6. QED
        BY <3>2, <4>3, <4>5
    <3>3. QED
      BY <3>1, <3>2
  <2>14. ListInv'
    BY <2>7, <2>12, <2>13 DEF ListInv, Objects
  <2>15. QED
    BY <1>1, <1>2, <1>5, <2>2, <2>9, <2>11, <2>14 DEF q, IsWoken
<1>6. QED
  BY <1>4, <1>5

\* Sets of tasks are counted one task at a time, and a larger set counts more.
LEMMA CrewCounted ==
    ASSUME NEW S \in SUBSET Crew
    PROVE  /\ Cardinality(S) \in Nat
           /\ \A t \in Crew \ S : Cardinality(S \cup {t}) = Cardinality(S) + 1
           /\ \A t \in S : Cardinality(S \ {t}) = Cardinality(S) - 1
           /\ \A T \in SUBSET Crew : S \subseteq T => Cardinality(S) <= Cardinality(T)
<1>1. Crew \subseteq Slots /\ S \in SUBSET Slots
  BY CrewSlots
<1>2. IsFiniteSet(Crew)
  BY IpcAssumption, SlotsAssumption, FS_Interval DEF Crew
<1>3. IsFiniteSet(S)
  BY <1>2, FS_Subset
<1>4. \A T \in SUBSET Crew : S \subseteq T => Cardinality(S) <= Cardinality(T)
  <2> TAKE T \in SUBSET Crew
  <2>1. IsFiniteSet(T)
    BY <1>2, FS_Subset
  <2>2. QED
    BY <2>1, FS_Subset
<1>5. Cardinality(S) \in Nat
  BY <1>3, FS_CardinalityType
<1>6. QED
  BY <1>1, <1>4, <1>5, TasksCounted

\* Who sleeps and who is coming after the running task has gone to l.
LEMMA StayMoves ==
    ASSUME SchedTypes, CrewInv, NEW t \in Crew, current = t, NEW l, pc' = [pc EXCEPT ![t] = l],
           \A u \in Crew : u # t => arg'[u] = arg[u], state' = state, NEW m, NEW j
    PROVE  /\ Asleep(m, j)' = Asleep(m, j)
           /\ \A u \in Crew : u \in Coming(m, j)' <=>
                  IF u = t THEN l = m /\ arg'[t] = j ELSE u \in Coming(m, j)
           /\ Coming(m, j) \in SUBSET Crew /\ Coming(m, j)' \in SUBSET Crew
           /\ t \in Coming(m, j) <=> pc[t] = m /\ arg[t] = j
<1>0. state[t] = "RUNNING"
  BY DEF CrewInv
<1>1. \A u \in Crew : pc'[u] = IF u = t THEN l ELSE pc[u]
  BY CrewSlots DEF SchedTypes, SchedType
<1>2. \A u \in Crew : u \in Asleep(m, j)' <=> u \in Asleep(m, j)
  BY <1>0, <1>1 DEF Asleep
<1>3. \A u \in Crew : u \in Coming(m, j)' <=>
          IF u = t THEN l = m /\ arg'[t] = j ELSE u \in Coming(m, j)
  BY <1>0, <1>1 DEF Coming
<1>4. QED
  BY <1>0, <1>2, <1>3 DEF Asleep, Coming

\* The numbers of units, messages and tasks on their way.
SameCounts ==
    /\ credit' = credit /\ \A s \in Sems : sem'[s].value = sem[s].value
    /\ \A m \in Mqs : mq'[m].count = mq[m].count

\* A step outside the sleeping places, which changes no number, keeps the counts.
LEMMA QuietCounts ==
    ASSUME SchedTypes, CrewInv, UnitsInv, WakeupsInv, MqTable, NEW t \in Crew, current = t,
           NEW l, pc' = [pc EXCEPT ![t] = l], \A u \in Crew : u # t => arg'[u] = arg[u],
           state' = state, pc[t] \notin SleepAt, l # "sw_woken", SameCounts
    PROVE  UnitsInv' /\ WakeupsInv'
<1>1. ASSUME NEW m \in SleepAt, NEW j
      PROVE  /\ Asleep(m, j)' = Asleep(m, j) /\ Coming(m, j)' \in SUBSET Crew /\ Coming(m, j) \in SUBSET Crew
             /\ Coming(m, j) \subseteq Coming(m, j)' /\ (m = "sw_woken" => Coming(m, j)' = Coming(m, j))
  <2>1. /\ Asleep(m, j)' = Asleep(m, j)
        /\ \A u \in Crew : u \in Coming(m, j)' <=>
               IF u = t THEN l = m /\ arg'[t] = j ELSE u \in Coming(m, j)
        /\ Coming(m, j) \in SUBSET Crew /\ Coming(m, j)' \in SUBSET Crew
        /\ t \in Coming(m, j) <=> pc[t] = m /\ arg[t] = j
    BY StayMoves
  <2>2. t \notin Coming(m, j)
    BY <2>1
  <2>3. QED
    BY <2>1, <2>2
<1>2. UnitsInv'
  BY <1>1 DEF UnitsInv, SameCounts, SleepAt
<1>3. ASSUME NEW m \in SleepAt, NEW j
      PROVE  /\ Cardinality(Coming(m, j)) <= Cardinality(Coming(m, j)')
             /\ Cardinality(Coming(m, j)) \in Nat /\ Cardinality(Coming(m, j)') \in Nat
  BY <1>1, CrewCounted
<1>4. WakeupsInv'
  <2> SUFFICES ASSUME NEW m \in Mqs
               PROVE  /\ Asleep("mr_cli", m)' # {} => mq'[m].count <= Cardinality(Coming("mr_cli", m)')
                      /\ Asleep("ms_cli", m)' # {} =>
                            MSGQUEUE_SIZE - mq'[m].count <= Cardinality(Coming("ms_cli", m)')
    BY DEF WakeupsInv
  <2>1. mq[m].count \in Int /\ MSGQUEUE_SIZE \in Nat /\ mq'[m].count = mq[m].count
    BY IpcAssumption DEF MqTable, SameCounts
  <2>2. "mr_cli" \in SleepAt /\ "ms_cli" \in SleepAt
    BY DEF SleepAt
  <2>3. QED
    BY <1>1, <1>3, <2>1, <2>2 DEF WakeupsInv
<1>5. QED
  BY <1>2, <1>4

\* A step of the running task after which no object that had been found is fresh.
LEMMA FoundKept ==
    ASSUME CrewInv, FoundInv, NEW t \in Crew, current = t,
           \A u \in Crew : u # t => pc'[u] = pc[u] /\ arg'[u] = arg[u],
           \A s \in Sems : SemFresh(s)' => SemFresh(s), \A m \in Mqs : MqFresh(m)' => MqFresh(m),
           IpcLocals,
           pc'[t] \in {"sw_cli", "sw_woken", "sp_cli"} => ~SemFresh(arg[t])',
           pc'[t] \in {"sc_load", "sc_id"} => SemFresh(arg[t])',
           pc'[t] \in {"ms_cli", "mr_cli"} => ~MqFresh(arg[t])',
           pc'[t] \in {"mc_load", "mc_id"} => MqFresh(arg[t])'
    PROVE  FoundInv'
<1> SUFFICES ASSUME NEW u \in Crew
             PROVE  /\ pc'[u] \in {"sw_cli", "sw_woken", "sp_cli"} => ~SemFresh(arg[u])'
                    /\ pc'[u] \in {"sc_load", "sc_id"} => SemFresh(arg[u])'
                    /\ pc'[u] \in {"ms_cli", "mr_cli"} => ~MqFresh(arg[u])'
                    /\ pc'[u] \in {"mc_load", "mc_id"} => MqFresh(arg[u])'
  BY DEF FoundInv
<1>1. CASE u = t
  BY <1>1
<1>2. CASE u # t
  <2>1. pc'[u] = pc[u] /\ arg'[u] = arg[u] /\ pc[u] \notin Creating
    BY <1>2 DEF CrewInv
  <2>2. ASSUME pc[u] \in {"sw_cli", "sw_woken", "sp_cli"} PROVE ~SemFresh(arg[u])'
    <3>1. arg[u] \in Sems /\ ~SemFresh(arg[u])
      BY <2>2, CrewSlots DEF IpcLocals, FoundInv
    <3>2. QED
      BY <2>1, <3>1 DEF SemFresh
  <2>3. ASSUME pc[u] \in {"ms_cli", "mr_cli"} PROVE ~MqFresh(arg[u])'
    <3>1. arg[u] \in Mqs /\ ~MqFresh(arg[u])
      BY <2>3, CrewSlots DEF IpcLocals, FoundInv
    <3>2. QED
      BY <2>1, <3>1 DEF MqFresh
  <2>4. QED
    BY <2>1, <2>2, <2>3 DEF Creating
<1>3. QED
  BY <1>1, <1>2

SteadyInv == IpcInv /\ CrewInv /\ ListInv /\ FoundInv /\ UnitsInv /\ WakeupsInv

\* A tick changes neither what is found nor how many are coming.
LEMMA TickSteady ==
    ASSUME Steady, SteadyInv, SchedTick
    PROVE  CrewInv' /\ ListInv' /\ FoundInv' /\ UnitsInv' /\ WakeupsInv'
<1>1. Tick /\ UNCHANGED <<sem, mq, credit>> /\ SchedTypes /\ CrewInv /\ ListInv
  BY DEF SchedTick, ipcVars, SteadyInv, IpcInv
<1>2. /\ CrewInv' /\ ListInv' /\ UNCHANGED <<pc, arg>> /\ pc[current] \notin Creating
      /\ \A u \in Crew : state'[u] = "BLOCKED" <=> state[u] = "BLOCKED"
  BY <1>1, TickCrew
<1>3. \A l, k : Asleep(l, k)' = Asleep(l, k) /\ Coming(l, k)' = Coming(l, k)
  BY <1>2 DEF Asleep, Coming
<1>4. UnitsInv' /\ WakeupsInv'
  BY <1>1, <1>3 DEF UnitsInv, WakeupsInv, SteadyInv
<1>5. pc'[current'] \notin Creating
  BY <1>2 DEF CrewInv, SteadyInv
<1>6. \A s : (SemFresh(s)' <=> SemFresh(s)) /\ (MqFresh(s)' <=> MqFresh(s))
  BY <1>1, <1>2, <1>5 DEF SemFresh, MqFresh, Creating
<1>7. FoundInv'
  <2>1. \A u \in Crew : (SemFresh(arg[u])' <=> SemFresh(arg[u])) /\ (MqFresh(arg[u])' <=> MqFresh(arg[u]))
    BY <1>1, <1>2, <1>5 DEF SemFresh, MqFresh, Creating
  <2>2. QED
    BY <1>2, <2>1 DEF FoundInv, SteadyInv
<1>8. QED
  BY <1>2, <1>4, <1>7

\* The lookup of a call finds an object that exists, create one that does not.
LEMMA SearchFinds ==
    ASSUME SemTable, MqTable, NEW id \in Ids
    PROVE  /\ SlotsOf(sem, id) # {} => /\ Min(SlotsOf(sem, id)) \in Sems
                                       /\ sem[Min(SlotsOf(sem, id))].id # -1
           /\ SlotsOf(mq, id) # {} => /\ Min(SlotsOf(mq, id)) \in Mqs
                                      /\ mq[Min(SlotsOf(mq, id))].id # -1
<1>1. DOMAIN sem = Sems /\ DOMAIN mq = Mqs /\ Sems \subseteq Nat /\ Mqs \subseteq Nat /\ id # -1
  BY IpcAssumption DEF SemTable, MqTable, Sems, Mqs, Ids
<1>2. SlotsOf(sem, id) \in SUBSET Nat /\ SlotsOf(mq, id) \in SUBSET Nat
  BY <1>1 DEF SlotsOf
<1>3. SlotsOf(sem, id) # {} => Min(SlotsOf(sem, id)) \in SlotsOf(sem, id)
  BY <1>2, MinIsMember
<1>4. SlotsOf(mq, id) # {} => Min(SlotsOf(mq, id)) \in SlotsOf(mq, id)
  BY <1>2, MinIsMember
<1>5. QED
  BY <1>1, <1>3, <1>4 DEF SlotsOf

\* A create call picks a slot that is free.
LEMMA SearchFree ==
    ASSUME SemTable, MqTable
    PROVE  /\ FreeOf(sem) # {} => Min(FreeOf(sem)) \in Sems /\ sem[Min(FreeOf(sem))].id = -1
           /\ FreeOf(mq) # {} => Min(FreeOf(mq)) \in Mqs /\ mq[Min(FreeOf(mq))].id = -1
<1>1. /\ DOMAIN sem = Sems /\ DOMAIN mq = Mqs /\ Sems \subseteq Nat /\ Mqs \subseteq Nat
      /\ \A s \in Sems : sem[s].id \in -1 .. MaxIds
      /\ \A m \in Mqs : mq[m].id \in -1 .. MaxIds
      /\ MaxIds \in Nat
  BY IpcAssumption DEF SemTable, MqTable, Sems, Mqs
<1>2. FreeOf(sem) \in SUBSET Nat /\ FreeOf(mq) \in SUBSET Nat
  BY <1>1 DEF FreeOf
<1>3. FreeOf(sem) # {} => Min(FreeOf(sem)) \in FreeOf(sem)
  BY <1>2, MinIsMember
<1>4. FreeOf(mq) # {} => Min(FreeOf(mq)) \in FreeOf(mq)
  BY <1>2, MinIsMember
<1>5. /\ \A s \in Sems : sem[s].id < 0 => sem[s].id = -1
      /\ \A m \in Mqs : mq[m].id < 0 => mq[m].id = -1
  BY <1>1
<1>6. /\ \A s \in FreeOf(sem) : s \in Sems /\ sem[s].id < 0
      /\ \A m \in FreeOf(mq) : m \in Mqs /\ mq[m].id < 0
  BY <1>1 DEF FreeOf
<1>7. QED
  BY <1>3, <1>4, <1>5, <1>6

\* Entering a call: what the lookup found is there.
LEMMA EnterSteady ==
    ASSUME SteadyInv, NEW t \in Crew, At(t, "user"),
           NEW l \in {"sc_load", "sw_cli", "sp_cli", "mc_load", "ms_cli", "mr_cli"}, NEW s,
           Enter(t, l, s), UNCHANGED <<sem, mq, credit>>,
           l \in {"sw_cli", "sp_cli"} => sem[s].id # -1, l = "sc_load" => sem[s].id = -1,
           l \in {"ms_cli", "mr_cli"} => mq[s].id # -1, l = "mc_load" => mq[s].id = -1,
           l = "sw_cli" => "sem_wait" \in Calls[t],
           l = "ms_cli" => "msg_send" \in Calls[t],
           l = "mr_cli" => "msg_recv" \in Calls[t]
    PROVE  CrewInv' /\ ListInv' /\ FoundInv' /\ UnitsInv' /\ WakeupsInv'
<1>1. /\ current = t /\ pc[t] = "user" /\ pc' = [pc EXCEPT ![t] = l]
      /\ arg' = [arg EXCEPT ![t] = s] /\ UNCHANGED <<pid, state, next, rq, current, cpu>>
      /\ SchedTypes /\ CrewInv /\ ListInv /\ UnitsInv /\ WakeupsInv /\ MqTable /\ IpcLocals
      /\ FoundInv /\ arg \in [Slots -> Int] /\ pc \in [Slots -> Labels] /\ t \in Slots
  BY CrewSlots DEF At, Enter, Goto, tableVars, listVars, SteadyInv, IpcInv, SchedTypes, SchedType
<1>2. /\ \A u \in Crew : u # t => arg'[u] = arg[u] /\ pc'[u] = pc[u]
      /\ pc'[t] = l /\ arg'[t] = s
  BY <1>1, CrewSlots
<1>3. \A m \in SleepAt : \A j \in Objects(m) : WaitList(m, j)' = WaitList(m, j)
  BY DEF WaitList
<1>4. l \in {"user"} \cup IpcLabels /\ l # "sw_woken"
  BY DEF IpcLabels
<1>5. CrewInv' /\ ListInv'
  BY <1>1, <1>2, <1>3, <1>4, StayCrew
<1>6. SameCounts /\ pc[t] \notin SleepAt
  BY <1>1 DEF SameCounts, SleepAt
<1>7. UnitsInv' /\ WakeupsInv'
  BY <1>1, <1>2, <1>4, <1>6, QuietCounts
<1>8. FoundInv'
  <2>1. /\ \A r : SemFresh(r)' <=> sem[r].id = -1
        /\ \A r : MqFresh(r)' <=> mq[r].id = -1
    BY <1>1, <1>2 DEF SemFresh, MqFresh
  <2>2. /\ \A r \in Sems : SemFresh(r)' => SemFresh(r)
        /\ \A r \in Mqs : MqFresh(r)' => MqFresh(r)
    BY <2>1 DEF SemFresh, MqFresh
  <2>3. (SemFresh(arg[t])' <=> sem[s].id = -1) /\ (MqFresh(arg[t])' <=> mq[s].id = -1)
    BY <1>1, <1>2 DEF SemFresh, MqFresh
  <2>4. QED
    BY <1>1, <1>2, <2>2, <2>3, FoundKept
<1>9. QED
  BY <1>5, <1>7, <1>8

\* Every call of the crew.
LEMMA CallSteady ==
    ASSUME Steady, SteadyInv, NEW t \in Slots, IpcCall(t)
    PROVE  CrewInv' /\ ListInv' /\ FoundInv' /\ UnitsInv' /\ WakeupsInv'
<1>0. SemTable /\ MqTable
  BY DEF SteadyInv, IpcInv
<1>1. t \in Crew
  BY DEF IpcCall, SysSemCreate, SysSemWait, SysSemPost, SysSemDestroy, SysMsgCreate, SysMsgSend,
         SysMsgRecv, SysMsgDestroy, At, SteadyInv, CrewInv
<1>2. "sem_destroy" \notin Calls[t] /\ "msg_destroy" \notin Calls[t]
  BY DEF Steady
<1>3. CASE SysSemCreate(t)
  BY <1>0, <1>1, <1>3, SearchFree, EnterSteady DEF SysSemCreate, ipcVars
<1>4. CASE SysMsgCreate(t)
  BY <1>0, <1>1, <1>4, SearchFree, EnterSteady DEF SysMsgCreate, ipcVars
<1>5. ASSUME NEW id \in Ids, SysSemWait(t, id) PROVE CrewInv' /\ ListInv' /\ FoundInv' /\ UnitsInv' /\ WakeupsInv'
  BY <1>0, <1>1, <1>5, SearchFinds, EnterSteady DEF SysSemWait, ipcVars
<1>6. ASSUME NEW id \in Ids, SysSemPost(t, id) PROVE CrewInv' /\ ListInv' /\ FoundInv' /\ UnitsInv' /\ WakeupsInv'
  BY <1>0, <1>1, <1>6, SearchFinds, EnterSteady DEF SysSemPost, ipcVars
<1>7. ASSUME NEW id \in Ids, SysMsgRecv(t, id) PROVE CrewInv' /\ ListInv' /\ FoundInv' /\ UnitsInv' /\ WakeupsInv'
  BY <1>0, <1>1, <1>7, SearchFinds, EnterSteady DEF SysMsgRecv, ipcVars
<1>8. ASSUME NEW id \in Ids, NEW x, NEW len, SysMsgSend(t, id, x, len)
      PROVE CrewInv' /\ ListInv' /\ FoundInv' /\ UnitsInv' /\ WakeupsInv'
  BY <1>0, <1>1, <1>8, SearchFinds, EnterSteady DEF SysMsgSend
<1>9. QED
  BY <1>2, <1>3, <1>4, <1>5, <1>6, <1>7, <1>8 DEF IpcCall, SysSemDestroy, SysMsgDestroy

\* A step that replaces one entry of a table leaves all other wait lists alone.
LEMMA SemLists ==
    ASSUME SemTable, NEW s \in Sems, NEW e, sem' = [sem EXCEPT ![s] = e], mq' = mq
    PROVE  /\ WaitList("sw_woken", s)' = e.q
           /\ \A l \in SleepAt : \A k \in Objects(l) :
                  l # "sw_woken" \/ k # s => WaitList(l, k)' = WaitList(l, k)
BY DEF SemTable, WaitList, SleepAt, Objects

\* The same for the table of message queues.
LEMMA MqLists ==
    ASSUME MqTable, NEW m \in Mqs, NEW e, mq' = [mq EXCEPT ![m] = e], sem' = sem
    PROVE  /\ WaitList("mr_cli", m)' = e.recvq /\ WaitList("ms_cli", m)' = e.sendq
           /\ \A l \in SleepAt : \A k \in Objects(l) :
                  l = "sw_woken" \/ k # m => WaitList(l, k)' = WaitList(l, k)
BY DEF MqTable, WaitList, SleepAt, Objects

\* The wait list of an object nobody has found is empty, and nobody comes for it.
LEMMA FreshEmpty ==
    ASSUME SteadyInv
    PROVE  /\ \A s \in Sems : SemFresh(s) => /\ Coming("sw_woken", s) = {} /\ sem[s].q = EmptyQueue
           /\ \A m \in Mqs : MqFresh(m) => /\ Asleep("mr_cli", m) = {} /\ Asleep("ms_cli", m) = {}
                                           /\ mq[m].recvq = EmptyQueue /\ mq[m].sendq = EmptyQueue
<1>1. ASSUME NEW s \in Sems, SemFresh(s) PROVE Coming("sw_woken", s) = {} /\ sem[s].q = EmptyQueue
  <2>1. Coming("sw_woken", s) = {} /\ Asleep("sw_woken", s) = {}
    BY <1>1 DEF SteadyInv, FoundInv, Coming, Asleep
  <2>2. Lists(next, sem[s].q, Asleep("sw_woken", s))
    BY DEF SteadyInv, ListInv, SleepAt, Objects, WaitList
  <2>3. sem[s].q.head = NULL /\ sem[s].q.tail = NULL /\ sem[s].q \in Queues
    BY <2>1, <2>2, ListEmpty DEF SteadyInv, IpcInv, SemTable
  <2>4. QED
    BY <2>1, <2>3 DEF Queues, EmptyQueue
<1>2. ASSUME NEW m \in Mqs, MqFresh(m)
      PROVE  /\ Asleep("mr_cli", m) = {} /\ Asleep("ms_cli", m) = {}
             /\ mq[m].recvq = EmptyQueue /\ mq[m].sendq = EmptyQueue
  <2>1. Asleep("mr_cli", m) = {} /\ Asleep("ms_cli", m) = {}
    BY <1>2 DEF SteadyInv, FoundInv, Asleep
  <2>2. Lists(next, mq[m].recvq, Asleep("mr_cli", m)) /\ Lists(next, mq[m].sendq, Asleep("ms_cli", m))
    BY DEF SteadyInv, ListInv, SleepAt, Objects, WaitList
  <2>3. /\ mq[m].recvq.head = NULL /\ mq[m].recvq.tail = NULL /\ mq[m].recvq \in Queues
        /\ mq[m].sendq.head = NULL /\ mq[m].sendq.tail = NULL /\ mq[m].sendq \in Queues
    BY <2>1, <2>2, ListEmpty DEF SteadyInv, IpcInv, MqTable
  <2>4. QED
    BY <2>1, <2>3 DEF Queues, EmptyQueue
<1>3. QED
  BY <1>1, <1>2

\* The steps of sem_create and msg_queue_create.
LEMMA CreateSteady ==
    ASSUME Steady, SteadyInv, NEW t \in Slots,
           \/ SemCreateLoad(t) \/ SemCreateId(t) \/ \E v \in SemInits : SemCreateFill(t, v)
           \/ MsgCreateLoad(t) \/ MsgCreateId(t) \/ MsgCreateFill(t)
    PROVE  CrewInv' /\ ListInv' /\ FoundInv' /\ UnitsInv' /\ WakeupsInv'
<1> DEFINE k == arg[t]
<1>1. /\ SchedTypes /\ CrewInv /\ ListInv /\ UnitsInv /\ WakeupsInv /\ SemTable /\ MqTable /\ IpcLocals
      /\ FoundInv /\ arg \in [Slots -> Int] /\ pc \in [Slots -> Labels] /\ val \in [Slots -> Int]
  BY DEF SteadyInv, IpcInv, SchedTypes, SchedType
<1>2. /\ current = t /\ t \in Crew /\ pc[t] \in Creating /\ pc[t] \notin SleepAt
      /\ UNCHANGED <<pid, state, next, rq, current, cpu>>
      /\ \A u \in Crew : u # t => arg'[u] = arg[u] /\ pc'[u] = pc[u]
  BY <1>1, CrewSlots DEF SemCreateLoad, SemCreateId, SemCreateFill, MsgCreateLoad, MsgCreateId, MsgCreateFill,
     Load, At, Goto, Return, tableVars, listVars, Creating, SleepAt, CrewInv
<1>3. ASSUME NEW l \in {"user", "sc_id", "sc_fill", "mc_id", "mc_fill"}, pc' = [pc EXCEPT ![t] = l],
             \A m \in SleepAt : \A j \in Objects(m) : WaitList(m, j)' = WaitList(m, j)
      PROVE  /\ CrewInv' /\ ListInv' /\ pc'[t] = l
             /\ SameCounts => UnitsInv' /\ WakeupsInv'
             /\ \A m, j : Asleep(m, j)' = Asleep(m, j)
             /\ \A m \in SleepAt : \A j : Coming(m, j)' = Coming(m, j)
  <2>1. l \in {"user"} \cup IpcLabels /\ l # "sw_woken" /\ l \notin SleepAt
    BY DEF IpcLabels, SleepAt
  <2>2. CrewInv' /\ ListInv' /\ pc'[t] = l
    BY <1>1, <1>2, <1>3, <2>1, StayCrew
  <2>3. SameCounts => UnitsInv' /\ WakeupsInv'
    BY <1>1, <1>2, <1>3, <2>1, QuietCounts
  <2>4. ASSUME NEW m, NEW j
        PROVE  /\ Asleep(m, j)' = Asleep(m, j)
               /\ \A u \in Crew : u \in Coming(m, j)' <=>
                      IF u = t THEN l = m /\ arg'[t] = j ELSE u \in Coming(m, j)
               /\ Coming(m, j) \in SUBSET Crew /\ Coming(m, j)' \in SUBSET Crew
               /\ t \in Coming(m, j) <=> pc[t] = m /\ arg[t] = j
    BY <1>1, <1>2, <1>3, StayMoves
  <2>5. ASSUME NEW m \in SleepAt, NEW j PROVE Coming(m, j)' = Coming(m, j)
    <3>1. t \notin Coming(m, j) /\ t \notin Coming(m, j)'
      BY <1>2, <2>1, <2>4
    <3>2. QED
      BY <3>1, <2>4
  <2>6. QED
    BY <2>2, <2>3, <2>4, <2>5
<1>4. CASE SemCreateLoad(t) \/ MsgCreateLoad(t)
  <2>1. PICK l \in {"sc_id", "mc_id"} : /\ pc' = [pc EXCEPT ![t] = l] /\ UNCHANGED <<arg, sem, mq, credit>>
                                        /\ pc[t] = IF l = "sc_id" THEN "sc_load" ELSE "mc_load"
    BY <1>4 DEF SemCreateLoad, MsgCreateLoad, Load, Goto, At, ipcVars
  <2>2. \A m \in SleepAt : \A j \in Objects(m) : WaitList(m, j)' = WaitList(m, j)
    BY <2>1 DEF WaitList
  <2>3. SameCounts
    BY <2>1 DEF SameCounts
  <2>4. CrewInv' /\ ListInv' /\ pc'[t] = l /\ UnitsInv' /\ WakeupsInv'
    BY <1>3, <2>1, <2>2, <2>3
  <2>5. \A r : (SemFresh(r)' <=> SemFresh(r)) /\ (MqFresh(r)' <=> MqFresh(r))
    BY <1>2, <2>1, <2>4 DEF SemFresh, MqFresh
  <2>6. (SemFresh(arg[t])' <=> SemFresh(arg[t])) /\ (MqFresh(arg[t])' <=> MqFresh(arg[t]))
    BY <1>2, <2>1, <2>4 DEF SemFresh, MqFresh
  <2>7. FoundInv'
    <3>1. (l = "sc_id" => SemFresh(arg[t])) /\ (l = "mc_id" => MqFresh(arg[t]))
      BY <1>1, <1>2, <2>1 DEF FoundInv
    <3>2. QED
      BY <1>1, <1>2, <2>4, <2>5, <2>6, <3>1, FoundKept
  <2>8. QED
    BY <2>4, <2>7
<1>5. CASE SemCreateId(t)
  <2>1. /\ k \in Sems /\ val[t] \in 0 .. MaxIds - 1 /\ pc[t] = "sc_id"
        /\ pc' = [pc EXCEPT ![t] = "sc_fill"] /\ UNCHANGED <<arg, mq, credit>>
        /\ sem' = [sem EXCEPT ![k].id = val[t]]
    BY <1>1, <1>5 DEF SemCreateId, Goto, At, IpcLocals
  <2> HIDE DEF k
  <2>2. sem' = [sem EXCEPT ![k] = [sem[k] EXCEPT !.id = val[t]]]
    BY <1>1, <2>1 DEF SemTable
  <2>3. /\ \A s \in Sems : sem'[s].value = sem[s].value /\ sem'[s].q = sem[s].q
        /\ \A s \in Sems : s # k => sem'[s].id = sem[s].id
    BY <1>1, <2>1, <2>2 DEF SemTable
  <2>4. \A m \in SleepAt : \A j \in Objects(m) : WaitList(m, j)' = WaitList(m, j)
    BY <2>1, <2>3 DEF WaitList, Objects
  <2>5. SameCounts
    BY <2>1, <2>3 DEF SameCounts
  <2>6. CrewInv' /\ ListInv' /\ pc'[t] = "sc_fill" /\ UnitsInv' /\ WakeupsInv'
    BY <1>3, <2>1, <2>4, <2>5
  <2>7. SemFresh(k)
    BY <1>1, <1>2, <2>1 DEF FoundInv, k
  <2>8. /\ \A r \in Sems : SemFresh(r)' => SemFresh(r)
        /\ \A r \in Mqs : MqFresh(r)' => MqFresh(r)
    <3>1. \A r \in Sems : r # k => (SemFresh(r)' => SemFresh(r))
      BY <1>2, <2>1, <2>3, <2>6 DEF SemFresh, k
    <3>2. \A r \in Mqs : MqFresh(r)' => MqFresh(r)
      BY <1>2, <2>1, <2>6 DEF MqFresh
    <3>3. QED
      BY <2>7, <3>1, <3>2
  <2>9. FoundInv'
    BY <1>1, <1>2, <2>6, <2>8, FoundKept
  <2>10. QED
    BY <2>6, <2>9
<1>6. CASE MsgCreateId(t)
  <2>1. /\ k \in Mqs /\ val[t] \in 0 .. MaxIds - 1 /\ pc[t] = "mc_id"
        /\ pc' = [pc EXCEPT ![t] = "mc_fill"] /\ UNCHANGED <<arg, sem, credit>>
        /\ mq' = [mq EXCEPT ![k].id = val[t]]
    BY <1>1, <1>6 DEF MsgCreateId, Goto, At, IpcLocals
  <2> HIDE DEF k
  <2>2. mq' = [mq EXCEPT ![k] = [mq[k] EXCEPT !.id = val[t]]]
    BY <1>1, <2>1 DEF MqTable
  <2>3. /\ \A m \in Mqs : /\ mq'[m].count = mq[m].count /\ mq'[m].recvq = mq[m].recvq
                          /\ mq'[m].sendq = mq[m].sendq
        /\ \A m \in Mqs : m # k => mq'[m].id = mq[m].id
    BY <1>1, <2>1, <2>2 DEF MqTable
  <2>4. \A m \in SleepAt : \A j \in Objects(m) : WaitList(m, j)' = WaitList(m, j)
    BY <2>1, <2>3 DEF WaitList, Objects
  <2>5. SameCounts
    BY <2>1, <2>3 DEF SameCounts
  <2>6. CrewInv' /\ ListInv' /\ pc'[t] = "mc_fill" /\ UnitsInv' /\ WakeupsInv'
    BY <1>3, <2>1, <2>4, <2>5
  <2>7. MqFresh(k)
    BY <1>1, <1>2, <2>1 DEF FoundInv, k
  <2>8. /\ \A r \in Sems : SemFresh(r)' => SemFresh(r)
        /\ \A r \in Mqs : MqFresh(r)' => MqFresh(r)
    <3>1. \A r \in Mqs : r # k => (MqFresh(r)' => MqFresh(r))
      BY <1>2, <2>1, <2>3, <2>6 DEF MqFresh, k
    <3>2. \A r \in Sems : SemFresh(r)' => SemFresh(r)
      BY <1>2, <2>1, <2>6 DEF SemFresh
    <3>3. QED
      BY <2>7, <3>1, <3>2
  <2>9. FoundInv'
    BY <1>1, <1>2, <2>6, <2>8, FoundKept
  <2>10. QED
    BY <2>6, <2>9
<1>7. ASSUME NEW v \in SemInits, SemCreateFill(t, v)
      PROVE  CrewInv' /\ ListInv' /\ FoundInv' /\ UnitsInv' /\ WakeupsInv'
  <2> DEFINE w == StartValue(v)
  <2>1. /\ k \in Sems /\ pc[t] = "sc_fill"
        /\ pc' = [pc EXCEPT ![t] = "user"] /\ UNCHANGED mq
        /\ sem' = [sem EXCEPT ![k].value = w, ![k].q = EmptyQueue]
        /\ credit' = [credit EXCEPT ![k] = w] /\ credit \in [Sems -> Int] /\ w \in Int
    <3>1. w \in Int
      BY IpcAssumption DEF StartValue
    <3>2. QED
      BY <1>1, <1>7, <3>1 DEF SemCreateFill, Goto, Return, At, IpcLocals, SemTable
  <2> HIDE DEF k, w
  <2>2. SemFresh(k)
    BY <1>2, <2>1 DEF SemFresh, k
  <2>3. Coming("sw_woken", k) = {} /\ sem[k].q = EmptyQueue
    BY <2>1, <2>2, FreshEmpty
  <2>4. /\ \A s \in Sems : sem'[s].q = sem[s].q /\ sem'[s].id = sem[s].id
        /\ \A s \in Sems : s # k => sem'[s].value = sem[s].value
        /\ sem'[k].value = w
    BY <1>1, <2>1, <2>3 DEF SemTable
  <2>5. \A m \in SleepAt : \A j \in Objects(m) : WaitList(m, j)' = WaitList(m, j)
    BY <2>1, <2>4 DEF WaitList, Objects
  <2>6. /\ CrewInv' /\ ListInv' /\ pc'[t] = "user"
        /\ \A m, j : Asleep(m, j)' = Asleep(m, j)
        /\ \A m \in SleepAt : \A j : Coming(m, j)' = Coming(m, j)
    BY <1>3, <2>1, <2>5
  <2>7. WakeupsInv'
    BY <1>1, <2>1, <2>6 DEF WakeupsInv, SleepAt
  <2>8. UnitsInv'
    <3> SUFFICES ASSUME NEW s \in Sems
                 PROVE  credit'[s] = sem'[s].value + Cardinality(Coming("sw_woken", s)')
      BY DEF UnitsInv
    <3>1. Coming("sw_woken", s)' = Coming("sw_woken", s)
      BY <2>6 DEF SleepAt
    <3>2. CASE s = k
      <4>1. Cardinality(Coming("sw_woken", s)') = 0
        BY <2>3, <3>1, <3>2, FS_EmptySet
      <4>2. QED
        BY <2>1, <2>4, <3>2, <4>1
    <3>3. CASE s # k
      BY <1>1, <2>1, <2>4, <3>1, <3>3 DEF UnitsInv
    <3>4. QED
      BY <3>2, <3>3
  <2>9. /\ \A r \in Sems : SemFresh(r)' => SemFresh(r)
        /\ \A r \in Mqs : MqFresh(r)' => MqFresh(r)
    BY <1>2, <2>1, <2>4, <2>6 DEF SemFresh, MqFresh
  <2>10. FoundInv'
    BY <1>1, <1>2, <2>6, <2>9, FoundKept
  <2>11. QED
    BY <2>6, <2>7, <2>8, <2>10
<1>8. CASE MsgCreateFill(t)
  <2> DEFINE e == Emptied(mq[k].id, mq[k])
  <2>1. /\ k \in Mqs /\ pc[t] = "mc_fill"
        /\ pc' = [pc EXCEPT ![t] = "user"] /\ UNCHANGED <<sem, credit>>
        /\ mq' = [mq EXCEPT ![k] = e]
    BY <1>1, <1>8 DEF MsgCreateFill, Goto, Return, At, IpcLocals
  <2>2. MqFresh(k)
    BY <1>2, <2>1 DEF MqFresh
  <2>3. /\ Asleep("mr_cli", k) = {} /\ Asleep("ms_cli", k) = {}
        /\ mq[k].recvq = EmptyQueue /\ mq[k].sendq = EmptyQueue
    BY <2>1, <2>2, FreshEmpty
  <2>4. e.id = mq[k].id /\ e.recvq = EmptyQueue /\ e.sendq = EmptyQueue
    BY DEF Emptied
  <2> HIDE DEF k, e
  <2>5. /\ \A m \in Mqs : /\ mq'[m].id = mq[m].id /\ mq'[m].recvq = mq[m].recvq
                          /\ mq'[m].sendq = mq[m].sendq
        /\ \A m \in Mqs : m # k => mq'[m].count = mq[m].count
    BY <1>1, <2>1, <2>3, <2>4 DEF MqTable
  <2>6. \A m \in SleepAt : \A j \in Objects(m) : WaitList(m, j)' = WaitList(m, j)
    BY <2>1, <2>5 DEF WaitList, Objects
  <2>7. /\ CrewInv' /\ ListInv' /\ pc'[t] = "user"
        /\ \A m, j : Asleep(m, j)' = Asleep(m, j)
        /\ \A m \in SleepAt : \A j : Coming(m, j)' = Coming(m, j)
    BY <1>3, <2>1, <2>6
  <2>8. UnitsInv'
    BY <1>1, <2>1, <2>7 DEF UnitsInv, SleepAt
  <2>9. WakeupsInv'
    BY <1>1, <2>3, <2>5, <2>7 DEF WakeupsInv, SleepAt
  <2>10. /\ \A r \in Sems : SemFresh(r)' => SemFresh(r)
         /\ \A r \in Mqs : MqFresh(r)' => MqFresh(r)
    BY <1>2, <2>1, <2>5, <2>7 DEF SemFresh, MqFresh
  <2>11. FoundInv'
    BY <1>1, <1>2, <2>7, <2>10, FoundKept
  <2>12. QED
    BY <2>7, <2>8, <2>9, <2>11
<1>9. QED
  BY <1>4, <1>5, <1>6, <1>7, <1>8

\* Who sleeps and who is coming after the running task has gone to sleep.
LEMMA BlockMoves ==
    ASSUME SchedTypes, CrewInv, NEW t \in Crew, current = t, NEW l \in SleepAt,
           pc' = [pc EXCEPT ![t] = l], arg' = arg,
           FallsAsleep(t),
           NEW m, NEW j
    PROVE  /\ m # l \/ j # arg[t] => Asleep(m, j)' = Asleep(m, j)
           /\ Coming(m, j)' = Coming(m, j) \ {t}
           /\ Coming(m, j) \in SUBSET Crew
           /\ t \in Coming(m, j) <=> pc[t] = m /\ arg[t] = j
<1>0. state[t] = "RUNNING"
  BY DEF CrewInv
<1>1. \A u \in Crew : pc'[u] = IF u = t THEN l ELSE pc[u]
  BY CrewSlots DEF SchedTypes, SchedType
<1>2. m # l \/ j # arg[t] => \A u \in Crew : u \in Asleep(m, j)' <=> u \in Asleep(m, j)
  BY <1>0, <1>1 DEF Asleep, FallsAsleep
<1>3. \A u \in Crew : u \in Coming(m, j)' <=> u \in Coming(m, j) \ {t}
  BY <1>0, <1>1 DEF Coming, FallsAsleep
<1>4. QED
  BY <1>0, <1>2, <1>3 DEF Asleep, Coming

\* Who sleeps and who is coming after the running task has woken h and returned.
LEMMA WakeMoves ==
    ASSUME SchedTypes, CrewInv, NEW t \in Crew, current = t, NEW l \in SleepAt, NEW k,
           pc' = [pc EXCEPT ![t] = "user"], \A u \in Crew : u # t => arg'[u] = arg[u],
           NEW h \in Asleep(l, k), IsWoken(h),
           NEW m \in SleepAt, NEW j
    PROVE  /\ Asleep(m, j)' = Asleep(m, j) \ {h}
           /\ m = l /\ j = k => Coming(m, j)' = (Coming(m, j) \cup {h}) \ {t}
           /\ m # l \/ j # k => Coming(m, j)' = Coming(m, j) \ {t}
           /\ Coming(m, j) \in SUBSET Crew /\ h \in Crew /\ h # t /\ h \notin Coming(m, j)
           /\ t \in Coming(m, j) <=> pc[t] = m /\ arg[t] = j
<1>0. state[t] = "RUNNING" /\ h \in Crew /\ state[h] = "BLOCKED" /\ h # t /\ pc[h] = l /\ arg[h] = k
  BY DEF CrewInv, Asleep
<1>1. \A u \in Crew : pc'[u] = IF u = t THEN "user" ELSE pc[u]
  BY CrewSlots DEF SchedTypes, SchedType
<1>2. \A u \in Crew : u \in Asleep(m, j)' <=> u \in Asleep(m, j) \ {h}
  BY <1>0, <1>1 DEF Asleep, SleepAt, IsWoken
<1>3. \A u \in Crew : u \in Coming(m, j)' <=>
          u # t /\ (u \in Coming(m, j) \/ (u = h /\ m = l /\ j = k))
  BY <1>0, <1>1 DEF Coming, SleepAt, IsWoken
<1>4. /\ m = l /\ j = k => Coming(m, j)' = (Coming(m, j) \cup {h}) \ {t}
      /\ m # l \/ j # k => Coming(m, j)' = Coming(m, j) \ {t}
  <2>1. Coming(m, j)' \subseteq Crew /\ Coming(m, j) \subseteq Crew
    BY DEF Coming
  <2>2. CASE m = l /\ j = k
    BY <1>0, <1>3, <2>1, <2>2
  <2>3. CASE ~(m = l /\ j = k)
    BY <1>0, <1>3, <2>1, <2>3
  <2>4. QED
    BY <2>2, <2>3
<1>5. QED
  BY <1>0, <1>2, <1>4 DEF Asleep, Coming

\* Found objects stay found when the running task returns or goes to sleep.
LEMMA LeaveFound ==
    ASSUME SchedTypes, IpcLocals, CrewInv, CrewInv', FoundInv, NEW t \in Crew, current = t,
           pc[t] \notin Creating, NEW l \in {"user"} \cup SleepAt, pc' = [pc EXCEPT ![t] = l],
           \A u \in Crew : u # t => arg'[u] = arg[u],
           IF l = "sw_woken" THEN pc[t] = "sw_cli" ELSE l = "user" \/ pc[t] = l,
           l # "user" => arg'[t] = arg[t],
           \A s \in Sems : sem'[s].id = sem[s].id, \A m \in Mqs : mq'[m].id = mq[m].id
    PROVE  FoundInv'
<1>1. /\ pc'[t] = l /\ t \in Slots /\ l \notin Creating
      /\ \A u \in Crew : u # t => arg'[u] = arg[u] /\ pc'[u] = pc[u]
  BY CrewSlots DEF SchedTypes, SchedType, SleepAt, Creating
<1>2. pc'[current'] \notin Creating
  <2>1. CASE current' = t
    BY <1>1, <2>1
  <2>2. CASE current' # t
    <3>1. current' \in Crew /\ pc[current'] \notin Creating
      BY <2>2 DEF CrewInv
    <3>2. QED
      BY <1>1, <2>2, <3>1
  <2>3. QED
    BY <2>1, <2>2
<1>3. /\ \A s \in Sems : SemFresh(s)' <=> SemFresh(s)
      /\ \A m \in Mqs : MqFresh(m)' <=> MqFresh(m)
  BY <1>2 DEF SemFresh, MqFresh, Creating
<1>4. ASSUME l = "sw_woken" PROVE ~SemFresh(arg[t])'
  <2>1. arg[t] \in Sems /\ ~SemFresh(arg[t]) /\ arg'[t] = arg[t]
    BY <1>1, <1>4 DEF IpcLocals, FoundInv
  <2>2. QED
    BY <1>2, <2>1 DEF SemFresh, Creating
<1>5. ASSUME l \in {"ms_cli", "mr_cli"} PROVE ~MqFresh(arg[t])'
  <2>1. arg[t] \in Mqs /\ ~MqFresh(arg[t]) /\ arg'[t] = arg[t]
    BY <1>1, <1>5 DEF IpcLocals, FoundInv
  <2>2. QED
    BY <1>2, <2>1 DEF MqFresh, Creating
<1>6. QED
  BY <1>1, <1>3, <1>4, <1>5, FoundKept DEF SleepAt

\* sem_wait and sem_post conserve units and keep the wait lists exact.
LEMMA SemSteady ==
    ASSUME Steady, SteadyInv, NEW t \in Slots, SemWaitCli(t) \/ SemWaitWoken(t) \/ SemPostCli(t)
    PROVE  CrewInv' /\ ListInv' /\ FoundInv' /\ UnitsInv' /\ WakeupsInv'
<1>0. PICK s : s = arg[t]
  OBVIOUS
<1> DEFINE Sw(r) == Coming("sw_woken", r)
<1>1. /\ SchedTypes /\ CrewInv /\ ListInv /\ UnitsInv /\ WakeupsInv /\ SemTable /\ MqTable /\ IpcLocals
      /\ FoundInv /\ arg \in [Slots -> Int] /\ pc \in [Slots -> Labels]
      /\ sem \in [Sems -> [id : -1 .. MaxIds, value : 0 .. MaxValue, q : Queues]]
      /\ credit \in [Sems -> Int] /\ MaxValue \in Nat
  BY IpcAssumption DEF SteadyInv, IpcInv, SchedTypes, SchedType, SemTable
<1>2. /\ current = t /\ t \in Crew /\ pc[t] \notin Creating /\ s \in Sems
      /\ UNCHANGED mq /\ pc[t] \in {"sw_cli", "sw_woken", "sp_cli"}
  BY <1>0, <1>1 DEF SemWaitCli, SemWaitWoken, SemPostCli, At, Creating, CrewInv, IpcLocals
<1>3. /\ "sw_woken" \in SleepAt /\ "ms_cli" \in SleepAt /\ "mr_cli" \in SleepAt
      /\ s \in Objects("sw_woken") /\ WaitList("sw_woken", s) = sem[s].q
      /\ "user" \in {"user"} \cup IpcLabels
  BY <1>2 DEF SleepAt, Objects, WaitList
<1>4. \A r \in Sems : /\ sem[r].value \in Nat /\ Cardinality(Sw(r)) \in Nat
                      /\ credit[r] = sem[r].value + Cardinality(Sw(r)) /\ ~(credit[r] < 0)
  <2> TAKE r \in Sems
  <2>1. sem[r].value \in Nat
    BY <1>1
  <2>2. Sw(r) \in SUBSET Crew
    BY DEF Coming
  <2>3. Cardinality(Sw(r)) \in Nat
    BY <2>2, CrewCounted
  <2>4. QED
    BY <1>1, <2>1, <2>3 DEF UnitsInv
<1>5. ASSUME NEW n \in Int, Charge(s, n)
      PROVE  credit' = [credit EXCEPT ![s] = credit[s] + n]
  BY <1>1, <1>2, <1>4, <1>5 DEF Charge
<1>6. CASE SemWaitCli(t) /\ sem[s].value > 0
  <2>1. /\ sem' = [sem EXCEPT ![s].value = @ - 1] /\ Charge(s, -1) /\ Return(t)
        /\ UNCHANGED <<pid, state, next, rq, current, cpu>> /\ pc[t] = "sw_cli"
    BY <1>0, <1>1, <1>2, <1>6 DEF SemWaitCli, tableVars, listVars, At
  <2>2. /\ pc' = [pc EXCEPT ![t] = "user"] /\ \A u \in Crew : u # t => arg'[u] = arg[u]
    BY <1>1, <2>1, CrewSlots DEF Return, Goto
  <2>3. /\ \A r \in Sems : sem'[r].id = sem[r].id /\ sem'[r].q = sem[r].q
        /\ \A r \in Sems : sem'[r].value = IF r = s THEN sem[r].value - 1 ELSE sem[r].value
    BY <1>1, <1>2, <2>1
  <2>4. \A m \in SleepAt : \A j \in Objects(m) : WaitList(m, j)' = WaitList(m, j)
    BY <1>2, <2>3 DEF WaitList, Objects
  <2>5. CrewInv' /\ ListInv'
    BY <1>1, <1>2, <1>3, <2>1, <2>2, <2>4, StayCrew
  <2>6. ASSUME NEW m \in SleepAt, NEW j
        PROVE  Asleep(m, j)' = Asleep(m, j) /\ Coming(m, j)' = Coming(m, j)
    <3>1. /\ Asleep(m, j)' = Asleep(m, j)
          /\ \A u \in Crew : u \in Coming(m, j)' <=>
                 IF u = t THEN "user" = m /\ arg'[t] = j ELSE u \in Coming(m, j)
          /\ Coming(m, j) \in SUBSET Crew /\ Coming(m, j)' \in SUBSET Crew
          /\ t \in Coming(m, j) <=> pc[t] = m /\ arg[t] = j
      BY <1>1, <1>2, <2>1, <2>2, StayMoves
    <3>2. t \notin Coming(m, j) /\ t \notin Coming(m, j)'
      BY <2>1, <3>1 DEF SleepAt
    <3>3. QED
      BY <3>1, <3>2
  <2>7. credit' = [credit EXCEPT ![s] = credit[s] + -1]
    BY <1>5, <2>1
  <2>8. UnitsInv'
    <3> SUFFICES ASSUME NEW r \in Sems
                 PROVE  credit'[r] = sem'[r].value + Cardinality(Coming("sw_woken", r)')
      BY DEF UnitsInv
    <3>1. Coming("sw_woken", r)' = Coming("sw_woken", r)
      BY <1>3, <2>6
    <3>2. QED
      BY <1>1, <1>4, <2>3, <2>7, <3>1
  <2>9. WakeupsInv'
    BY <1>1, <1>2, <1>3, <2>6 DEF WakeupsInv
  <2>10. FoundInv'
    BY <1>1, <1>2, <2>2, <2>3, <2>5, LeaveFound
  <2>11. QED
    BY <2>5, <2>8, <2>9, <2>10
<1>7. CASE SemWaitCli(t) /\ ~(sem[s].value > 0)
  <2>1. /\ sem' = [sem EXCEPT ![s].q = EnqueueQ(@, t)] /\ BlockOn(t, sem[s].q, "sw_woken")
        /\ credit' = credit /\ pc[t] = "sw_cli"
    BY <1>0, <1>1, <1>2, <1>7 DEF SemWaitCli, At
  <2>2. /\ \A r \in Sems : sem'[r].id = sem[r].id /\ sem'[r].value = sem[r].value
        /\ \A r \in Sems : r # s => sem'[r].q = sem[r].q
        /\ sem'[s].q = EnqueueQ(sem[s].q, t)
    BY <1>1, <1>2, <2>1
  <2>3. /\ WaitList("sw_woken", s)' = EnqueueQ(WaitList("sw_woken", s), t)
        /\ \A m \in SleepAt : \A j \in Objects(m) :
               m # "sw_woken" \/ j # s => WaitList(m, j)' = WaitList(m, j)
    BY <1>2, <1>3, <2>2 DEF WaitList, Objects
  <2>4. arg[t] = s
    BY <1>0
  <2>5. /\ CrewInv' /\ ListInv'
        /\ pc' = [pc EXCEPT ![t] = "sw_woken"] /\ arg' = arg
        /\ FallsAsleep(t)
    BY <1>1, <1>2, <1>3, <2>1, <2>3, <2>4, BlockCrew
  <2>6. ASSUME NEW m \in SleepAt, NEW j
        PROVE  /\ m # "sw_woken" => Asleep(m, j)' = Asleep(m, j)
               /\ Coming(m, j)' = Coming(m, j)
    <3>1. /\ m # "sw_woken" \/ j # s => Asleep(m, j)' = Asleep(m, j)
          /\ Coming(m, j)' = Coming(m, j) \ {t}
          /\ t \in Coming(m, j) <=> pc[t] = m /\ arg[t] = j
      <4>1. SchedTypes /\ CrewInv /\ t \in Crew /\ current = t
        BY <1>1, <1>2
      <4>2. "sw_woken" \in SleepAt
        BY <1>3
      <4>3. /\ pc' = [pc EXCEPT ![t] = "sw_woken"] /\ arg' = arg /\ FallsAsleep(t)
        BY <2>5
      <4>4. /\ m # "sw_woken" \/ j # arg[t] => Asleep(m, j)' = Asleep(m, j)
            /\ Coming(m, j)' = Coming(m, j) \ {t}
            /\ Coming(m, j) \in SUBSET Crew
            /\ t \in Coming(m, j) <=> pc[t] = m /\ arg[t] = j
        BY <4>1, <4>2, <4>3, BlockMoves
      <4>5. QED
        BY <2>4, <4>4
    <3>2. t \notin Coming(m, j)
      BY <2>1, <3>1 DEF SleepAt
    <3>3. QED
      BY <3>1, <3>2
  <2>7. UnitsInv'
    BY <1>1, <1>3, <2>1, <2>2, <2>6 DEF UnitsInv
  <2>8. WakeupsInv'
    BY <1>1, <1>2, <1>3, <2>6 DEF WakeupsInv
  <2>9. FoundInv'
    BY <1>1, <1>2, <1>3, <2>1, <2>2, <2>5, LeaveFound
  <2>10. QED
    BY <2>5, <2>7, <2>8, <2>9
<1>8. CASE SemWaitWoken(t)
  <2>1. /\ UNCHANGED sem /\ Charge(s, -1) /\ Return(t)
        /\ UNCHANGED <<pid, state, next, rq, current, cpu>> /\ pc[t] = "sw_woken"
    BY <1>0, <1>1, <1>2, <1>8 DEF SemWaitWoken, tableVars, listVars, At
  <2>2. /\ pc' = [pc EXCEPT ![t] = "user"] /\ \A u \in Crew : u # t => arg'[u] = arg[u]
    BY <1>1, <2>1, CrewSlots DEF Return, Goto
  <2>3. \A m \in SleepAt : \A j \in Objects(m) : WaitList(m, j)' = WaitList(m, j)
    BY <1>2, <2>1 DEF WaitList
  <2>4. CrewInv' /\ ListInv'
    BY <1>1, <1>2, <1>3, <2>1, <2>2, <2>3, StayCrew
  <2>5. ASSUME NEW m \in SleepAt, NEW j
        PROVE  /\ Asleep(m, j)' = Asleep(m, j) /\ Coming(m, j)' = Coming(m, j) \ {t}
               /\ Coming(m, j) \in SUBSET Crew
               /\ t \in Coming(m, j) <=> m = "sw_woken" /\ j = s
    <3>1. /\ Asleep(m, j)' = Asleep(m, j)
          /\ \A u \in Crew : u \in Coming(m, j)' <=>
                 IF u = t THEN "user" = m /\ arg'[t] = j ELSE u \in Coming(m, j)
          /\ Coming(m, j) \in SUBSET Crew /\ Coming(m, j)' \in SUBSET Crew
          /\ t \in Coming(m, j) <=> pc[t] = m /\ arg[t] = j
      BY <1>1, <1>2, <2>1, <2>2, StayMoves
    <3>2. t \notin Coming(m, j)'
      BY <1>2, <3>1 DEF SleepAt
    <3>3. QED
      BY <1>0, <2>1, <3>1, <3>2
  <2>6. credit' = [credit EXCEPT ![s] = credit[s] + -1]
    BY <1>5, <2>1
  <2>7. UnitsInv'
    <3> SUFFICES ASSUME NEW r \in Sems
                 PROVE  credit'[r] = sem'[r].value + Cardinality(Coming("sw_woken", r)')
      BY DEF UnitsInv
    <3>1. /\ Sw(r)' = Sw(r) \ {t} /\ Sw(r) \in SUBSET Crew /\ (t \in Sw(r) <=> r = s)
      BY <1>3, <2>5
    <3>2. CASE r = s
      <4>1. Cardinality(Sw(r)') = Cardinality(Sw(r)) - 1
        BY <3>1, <3>2, CrewCounted
      <4>2. QED
        BY <1>1, <1>2, <1>4, <2>1, <2>6, <3>2, <4>1
    <3>3. CASE r # s
      <4>1. Sw(r)' = Sw(r)
        BY <3>1, <3>3
      <4>2. QED
        BY <1>1, <1>4, <2>1, <2>6, <3>3, <4>1
    <3>4. QED
      BY <3>2, <3>3
  <2>8. WakeupsInv'
    <3>1. ASSUME NEW m \in {"mr_cli", "ms_cli"}, NEW j
          PROVE  Asleep(m, j)' = Asleep(m, j) /\ Coming(m, j)' = Coming(m, j)
      <4>1. m \in SleepAt /\ m # "sw_woken"
        BY <1>3
      <4>2. QED
        BY <2>5, <4>1
    <3>2. QED
      BY <1>1, <1>2, <3>1 DEF WakeupsInv
  <2>9. FoundInv'
    BY <1>1, <1>2, <2>1, <2>2, <2>4, LeaveFound
  <2>10. QED
    BY <2>4, <2>7, <2>8, <2>9
<1>9. CASE SemPostCli(t)
  <2>1. /\ sem' = [sem EXCEPT ![s] = Posted(sem[s])] /\ WakeFirst(sem[s].q) /\ Charge(s, 1) /\ Return(t)
        /\ UNCHANGED <<pid, current, cpu>> /\ pc[t] = "sp_cli"
    BY <1>0, <1>1, <1>2, <1>9 DEF SemPostCli, tableVars, At
  <2>2. /\ \A r \in Sems : sem'[r] = IF r = s THEN Posted(sem[s]) ELSE sem[r]
        /\ Posted(sem[s]).id = sem[s].id
        /\ Posted(sem[s]).q = Popped(sem[s].q)
        /\ Posted(sem[s]).value = IF sem[s].q.head # NULL THEN sem[s].value ELSE sem[s].value + 1
    <3>1. sem[s] \in [id : -1 .. MaxIds, value : 0 .. MaxValue, q : Queues]
      BY <1>1, <1>2
    <3>2. QED
      BY <1>1, <1>2, <2>1, <3>1 DEF Posted, Popped
  <2>3. /\ WaitList("sw_woken", s)' = Popped(WaitList("sw_woken", s))
        /\ \A m \in SleepAt : \A j \in Objects(m) :
               m # "sw_woken" \/ j # s => WaitList(m, j)' = WaitList(m, j)
    <3>1. sem'[s].q = Popped(sem[s].q) /\ \A r \in Sems : r # s => sem'[r].q = sem[r].q
      BY <1>2, <2>2
    <3>2. QED
      BY <1>2, <1>3, <3>1 DEF WaitList, Objects
  <2>4. /\ CrewInv' /\ ListInv'
        /\ pc' = [pc EXCEPT ![t] = "user"] /\ \A u \in Crew : u # t => arg'[u] = arg[u]
        /\ \/ /\ Asleep("sw_woken", s) = {} /\ sem[s].q.head = NULL /\ state' = state
           \/ /\ sem[s].q.head # NULL
              /\ \E h \in Asleep("sw_woken", s) : IsWoken(h)
    BY <1>1, <1>2, <1>3, <2>1, <2>3, WakeCrew
  <2>5. credit' = [credit EXCEPT ![s] = credit[s] + 1]
    BY <1>5, <2>1
  <2>6. FoundInv'
    <3>1. /\ \A r \in Sems : sem'[r].id = sem[r].id
          /\ \A m \in Mqs : mq'[m].id = mq[m].id
      BY <1>2, <2>2
    <3>2. "user" \in {"user"} \cup SleepAt
      OBVIOUS
    <3>3. QED
      BY <1>1, <1>2, <2>4, <3>1, <3>2, LeaveFound
  <2>7. CASE sem[s].q.head = NULL
    <3>1. ASSUME NEW m \in SleepAt, NEW j
          PROVE  Asleep(m, j)' = Asleep(m, j) /\ Coming(m, j)' = Coming(m, j)
      <4>1. /\ Asleep(m, j)' = Asleep(m, j)
            /\ \A u \in Crew : u \in Coming(m, j)' <=>
                   IF u = t THEN "user" = m /\ arg'[t] = j ELSE u \in Coming(m, j)
            /\ Coming(m, j) \in SUBSET Crew /\ Coming(m, j)' \in SUBSET Crew
            /\ t \in Coming(m, j) <=> pc[t] = m /\ arg[t] = j
        BY <1>1, <1>2, <2>4, <2>7, StayMoves
      <4>2. t \notin Coming(m, j) /\ t \notin Coming(m, j)'
        BY <2>1, <4>1 DEF SleepAt
      <4>3. QED
        BY <4>1, <4>2
    <3>2. \A r \in Sems : sem'[r].value = IF r = s THEN sem[r].value + 1 ELSE sem[r].value
      BY <2>2, <2>7
    <3>3. UnitsInv'
      <4> SUFFICES ASSUME NEW r \in Sems
                   PROVE  credit'[r] = sem'[r].value + Cardinality(Coming("sw_woken", r)')
        BY DEF UnitsInv
      <4>1. Coming("sw_woken", r)' = Coming("sw_woken", r)
        BY <1>3, <3>1
      <4>2. QED
        BY <1>1, <1>4, <2>5, <3>2, <4>1
    <3>4. WakeupsInv'
      BY <1>1, <1>2, <1>3, <3>1 DEF WakeupsInv
    <3>5. QED
      BY <2>4, <2>6, <3>3, <3>4
  <2>8. CASE sem[s].q.head # NULL
    <3>1. PICK h \in Asleep("sw_woken", s) : IsWoken(h)
      BY <2>4, <2>8
    <3>2. ASSUME NEW m \in SleepAt, NEW j
          PROVE  /\ Asleep(m, j)' = Asleep(m, j) \ {h}
                 /\ Coming(m, j)' = IF m = "sw_woken" /\ j = s THEN Coming(m, j) \cup {h} ELSE Coming(m, j)
                 /\ Coming(m, j) \in SUBSET Crew /\ h \in Crew /\ h \notin Coming(m, j)
      <4>1. /\ Asleep(m, j)' = Asleep(m, j) \ {h}
            /\ m = "sw_woken" /\ j = s => Coming(m, j)' = (Coming(m, j) \cup {h}) \ {t}
            /\ m # "sw_woken" \/ j # s => Coming(m, j)' = Coming(m, j) \ {t}
            /\ Coming(m, j) \in SUBSET Crew /\ h \in Crew /\ h # t /\ h \notin Coming(m, j)
            /\ t \in Coming(m, j) <=> pc[t] = m /\ arg[t] = j
        <5>1. SchedTypes /\ CrewInv /\ t \in Crew /\ current = t
          BY <1>1, <1>2
        <5>2. "sw_woken" \in SleepAt
          BY <1>3
        <5>3. QED
          BY <5>1, <5>2, <2>4, <3>1, WakeMoves
      <4>2. t \notin Coming(m, j)
        BY <2>1, <4>1 DEF SleepAt
      <4>3. QED
        BY <4>1, <4>2
    <3>3. \A r \in Sems : sem'[r].value = sem[r].value
      BY <2>2, <2>8
    <3>4. UnitsInv'
      <4> SUFFICES ASSUME NEW r \in Sems
                   PROVE  credit'[r] = sem'[r].value + Cardinality(Coming("sw_woken", r)')
        BY DEF UnitsInv
      <4>1. CASE r = s
        <5>1. Sw(r)' = Sw(r) \cup {h} /\ Sw(r) \in SUBSET Crew /\ h \in Crew \ Sw(r)
          BY <1>3, <3>2, <4>1
        <5>2. Cardinality(Sw(r)') = Cardinality(Sw(r)) + 1
          BY <5>1, CrewCounted
        <5>3. QED
          BY <1>1, <1>2, <1>4, <2>5, <3>3, <4>1, <5>2
      <4>2. CASE r # s
        <5>1. Sw(r)' = Sw(r)
          BY <1>3, <3>2, <4>2
        <5>2. QED
          BY <1>1, <1>4, <2>5, <3>3, <4>2, <5>1
      <4>3. QED
        BY <4>1, <4>2
    <3>5. WakeupsInv'
      <4>1. ASSUME NEW m \in {"mr_cli", "ms_cli"}, NEW j
            PROVE  (Asleep(m, j)' # {} => Asleep(m, j) # {}) /\ Coming(m, j)' = Coming(m, j)
        BY <1>3, <3>2
      <4>2. QED
        BY <1>1, <1>2, <4>1 DEF WakeupsInv
    <3>6. QED
      BY <2>4, <2>6, <3>4, <3>5
  <2>9. QED
    BY <2>7, <2>8
<1>10. QED
  BY <1>6, <1>7, <1>8, <1>9

\* How many awake tasks at l the queue m has work for: messages, or free places.
Work(l, m) == IF l = "mr_cli" THEN mq[m].count ELSE MSGQUEUE_SIZE - mq[m].count

WorkInv ==
    \A l \in {"mr_cli", "ms_cli"} : \A m \in Mqs :
        Asleep(l, m) # {} => Work(l, m) <= Cardinality(Coming(l, m))

\* WakeupsInv, said of either side of a queue.
LEMMA WorkForm == WakeupsInv <=> WorkInv
BY DEF WakeupsInv, WorkInv, Work

\* A step leaves every wait list but that of k at l alone.
OthersKept(l, k) == \A n \in SleepAt : \A j \in Objects(n) :
                        n # l \/ j # k => WaitList(n, j)' = WaitList(n, j)

\* What a task's going to sleep, or its waking h and returning, means for who sleeps
\* and who is coming.
GoesToSleep(t, l) == pc' = [pc EXCEPT ![t] = l] /\ arg' = arg /\ FallsAsleep(t)
SleepMoves(t, l) ==
    \A n, j : /\ n # l \/ j # arg[t] => Asleep(n, j)' = Asleep(n, j)
              /\ Coming(n, j)' = Coming(n, j) \ {t} /\ Coming(n, j) \in SUBSET Crew
              /\ t \in Coming(n, j) <=> pc[t] = n /\ arg[t] = j
Wakes(t, h) == pc' = [pc EXCEPT ![t] = "user"] /\ (\A u \in Crew : u # t => arg'[u] = arg[u]) /\ IsWoken(h)
HandMoves(t, l, k, h) ==
    \A n \in SleepAt : \A j :
        /\ Asleep(n, j)' = Asleep(n, j) \ {h}
        /\ n = l /\ j = k => Coming(n, j)' = (Coming(n, j) \cup {h}) \ {t}
        /\ n # l \/ j # k => Coming(n, j)' = Coming(n, j) \ {t}
        /\ Coming(n, j) \in SUBSET Crew /\ h \in Crew /\ h # t /\ h \notin Coming(n, j)
        /\ t \in Coming(n, j) <=> pc[t] = n /\ arg[t] = j

\* BlockMoves and WakeMoves for all places and objects at once.
LEMMA AllMoves ==
    ASSUME SchedTypes, CrewInv, NEW t \in Crew, current = t, NEW l \in SleepAt
    PROVE  /\ GoesToSleep(t, l) => SleepMoves(t, l)
           /\ \A k : \A h \in Asleep(l, k) : Wakes(t, h) => HandMoves(t, l, k, h)
<1>1. GoesToSleep(t, l) => SleepMoves(t, l)
  BY BlockMoves DEF GoesToSleep, SleepMoves
<1>2. ASSUME NEW k, NEW h \in Asleep(l, k), Wakes(t, h) PROVE HandMoves(t, l, k, h)
  BY <1>2, WakeMoves DEF Wakes, HandMoves
<1>3. QED
  BY <1>1, <1>2

\* Going to sleep at a queue that has no work for the task.
LEMMA SleepSteady ==
    ASSUME Steady, SteadyInv, NEW t \in Crew, current = t, NEW l \in {"mr_cli", "ms_cli"},
           pc[t] = l, NEW m \in Mqs, arg[t] = m, NEW e, mq' = [mq EXCEPT ![m] = e],
           UNCHANGED <<sem, credit>>, e.id = mq[m].id, e.count = mq[m].count,
           BlockOn(t, WaitList(l, m), l), WaitList(l, m)' = EnqueueQ(WaitList(l, m), t),
           OthersKept(l, m), Work(l, m) <= 0
    PROVE  CrewInv' /\ ListInv' /\ FoundInv' /\ UnitsInv' /\ WakeupsInv'
<1>1. /\ SchedTypes /\ CrewInv /\ ListInv /\ UnitsInv /\ WorkInv /\ MqTable /\ IpcLocals /\ FoundInv
  BY WorkForm DEF SteadyInv, IpcInv
<1>2. l \in SleepAt /\ m \in Objects(l) /\ l # "sw_woken"
  BY DEF SleepAt, Objects
<1>3. CrewInv' /\ ListInv' /\ pc' = [pc EXCEPT ![t] = l] /\ arg' = arg /\ FallsAsleep(t)
  BY <1>1, <1>2, BlockCrew DEF OthersKept
<1>4. ASSUME NEW n, NEW j
      PROVE  /\ n # l \/ j # m => Asleep(n, j)' = Asleep(n, j)
             /\ Coming(n, j)' = Coming(n, j) \ {t} /\ Coming(n, j) \in SUBSET Crew
             /\ t \in Coming(n, j) <=> n = l /\ j = m
  <2>1. SchedTypes /\ CrewInv /\ l \in SleepAt /\ GoesToSleep(t, l)
    BY <1>1, <1>2, <1>3 DEF GoesToSleep
  <2>2. SleepMoves(t, l)
    BY <2>1, AllMoves
  <2>3. QED
    BY <2>2 DEF SleepMoves
<1>5. UnitsInv'
  <2>1. \A s \in Sems : Coming("sw_woken", s)' = Coming("sw_woken", s)
    BY <1>2, <1>4
  <2>2. QED
    BY <1>1, <2>1 DEF UnitsInv
<1>6. \A k \in Mqs : mq'[k].count = mq[k].count /\ mq'[k].id = mq[k].id
  BY <1>1 DEF MqTable
<1>7. \A n : \A k \in Mqs : Work(n, k)' = Work(n, k)
  BY <1>6 DEF Work
<1>8. WorkInv'
  <2> SUFFICES ASSUME NEW n \in {"mr_cli", "ms_cli"}, NEW k \in Mqs, Asleep(n, k)' # {}
               PROVE  Work(n, k)' <= Cardinality(Coming(n, k)')
    BY DEF WorkInv
  <2>1. CASE n = l /\ k = m
    <3>1. Coming(n, k)' \in SUBSET Crew
      BY <1>4
    <3>2. Cardinality(Coming(n, k)') \in Nat
      BY <3>1, CrewCounted
    <3>3. Work(l, m) \in Int
      BY <1>1, IpcAssumption DEF Work, MqTable
    <3>4. QED
      BY <1>7, <2>1, <3>2, <3>3
  <2>2. CASE n # l \/ k # m
    <3>1. Asleep(n, k)' = Asleep(n, k) /\ Coming(n, k)' = Coming(n, k)
      BY <1>4, <2>2
    <3>2. QED
      BY <1>1, <1>7, <3>1 DEF WorkInv
  <2>3. QED
    BY <2>1, <2>2
<1>9. WakeupsInv'
  BY <1>8 DEF WakeupsInv, WorkInv, Work
<1>10. FoundInv'
  <2>1. pc[t] \notin Creating /\ l \in {"user"} \cup SleepAt /\ \A s \in Sems : sem'[s].id = sem[s].id
    BY <1>2 DEF Creating
  <2>2. QED
    BY <1>1, <1>2, <1>3, <1>6, <2>1, LeaveFound
<1>11. QED
  BY <1>3, <1>5, <1>9, <1>10

\* Doing one's work and waking a task of the other side, which gets some.
LEMMA ExchangeSteady ==
    ASSUME Steady, SteadyInv, NEW t \in Crew, current = t,
           NEW l \in {"mr_cli", "ms_cli"}, NEW o \in {"mr_cli", "ms_cli"}, o # l,
           pc[t] = l, NEW m \in Mqs, arg[t] = m, NEW e, mq' = [mq EXCEPT ![m] = e],
           UNCHANGED <<sem, credit>>, e.id = mq[m].id,
           WakeFirst(WaitList(o, m)), Return(t), UNCHANGED <<pid, current, cpu>>,
           WaitList(o, m)' = Popped(WaitList(o, m)),
           OthersKept(o, m), Work(l, m)' = Work(l, m) - 1, Work(o, m)' = Work(o, m) + 1
    PROVE  CrewInv' /\ ListInv' /\ FoundInv' /\ UnitsInv' /\ WakeupsInv'
<1>1. /\ SchedTypes /\ CrewInv /\ ListInv /\ UnitsInv /\ WorkInv /\ MqTable /\ IpcLocals /\ FoundInv
  BY WorkForm DEF SteadyInv, IpcInv
<1>2. /\ l \in SleepAt /\ o \in SleepAt /\ "sw_woken" \in SleepAt /\ m \in Objects(o)
      /\ l # "sw_woken" /\ o # "sw_woken"
  BY DEF SleepAt, Objects
<1>3. /\ CrewInv' /\ ListInv'
      /\ pc' = [pc EXCEPT ![t] = "user"] /\ \A u \in Crew : u # t => arg'[u] = arg[u]
      /\ \/ /\ Asleep(o, m) = {} /\ WaitList(o, m).head = NULL /\ state' = state
         \/ /\ WaitList(o, m).head # NULL
            /\ \E h \in Asleep(o, m) : IsWoken(h)
  BY <1>1, <1>2, WakeCrew DEF OthersKept
<1>4. \A k \in Mqs : /\ mq'[k].id = mq[k].id
                     /\ k # m => mq'[k].count = mq[k].count
  BY <1>1 DEF MqTable
<1>5. \A n : \A k \in Mqs : k # m => Work(n, k)' = Work(n, k)
  BY <1>4 DEF Work
<1>6. FoundInv'
  <2>1. pc[t] \notin Creating /\ "user" \in {"user"} \cup SleepAt /\ \A s \in Sems : sem'[s].id = sem[s].id
    BY <1>2 DEF Creating
  <2>2. QED
    BY <1>1, <1>3, <1>4, <2>1, LeaveFound
<1>7. \A n \in {"mr_cli", "ms_cli"} : \A k \in Mqs :
          Work(n, k) \in Int /\ Cardinality(Coming(n, k)) \in Nat /\ Coming(n, k) \in SUBSET Crew
  <2> TAKE n \in {"mr_cli", "ms_cli"}
  <2> TAKE k \in Mqs
  <2>1. Coming(n, k) \in SUBSET Crew
    BY DEF Coming
  <2>2. Cardinality(Coming(n, k)) \in Nat
    BY <2>1, CrewCounted
  <2>3. Work(n, k) \in Int
    BY <1>1, IpcAssumption DEF Work, MqTable
  <2>4. QED
    BY <2>1, <2>2, <2>3
<1>8. CASE Asleep(o, m) = {} /\ state' = state
  <2>1. ASSUME NEW n \in SleepAt, NEW j
        PROVE  /\ Asleep(n, j)' = Asleep(n, j) /\ Coming(n, j)' = Coming(n, j) \ {t}
               /\ t \in Coming(n, j) <=> n = l /\ j = m
    <3>1. /\ Asleep(n, j)' = Asleep(n, j)
          /\ \A u \in Crew : u \in Coming(n, j)' <=>
                 IF u = t THEN "user" = n /\ arg'[t] = j ELSE u \in Coming(n, j)
          /\ Coming(n, j) \in SUBSET Crew /\ Coming(n, j)' \in SUBSET Crew
          /\ t \in Coming(n, j) <=> pc[t] = n /\ arg[t] = j
      BY <1>1, <1>3, <1>8, StayMoves
    <3>2. t \notin Coming(n, j)'
      BY <3>1 DEF SleepAt
    <3>3. QED
      BY <3>1, <3>2
  <2>2. UnitsInv'
    <3>1. \A s \in Sems : Coming("sw_woken", s)' = Coming("sw_woken", s)
      BY <1>2, <2>1
    <3>2. QED
      BY <1>1, <3>1 DEF UnitsInv
  <2>3. WorkInv'
    <3> SUFFICES ASSUME NEW n \in {"mr_cli", "ms_cli"}, NEW k \in Mqs, Asleep(n, k)' # {}
                 PROVE  Work(n, k)' <= Cardinality(Coming(n, k)')
      BY DEF WorkInv
    <3>1. Asleep(n, k) # {} /\ ~(n = o /\ k = m) /\ Work(n, k) <= Cardinality(Coming(n, k))
      BY <1>1, <1>2, <1>8, <2>1 DEF WorkInv, SleepAt
    <3>2. CASE n = l /\ k = m
      <4>1. Cardinality(Coming(n, k)') = Cardinality(Coming(n, k)) - 1
        <5>1. Coming(n, k)' = Coming(n, k) \ {t} /\ t \in Coming(n, k) /\ Coming(n, k) \in SUBSET Crew
          BY <1>2, <1>7, <2>1, <3>2
        <5>2. QED
          BY <5>1, CrewCounted
      <4>2. QED
        BY <1>7, <3>1, <3>2, <4>1
    <3>3. CASE k # m
      <4>1. Coming(n, k)' = Coming(n, k)
        <5>1. n \in SleepAt
          BY DEF SleepAt
        <5>2. Coming(n, k)' = Coming(n, k) \ {t} /\ t \notin Coming(n, k)
          BY <2>1, <3>3, <5>1
        <5>3. QED
          BY <5>2
      <4>2. QED
        BY <1>5, <3>1, <3>3, <4>1
    <3>4. QED
      BY <3>1, <3>2, <3>3
  <2>4. WakeupsInv'
    BY <2>3 DEF WakeupsInv, WorkInv, Work
  <2>5. QED
    BY <1>3, <1>6, <2>2, <2>4
<1>9. ASSUME NEW h \in Asleep(o, m), IsWoken(h)
      PROVE  CrewInv' /\ ListInv' /\ FoundInv' /\ UnitsInv' /\ WakeupsInv'
  <2>1. ASSUME NEW n \in SleepAt, NEW j
        PROVE  /\ Asleep(n, j)' = Asleep(n, j) \ {h}
               /\ n = o /\ j = m => Coming(n, j)' = Coming(n, j) \cup {h}
               /\ n # o \/ j # m => Coming(n, j)' = Coming(n, j) \ {t}
               /\ t \in Coming(n, j) <=> n = l /\ j = m
               /\ h \in Crew \ Coming(n, j)
    <3>1. /\ Asleep(n, j)' = Asleep(n, j) \ {h}
          /\ n = o /\ j = m => Coming(n, j)' = (Coming(n, j) \cup {h}) \ {t}
          /\ n # o \/ j # m => Coming(n, j)' = Coming(n, j) \ {t}
          /\ Coming(n, j) \in SUBSET Crew /\ h \in Crew /\ h # t /\ h \notin Coming(n, j)
          /\ t \in Coming(n, j) <=> pc[t] = n /\ arg[t] = j
      <4>1. SchedTypes /\ CrewInv /\ t \in Crew /\ current = t
        BY <1>1
      <4>2. o \in SleepAt
        BY <1>2
      <4>3. Wakes(t, h)
        BY <1>3, <1>9 DEF Wakes
      <4>4. HandMoves(t, o, m, h)
        BY <4>1, <4>2, <4>3, AllMoves
      <4>5. QED
        BY <4>4 DEF HandMoves
    <3>2. n = o => t \notin Coming(n, j)
      BY <3>1
    <3>3. QED
      BY <3>1, <3>2
  <2>2. UnitsInv'
    <3>1. \A s \in Sems : Coming("sw_woken", s)' = Coming("sw_woken", s)
      BY <1>2, <2>1
    <3>2. QED
      BY <1>1, <3>1 DEF UnitsInv
  <2>3. WorkInv'
    <3> SUFFICES ASSUME NEW n \in {"mr_cli", "ms_cli"}, NEW k \in Mqs, Asleep(n, k)' # {}
                 PROVE  Work(n, k)' <= Cardinality(Coming(n, k)')
      BY DEF WorkInv
    <3>0. n \in SleepAt
      BY DEF SleepAt
    <3>1. Asleep(n, k) # {} /\ Work(n, k) <= Cardinality(Coming(n, k))
      BY <1>1, <2>1, <3>0 DEF WorkInv
    <3>2. CASE n = l /\ k = m
      <4>1. Cardinality(Coming(n, k)') = Cardinality(Coming(n, k)) - 1
        <5>1. Coming(n, k)' = Coming(n, k) \ {t} /\ t \in Coming(n, k) /\ Coming(n, k) \in SUBSET Crew
          BY <1>7, <2>1, <3>0, <3>2
        <5>2. QED
          BY <5>1, CrewCounted
      <4>2. QED
        BY <1>7, <3>1, <3>2, <4>1
    <3>3. CASE n = o /\ k = m
      <4>1. Cardinality(Coming(n, k)') = Cardinality(Coming(n, k)) + 1
        <5>1. /\ Coming(n, k)' = Coming(n, k) \cup {h} /\ h \in Crew \ Coming(n, k)
              /\ Coming(n, k) \in SUBSET Crew
          BY <1>7, <2>1, <3>0, <3>3
        <5>2. QED
          BY <5>1, CrewCounted
      <4>2. QED
        BY <1>7, <3>1, <3>3, <4>1
    <3>4. CASE k # m
      <4>1. Coming(n, k)' = Coming(n, k)
        <5>1. Coming(n, k)' = Coming(n, k) \ {t} /\ t \notin Coming(n, k)
          BY <2>1, <3>0, <3>4
        <5>2. QED
          BY <5>1
      <4>2. QED
        BY <1>5, <3>1, <3>4, <4>1
    <3>5. QED
      BY <3>2, <3>3, <3>4
  <2>4. WakeupsInv'
    BY <2>3 DEF WakeupsInv, WorkInv, Work
  <2>5. QED
    BY <1>3, <1>6, <2>2, <2>4
<1>10. QED
  BY <1>3, <1>8, <1>9

\* What the ring operations and the wait lists leave of an entry.
LEMMA EntryParts ==
    ASSUME NEW e, MqEntry(e), NEW x, NEW q
    PROVE  /\ LET p == Pushed(e, x)
              IN  p.id = e.id /\ p.count = e.count + 1 /\ p.recvq = Popped(e.recvq) /\ p.sendq = e.sendq
           /\ LET p == Pulled(e)
              IN  p.id = e.id /\ p.count = e.count - 1 /\ p.sendq = Popped(e.sendq) /\ p.recvq = e.recvq
           /\ LET p == [e EXCEPT !.sendq = q]
              IN  p.id = e.id /\ p.count = e.count /\ p.sendq = q /\ p.recvq = e.recvq
           /\ LET p == [e EXCEPT !.recvq = q]
              IN  p.id = e.id /\ p.count = e.count /\ p.recvq = q /\ p.sendq = e.sendq
BY DEF MqEntry, Pushed, Pulled

\* A step that changes one wait list of one queue.
LEMMA OneList ==
    ASSUME MqTable, NEW m \in Mqs, NEW e, mq' = [mq EXCEPT ![m] = e], sem' = sem
    PROVE  /\ e.recvq = mq[m].recvq => /\ OthersKept("ms_cli", m) /\ WaitList("ms_cli", m)' = e.sendq
           /\ e.sendq = mq[m].sendq => /\ OthersKept("mr_cli", m) /\ WaitList("mr_cli", m)' = e.recvq
           /\ Work("ms_cli", m)' = MSGQUEUE_SIZE - e.count /\ Work("mr_cli", m)' = e.count
<1>1. /\ WaitList("mr_cli", m)' = e.recvq /\ WaitList("ms_cli", m)' = e.sendq
      /\ \A l \in SleepAt : \A k \in Objects(l) :
                  l = "sw_woken" \/ k # m => WaitList(l, k)' = WaitList(l, k)
  BY MqLists
<1>2. mq'[m] = e
  BY DEF MqTable
<1>3. WaitList("mr_cli", m) = mq[m].recvq /\ WaitList("ms_cli", m) = mq[m].sendq
  BY DEF WaitList
<1>4. QED
  BY <1>1, <1>2, <1>3 DEF OthersKept, Work, SleepAt

\* msg_queue_send and msg_queue_recv keep the wait lists exact and lose no wakeup.
LEMMA MsgSteady ==
    ASSUME Steady, SteadyInv, NEW t \in Slots, MsgSendCli(t) \/ MsgRecvCli(t)
    PROVE  CrewInv' /\ ListInv' /\ FoundInv' /\ UnitsInv' /\ WakeupsInv'
<1>0. PICK m : m = arg[t]
  OBVIOUS
<1>1. CrewInv /\ MqTable /\ IpcLocals
  BY DEF SteadyInv, IpcInv
<1>2. /\ current = t /\ t \in Crew /\ m \in Mqs /\ UNCHANGED <<sem, credit>>
      /\ pc[t] \in {"ms_cli", "mr_cli"}
  BY <1>0, <1>1 DEF MsgSendCli, MsgRecvCli, At, CrewInv, IpcLocals
<1>3. /\ MqEntry(mq[m]) /\ mq[m].count \in 0 .. MSGQUEUE_SIZE /\ MSGQUEUE_SIZE \in Nat
      /\ m \in DOMAIN mq /\ mq[m] \in [id : -1 .. MaxIds, msgs : [Ring -> Messages \cup {NoMessage}],
              head : Ring, tail : Ring, count : Int, recvq : Queues, sendq : Queues]
  <2>1. MqEntry(mq[m])
    BY <1>1, <1>2, EntryOf
  <2>2. QED
    BY <1>1, <1>2, <2>1, IpcAssumption DEF MqEntry, MqTable
<1>4. /\ WaitList("mr_cli", m) = mq[m].recvq /\ WaitList("ms_cli", m) = mq[m].sendq
      /\ Work("mr_cli", m) = mq[m].count /\ Work("ms_cli", m) = MSGQUEUE_SIZE - mq[m].count
  BY DEF WaitList, Work
<1>5. CASE MsgSendCli(t) /\ mq[m].count >= MSGQUEUE_SIZE
  <2>1. PICK e : e = [mq[m] EXCEPT !.sendq = EnqueueQ(mq[m].sendq, t)]
    OBVIOUS
  <2>2. e.id = mq[m].id /\ e.count = mq[m].count /\ e.sendq = EnqueueQ(mq[m].sendq, t) /\ e.recvq = mq[m].recvq
    BY <1>3, <2>1, EntryParts
  <2>3. mq' = [mq EXCEPT ![m] = e] /\ BlockOn(t, mq[m].sendq, "ms_cli") /\ pc[t] = "ms_cli"
    BY <1>0, <1>3, <1>5, <2>1 DEF MsgSendCli, At
  <2>4. OthersKept("ms_cli", m) /\ WaitList("ms_cli", m)' = e.sendq
    BY <1>1, <1>2, <2>2, <2>3, OneList
  <2>5. Work("ms_cli", m) <= 0
    BY <1>3, <1>4, <1>5
  <2>6. QED
    BY <1>0, <1>2, <1>4, <2>2, <2>3, <2>4, <2>5, SleepSteady
<1>6. CASE MsgRecvCli(t) /\ mq[m].count <= 0
  <2>1. PICK e : e = [mq[m] EXCEPT !.recvq = EnqueueQ(mq[m].recvq, t)]
    OBVIOUS
  <2>2. e.id = mq[m].id /\ e.count = mq[m].count /\ e.recvq = EnqueueQ(mq[m].recvq, t) /\ e.sendq = mq[m].sendq
    BY <1>3, <2>1, EntryParts
  <2>3. mq' = [mq EXCEPT ![m] = e] /\ BlockOn(t, mq[m].recvq, "mr_cli") /\ pc[t] = "mr_cli"
    BY <1>0, <1>3, <1>6, <2>1 DEF MsgRecvCli, At
  <2>4. OthersKept("mr_cli", m) /\ WaitList("mr_cli", m)' = e.recvq
    BY <1>1, <1>2, <2>2, <2>3, OneList
  <2>5. Work("mr_cli", m) <= 0
    BY <1>3, <1>4, <1>6
  <2>6. QED
    BY <1>0, <1>2, <1>4, <2>2, <2>3, <2>4, <2>5, SleepSteady
<1>7. CASE MsgSendCli(t) /\ ~(mq[m].count >= MSGQUEUE_SIZE)
  <2>1. PICK e : e = Pushed(mq[m], buf[t])
    OBVIOUS
  <2>2. e.id = mq[m].id /\ e.count = mq[m].count + 1 /\ e.recvq = Popped(mq[m].recvq) /\ e.sendq = mq[m].sendq
    BY <1>3, <2>1, EntryParts
  <2>3. /\ mq' = [mq EXCEPT ![m] = e] /\ WakeFirst(mq[m].recvq) /\ pc[t] = "ms_cli" /\ Return(t)
        /\ UNCHANGED <<pid, current, cpu>>
    BY <1>0, <1>3, <1>7, <2>1 DEF MsgSendCli, At, tableVars
  <2>4. /\ OthersKept("mr_cli", m) /\ WaitList("mr_cli", m)' = e.recvq
        /\ Work("ms_cli", m)' = MSGQUEUE_SIZE - e.count /\ Work("mr_cli", m)' = e.count
    BY <1>1, <1>2, <2>2, <2>3, OneList
  <2>5. Work("ms_cli", m)' = Work("ms_cli", m) - 1 /\ Work("mr_cli", m)' = Work("mr_cli", m) + 1
    BY <1>3, <1>4, <2>2, <2>4
  <2>6. /\ WaitList("mr_cli", m)' = Popped(WaitList("mr_cli", m)) /\ WakeFirst(WaitList("mr_cli", m))
        /\ e.id = mq[m].id /\ arg[t] = m
    BY <1>0, <1>4, <2>2, <2>3, <2>4
  <2>7. QED
    BY <1>2, <2>3, <2>4, <2>5, <2>6, ExchangeSteady
<1>8. CASE MsgRecvCli(t) /\ ~(mq[m].count <= 0)
  <2>1. PICK e : e = Pulled(mq[m])
    OBVIOUS
  <2>2. e.id = mq[m].id /\ e.count = mq[m].count - 1 /\ e.sendq = Popped(mq[m].sendq) /\ e.recvq = mq[m].recvq
    BY <1>3, <2>1, EntryParts
  <2>3. /\ mq' = [mq EXCEPT ![m] = e] /\ WakeFirst(mq[m].sendq) /\ pc[t] = "mr_cli" /\ Return(t)
        /\ UNCHANGED <<pid, current, cpu>>
    BY <1>0, <1>3, <1>8, <2>1 DEF MsgRecvCli, At, tableVars
  <2>4. /\ OthersKept("ms_cli", m) /\ WaitList("ms_cli", m)' = e.sendq
        /\ Work("ms_cli", m)' = MSGQUEUE_SIZE - e.count /\ Work("mr_cli", m)' = e.count
    BY <1>1, <1>2, <2>2, <2>3, OneList
  <2>5. Work("mr_cli", m)' = Work("mr_cli", m) - 1 /\ Work("ms_cli", m)' = Work("ms_cli", m) + 1
    BY <1>3, <1>4, <2>2, <2>4
  <2>6. /\ WaitList("ms_cli", m)' = Popped(WaitList("ms_cli", m)) /\ WakeFirst(WaitList("ms_cli", m))
        /\ e.id = mq[m].id /\ arg[t] = m
    BY <1>0, <1>4, <2>2, <2>3, <2>4
  <2>7. QED
    BY <1>2, <2>3, <2>4, <2>5, <2>6, ExchangeSteady
<1>9. QED
  BY <1>5, <1>6, <1>7, <1>8

\* Every step of the system keeps the invariant.
LEMMA NextSteady ==
    ASSUME Steady
    PROVE  SteadyInv /\ [IpcNext]_allVars => SteadyInv'
<1> SUFFICES ASSUME SteadyInv, [IpcNext]_allVars PROVE SteadyInv'
  OBVIOUS
<1>1. IpcInv'
  BY NextKeepsInv DEF SteadyInv
<1>2. CrewInv
  BY DEF SteadyInv
<1>3. CASE UNCHANGED allVars
  <2>1. /\ UNCHANGED <<pid, state, next, rq, current, cpu, pc, arg, sem, mq, credit>>
        /\ CrewInv /\ ListInv /\ FoundInv /\ UnitsInv /\ WakeupsInv
    BY <1>3 DEF allVars, vars, ipcVars, SteadyInv
  <2>2. /\ ReadyCrew' = ReadyCrew
        /\ \A l, k : /\ Asleep(l, k)' = Asleep(l, k) /\ Coming(l, k)' = Coming(l, k)
                     /\ WaitList(l, k)' = WaitList(l, k)
    BY <2>1 DEF ReadyCrew, Asleep, Coming, WaitList
  <2>3. CrewInv'
    BY <2>1 DEF CrewInv
  <2>4. ListInv'
    BY <2>1, <2>2 DEF ListInv
  <2>5. FoundInv'
    BY <2>1 DEF FoundInv, SemFresh, MqFresh
  <2>6. UnitsInv' /\ WakeupsInv'
    BY <2>1, <2>2 DEF UnitsInv, WakeupsInv
  <2>7. QED
    BY <1>1, <2>3, <2>4, <2>5, <2>6 DEF SteadyInv
<1>4. CASE SchedTick
  BY <1>1, <1>4, TickSteady DEF SteadyInv
<1>5. ASSUME NEW t \in Slots PROVE ~SchedCall(t) /\ ~SchedStep(t)
  <2>1. Calls[t] \cap {"fork", "exit", "wait"} = {}
    BY DEF Steady
  <2>2. pc[t] \in {"user"} \cup IpcLabels
    BY <1>2 DEF CrewInv
  <2>3. ~ProcCall(t)
    BY <2>1 DEF ProcCall, SysFork, SysExit, SysWait
  <2>4. ~ProcStep(t)
    BY <2>2 DEF IpcLabels, ProcStep, ForkClone, ForkPid, ForkFill, ForkLink, ForkTail, ForkCount, ForkStore,
       ExitZombie, ExitWake, ExitLink, ExitTail, ExitSwitch, ExitDead, WaitScan, WaitReap, WaitFree,
       WaitCount, WaitStore, WaitAlive, WaitBlock, WaitSwitch, LinkReady, TailReady, At, Load
  <2>5. QED
    BY <2>3, <2>4 DEF SchedCall, SchedStep
<1>6. ASSUME NEW t \in Slots, IpcCall(t) PROVE SteadyInv'
  BY <1>1, <1>6, CallSteady DEF SteadyInv
<1>7. ASSUME NEW t \in Slots, IpcStep(t) PROVE SteadyInv'
  <2>1. pc[t] \notin CliLabels
    BY <1>2 DEF CrewInv, IpcLabels, CliLabels
  <2>2. /\ ~SemDestroyWake(t) /\ ~SemDestroyFree(t) /\ ~MsgDestroyRecv(t)
        /\ ~MsgDestroySend(t) /\ ~MsgDestroyFree(t)
    BY <2>1 DEF CliLabels, SemDestroyWake, SemDestroyFree, MsgDestroyRecv, MsgDestroySend, MsgDestroyFree, At
  <2>3. CASE SemWaitCli(t) \/ SemWaitWoken(t) \/ SemPostCli(t)
    BY <1>1, <2>3, SemSteady DEF SteadyInv
  <2>4. CASE MsgSendCli(t) \/ MsgRecvCli(t)
    BY <1>1, <2>4, MsgSteady DEF SteadyInv
  <2>5. CASE \/ SemCreateLoad(t) \/ SemCreateId(t) \/ (\E v \in SemInits : SemCreateFill(t, v))
             \/ MsgCreateLoad(t) \/ MsgCreateId(t) \/ MsgCreateFill(t)
    BY <1>1, <2>5, CreateSteady DEF SteadyInv
  <2>6. QED
    BY <1>7, <2>2, <2>3, <2>4, <2>5 DEF IpcStep
<1>8. QED
  BY <1>3, <1>4, <1>5, <1>6, <1>7 DEF IpcNext

\* Nobody sleeps at first, and the ready queue holds everyone but the running task.
LEMMA InitSteady == Init => SteadyInv
<1> SUFFICES ASSUME Init PROVE SteadyInv
  OBVIOUS
<1>0. IpcInv
  BY InitKeepsInv
<1>1. /\ pid = [t \in Slots |-> IF t < Family THEN t ELSE -1]
      /\ state = [t \in Slots |-> IF t = 0 THEN "RUNNING" ELSE "READY"]
      /\ next = [t \in Slots |-> IF t > 0 /\ t + 1 < Family THEN t + 1 ELSE NULL]
      /\ rq = IF Family = 1 THEN EmptyQueue ELSE [head |-> 1, tail |-> Family - 1]
      /\ current = 0 /\ cpu = "run" /\ pc = [t \in Slots |-> "user"]
  BY DEF Init, InitFamily
<1>2. /\ sem = [s \in Sems |-> [id |-> -1, value |-> 0, q |-> EmptyQueue]]
      /\ mq = [m \in Mqs |-> [id |-> -1, msgs |-> [i \in Ring |-> NoMessage],
                              head |-> 0, tail |-> 0, count |-> 0,
                              recvq |-> EmptyQueue, sendq |-> EmptyQueue]]
      /\ credit = [s \in Sems |-> 0]
  BY DEF Init, InitIpc, EmptyTables
<1>3. Family \in Nat /\ Family >= 1 /\ Family <= MAX_TASKS /\ Slots = 0 .. MAX_TASKS - 1 /\ MAX_TASKS \in Nat
  BY IpcAssumption, SlotsAssumption DEF Slots
<1>4. \A l \in SleepAt : \A k : Asleep(l, k) = {} /\ Coming(l, k) = {}
  BY <1>1, CrewSlots DEF Asleep, Coming, SleepAt
<1>5. CrewInv
  BY <1>1, <1>3, CrewSlots DEF CrewInv, Crew, SleepAt, Creating
<1>6. Lists(next, rq, ReadyCrew)
  <2> DEFINE n == Family - 1
             s == [i \in 1 .. n |-> i]
  <2>1. ReadyCrew = Elements(s, n)
    <3>1. \A t \in Crew : t \in ReadyCrew <=> t # 0
      BY <1>1, CrewSlots DEF ReadyCrew
    <3>2. ReadyCrew = 1 .. n
      BY <1>3, <3>1 DEF ReadyCrew, Crew
    <3>3. Elements(s, n) = 1 .. n
      BY <1>3 DEF Elements
    <3>4. QED
      BY <3>2, <3>3
  <2>2. Enumerates(s, n, next, rq)
    BY <1>1, <1>3 DEF Enumerates, EmptyQueue
  <2>3. QED
    BY <2>1, <2>2 DEF Lists
<1>7. Lists(next, EmptyQueue, {})
  <2> DEFINE s == [i \in 1 .. 0 |-> 0]
  <2>1. Enumerates(s, 0, next, EmptyQueue) /\ Elements(s, 0) = {}
    BY DEF Enumerates, Elements, EmptyQueue
  <2>2. QED
    BY <2>1 DEF Lists
<1>8. ListInv
  <2>1. ASSUME NEW l \in SleepAt, NEW k \in Objects(l) PROVE Lists(next, WaitList(l, k), Asleep(l, k))
    <3>1. WaitList(l, k) = EmptyQueue
      BY <1>2 DEF WaitList, SleepAt, Objects
    <3>2. QED
      BY <1>4, <1>7, <3>1
  <2>2. QED
    BY <1>6, <2>1 DEF ListInv
<1>9. FoundInv
  BY <1>1, CrewSlots DEF FoundInv
<1>10. UnitsInv
  <2>1. \A s \in Sems : Coming("sw_woken", s) = {} /\ sem[s].value = 0 /\ credit[s] = 0
    BY <1>2, <1>4 DEF SleepAt
  <2>2. Cardinality({}) = 0
    BY FS_EmptySet
  <2>3. QED
    BY <2>1, <2>2 DEF UnitsInv
<1>11. WakeupsInv
  BY <1>4 DEF WakeupsInv, SleepAt
<1>12. QED
  BY <1>0, <1>5, <1>8, <1>9, <1>10, <1>11 DEF SteadyInv

\* What the invariant says in the words of the properties.
LEMMA SteadyMeans ==
    ASSUME SteadyInv PROVE SemAccounting /\ NoLostMessageWakeup /\ ReadyQueueExact
<1>1. CrewInv /\ ListInv /\ UnitsInv /\ WakeupsInv
  BY DEF SteadyInv
<1>2. /\ \A t \in Slots : pc[t] \notin {"wait_free", "fork_link", "exit_link", "fork_tail", "exit_tail"}
      /\ \A t \in Slots : pid[t] >= 0 <=> t \in Crew
  <2>1. \A t \in Slots : pc[t] \in {"user"} \cup IpcLabels
    BY <1>1 DEF CrewInv
  <2>2. \A t \in Slots : pid[t] = IF t < Family THEN t ELSE -1
    BY <1>1 DEF CrewInv
  <2>3. Family \in Nat /\ Slots \subseteq Nat
    BY IpcAssumption, SlotsAssumption, SlotNotNull
  <2>4. QED
    BY <2>1, <2>2, <2>3 DEF IpcLabels, Crew
<1>3. Live = Crew /\ Unlinked = {} /\ ~MidEnqueue
  <2>1. BeingReaped = {} /\ Unlinked = {} /\ ~MidEnqueue
    BY <1>2 DEF BeingReaped, Unlinked, MidEnqueue
  <2>2. {t \in Slots : pid[t] >= 0} = Crew
    BY <1>2, CrewSlots
  <2>3. QED
    BY <2>1, <2>2 DEF Live
<1>4. ASSUME NEW l \in SleepAt, NEW k \in Objects(l)
      PROVE  WellFormed(WaitList(l, k)) /\ Members(WaitList(l, k)) = Asleep(l, k)
  BY <1>1, OtherLists, ListMembers
<1>5. SemAccounting
  <2> SUFFICES ASSUME NEW s \in Sems
               PROVE  /\ credit[s] = sem[s].value + Cardinality(SemGranted(s))
                      /\ WellFormed(sem[s].q) /\ Members(sem[s].q) = SemWaiters(s)
    BY DEF SemAccounting
  <2>1. SemGranted(s) = Coming("sw_woken", s) /\ SemWaiters(s) = Asleep("sw_woken", s)
    BY <1>3 DEF SemGranted, SemWaiters, Coming, Asleep
  <2>2. "sw_woken" \in SleepAt /\ s \in Objects("sw_woken") /\ WaitList("sw_woken", s) = sem[s].q
    BY DEF SleepAt, Objects, WaitList
  <2>3. WellFormed(WaitList("sw_woken", s)) /\ Members(WaitList("sw_woken", s)) = Asleep("sw_woken", s)
    BY <1>4, <2>2
  <2>4. QED
    BY <1>1, <2>1, <2>2, <2>3 DEF UnitsInv
<1>6. NoLostMessageWakeup
  <2>1. ASSUME NEW l \in {"mr_cli", "ms_cli"}, NEW m
        PROVE  MqBlocked(m, l) = Asleep(l, m) /\ MqPending(m, l) = Coming(l, m)
    BY <1>3 DEF MqBlocked, MqPending, Asleep, Coming
  <2>2. ASSUME NEW m \in Mqs
        PROVE  /\ WellFormed(mq[m].recvq) /\ Members(mq[m].recvq) = Asleep("mr_cli", m)
               /\ WellFormed(mq[m].sendq) /\ Members(mq[m].sendq) = Asleep("ms_cli", m)
    <3>1. /\ "mr_cli" \in SleepAt /\ "ms_cli" \in SleepAt
          /\ m \in Objects("mr_cli") /\ m \in Objects("ms_cli")
          /\ WaitList("mr_cli", m) = mq[m].recvq /\ WaitList("ms_cli", m) = mq[m].sendq
      BY DEF SleepAt, Objects, WaitList
    <3>2. WellFormed(WaitList("mr_cli", m)) /\ Members(WaitList("mr_cli", m)) = Asleep("mr_cli", m)
      BY <1>4, <3>1
    <3>3. WellFormed(WaitList("ms_cli", m)) /\ Members(WaitList("ms_cli", m)) = Asleep("ms_cli", m)
      BY <1>4, <3>1
    <3>4. QED
      BY <3>1, <3>2, <3>3
  <2>3. QED
    BY <1>1, <2>1, <2>2 DEF NoLostMessageWakeup, WakeupsInv
<1>7. ReadyQueueExact
  <2>1. WellFormed(rq) /\ Members(rq) = ReadyCrew
    BY <1>1, ListMembers DEF ListInv
  <2>2. {t \in Live : state[t] = "READY"} \ Unlinked = ReadyCrew
    BY <1>3 DEF ReadyCrew
  <2>3. QED
    BY <2>1, <2>2 DEF ReadyQueueExact
<1>8. QED
  BY <1>5, <1>6, <1>7

\* Tasks that only use semaphores and queues: whatever the number of tasks, objects
\* and units, sem_wait and sem_post neither lose nor invent a unit, wherever ticks
\* arrive outside the create calls, and a semaphore's list holds exactly its waiters.
THEOREM UnitsAreConserved ==
    ASSUME Steady PROVE IpcSpec => []SemAccounting
<1>1. SteadyInv /\ [IpcNext]_allVars => SteadyInv'
  BY NextSteady
<1>2. SteadyInv => SemAccounting
  BY SteadyMeans
<1>3. QED
  BY <1>1, <1>2, InitSteady, PTL DEF IpcSpec

\* Under the same use, msg_queue_send and msg_queue_recv lose no wakeup: a receiver
\* sleeps only while every message has an awake receiver coming for it, a sender only
\* while every free place has an awake sender, and both lists are exact.
THEOREM MessageWakeupsNeverLost ==
    ASSUME Steady PROVE IpcSpec => []NoLostMessageWakeup
<1>1. SteadyInv /\ [IpcNext]_allVars => SteadyInv'
  BY NextSteady
<1>2. SteadyInv => NoLostMessageWakeup
  BY SteadyMeans
<1>3. QED
  BY <1>1, <1>2, InitSteady, PTL DEF IpcSpec

\* Under the same use, the wait lists, which thread the ready queue's own link field,
\* leave the ready queue a list of exactly the READY tasks.
THEOREM ReadyQueueExactIpc ==
    ASSUME Steady PROVE IpcSpec => []ReadyQueueExact
<1>1. SteadyInv /\ [IpcNext]_allVars => SteadyInv'
  BY NextSteady
<1>2. SteadyInv => ReadyQueueExact
  BY SteadyMeans
<1>3. QED
  BY <1>1, <1>2, InitSteady, PTL DEF IpcSpec
=============================================================================
