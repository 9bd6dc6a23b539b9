-------------------------- MODULE SchedulerProofs --------------------------
(***************************************************************************)
(* The scheduler for every number of tasks and pids and every workload.    *)
(*                                                                         *)
(* The first part holds wherever ticks may arrive: the types of the        *)
(* variables and of the locals of a system call, and that no task but the  *)
(* current one is RUNNING.                                                 *)
(*                                                                         *)
(* The second part is the correctness of the ready queue, the task table   *)
(* and the wakeups, when ticks do not arrive inside the sequences that     *)
(* Scheduler!Racy names.  That hypothesis, RacesClosed, is the one under   *)
(* which TLC checks these properties; what goes wrong inside those         *)
(* sequences is shown by the instances in MCScheduler.                     *)
(*                                                                         *)
(* The properties are not inductive: they speak of the queue and the table *)
(* between system calls, and say nothing of what a system call has read    *)
(* and will use.  SafeInv adds the locals of the suspended system calls    *)
(* (ForkLocals, LinkLocals, ReapLocals), where a task in each state can be *)
(* (StatesFit, CurrentFits), and the queue as it will be once the tail has *)
(* been moved (QueueFits).                                                 *)
(***************************************************************************)
EXTENDS Scheduler, TLAPS, FiniteSetTheorems, WellFoundedInduction

\* The C loops that search a table for the first match return a match: a
\* non-empty set of naturals has a minimum, and Min is it.
LEMMA MinIsLeast ==
    ASSUME NEW S \in SUBSET Nat, S # {}
    PROVE  Min(S) \in S /\ \A y \in S : Min(S) <= y
<1>1. \E x \in S : \A y \in S : ~(<<y, x>> \in OpToRel(<, Nat))
  BY NatLessThanWellFounded, WFMin
<1>2. PICK x \in S : \A y \in S : ~(<<y, x>> \in OpToRel(<, Nat))
  BY <1>1
<1>3. \A y \in S : x <= y
  <2>1. SUFFICES ASSUME NEW y \in S PROVE ~(y < x)
    OBVIOUS
  <2>2. <<y, x>> \in Nat \X Nat
    OBVIOUS
  <2>3. QED
    BY <1>2, <2>2 DEF OpToRel
<1>4. QED
  BY <1>3 DEF Min

\* The match a search returns is one of the matches.
LEMMA MinIsMember ==
    ASSUME NEW S \in SUBSET Nat, S # {}
    PROVE  Min(S) \in S
BY MinIsLeast

\* enqueue_ready and dequeue_ready keep list pointers inside the task table.
LEMMA EnqueueTypes ==
    ASSUME NEW nx \in [Slots -> Slots \cup {NULL}], NEW q \in Queues, NEW t \in Slots
    PROVE  /\ EnqueueNext(nx, q, t) \in [Slots -> Slots \cup {NULL}]
           /\ EnqueueHead(q, t) \in Slots \cup {NULL}
           /\ EnqueueQ(q, t) \in Queues
BY DEF EnqueueNext, EnqueueHead, EnqueueQ, Queues, NULL, Slots

\* dequeue_ready returns a task of the table and leaves a legal list.
LEMMA DequeueTypes ==
    ASSUME NEW nx \in [Slots -> Slots \cup {NULL}], NEW q \in Queues, q.head # NULL
    PROVE  /\ DequeueNext(nx, q) \in [Slots -> Slots \cup {NULL}]
           /\ DequeueQ(nx, q) \in Queues
           /\ q.head \in Slots
BY DEF DequeueNext, DequeueQ, Queues

\* scheduler_tick, from any task states and any lists, yields a legal table in
\* which RUNNING belongs to the task that has the CPU, if that held on entry.
LEMMA TickTypes ==
    ASSUME NEW st \in [Slots -> States], NEW nx \in [Slots -> Slots \cup {NULL}],
           NEW q \in Queues, current \in Slots, cpu \in CpuStates,
           scheduler_tick(st, nx, q)
    PROVE  /\ state' \in [Slots -> States]
           /\ next' \in [Slots -> Slots \cup {NULL}]
           /\ rq' \in Queues
           /\ current' \in Slots
           /\ cpu' \in CpuStates
<1> DEFINE requeue == st[current] \notin {"ZOMBIE", "BLOCKED"}
           nx1 == IF requeue THEN EnqueueNext(nx, q, current) ELSE nx
           q1  == IF requeue THEN EnqueueQ(q, current) ELSE q
<1>1. nx1 \in [Slots -> Slots \cup {NULL}] /\ q1 \in Queues
  BY EnqueueTypes
<1>2. CASE /\ current' = q1.head /\ q1.head # NULL
           /\ state' = [[st EXCEPT ![current] = IF requeue THEN "READY" ELSE @]
                            EXCEPT ![q1.head] = "RUNNING"]
           /\ next' = DequeueNext(nx1, q1)
           /\ rq' = DequeueQ(nx1, q1)
           /\ UNCHANGED cpu
  <2>1. q1.head \in Slots /\ next' \in [Slots -> Slots \cup {NULL}] /\ rq' \in Queues
    BY <1>1, <1>2, DequeueTypes
  <2> HIDE DEF q1, nx1
  <2>2. QED
    BY <1>2, <2>1 DEF States
<1>3. CASE /\ state' = [st EXCEPT ![current] = "RUNNING"]
           /\ next' = nx /\ rq' = q /\ UNCHANGED <<current, cpu>>
  BY <1>3 DEF States
<1>4. CASE /\ state' = [st EXCEPT ![current] = "RUNNING"]
           /\ next' = nx1 /\ rq' = q1 /\ UNCHANGED <<current, cpu>>
  <2> HIDE DEF q1, nx1
  <2> QED BY <1>1, <1>4 DEF States
<1>5. CASE /\ cpu' = "no_runnable" /\ state' = st /\ next' = nx1 /\ rq' = q1
           /\ UNCHANGED current
  <2> HIDE DEF q1, nx1
  <2> QED BY <1>1, <1>5 DEF CpuStates
<1>6. QED
  BY <1>2, <1>3, <1>4, <1>5 DEF scheduler_tick, Requeued, Switched

\* scheduler_tick leaves no second RUNNING task behind.
LEMMA TickRunning ==
    ASSUME NEW st \in [Slots -> States], NEW nx \in [Slots -> Slots \cup {NULL}],
           NEW q \in Queues, current \in Slots,
           \A t \in Slots : st[t] = "RUNNING" => t = current,
           scheduler_tick(st, nx, q)
    PROVE  RunningIsCurrent'
<1> DEFINE requeue == st[current] \notin {"ZOMBIE", "BLOCKED"}
           nx1 == IF requeue THEN EnqueueNext(nx, q, current) ELSE nx
           q1  == IF requeue THEN EnqueueQ(q, current) ELSE q
<1>1. q1 \in Queues
  BY EnqueueTypes
<1>2. CASE /\ current' = q1.head /\ q1.head # NULL
           /\ state' = [[st EXCEPT ![current] = IF requeue THEN "READY" ELSE @]
                            EXCEPT ![q1.head] = "RUNNING"]
  <2>1. q1.head \in Slots
    BY <1>1, <1>2 DEF Queues
  <2>2. ASSUME NEW t \in Slots, t # q1.head PROVE state'[t] # "RUNNING"
    <3>1. state'[t] = IF t = current THEN (IF requeue THEN "READY" ELSE st[current]) ELSE st[t]
      <4> HIDE DEF q1, requeue
      <4> QED BY <1>2, <2>1, <2>2
    <3>2. QED
      BY <3>1 DEF States
  <2>3. QED
    BY <1>2, <2>2 DEF RunningIsCurrent
<1>3. CASE state' = [st EXCEPT ![current] = "RUNNING"] /\ current' = current
  BY <1>3 DEF RunningIsCurrent
<1>4. CASE state' = st /\ current' = current
  BY <1>4 DEF RunningIsCurrent
<1>5. QED
  BY <1>2, <1>3, <1>4 DEF scheduler_tick, Requeued, Switched

-----------------------------------------------------------------------------
(* Each step of the process system calls keeps the types, whatever labels a  *)
(* module that extends Scheduler adds.                                       *)

\* A step that changes only the program place and the locals of the caller.
LEMMA ReturnTypes ==
    ASSUME NEW L, ProcLabels \subseteq L, SchedType(L), ProcLocals,
           NEW t \in Slots, Return(t), UNCHANGED listVars,
           pid' \in [Slots -> -1 .. MaxPid], UNCHANGED <<parent, next_pid>>,
           task_count' \in Int
    PROVE  SchedType(L)' /\ ProcLocals'
<1>1. pc' = [pc EXCEPT ![t] = "user"] /\ "user" \in L
  BY DEF Return, Goto, ProcLabels
<1>2. arg' \in [Slots -> Int] /\ val' \in [Slots -> Int]
  BY DEF Return, SchedType, NULL
<1>3. \A u \in Slots : u # t => pc'[u] = pc[u] /\ arg'[u] = arg[u] /\ val'[u] = val[u]
  BY DEF Return, Goto, SchedType
<1>4. SchedType(L)'
  BY <1>1, <1>2 DEF SchedType, listVars
<1>5. ProcLocals'
  BY <1>1, <1>3 DEF ProcLocals, SchedType
<1>6. QED
  BY <1>4, <1>5

\* Loading a counter changes nothing but the local that holds it.
LEMMA LoadTypes ==
    ASSUME NEW L, ProcLabels \subseteq L, SchedType(L), ProcLocals,
           NEW t \in Slots, NEW at, NEW n \in Int, NEW then \in L,
           then \in {"fork_clone", "fork_pid", "fork_fill", "fork_link", "fork_tail",
                     "exit_link", "exit_tail", "wait_reap", "wait_free"} => arg[t] \in Slots,
           then = "fork_fill" => n \in 1 .. MaxPid - 1,
           Load(t, at, n, then)
    PROVE  SchedType(L)' /\ ProcLocals'
BY DEF Load, Goto, SchedType, ProcLocals, listVars, tableVars

\* Both halves of enqueue_ready keep the list pointers inside the table.
LEMMA LinkTypes ==
    ASSUME NEW L, ProcLabels \subseteq L, SchedType(L), ProcLocals,
           NEW t \in Slots, NEW at, NEW then \in L, arg[t] \in Slots, then # "fork_fill",
           LinkReady(t, at, then) \/ TailReady(t, at, then)
    PROVE  SchedType(L)' /\ ProcLocals'
<1>1. CASE LinkReady(t, at, then)
  <2>1. next' \in [Slots -> Slots \cup {NULL}] /\ rq' \in Queues
    <3>1. next \in [Slots -> Slots \cup {NULL}] /\ rq \in Queues
      BY DEF SchedType
    <3>2. EnqueueHead(rq, arg[t]) \in Slots \cup {NULL}
      BY <3>1, EnqueueTypes
    <3>3. next' \in [Slots -> Slots \cup {NULL}]
      BY <1>1, <3>1, EnqueueTypes DEF LinkReady
    <3>4. rq' \in Queues
      BY <1>1, <3>1, <3>2 DEF LinkReady, Queues
    <3>5. QED BY <3>3, <3>4
  <2>2. QED
    BY <1>1, <2>1 DEF LinkReady, Goto, SchedType, ProcLocals, tableVars
<1>2. CASE TailReady(t, at, then)
  <2>1. rq' \in Queues
    BY <1>2 DEF TailReady, SchedType, Queues
  <2>2. QED
    BY <1>2, <2>1 DEF TailReady, Goto, SchedType, ProcLocals, tableVars
<1>3. QED
  BY <1>1, <1>2

\* int $32 at the end of a system call step.
LEMMA SwitchTypes ==
    ASSUME NEW L, ProcLabels \subseteq L, SchedType(L), ProcLocals,
           NEW t \in Slots, NEW then \in L,
           then \notin {"fork_clone", "fork_pid", "fork_fill", "fork_link", "fork_tail",
                        "exit_link", "exit_tail", "wait_reap", "wait_free"},
           NEW st \in [Slots -> States], NEW nx \in [Slots -> Slots \cup {NULL}],
           scheduler_tick(st, nx, rq), Goto(t, then),
           arg' \in [Slots -> Int], \A u \in Slots : u # t => arg'[u] = arg[u],
           UNCHANGED <<tableVars, val>>
    PROVE  SchedType(L)' /\ ProcLocals'
<1>1. /\ state' \in [Slots -> States] /\ next' \in [Slots -> Slots \cup {NULL}]
      /\ rq' \in Queues /\ current' \in Slots /\ cpu' \in CpuStates
  BY TickTypes DEF SchedType
<1>2. QED
  BY <1>1 DEF SchedType, ProcLocals, Goto, tableVars

\* The timer interrupt keeps every type.
LEMMA TickStepTypes ==
    ASSUME NEW L, SchedType(L), ProcLocals, Tick
    PROVE  SchedType(L)' /\ ProcLocals'
<1>1. /\ state' \in [Slots -> States] /\ next' \in [Slots -> Slots \cup {NULL}]
      /\ rq' \in Queues /\ current' \in Slots /\ cpu' \in CpuStates
  BY TickTypes DEF SchedType, Tick
<1>2. QED
  BY <1>1 DEF SchedType, ProcLocals, Tick, tableVars

\* Entering a system call keeps every type.
LEMMA ProcCallTypes ==
    ASSUME NEW L, ProcLabels \subseteq L, SchedType(L), ProcLocals,
           NEW t \in Slots, ProcCall(t)
    PROVE  SchedType(L)' /\ ProcLocals'
<1>1. CASE SysFork(t)
  <2>1. FreeSlots \in SUBSET Nat /\ FreeSlots \subseteq Slots
    BY DEF FreeSlots, Slots
  <2>2. Min(FreeSlots) \in Slots
    BY <1>1, <2>1, MinIsMember DEF SysFork
  <2>3. arg' \in [Slots -> Int] /\ arg'[t] \in Slots /\ \A u \in Slots : u # t => arg'[u] = arg[u]
    BY <1>1, <2>2 DEF SysFork, SchedType, Slots
  <2>4. QED
    BY <1>1, <2>3 DEF SysFork, Goto, SchedType, ProcLocals, listVars, tableVars, ProcLabels
<1>2. CASE SysExit(t)
  BY <1>2 DEF SysExit, Goto, SchedType, ProcLocals, listVars, tableVars, ProcLabels
<1>3. ASSUME NEW p \in WaitPids, SysWait(t, p) PROVE SchedType(L)' /\ ProcLocals'
  <2>1. p \in Int
    BY WaitPidsAssumption, SlotsAssumption
  <2>2. QED
    BY <1>3, <2>1 DEF SysWait, Goto, SchedType, ProcLocals, listVars, tableVars, ProcLabels
<1>4. QED
  BY <1>1, <1>2, <1>3 DEF ProcCall

\* Every step of task_fork keeps every type.
LEMMA ForkTypes ==
    ASSUME NEW L, ProcLabels \subseteq L, SchedType(L), ProcLocals, NEW t \in Slots,
           \/ ForkClone(t) \/ ForkPid(t) \/ ForkFill(t) \/ ForkLink(t) \/ ForkTail(t)
           \/ ForkCount(t) \/ ForkStore(t)
    PROVE  SchedType(L)' /\ ProcLocals'
<1>1. CASE ForkClone(t)
  <2>1. CASE Goto(t, "fork_pid") /\ UNCHANGED <<arg, val>>
    BY <1>1, <2>1 DEF ForkClone, At, Goto, SchedType, ProcLocals, listVars, tableVars, ProcLabels
  <2>2. CASE Return(t)
    BY <1>1, <2>2, ReturnTypes DEF ForkClone, listVars, tableVars, SchedType
  <2>3. QED
    BY <1>1, <2>1, <2>2 DEF ForkClone
<1>2. CASE ForkPid(t)
  <2>1. next_pid \in 1 .. MaxPid - 1 /\ arg[t] \in Slots /\ "fork_fill" \in L
    BY <1>2, SlotsAssumption DEF ForkPid, Load, At, SchedType, ProcLocals, ProcLabels
  <2>2. QED
    BY <1>2, <2>1, LoadTypes DEF ForkPid
<1>3. CASE ForkFill(t)
  <2>1. arg[t] \in Slots /\ val[t] \in 1 .. MaxPid - 1 /\ "user" \in L /\ "fork_link" \in L
    BY <1>3 DEF ForkFill, At, ProcLocals, ProcLabels
  <2>2. /\ pid' \in [Slots -> -1 .. MaxPid] /\ parent' \in [Slots -> -1 .. MaxPid]
        /\ next_pid' \in 1 .. MaxPid
    BY <1>3, <2>1, SlotsAssumption DEF ForkFill, SchedType
  <2>3. state' \in [Slots -> States] /\ next' \in [Slots -> Slots \cup {NULL}]
    BY <1>3, <2>1 DEF ForkFill, SchedType, States
  <2>4. arg' \in [Slots -> Int] /\ val' \in [Slots -> Int] /\ pc' \in [Slots -> L]
    <3>1. arg[t] \in Int /\ -1 \in Int
      BY DEF SchedType
    <3>2. QED
      BY <1>3, <2>1, <3>1 DEF ForkFill, SchedType, NULL
  <2>5. SchedType(L)'
    BY <1>3, <2>2, <2>3, <2>4 DEF ForkFill, SchedType
  <2>6. \A u \in Slots : \/ pc'[u] = "user"
                         \/ pc'[u] = "fork_link" /\ arg'[u] \in Slots
                         \/ pc'[u] = pc[u] /\ arg'[u] = arg[u] /\ val'[u] = val[u]
    BY <1>3, <2>1 DEF ForkFill, SchedType
  <2>7. QED
    BY <2>5, <2>6 DEF ProcLocals
<1>4. CASE ForkLink(t)
  BY <1>4, LinkTypes DEF ForkLink, LinkReady, At, ProcLocals, ProcLabels
<1>5. CASE ForkTail(t)
  BY <1>5, LinkTypes DEF ForkTail, TailReady, At, ProcLocals, ProcLabels
<1>6. CASE ForkCount(t)
  <2>1. task_count \in Int /\ "fork_store" \in L
    BY DEF SchedType, ProcLabels
  <2>2. QED
    BY <1>6, <2>1, LoadTypes DEF ForkCount
<1>7. CASE ForkStore(t)
  <2>1. task_count' \in Int
    BY <1>7 DEF ForkStore, SchedType
  <2>2. QED
    BY <1>7, <2>1, ReturnTypes DEF ForkStore, SchedType
<1>8. QED
  BY <1>1, <1>2, <1>3, <1>4, <1>5, <1>6, <1>7

\* Every step of task_exit keeps every type.
LEMMA ExitTypes ==
    ASSUME NEW L, ProcLabels \subseteq L, SchedType(L), ProcLocals, NEW t \in Slots,
           \/ ExitZombie(t) \/ ExitWake(t) \/ ExitLink(t) \/ ExitTail(t)
           \/ ExitSwitch(t) \/ ExitDead(t)
    PROVE  SchedType(L)' /\ ProcLocals'
<1>1. CASE ExitZombie(t)
  BY <1>1 DEF ExitZombie, Goto, SchedType, ProcLocals, tableVars, ProcLabels, States
<1>2. CASE ExitWake(t)
  <2> DEFINE p == IF parent[t] >= 0 THEN task_from_pid(parent[t]) ELSE NULL
  <2>1. p # NULL => p \in Slots
    <3>1. SUFFICES ASSUME \E s \in Slots : pid[s] = parent[t]
                   PROVE  Min({s \in Slots : pid[s] = parent[t]}) \in Slots
      BY DEF task_from_pid
    <3>2. /\ {s \in Slots : pid[s] = parent[t]} \in SUBSET Nat
          /\ {s \in Slots : pid[s] = parent[t]} # {}
      BY <3>1 DEF Slots
    <3>3. Min({s \in Slots : pid[s] = parent[t]}) \in {s \in Slots : pid[s] = parent[t]}
      BY <3>2, MinIsMember
    <3>4. QED
      BY <3>3
  <2>2. CASE /\ p # NULL /\ state' = [state EXCEPT ![p] = "READY"]
             /\ arg' = [arg EXCEPT ![t] = p] /\ Goto(t, "exit_link")
    <3>1. p \in Slots
      BY <2>1, <2>2
    <3> HIDE DEF p
    <3>2. /\ state' \in [Slots -> States] /\ arg' \in [Slots -> Int] /\ arg'[t] \in Slots
          /\ \A u \in Slots : u # t => arg'[u] = arg[u]
      BY <2>2, <3>1 DEF SchedType, States, Slots
    <3>3. pc' \in [Slots -> L] /\ pc'[t] = "exit_link" /\ \A u \in Slots : u # t => pc'[u] = pc[u]
      BY <2>2 DEF Goto, SchedType, ProcLabels
    <3>4. UNCHANGED <<tableVars, next, rq, current, cpu, val>>
      BY <1>2 DEF ExitWake
    <3>5. SchedType(L)'
      BY <3>2, <3>3, <3>4 DEF SchedType, tableVars
    <3>6. QED
      BY <3>2, <3>3, <3>4, <3>5 DEF ProcLocals
  <2>3. CASE Goto(t, "exit_switch") /\ UNCHANGED <<state, arg>>
    BY <1>2, <2>3 DEF ExitWake, Goto, SchedType, ProcLocals, tableVars, ProcLabels
  <2>4. QED
    BY <1>2, <2>2, <2>3 DEF ExitWake
<1>3. CASE ExitLink(t)
  BY <1>3, LinkTypes DEF ExitLink, LinkReady, At, ProcLocals, ProcLabels
<1>4. CASE ExitTail(t)
  BY <1>4, LinkTypes DEF ExitTail, TailReady, At, ProcLocals, ProcLabels
<1>5. CASE ExitSwitch(t)
  <2>1. arg' \in [Slots -> Int] /\ \A u \in Slots : u # t => arg'[u] = arg[u]
    BY <1>5 DEF ExitSwitch, SchedType, NULL
  <2>2. state \in [Slots -> States] /\ next \in [Slots -> Slots \cup {NULL}] /\ "exit_dead" \in L
    BY DEF SchedType, ProcLabels
  <2>3. scheduler_tick(state, next, rq) /\ Goto(t, "exit_dead") /\ UNCHANGED <<tableVars, val>>
    BY <1>5 DEF ExitSwitch
  <2>4. QED
    BY <2>1, <2>2, <2>3, SwitchTypes
<1>6. CASE ExitDead(t)
  BY <1>6 DEF ExitDead, SchedType, ProcLocals, tableVars, CpuStates
<1>7. QED
  BY <1>1, <1>2, <1>3, <1>4, <1>5, <1>6

\* Every step of task_wait keeps every type.
LEMMA WaitTypes ==
    ASSUME NEW L, ProcLabels \subseteq L, SchedType(L), ProcLocals, NEW t \in Slots,
           \/ WaitScan(t) \/ WaitReap(t) \/ WaitFree(t) \/ WaitCount(t) \/ WaitStore(t)
           \/ WaitAlive(t) \/ WaitBlock(t) \/ WaitSwitch(t)
    PROVE  SchedType(L)' /\ ProcLocals'
<1>1. CASE WaitScan(t)
  <2> DEFINE zombies == {c \in Children(t, arg[t]) : state[c] = "ZOMBIE"}
  <2>1. zombies # {} => Min(zombies) \in Slots
    <3>1. zombies \in SUBSET Nat /\ zombies \subseteq Slots
      BY DEF Children, Slots
    <3>2. QED
      BY <3>1, MinIsMember
  <2>2. CASE zombies # {} /\ arg' = [arg EXCEPT ![t] = Min(zombies)] /\ Goto(t, "wait_reap")
    <3>1. /\ arg' \in [Slots -> Int] /\ arg'[t] \in Slots
          /\ \A u \in Slots : u # t => arg'[u] = arg[u]
      <4>1. Min(zombies) \in Slots /\ Min(zombies) \in Int
        BY <2>1, <2>2 DEF Slots
      <4> HIDE DEF zombies
      <4>2. QED BY <2>2, <4>1 DEF SchedType
    <3>2. pc' \in [Slots -> L] /\ pc'[t] = "wait_reap" /\ \A u \in Slots : u # t => pc'[u] = pc[u]
      BY <2>2 DEF Goto, SchedType, ProcLabels
    <3>3. UNCHANGED <<tableVars, listVars, val>>
      BY <1>1 DEF WaitScan
    <3>4. SchedType(L)'
      BY <3>1, <3>2, <3>3 DEF SchedType, tableVars, listVars
    <3>5. QED
      BY <3>1, <3>2, <3>3, <3>4 DEF ProcLocals
  <2>3. CASE Goto(t, "wait_alive") /\ UNCHANGED arg
    BY <1>1, <2>3 DEF WaitScan, Goto, SchedType, ProcLocals, tableVars, listVars, ProcLabels
  <2>4. QED
    BY <1>1, <2>2, <2>3 DEF WaitScan, Zombies
<1>2. CASE WaitReap(t)
  <2>1. arg[t] \in Slots /\ "wait_free" \in L
    BY <1>2 DEF WaitReap, At, ProcLocals, ProcLabels
  <2>2. pid' \in [Slots -> -1 .. MaxPid] /\ parent' \in [Slots -> -1 .. MaxPid]
    BY <1>2, <2>1, SlotsAssumption DEF WaitReap, SchedType
  <2>3. state' \in [Slots -> States] /\ next' \in [Slots -> Slots \cup {NULL}]
    BY <1>2, <2>1 DEF WaitReap, SchedType, States
  <2>4. QED
    BY <1>2, <2>1, <2>2, <2>3 DEF WaitReap, Goto, SchedType, ProcLocals
<1>3. CASE WaitFree(t)
  <2>1. pid' \in [Slots -> -1 .. MaxPid]
    <3>1. -1 \in -1 .. MaxPid
      BY SlotsAssumption
    <3>2. pid' = [pid EXCEPT ![arg[t]] = -1] /\ pid \in [Slots -> -1 .. MaxPid]
      BY <1>3 DEF WaitFree, SchedType
    <3>3. QED
      BY <3>1, <3>2
  <2>2. QED
    BY <1>3, <2>1 DEF WaitFree, Goto, SchedType, ProcLocals, listVars, ProcLabels
<1>4. CASE WaitCount(t)
  <2>1. task_count \in Int /\ "wait_store" \in L
    BY DEF SchedType, ProcLabels
  <2>2. QED
    BY <1>4, <2>1, LoadTypes DEF WaitCount
<1>5. CASE WaitStore(t)
  <2>1. task_count' \in Int
    BY <1>5 DEF WaitStore, SchedType
  <2>2. QED
    BY <1>5, <2>1, ReturnTypes DEF WaitStore, SchedType
<1>6. CASE WaitAlive(t)
  <2>1. CASE Goto(t, "wait_block") /\ UNCHANGED <<arg, val>>
    BY <1>6, <2>1 DEF WaitAlive, Goto, SchedType, ProcLocals, listVars, tableVars, ProcLabels
  <2>2. CASE Return(t)
    BY <1>6, <2>2, ReturnTypes DEF WaitAlive, listVars, tableVars, SchedType
  <2>3. QED
    BY <1>6, <2>1, <2>2 DEF WaitAlive
<1>7. CASE WaitBlock(t)
  BY <1>7 DEF WaitBlock, Goto, SchedType, ProcLocals, tableVars, ProcLabels, States
<1>8. CASE WaitSwitch(t)
  <2>1. state \in [Slots -> States] /\ next \in [Slots -> Slots \cup {NULL}] /\ "wait_scan" \in L
    BY DEF SchedType, ProcLabels
  <2>2. /\ scheduler_tick(state, next, rq) /\ Goto(t, "wait_scan")
        /\ UNCHANGED <<tableVars, val>> /\ UNCHANGED arg
    BY <1>8 DEF WaitSwitch
  <2>3. QED
    BY <2>1, <2>2, SwitchTypes DEF SchedType
<1>9. QED
  BY <1>1, <1>2, <1>3, <1>4, <1>5, <1>6, <1>7, <1>8

\* Every step of a process system call keeps every type.
LEMMA ProcStepTypes ==
    ASSUME NEW L, ProcLabels \subseteq L, SchedType(L), ProcLocals,
           NEW t \in Slots, ProcStep(t)
    PROVE  SchedType(L)' /\ ProcLocals'
BY ForkTypes, ExitTypes, WaitTypes DEF ProcStep

\* Wherever ticks arrive, the task table, the ready queue and the local variables
\* of every system call keep their types: no slot index or pid is ever invalid.
THEOREM TypeCorrect == Spec => [](TypeOK /\ ProcLocals)
<1>1. InitTable => TypeOK /\ ProcLocals
  BY SlotsAssumption DEF InitTable, FirstPid, TypeOK, SchedType, ProcLocals, Slots, NULL, Queues,
     EmptyQueue, States, CpuStates, ProcLabels
<1>2. TypeOK /\ ProcLocals /\ [Next]_vars => (TypeOK /\ ProcLocals)'
  <2> SUFFICES ASSUME TypeOK, ProcLocals, [Next]_vars PROVE (TypeOK /\ ProcLocals)'
    OBVIOUS
  <2> SchedType(ProcLabels)
    BY DEF TypeOK
  <2>1. CASE Tick
    BY <2>1, TickStepTypes DEF TypeOK
  <2>2. ASSUME NEW t \in Slots, ProcCall(t) PROVE (TypeOK /\ ProcLocals)'
    BY <2>2, ProcCallTypes DEF TypeOK
  <2>3. ASSUME NEW t \in Slots, ProcStep(t) PROVE (TypeOK /\ ProcLocals)'
    BY <2>3, ProcStepTypes DEF TypeOK
  <2>4. CASE UNCHANGED vars
    BY <2>4 DEF vars, TypeOK, SchedType, ProcLocals
  <2>5. QED
    BY <2>1, <2>2, <2>3, <2>4 DEF Next
<1>3. QED
  BY <1>1, <1>2, PTL DEF Spec

-----------------------------------------------------------------------------
\* Only scheduler_tick makes a task RUNNING, and only the one it switches to.
LEMMA RunningStep ==
    ASSUME NEW L, SchedType(L), ProcLocals, RunningIsCurrent,
           Tick \/ \E t \in Slots : ProcCall(t) \/ ProcStep(t)
    PROVE  RunningIsCurrent'
<1>1. CASE scheduler_tick(state, next, rq)
  BY <1>1, TickRunning DEF SchedType, RunningIsCurrent
<1>2. CASE /\ UNCHANGED current
           /\ \A t \in Slots : state'[t] = "RUNNING" => state[t] = "RUNNING"
  BY <1>2 DEF RunningIsCurrent
<1>3. ASSUME NEW t \in Slots, ProcCall(t) PROVE RunningIsCurrent'
  BY <1>2, <1>3 DEF ProcCall, SysFork, SysExit, SysWait, listVars
<1>4. ASSUME NEW t \in Slots, ProcStep(t) PROVE RunningIsCurrent'
  <2>1. CASE ForkFill(t) \/ ExitZombie(t) \/ ExitWake(t) \/ WaitReap(t) \/ WaitBlock(t)
    BY <1>2, <2>1 DEF ForkFill, ExitZombie, ExitWake, WaitReap, WaitBlock, SchedType
  <2>2. CASE ExitSwitch(t) \/ WaitSwitch(t)
    BY <1>1, <2>2 DEF ExitSwitch, WaitSwitch
  <2>3. CASE UNCHANGED <<state, current>>
    BY <1>2, <2>3
  <2>4. QED
    BY <1>4, <2>1, <2>2, <2>3 DEF ProcStep, ForkClone, ForkPid, ForkLink, ForkTail, ForkCount,
       ForkStore, ExitLink, ExitTail, ExitDead, WaitScan, WaitFree, WaitCount, WaitStore,
       WaitAlive, LinkReady, TailReady, Load, listVars
<1>5. QED
  BY <1>1, <1>3, <1>4 DEF Tick

\* Wherever ticks arrive and whatever programs call, at most one task is RUNNING
\* and it is the task that has the CPU.
THEOREM AtMostOneRunning == Spec => []RunningIsCurrent
<1>1. InitTable => RunningIsCurrent
  BY DEF InitTable, RunningIsCurrent
<1>2. TypeOK /\ ProcLocals /\ RunningIsCurrent /\ [Next]_vars => RunningIsCurrent'
  <2> SUFFICES ASSUME TypeOK, ProcLocals, RunningIsCurrent, [Next]_vars PROVE RunningIsCurrent'
    OBVIOUS
  <2>1. CASE Next
    BY <2>1, RunningStep DEF TypeOK, Next
  <2>2. CASE UNCHANGED vars
    BY <2>2 DEF vars, RunningIsCurrent
  <2>3. QED
    BY <2>1, <2>2
<1>3. QED
  BY <1>1, <1>2, TypeCorrect, PTL DEF Spec

-----------------------------------------------------------------------------
(* The intrusive lists.  s enumerates, without repetition, the n tasks that  *)
(* the next fields nx string together from the head of q to its tail.        *)

Enumerates(s, n, nx, q) ==
    /\ n \in Nat /\ s \in [1 .. n -> Slots]
    /\ \A i, j \in 1 .. n : s[i] = s[j] => i = j
    /\ n = 0 => q.head = NULL /\ q.tail = NULL
    /\ n > 0 => q.head = s[1] /\ q.tail = s[n]
    /\ \A i \in 1 .. n : nx[s[i]] = IF i = n THEN NULL ELSE s[i + 1]

Elements(s, n) == {s[i] : i \in 1 .. n}

\* q is a list of exactly the tasks in M.
Lists(nx, q, M) ==
    \E n, s : Enumerates(s, n, nx, q) /\ M = Elements(s, n)

\* A slot is not the null pointer, and slot 0 exists.
LEMMA SlotNotNull == NULL \notin Slots /\ Slots \subseteq Nat /\ 0 \in Slots
BY SlotsAssumption DEF NULL, Slots

\* A list is empty exactly when its head, or its tail, is null.
LEMMA ListEmpty ==
    ASSUME NEW nx, NEW q, NEW M, Lists(nx, q, M)
    PROVE  /\ M \subseteq Slots
           /\ (q.head = NULL) <=> (M = {})
           /\ (q.tail = NULL) <=> (M = {})
           /\ q.head # NULL => q.head \in M
<1>1. PICK n, s : Enumerates(s, n, nx, q) /\ M = Elements(s, n)
  BY DEF Lists
<1> n \in Nat /\ s \in [1 .. n -> Slots]
  BY <1>1 DEF Enumerates
<1>2. CASE n = 0
  BY <1>1, <1>2 DEF Enumerates, Elements
<1>3. CASE n > 0
  <2>1. 1 \in 1 .. n /\ n \in 1 .. n
    BY <1>3
  <2>2. q.head = s[1] /\ q.tail = s[n] /\ s[1] \in M /\ s[n] \in M
    BY <1>1, <1>3, <2>1 DEF Enumerates, Elements
  <2>3. QED
    BY <1>1, <2>1, <2>2, SlotNotNull DEF Elements
<1>4. QED
  BY <1>2, <1>3

\* A list does not notice what happens to the next fields of other tasks.
LEMMA ListFrame ==
    ASSUME NEW nx, NEW q, NEW M, Lists(nx, q, M), NEW nx2, \A x \in M : nx2[x] = nx[x]
    PROVE  Lists(nx2, q, M)
<1>1. PICK n, s : Enumerates(s, n, nx, q) /\ M = Elements(s, n)
  BY DEF Lists
<1> n \in Nat /\ s \in [1 .. n -> Slots]
  BY <1>1 DEF Enumerates
<1>2. \A i \in 1 .. n : nx2[s[i]] = nx[s[i]]
  BY <1>1 DEF Elements
<1>3. Enumerates(s, n, nx2, q)
  BY <1>1, <1>2 DEF Enumerates
<1>4. QED
  BY <1>1, <1>3 DEF Lists

\* enqueue_ready, and its copies in ipc.c, append a task that is not in the list.
LEMMA ListEnqueue ==
    ASSUME NEW nx \in [Slots -> Slots \cup {NULL}], NEW q, NEW M, Lists(nx, q, M),
           NEW t \in Slots, t \notin M
    PROVE  Lists(EnqueueNext(nx, q, t), EnqueueQ(q, t), M \cup {t})
<1>1. PICK n, s : Enumerates(s, n, nx, q) /\ M = Elements(s, n)
  BY DEF Lists
<1> n \in Nat /\ s \in [1 .. n -> Slots]
  BY <1>1 DEF Enumerates
<1> DEFINE r == [i \in 1 .. n + 1 |-> IF i <= n THEN s[i] ELSE t]
           nx2 == EnqueueNext(nx, q, t)
           q2 == EnqueueQ(q, t)
<1>2. r \in [1 .. n + 1 -> Slots]
  OBVIOUS
<1>3. \A i \in 1 .. n : s[i] # t /\ s[i] \in Slots /\ i \in 1 .. n + 1 /\ r[i] = s[i]
  BY <1>1 DEF Elements
<1>4. r[n + 1] = t /\ n + 1 \in 1 .. n + 1 /\ 1 \in 1 .. n + 1
  OBVIOUS
<1>5. \A i \in 1 .. n + 1 : i = n + 1 \/ i \in 1 .. n
  OBVIOUS
<1>6. \A i, j \in 1 .. n + 1 : r[i] = r[j] => i = j
  <2> HIDE DEF r
  <2>1. \A i, j \in 1 .. n : s[i] = s[j] => i = j
    BY <1>1 DEF Enumerates
  <2>2. SUFFICES ASSUME NEW i \in 1 .. n + 1, NEW j \in 1 .. n + 1, r[i] = r[j] PROVE i = j
    OBVIOUS
  <2>3. QED
    BY <1>3, <1>4, <1>5, <2>1, <2>2
<1>7. q2.head = r[1] /\ q2.tail = r[n + 1]
  <2>1. CASE n = 0
    BY <1>1, <1>4, <2>1 DEF Enumerates, EnqueueQ, EnqueueHead
  <2>2. CASE n > 0
    <3>1. 1 \in 1 .. n /\ n \in 1 .. n
      BY <2>2
    <3>2. q.tail # NULL /\ q.head = s[1]
      BY <1>1, <2>2, <3>1, SlotNotNull DEF Enumerates
    <3>3. QED
      BY <1>3, <1>4, <3>1, <3>2 DEF EnqueueQ, EnqueueHead
  <2>3. QED
    BY <2>1, <2>2
<1>8. ASSUME NEW i \in 1 .. n + 1
      PROVE  nx2[r[i]] = IF i = n + 1 THEN NULL ELSE r[i + 1]
  <2> HIDE DEF r
  <2>1. nx2[t] = NULL
    <3>1. n > 0 => q.tail # t
      BY <1>1, <1>3 DEF Enumerates
    <3>2. n = 0 => q.tail = NULL
      BY <1>1 DEF Enumerates
    <3>3. n > 0 => q.tail \in Slots
      BY <1>1 DEF Enumerates
    <3>4. QED
      BY <3>1, <3>2, <3>3 DEF EnqueueNext
  <2>2. CASE i = n + 1
    BY <1>4, <2>1, <2>2
  <2>3. CASE i \in 1 .. n
    <3>1. /\ q.tail = s[n] /\ s[n] \in Slots /\ n \in 1 .. n /\ s[i] \in Slots
          /\ s[i] = s[n] => i = n
          /\ nx[s[i]] = IF i = n THEN NULL ELSE s[i + 1]
      BY <1>1, <2>3 DEF Enumerates
    <3>2. nx2[s[i]] = IF i = n THEN t ELSE s[i + 1]
      BY <1>3, <2>3, <3>1, SlotNotNull DEF EnqueueNext
    <3>3. r[i + 1] = IF i = n THEN t ELSE s[i + 1]
      BY <1>3, <1>4, <2>3
    <3>4. QED
      BY <1>3, <2>3, <3>2, <3>3
  <2>4. QED
    BY <1>5, <2>2, <2>3
<1>9. M \cup {t} = Elements(r, n + 1)
  <2> HIDE DEF r
  <2>1. QED
    BY <1>1, <1>3, <1>4, <1>5 DEF Elements
<1>10. Enumerates(r, n + 1, nx2, q2)
  <2> HIDE DEF r, nx2, q2
  <2>1. QED
    BY <1>2, <1>6, <1>7, <1>8 DEF Enumerates
<1>11. QED
  <2> HIDE DEF r, nx2, q2
  <2>1. n + 1 \in Nat /\ Lists(nx2, q2, M \cup {t})
    BY <1>2, <1>9, <1>10 DEF Lists
  <2>2. QED
    BY <2>1 DEF nx2, q2

\* dequeue_ready, and its copies, take the first task away and leave the rest.
LEMMA ListDequeue ==
    ASSUME NEW nx \in [Slots -> Slots \cup {NULL}], NEW q, NEW M, Lists(nx, q, M),
           q.head # NULL
    PROVE  /\ q.head \in M
           /\ Lists(DequeueNext(nx, q), DequeueQ(nx, q), M \ {q.head})
<1>1. PICK n, s : Enumerates(s, n, nx, q) /\ M = Elements(s, n)
  BY DEF Lists
<1> n \in Nat /\ s \in [1 .. n -> Slots]
  BY <1>1 DEF Enumerates
<1> DEFINE r == [i \in 1 .. n - 1 |-> s[i + 1]]
           nx2 == DequeueNext(nx, q)
           q2 == DequeueQ(nx, q)
<1>2. n > 0 /\ q.head = s[1] /\ q.tail = s[n] /\ 1 \in 1 .. n /\ n \in 1 .. n /\ n - 1 \in Nat
  BY <1>1 DEF Enumerates
<1>3. \A i \in 1 .. n - 1 : i + 1 \in 1 .. n /\ r[i] = s[i + 1] /\ s[i + 1] # s[1]
  BY <1>1, <1>2 DEF Enumerates
<1>4. r \in [1 .. n - 1 -> Slots]
  BY <1>3
<1>5. \A i, j \in 1 .. n - 1 : r[i] = r[j] => i = j
  <2> HIDE DEF r
  <2>1. \A i, j \in 1 .. n : s[i] = s[j] => i = j
    BY <1>1 DEF Enumerates
  <2>2. QED
    BY <1>3, <2>1
<1>6. \A i \in 1 .. n - 1 : nx2[r[i]] = IF i = n - 1 THEN NULL ELSE r[i + 1]
  <2> SUFFICES ASSUME NEW i \in 1 .. n - 1
               PROVE  nx2[r[i]] = IF i = n - 1 THEN NULL ELSE r[i + 1]
    OBVIOUS
  <2> HIDE DEF r
  <2>1. nx[s[i + 1]] = IF i + 1 = n THEN NULL ELSE s[i + 1 + 1]
    BY <1>1, <1>3 DEF Enumerates
  <2>2. nx2[s[i + 1]] = nx[s[i + 1]]
    BY <1>2, <1>3 DEF DequeueNext
  <2>3. i # n - 1 => i + 1 \in 1 .. n - 1
    BY <1>2
  <2>4. QED
    BY <1>2, <1>3, <2>1, <2>2, <2>3
<1>7. nx[q.head] = IF n = 1 THEN NULL ELSE s[2]
  BY <1>1, <1>2 DEF Enumerates
<1>8. CASE n = 1
  <2>1. q2.head = NULL /\ q2.tail = NULL
    BY <1>7, <1>8 DEF DequeueQ
  <2>2. Enumerates(r, n - 1, nx2, q2)
    <3> HIDE DEF r, nx2, q2
    <3> QED BY <1>4, <1>5, <1>6, <1>8, <2>1 DEF Enumerates
  <2>3. M \ {q.head} = Elements(r, n - 1)
    BY <1>1, <1>2, <1>8 DEF Elements
  <2>4. QED
    <3> HIDE DEF r
    <3>1. Lists(nx2, q2, M \ {q.head})
      <4> HIDE DEF nx2, q2
      <4> QED BY <1>2, <1>4, <2>2, <2>3 DEF Lists
    <3>2. QED
      BY <1>1, <1>2, <3>1 DEF Elements
<1>9. CASE n > 1
  <2>1. 2 \in 1 .. n /\ s[2] # NULL /\ 1 \in 1 .. n - 1 /\ n - 1 \in 1 .. n - 1
    BY <1>1, <1>9, SlotNotNull
  <2>2. q2.head = r[1] /\ q2.tail = r[n - 1]
    BY <1>2, <1>7, <1>9, <2>1 DEF DequeueQ
  <2>3. Enumerates(r, n - 1, nx2, q2)
    <3> HIDE DEF r, nx2, q2
    <3> QED BY <1>2, <1>4, <1>5, <1>6, <1>9, <2>2 DEF Enumerates
  <2>4. M \ {q.head} = Elements(r, n - 1)
    <3> HIDE DEF r
    <3>1. \A i \in 1 .. n : i = 1 \/ (i - 1 \in 1 .. n - 1 /\ s[i] = r[i - 1])
      BY <1>3
    <3>2. ASSUME NEW x \in M, x # s[1] PROVE \E i \in 1 .. n - 1 : x = r[i]
      BY <1>1, <3>1, <3>2 DEF Elements
    <3>3. ASSUME NEW i \in 1 .. n - 1 PROVE r[i] \in M /\ r[i] # s[1]
      BY <1>1, <1>3 DEF Elements
    <3>4. QED
      BY <1>2, <3>2, <3>3 DEF Elements
  <2>5. QED
    <3> HIDE DEF r
    <3>1. Lists(nx2, q2, M \ {q.head})
      <4> HIDE DEF nx2, q2
      <4> QED BY <1>2, <1>4, <2>3, <2>4 DEF Lists
    <3>2. QED
      BY <1>1, <1>2, <3>1 DEF Elements
<1>10. QED
  BY <1>2, <1>8, <1>9

\* A list cannot be longer than the task table.
LEMMA ListLength ==
    ASSUME NEW n \in Nat, NEW s \in [1 .. n -> Slots], \A i, j \in 1 .. n : s[i] = s[j] => i = j
    PROVE  n <= MAX_TASKS
<1>1. IsFiniteSet(Slots) /\ Cardinality(Slots) = MAX_TASKS
  BY FS_Interval, SlotsAssumption DEF Slots
<1>2. IsFiniteSet(1 .. n) /\ Cardinality(1 .. n) = n
  BY FS_Interval
<1>3. SUFFICES ASSUME MAX_TASKS < n PROVE FALSE
  BY SlotsAssumption
<1>4. \E x, y \in 1 .. n : x # y /\ s[x] = s[y]
  BY <1>1, <1>2, <1>3, FS_PigeonHole
<1>5. QED
  BY <1>4

\* Following next from the head: what NthOf computes for a list.
LEMMA NthOfList ==
    ASSUME NEW q, NEW n, NEW s, Enumerates(s, n, next, q)
    PROVE  NthOf(q) = [k \in 0 .. MAX_TASKS |-> IF k < n THEN s[k + 1] ELSE NULL]
<1> n \in Nat /\ s \in [1 .. n -> Slots] /\ MAX_TASKS \in Nat
  BY SlotsAssumption DEF Enumerates
<1> DEFINE g == [k \in 0 .. MAX_TASKS |-> IF k < n THEN s[k + 1] ELSE NULL]
           Step(f) == [k \in 0 .. MAX_TASKS |->
                          IF k = 0 THEN q.head
                          ELSE IF f[k - 1] = NULL THEN NULL ELSE next[f[k - 1]]]
<1>1. ASSUME NEW k \in 0 .. MAX_TASKS
      PROVE  g[k] = IF k = 0 THEN q.head
                    ELSE IF g[k - 1] = NULL THEN NULL ELSE next[g[k - 1]]
  <2>1. CASE k = 0
    <3>1. n > 0 => q.head = s[1] /\ 1 \in 1 .. n
      BY DEF Enumerates
    <3>2. n = 0 => q.head = NULL
      BY DEF Enumerates
    <3>3. QED
      BY <2>1, <3>1, <3>2
  <2>2. CASE k > 0
    <3>1. k - 1 \in 0 .. MAX_TASKS /\ (k - 1) + 1 = k
      BY <2>2
    <3>2. g[k - 1] = IF k - 1 < n THEN s[k] ELSE NULL
      BY <3>1
    <3>3. CASE k - 1 < n
      <4>1. k \in 1 .. n /\ s[k] # NULL
        BY <2>2, <3>3, SlotNotNull
      <4>2. next[s[k]] = IF k = n THEN NULL ELSE s[k + 1]
        BY <4>1 DEF Enumerates
      <4>3. QED
        BY <2>2, <3>2, <3>3, <4>1, <4>2
    <3>4. CASE ~(k - 1 < n)
      BY <2>2, <3>2, <3>4
    <3>5. QED
      BY <3>3, <3>4
  <2>3. QED
    BY <2>1, <2>2
<1>2. g = Step(g)
  BY <1>1
<1>3. ASSUME NEW f, f = Step(f) PROVE f = g
  <2> DEFINE Bad == {k \in 0 .. MAX_TASKS : f[k] # g[k]}
  <2>1. SUFFICES Bad = {}
    <3>1. f = [k \in 0 .. MAX_TASKS |-> f[k]] 
      BY <1>3
    <3>2. g = [k \in 0 .. MAX_TASKS |-> g[k]]
      OBVIOUS
    <3> HIDE DEF g, Step
    <3>3. QED
      BY <2>1, <3>1, <3>2
  <2>2. SUFFICES ASSUME Bad # {} PROVE FALSE
    OBVIOUS
  <2>3. Bad \in SUBSET Nat
    OBVIOUS
  <2> DEFINE k == Min(Bad)
  <2>4. k \in Bad /\ \A j \in Bad : k <= j
    <3> HIDE DEF Bad
    <3> QED BY <2>2, <2>3, MinIsLeast
  <2> HIDE DEF k
  <2>5. k \in 0 .. MAX_TASKS /\ f[k] # g[k]
    BY <2>4
  <2>6. f[k] = IF k = 0 THEN q.head ELSE IF f[k - 1] = NULL THEN NULL ELSE next[f[k - 1]]
    BY <1>3, <2>5
  <2>7. k > 0
    <3> HIDE DEF g, Step
    <3> QED BY <1>1, <2>5, <2>6
  <2>8. k - 1 \in 0 .. MAX_TASKS /\ k - 1 \notin Bad
    BY <2>4, <2>5, <2>7
  <2>9. f[k - 1] = g[k - 1]
    BY <2>8
  <2> HIDE DEF g, Step
  <2>10. QED
    BY <1>1, <2>5, <2>6, <2>7, <2>9
<1>4. NthOf(q) = CHOOSE f : f = Step(f)
  BY DEF NthOf
<1> HIDE DEF g, Step
<1>5. QED
  BY <1>2, <1>3, <1>4 DEF g

\* A list is finite, ends at its tail, and its members are what it lists.
LEMMA ListMembers ==
    ASSUME NEW q, NEW M, Lists(next, q, M)
    PROVE  WellFormed(q) /\ Members(q) = M
<1>1. PICK n, s : Enumerates(s, n, next, q) /\ M = Elements(s, n)
  BY DEF Lists
<1> n \in Nat /\ s \in [1 .. n -> Slots] /\ MAX_TASKS \in Nat
  BY <1>1, SlotsAssumption DEF Enumerates
<1> DEFINE nth == NthOf(q)
<1>2. nth = [k \in 0 .. MAX_TASKS |-> IF k < n THEN s[k + 1] ELSE NULL]
  BY <1>1, NthOfList
<1>3. n <= MAX_TASKS
  BY <1>1, ListLength DEF Enumerates
<1> HIDE DEF nth
<1>4. \A k \in 0 .. MAX_TASKS :
         /\ nth[k] = (IF k < n THEN s[k + 1] ELSE NULL)
         /\ k < n => k + 1 \in 1 .. n /\ s[k + 1] # NULL
         /\ nth[k] # NULL <=> k < n
  BY <1>2, SlotNotNull
<1>5. nth[MAX_TASKS] = NULL
  BY <1>3, <1>4
<1>6. (q.head = NULL) = (q.tail = NULL)
  BY <1>1, ListEmpty
<1>7. ASSUME NEW k \in 1 .. MAX_TASKS, nth[k - 1] # NULL, nth[k] = NULL
      PROVE  nth[k - 1] = q.tail
  <2>1. k - 1 \in 0 .. MAX_TASKS /\ k \in 0 .. MAX_TASKS
    OBVIOUS
  <2>2. k - 1 < n /\ ~(k < n)
    BY <1>4, <1>7, <2>1
  <2>3. k = n /\ nth[k - 1] = s[n]
    BY <1>4, <2>1, <2>2
  <2>4. QED
    BY <1>1, <2>3 DEF Enumerates
<1>8. WellFormed(q)
  BY <1>5, <1>6, <1>7 DEF WellFormed, nth
<1>9. Members(q) = {nth[k] : k \in 0 .. MAX_TASKS} \ {NULL}
  BY DEF Members, nth
<1>10. ASSUME NEW x \in M PROVE x # NULL /\ \E k \in 0 .. MAX_TASKS : x = nth[k]
  <2>1. PICK i \in 1 .. n : x = s[i]
    BY <1>1, <1>10 DEF Elements
  <2>2. i - 1 \in 0 .. MAX_TASKS /\ i - 1 < n /\ (i - 1) + 1 = i
    BY <1>3
  <2>3. nth[i - 1] = s[i] /\ s[i] # NULL
    BY <1>4, <2>2
  <2>4. QED
    BY <2>1, <2>2, <2>3
<1>11. ASSUME NEW k \in 0 .. MAX_TASKS, nth[k] # NULL PROVE nth[k] \in M
  BY <1>1, <1>4, <1>11 DEF Elements
<1>12. Members(q) = M
  BY <1>9, <1>10, <1>11
<1>13. QED
  BY <1>8, <1>12

\* What scheduler_tick does, when q lists the tasks M and current is not one of
\* them: the interrupted task keeps the CPU, the CPU halts, or a task of the list,
\* which the interrupted one has joined if it can run, gets the CPU.
Joined(st, M) == IF Requeued(st[current]) THEN M \cup {current} ELSE M

\* The four outcomes of scheduler_tick, with the list it leaves.
LEMMA TickEffect ==
    ASSUME NEW st \in [Slots -> States], NEW nx \in [Slots -> Slots \cup {NULL}],
           NEW q \in Queues, current \in Slots, NEW M, Lists(nx, q, M), current \notin M,
           scheduler_tick(st, nx, q)
    PROVE  \/ /\ Requeued(st[current]) \/ (st[current] = "BLOCKED" /\ M = {})
              /\ state' = [st EXCEPT ![current] = "RUNNING"]
              /\ Lists(next', rq', M) /\ UNCHANGED <<current, cpu>>
           \/ /\ st[current] = "ZOMBIE" /\ M = {}
              /\ cpu' = "no_runnable" /\ state' = st
              /\ Lists(next', rq', M) /\ UNCHANGED current
           \/ \E h \in Joined(st, M) :
              /\ current' = h /\ UNCHANGED cpu
              /\ state' = Switched(st, Requeued(st[current]), h)
              /\ Lists(next', rq', Joined(st, M) \ {h})
<1> DEFINE requeue == Requeued(st[current])
           nx1 == IF requeue THEN EnqueueNext(nx, q, current) ELSE nx
           q1  == IF requeue THEN EnqueueQ(q, current) ELSE q
           J   == Joined(st, M)
<1>1. nx1 \in [Slots -> Slots \cup {NULL}] /\ q1 \in Queues
  BY EnqueueTypes
<1>2. Lists(nx1, q1, J)
  BY ListEnqueue DEF Joined
<1>3. q1.head = NULL <=> J = {}
  BY <1>2, ListEmpty
<1>4. ~requeue => J = M /\ nx1 = nx /\ q1 = q
  BY DEF Joined
<1>5. requeue => q1.head # NULL
  BY <1>3 DEF Joined
<1>6. st[current] \in States
  OBVIOUS
<1>7. requeue <=> st[current] # "ZOMBIE" /\ st[current] # "BLOCKED"
  BY DEF Requeued
<1>8. \/ /\ requeue /\ state' = [st EXCEPT ![current] = "RUNNING"]
         /\ next' = nx /\ rq' = q /\ UNCHANGED <<current, cpu>>
      \/ /\ q1.head = NULL /\ st[current] # "ZOMBIE"
         /\ state' = [st EXCEPT ![current] = "RUNNING"]
         /\ next' = nx1 /\ rq' = q1 /\ UNCHANGED <<current, cpu>>
      \/ /\ q1.head = NULL /\ st[current] = "ZOMBIE"
         /\ cpu' = "no_runnable" /\ state' = st /\ next' = nx1 /\ rq' = q1
         /\ UNCHANGED current
      \/ /\ q1.head # NULL /\ current' = q1.head
         /\ state' = Switched(st, requeue, q1.head)
         /\ next' = DequeueNext(nx1, q1) /\ rq' = DequeueQ(nx1, q1) /\ UNCHANGED cpu
  BY DEF scheduler_tick
<1>9. q1.head # NULL => /\ q1.head \in J
                        /\ Lists(DequeueNext(nx1, q1), DequeueQ(nx1, q1), J \ {q1.head})
  BY <1>1, <1>2, ListDequeue
<1> HIDE DEF requeue, nx1, q1, J
<1>10. QED
  BY <1>2, <1>3, <1>4, <1>5, <1>7, <1>8, <1>9 DEF requeue, J

-----------------------------------------------------------------------------
(* Ticks stay out of the race windows.                                       *)

RacesClosed == PreemptAt \cap Racy = {}

-----------------------------------------------------------------------------
\* A slot in use; the one that the current task's wait has zeroed is not.
IsLive(t) == pid[t] >= 0 /\ ~(pc[current] = "wait_free" /\ arg[current] = t)

\* A task that does not have the CPU is not in the middle of a racy sequence.
Parked == \A t \in Slots : t # current => pc[t] \notin Racy

ExitedAt == {"exit_wake", "exit_link", "exit_tail", "exit_switch", "exit_dead"}

\* What the state field says about the place where a task is.
StatesFit ==
    \A t \in Slots :
        /\ IsLive(t) => (state[t] = "ZOMBIE" <=> pc[t] \in ExitedAt)
        /\ state[t] = "BLOCKED" => IsLive(t) /\ pc[t] \in {"wait_switch", "wait_scan"}
        /\ ~IsLive(t) => state[t] = "READY" /\ pc[t] \in {"user", "exit_switch", "exit_dead"}

CurrentFits ==
    /\ IsLive(current) /\ state[current] # "READY"
    /\ state[current] = "BLOCKED" => pc[current] = "wait_switch"
    /\ cpu = "run" => pc[current] # "exit_dead"
    /\ cpu # "zombie_resumed"

PidsDiffer ==
    /\ \A s, t \in Slots : IsLive(s) /\ IsLive(t) /\ pid[s] = pid[t] => s = t
    /\ \A t \in Slots : IsLive(t) => pid[t] < next_pid

\* What a system call keeps in its locals is still true when it continues.
ForkLocals ==
    /\ \A t \in Slots :
          /\ pc[t] \in {"fork_clone", "fork_pid", "fork_fill"} => pid[arg[t]] < 0
          /\ pc[t] = "fork_fill" => val[t] = next_pid
          /\ pc[t] \in {"fork_store", "wait_store"} => val[t] = task_count

LinkLocals ==
    /\ \A t \in Slots :
          /\ pc[t] \in {"fork_link", "exit_link"} => IsLive(arg[t]) /\ state[arg[t]] = "READY"
          /\ pc[t] = "fork_link" => pc[arg[t]] = "user"
          /\ pc[t] = "exit_link" => pc[arg[t]] \in {"wait_switch", "wait_scan"}
    /\ \A t, u \in Slots :
          pc[t] = "fork_link" /\ pc[u] = "fork_link" /\ arg[t] = arg[u] => t = u

ReapLocals ==
    \A t \in Slots :
        pc[t] = "wait_reap" => /\ IsLive(arg[t]) /\ state[arg[t]] = "ZOMBIE"
                               /\ parent[arg[t]] = pid[t] /\ arg[t] # current

\* A task that has decided to sleep in wait, or sleeps, has no exited child but one
\* that is about to wake it.
Wakeups ==
    \A t, c \in Slots :
        (/\ pc[t] \in {"wait_alive", "wait_block"} \/ state[t] = "BLOCKED"
         /\ c \in Children(t, arg[t]) /\ state[c] = "ZOMBIE")
        => c = current /\ pc[c] = "exit_wake"

\* The ready queue, as it will be when the current task has moved its tail.
QueueView == IF pc[current] \in {"fork_tail", "exit_tail"}
             THEN [rq EXCEPT !.tail = arg[current]] ELSE rq

InQueue(t) == /\ IsLive(t) /\ state[t] = "READY"
              /\ ~\E u \in Slots : pc[u] \in {"fork_link", "exit_link"} /\ arg[u] = t

ReadyTasks == {t \in Slots : InQueue(t)}

QueueFits == Lists(next, QueueView, ReadyTasks)

TaskInv == /\ Parked /\ StatesFit /\ CurrentFits /\ PidsDiffer
           /\ ForkLocals /\ LinkLocals /\ ReapLocals /\ Wakeups

Typed == SchedType(ProcLabels) /\ ProcLocals

\* Only task t, which has the CPU, moves on: to l, with the locals a and v.
Moves(t, l, a, v) ==
    /\ cpu = "run" /\ current = t /\ l \in ProcLabels
    /\ pc'[t] = l /\ arg'[t] = a /\ val'[t] = v
    /\ \A u \in Slots : u # t => pc'[u] = pc[u] /\ arg'[u] = arg[u] /\ val'[u] = val[u]
    /\ UNCHANGED <<pid, parent, state, current, cpu, next_pid>>

\* What must hold for t to be at l with the locals a and v.
MayBeAt(t, l, a, v) ==
    /\ l \in ExitedAt <=> pc[t] \in ExitedAt
    /\ l \notin {"fork_link", "exit_link", "exit_wake", "exit_dead", "wait_free"}
    /\ l \in {"fork_clone", "fork_pid", "fork_fill"} => a \in Slots /\ pid[a] < 0
    /\ l = "fork_fill" => v = next_pid
    /\ l \in {"fork_store", "wait_store"} => v = task_count'
    /\ l = "wait_reap" => /\ a \in Slots /\ IsLive(a) /\ state[a] = "ZOMBIE"
                          /\ parent[a] = pid[t] /\ a # t
    /\ l \in {"wait_alive", "wait_block"} => \A c \in Children(t, a) : state[c] # "ZOMBIE"

\* A step that moves only the place and locals of the task that has the CPU keeps
\* the invariant, when the new place and locals are legal.
LEMMA LocalMove ==
    ASSUME Typed, TaskInv, NEW t \in Slots, NEW l, NEW a, NEW v,
           Moves(t, l, a, v), MayBeAt(t, l, a, v),
           pc[t] \notin {"wait_free", "exit_wake"}, state[t] # "BLOCKED"
    PROVE  TaskInv' /\ \A u \in Slots : IsLive(u)' <=> IsLive(u)
<1> USE DEF Moves, MayBeAt
<1>3. \A u \in Slots : IsLive(u)' <=> IsLive(u)
  BY DEF IsLive
<1>4. Parked'
  BY DEF TaskInv, Parked
<1>5. StatesFit'
  BY <1>3 DEF TaskInv, StatesFit, CurrentFits, ExitedAt
<1>6. CurrentFits'
  BY <1>3 DEF TaskInv, CurrentFits
<1>7. PidsDiffer'
  BY <1>3 DEF TaskInv, PidsDiffer
<1>8. LinkLocals'
  BY <1>3 DEF TaskInv, LinkLocals, CurrentFits, Typed, ProcLocals
<1>9. ReapLocals'
  BY <1>3 DEF TaskInv, ReapLocals, CurrentFits, Typed, ProcLocals
<1>10. ForkLocals'
  BY DEF TaskInv, ForkLocals, Parked, Racy
<1>11. Wakeups'
  <2> SUFFICES ASSUME NEW u \in Slots, NEW c \in Slots,
                      pc'[u] \in {"wait_alive", "wait_block"} \/ state'[u] = "BLOCKED",
                      c \in Children(u, arg[u])', state'[c] = "ZOMBIE"
               PROVE  c = current' /\ pc'[c] = "exit_wake"
    BY DEF Wakeups
  <2>1. CASE u = t
    BY <2>1 DEF Children
  <2>2. CASE u # t
    <3>1. c \in Children(u, arg[u]) /\ state[c] = "ZOMBIE"
      BY <2>2 DEF Children
    <3>2. c = current /\ pc[c] = "exit_wake"
      BY <2>2, <3>1 DEF TaskInv, Wakeups
    <3>3. QED
      BY <3>2
  <2>3. QED
    BY <2>1, <2>2
<1>12. QED
  BY <1>3, <1>4, <1>5, <1>6, <1>7, <1>8, <1>9, <1>10, <1>11 DEF TaskInv

\* The task that makes a step has the CPU.
LEMMA StepIsCurrent ==
    ASSUME Typed, TaskInv, NEW t \in Slots, cpu = "run", current = t, pc[t] \notin ExitedAt
    PROVE  /\ IsLive(t) /\ state[t] \notin {"READY", "ZOMBIE"}
           /\ pc[t] # "wait_switch" => state[t] = "RUNNING"
BY DEF TaskInv, CurrentFits, StatesFit, Typed, SchedType, States

\* Steps in which the current task only moves on inside its system call.
LEMMA QuietSteps ==
    ASSUME Typed, TaskInv, NEW t \in Slots,
           \/ ProcCall(t)
           \/ ForkClone(t) \/ ForkPid(t) \/ ForkLink(t) \/ ForkTail(t) \/ ForkCount(t)
           \/ ForkStore(t) \/ ExitLink(t) \/ ExitTail(t)
           \/ WaitScan(t) \/ WaitCount(t) \/ WaitStore(t) \/ WaitAlive(t)
    PROVE  TaskInv' /\ \A u \in Slots : IsLive(u)' <=> IsLive(u)
<1>0. pc \in [Slots -> ProcLabels] /\ arg \in [Slots -> Int] /\ val \in [Slots -> Int]
  BY DEF Typed, SchedType
<1>1. SUFFICES /\ \E l, a, v : Moves(t, l, a, v) /\ MayBeAt(t, l, a, v)
               /\ pc[t] \notin {"wait_free", "exit_wake"} /\ state[t] # "BLOCKED"
  BY LocalMove
<1>2. /\ cpu = "run" /\ current = t
      /\ pc[t] \in {"user", "fork_clone", "fork_pid", "fork_link", "fork_tail", "fork_count",
                    "fork_store", "exit_link", "exit_tail", "wait_scan", "wait_count",
                    "wait_store", "wait_alive"}
  BY DEF ProcCall, SysFork, SysExit, SysWait, ForkClone, ForkPid, ForkLink, ForkTail, ForkCount,
         ForkStore, ExitLink, ExitTail, WaitScan, WaitCount, WaitStore, WaitAlive,
         LinkReady, TailReady, Load, At
<1>3. state[t] # "BLOCKED"
  BY <1>2 DEF TaskInv, CurrentFits
<1> USE DEF Moves, MayBeAt, At, Goto, ExitedAt, ProcLabels, tableVars, listVars
<1>4. CASE SysFork(t)
  <2>1. Min(FreeSlots) \in FreeSlots
    <3>1. FreeSlots \in SUBSET Nat
      BY DEF FreeSlots, Slots
    <3>2. QED
      BY <1>4, <3>1, MinIsMember DEF SysFork
  <2>2. Moves(t, "fork_clone", Min(FreeSlots), val[t])
    BY <1>0, <1>4 DEF SysFork
  <2>3. MayBeAt(t, "fork_clone", Min(FreeSlots), val[t])
    BY <1>4, <2>1 DEF SysFork, FreeSlots
  <2>4. QED
    BY <1>2, <1>3, <2>2, <2>3
<1>5. CASE SysExit(t)
  <2>1. Moves(t, "exit_zombie", arg[t], val[t]) /\ MayBeAt(t, "exit_zombie", arg[t], val[t])
    BY <1>0, <1>5 DEF SysExit
  <2>2. QED
    BY <1>2, <1>3, <2>1
<1>6. ASSUME NEW p \in WaitPids, SysWait(t, p)
      PROVE  \E l, a, v : Moves(t, l, a, v) /\ MayBeAt(t, l, a, v)
  <2>1. Moves(t, "wait_scan", p, val[t]) /\ MayBeAt(t, "wait_scan", p, val[t])
    BY <1>0, <1>6 DEF SysWait
  <2>2. QED
    BY <2>1
<1>7. ASSUME Return(t), UNCHANGED <<pid, parent, state, current, cpu, next_pid>>,
             pc[t] \notin ExitedAt
      PROVE  Moves(t, "user", NULL, NULL) /\ MayBeAt(t, "user", NULL, NULL)
  BY <1>0, <1>2, <1>7 DEF Return
<1>8. CASE ForkClone(t)
  <2>1. CASE Goto(t, "fork_pid") /\ UNCHANGED <<arg, val>>
    <3>1. Moves(t, "fork_pid", arg[t], val[t]) /\ MayBeAt(t, "fork_pid", arg[t], val[t])
      BY <1>0, <1>8, <2>1 DEF ForkClone, TaskInv, ForkLocals, Typed, ProcLocals
    <3>2. QED
      BY <1>2, <1>3, <3>1
  <2>2. QED
    BY <1>2, <1>3, <1>7, <1>8, <2>1 DEF ForkClone
<1>9. CASE ForkPid(t)
  <2>1. Moves(t, "fork_fill", arg[t], next_pid) /\ MayBeAt(t, "fork_fill", arg[t], next_pid)
    BY <1>0, <1>9 DEF ForkPid, Load, TaskInv, ForkLocals, Typed, ProcLocals
  <2>2. QED
    BY <1>2, <1>3, <2>1
<1>10. CASE ForkLink(t) \/ ForkTail(t) \/ ExitLink(t) \/ ExitTail(t)
  <2>1. \E l \in {"fork_tail", "fork_count", "exit_tail", "exit_switch"} :
           Moves(t, l, arg[t], val[t]) /\ MayBeAt(t, l, arg[t], val[t])
    BY <1>0, <1>10 DEF ForkLink, ForkTail, ExitLink, ExitTail, LinkReady, TailReady
  <2>2. QED
    BY <1>2, <1>3, <2>1
<1>11. CASE ForkCount(t) \/ WaitCount(t)
  <2>1. \E l \in {"fork_store", "wait_store"} :
           Moves(t, l, arg[t], task_count) /\ MayBeAt(t, l, arg[t], task_count)
    BY <1>0, <1>11 DEF ForkCount, WaitCount, Load
  <2>2. QED
    BY <1>2, <1>3, <2>1
<1>12. CASE ForkStore(t) \/ WaitStore(t)
  BY <1>2, <1>3, <1>7, <1>12 DEF ForkStore, WaitStore
<1>13. CASE WaitScan(t)
  <2> DEFINE z == Zombies(t)
  <2>1. CASE z # {} /\ arg' = [arg EXCEPT ![t] = Min(z)] /\ Goto(t, "wait_reap")
    <3>1. z \in SUBSET Nat
      BY DEF Zombies, Children, Slots
    <3>2. Min(z) \in z
      <4> HIDE DEF z
      <4> QED BY <2>1, <3>1, MinIsMember
    <3>3. Moves(t, "wait_reap", Min(z), val[t])
      <4> HIDE DEF z
      <4> QED BY <1>0, <1>13, <2>1 DEF WaitScan
    <3>4. /\ Min(z) \in Slots /\ state[Min(z)] = "ZOMBIE" /\ pid[Min(z)] >= 0
          /\ parent[Min(z)] = pid[t]
      BY <3>2 DEF Zombies, Children
    <3>5. MayBeAt(t, "wait_reap", Min(z), val[t])
      <4> HIDE DEF z
      <4>1. state[t] # "ZOMBIE"
        BY <1>2, <1>13, StepIsCurrent DEF WaitScan
      <4>2. QED
        BY <1>2, <1>13, <3>4, <4>1 DEF WaitScan, IsLive
    <3>6. QED
      <4> HIDE DEF z
      <4> QED BY <1>2, <1>3, <3>3, <3>5
  <2>2. CASE z = {} /\ UNCHANGED arg /\ Goto(t, "wait_alive")
    <3>1. Moves(t, "wait_alive", arg[t], val[t])
      BY <1>0, <1>13, <2>2 DEF WaitScan
    <3>2. MayBeAt(t, "wait_alive", arg[t], val[t])
      BY <1>13, <2>2 DEF WaitScan, Zombies
    <3>3. QED
      BY <1>2, <1>3, <3>1, <3>2
  <2>3. QED
    BY <1>13, <2>1, <2>2 DEF WaitScan
<1>14. CASE WaitAlive(t)
  <2>1. CASE Goto(t, "wait_block") /\ UNCHANGED <<arg, val>>
    <3>1. Moves(t, "wait_block", arg[t], val[t])
      BY <1>0, <1>14, <2>1 DEF WaitAlive
    <3>2. \A c \in Children(t, arg[t]) : state[c] # "ZOMBIE"
      BY <1>14, <1>2 DEF WaitAlive, TaskInv, Wakeups, Children
    <3>3. MayBeAt(t, "wait_block", arg[t], val[t])
      BY <1>14, <3>2 DEF WaitAlive
    <3>4. QED
      BY <1>2, <1>3, <3>1, <3>3
  <2>2. QED
    BY <1>2, <1>3, <1>7, <1>14, <2>1 DEF WaitAlive
<1>15. QED
  BY <1>2, <1>3, <1>4, <1>5, <1>6, <1>8, <1>9, <1>10, <1>11, <1>12, <1>13, <1>14 DEF ProcCall

-----------------------------------------------------------------------------
(* Steps that change the task table.                                         *)

\* task_fork fills a slot that is not in use with a new pid.
LEMMA ForkFillKeeps ==
    ASSUME Typed, TaskInv, NEW t \in Slots, ForkFill(t)
    PROVE  /\ TaskInv'
           /\ arg[t] \in Slots /\ arg[t] # t /\ ~IsLive(arg[t])
           /\ \A u \in Slots : IsLive(u)' <=> IsLive(u) \/ u = arg[t]
<1> DEFINE c == arg[t]
<1>1. /\ cpu = "run" /\ current = t /\ pc[t] = "fork_fill" /\ c \in Slots /\ pid[c] < 0
      /\ val[t] = next_pid /\ next_pid \in 1 .. MaxPid /\ MaxPid \in Nat
  BY SlotsAssumption DEF ForkFill, At, Typed, ProcLocals, SchedType, TaskInv, ForkLocals
<1>2. ~IsLive(c) /\ IsLive(t) /\ c # t /\ state[t] = "RUNNING" /\ pid \in [Slots -> Int]
  BY <1>1, StepIsCurrent DEF IsLive, Typed, SchedType, ExitedAt
<1>3. /\ pc'[t] = "fork_link" /\ pc'[c] = "user" /\ pid'[c] = next_pid /\ arg'[t] = c
      /\ parent'[c] = pid[t] /\ state'[c] = "READY" /\ next_pid' = next_pid + 1
      /\ UNCHANGED <<current, cpu, task_count>>
  BY <1>1, <1>2 DEF ForkFill, Typed, SchedType
<1>4. /\ \A u \in Slots \ {c} : pid'[u] = pid[u] /\ parent'[u] = parent[u] /\ state'[u] = state[u]
      /\ \A u \in Slots \ {c, t} : pc'[u] = pc[u] /\ arg'[u] = arg[u] /\ val'[u] = val[u]
  BY <1>1, <1>2 DEF ForkFill, Typed, SchedType
<1> HIDE DEF c
<1>5. \A u \in Slots : IsLive(u)' <=> IsLive(u) \/ u = c
  BY <1>1, <1>2, <1>3, <1>4 DEF IsLive
<1>6. Parked'
  BY <1>1, <1>2, <1>3, <1>4 DEF TaskInv, Parked, Racy
<1>7. StatesFit'
  BY <1>1, <1>2, <1>3, <1>4, <1>5 DEF TaskInv, StatesFit, ExitedAt
<1>8. CurrentFits'
  BY <1>1, <1>2, <1>3, <1>4, <1>5 DEF TaskInv, CurrentFits
<1>9. PidsDiffer'
  BY <1>1, <1>2, <1>3, <1>4, <1>5 DEF TaskInv, PidsDiffer
<1>10. ForkLocals'
  BY <1>1, <1>2, <1>3, <1>4 DEF TaskInv, ForkLocals, Parked, Racy
<1>11. LinkLocals'
  BY <1>1, <1>2, <1>3, <1>4, <1>5 DEF TaskInv, LinkLocals, Parked, Racy, Typed, ProcLocals
<1>12. ReapLocals'
  BY <1>1, <1>2, <1>3, <1>4, <1>5 DEF TaskInv, ReapLocals, Typed, ProcLocals
<1>13. Wakeups'
  <2> SUFFICES ASSUME NEW u \in Slots, NEW d \in Slots,
                      pc'[u] \in {"wait_alive", "wait_block"} \/ state'[u] = "BLOCKED",
                      d \in Children(u, arg[u])', state'[d] = "ZOMBIE"
               PROVE  d = current' /\ pc'[d] = "exit_wake"
    BY DEF Wakeups
  <2>1. u \notin {c, t} /\ d # c
    BY <1>2, <1>3, <1>4
  <2>2. d \in Children(u, arg[u])
    BY <1>4, <2>1 DEF Children
  <2>3. QED
    BY <1>1, <1>2, <1>3, <1>4, <2>1, <2>2 DEF TaskInv, Wakeups
<1>14. QED
  BY <1>1, <1>2, <1>5, <1>6, <1>7, <1>8, <1>9, <1>10, <1>11, <1>12, <1>13 DEF TaskInv, c

\* A task that exits is still the current one, about to wake its parent.
LEMMA ExitZombieKeeps ==
    ASSUME Typed, TaskInv, NEW t \in Slots, ExitZombie(t)
    PROVE  TaskInv' /\ \A u \in Slots : IsLive(u)' <=> IsLive(u)
<1>1. /\ cpu = "run" /\ current = t /\ pc[t] = "exit_zombie"
      /\ pc'[t] = "exit_wake" /\ state'[t] = "ZOMBIE"
      /\ UNCHANGED <<pid, parent, current, cpu, next_pid, task_count, arg, val>>
  BY DEF ExitZombie, At, Goto, Typed, SchedType, tableVars
<1>2. /\ \A u \in Slots \ {t} : pc'[u] = pc[u] /\ state'[u] = state[u]
      /\ IsLive(t) /\ state[t] = "RUNNING"
  BY <1>1, StepIsCurrent DEF ExitZombie, Goto, Typed, SchedType, ExitedAt
<1>3. \A u \in Slots : IsLive(u)' <=> IsLive(u)
  BY <1>1 DEF IsLive
<1>4. Parked' /\ CurrentFits' /\ PidsDiffer'
  BY <1>1, <1>2, <1>3 DEF TaskInv, Parked, CurrentFits, PidsDiffer
<1>5. StatesFit'
  BY <1>1, <1>2, <1>3 DEF TaskInv, StatesFit, ExitedAt
<1>6. ForkLocals' /\ LinkLocals' /\ ReapLocals'
  BY <1>1, <1>2, <1>3 DEF TaskInv, ForkLocals, LinkLocals, ReapLocals, Typed, ProcLocals
<1>7. Wakeups'
  <2> SUFFICES ASSUME NEW u \in Slots, NEW d \in Slots, d # t,
                      pc'[u] \in {"wait_alive", "wait_block"} \/ state'[u] = "BLOCKED",
                      d \in Children(u, arg[u])', state'[d] = "ZOMBIE"
               PROVE  FALSE
    BY <1>1 DEF Wakeups
  <2>1. u # t /\ d \in Children(u, arg[u])
    BY <1>1, <1>2 DEF Children
  <2>2. QED
    BY <1>1, <1>2, <2>1 DEF TaskInv, Wakeups
<1>8. QED
  BY <1>3, <1>4, <1>5, <1>6, <1>7 DEF TaskInv

\* task_exit wakes the one task that can be waiting for the task that exits.
LEMMA ExitWakeKeeps ==
    ASSUME Typed, TaskInv, NEW t \in Slots, ExitWake(t)
    PROVE  /\ TaskInv' /\ \A u \in Slots : IsLive(u)' <=> IsLive(u)
           /\ \/ pc'[t] = "exit_switch" /\ UNCHANGED <<state, arg>>
              \/ \E p \in Slots : /\ state[p] = "BLOCKED" /\ state' = [state EXCEPT ![p] = "READY"]
                                  /\ arg'[t] = p /\ pc'[t] = "exit_link"
<1> DEFINE p == IF parent[t] >= 0 THEN task_from_pid(parent[t]) ELSE NULL
<1>1. /\ cpu = "run" /\ current = t /\ pc[t] = "exit_wake"
      /\ \A u \in Slots \ {t} : pc'[u] = pc[u]
      /\ UNCHANGED <<pid, parent, current, cpu, next_pid, task_count, val>>
  BY DEF ExitWake, At, Goto, Typed, SchedType, tableVars
<1>2. IsLive(t) /\ state[t] = "ZOMBIE"
  BY <1>1 DEF TaskInv, CurrentFits, StatesFit, ExitedAt
<1>3. /\ p # NULL => p \in Slots /\ pid[p] = parent[t] /\ parent[t] >= 0
      /\ \A u \in Slots : pid[u] = parent[t] /\ parent[t] >= 0 => p # NULL
  <2>1. ASSUME \E s \in Slots : pid[s] = parent[t]
        PROVE  /\ Min({s \in Slots : pid[s] = parent[t]}) \in Slots
               /\ pid[Min({s \in Slots : pid[s] = parent[t]})] = parent[t]
    <3>1. /\ {s \in Slots : pid[s] = parent[t]} \in SUBSET Nat
          /\ {s \in Slots : pid[s] = parent[t]} # {}
      BY <2>1 DEF Slots
    <3>2. Min({s \in Slots : pid[s] = parent[t]}) \in {s \in Slots : pid[s] = parent[t]}
      BY <3>1, MinIsMember
    <3>3. QED
      BY <3>2
  <2>2. QED
    BY <2>1, SlotNotNull DEF task_from_pid
<1>4. \/ /\ p # NULL /\ state[p] = "BLOCKED" /\ state' = [state EXCEPT ![p] = "READY"]
         /\ arg' = [arg EXCEPT ![t] = p] /\ pc'[t] = "exit_link"
      \/ /\ p # NULL => state[p] # "BLOCKED"
         /\ pc'[t] = "exit_switch" /\ UNCHANGED <<state, arg>>
  BY DEF ExitWake, Goto, Typed, SchedType
<1> HIDE DEF p
<1>5. \A u \in Slots : u # t => arg'[u] = arg[u]
  BY <1>4 DEF Typed, SchedType
<1>6. \A u \in Slots : IsLive(u)' <=> IsLive(u)
  BY <1>1, <1>4 DEF IsLive
<1>7. \A u \in Slots : u # p => state'[u] = state[u]
  BY <1>4 DEF Typed, SchedType
<1>8. p # NULL => /\ IsLive(p)
                  /\ state[p] = "BLOCKED" =>
                        state'[p] = "READY" /\ p # t /\ pc[p] \in {"wait_switch", "wait_scan"}
  BY <1>1, <1>2, <1>3, <1>4 DEF IsLive, TaskInv, StatesFit, Typed, SchedType
<1>9. Parked' /\ CurrentFits' /\ PidsDiffer'
  BY <1>1, <1>2, <1>4, <1>6, <1>7, <1>8 DEF TaskInv, Parked, CurrentFits, PidsDiffer
<1>10. StatesFit'
  BY <1>1, <1>2, <1>3, <1>4, <1>6, <1>7, <1>8 DEF TaskInv, StatesFit, ExitedAt
<1>11. ForkLocals'
  BY <1>1, <1>4, <1>5 DEF TaskInv, ForkLocals
<1>12. LinkLocals' /\ ReapLocals'
  <2>1. CASE pc'[t] = "exit_switch" /\ UNCHANGED <<state, arg>>
    BY <1>1, <1>2, <1>5, <1>6, <2>1 DEF TaskInv, LinkLocals, ReapLocals, Typed, ProcLocals
  <2>2. CASE /\ p # NULL /\ state[p] = "BLOCKED" /\ arg'[t] = p /\ pc'[t] = "exit_link"
    <3>1. /\ p \in Slots /\ IsLive(p) /\ state'[p] = "READY" /\ p # t
          /\ pc[p] \in {"wait_switch", "wait_scan"}
      BY <1>3, <1>8, <2>2
    <3>2. LinkLocals'
      BY <1>1, <1>2, <1>5, <1>6, <1>7, <2>2, <3>1 DEF TaskInv, LinkLocals, Typed, ProcLocals, CurrentFits
    <3>3. ReapLocals'
      BY <1>1, <1>2, <1>5, <1>6, <1>7, <2>2, <3>1 DEF TaskInv, ReapLocals, Typed, ProcLocals
    <3>4. QED
      BY <3>2, <3>3
  <2>3. QED
    BY <1>4, <2>1, <2>2 DEF Typed, SchedType
<1>13. Wakeups'
  <2> SUFFICES ASSUME NEW u \in Slots, NEW d \in Slots,
                      pc'[u] \in {"wait_alive", "wait_block"} \/ state'[u] = "BLOCKED",
                      d \in Children(u, arg[u])', state'[d] = "ZOMBIE"
               PROVE  FALSE
    BY DEF Wakeups
  <2>0. p \notin Slots => state' = state
    BY <1>3, <1>4
  <2>1. u # t /\ state[d] = "ZOMBIE"
    BY <1>1, <1>2, <1>3, <1>4, <1>7, <1>8, <2>0
  <2>2. d \in Children(u, arg[u]) /\ (pc[u] \in {"wait_alive", "wait_block"} \/ state[u] = "BLOCKED")
    BY <1>1, <1>5, <1>7, <1>8, <1>4, <2>1 DEF Children
  <2>3. d = t
    BY <1>1, <2>1, <2>2 DEF TaskInv, Wakeups
  <2>4. pid[u] = parent[t] /\ parent[t] >= 0 /\ state[u] = "BLOCKED" /\ IsLive(u)
    <3>1. state[u] = "BLOCKED"
      BY <1>1, <2>1, <2>2 DEF TaskInv, Parked, Racy
    <3>2. IsLive(u)
      BY <3>1 DEF TaskInv, StatesFit
    <3>3. QED
      BY <2>2, <2>3, <3>1, <3>2 DEF Children, IsLive, Typed, SchedType
  <2>5. p # NULL /\ p \in Slots /\ pid[p] = pid[u] /\ IsLive(p)
    BY <1>3, <1>8, <2>4
  <2>6. p = u
    BY <2>4, <2>5 DEF TaskInv, PidsDiffer
  <2>7. QED
    BY <1>4, <1>8, <2>1, <2>4, <2>5, <2>6, <1>1
<1>14. QED
  <2>1. \/ pc'[t] = "exit_switch" /\ UNCHANGED <<state, arg>>
        \/ \E w \in Slots : /\ state[w] = "BLOCKED" /\ state' = [state EXCEPT ![w] = "READY"]
                            /\ arg'[t] = w /\ pc'[t] = "exit_link"
    BY <1>3, <1>4 DEF Typed, SchedType
  <2>2. QED
    BY <1>6, <1>9, <1>10, <1>11, <1>12, <1>13, <2>1 DEF TaskInv

\* task_wait zeroes the slot of an exited child of the caller, which is not queued.
LEMMA WaitReapKeeps ==
    ASSUME Typed, TaskInv, NEW t \in Slots, WaitReap(t)
    PROVE  /\ TaskInv'
           /\ arg[t] \in Slots /\ arg[t] # t /\ IsLive(arg[t]) /\ state[arg[t]] = "ZOMBIE"
           /\ \A u \in Slots : IsLive(u)' <=> IsLive(u) /\ u # arg[t]
<1> DEFINE c == arg[t]
<1>1. /\ cpu = "run" /\ current = t /\ pc[t] = "wait_reap" /\ c \in Slots /\ IsLive(c)
      /\ state[c] = "ZOMBIE" /\ parent[c] = pid[t] /\ c # t
  BY DEF WaitReap, At, Typed, ProcLocals, TaskInv, ReapLocals
<1>2. /\ pc'[t] = "wait_free" /\ pid'[c] = 0 /\ parent'[c] = 0 /\ state'[c] = "READY"
      /\ UNCHANGED <<current, cpu, task_count, next_pid, arg, val>>
  BY <1>1 DEF WaitReap, Goto, Typed, SchedType
<1>3. /\ \A u \in Slots \ {c} : pid'[u] = pid[u] /\ parent'[u] = parent[u] /\ state'[u] = state[u]
      /\ \A u \in Slots \ {t} : pc'[u] = pc[u]
  BY <1>1 DEF WaitReap, Goto, Typed, SchedType
<1>4. IsLive(t) /\ state[t] = "RUNNING" /\ pc[c] \in {"exit_switch", "exit_dead"}
  BY <1>1, StepIsCurrent DEF ExitedAt, TaskInv, Parked, Racy, StatesFit
<1> HIDE DEF c
<1>5. \A u \in Slots : IsLive(u)' <=> IsLive(u) /\ u # c
  BY <1>1, <1>2, <1>3 DEF IsLive, c
<1>6. Parked' /\ CurrentFits' /\ PidsDiffer'
  BY <1>1, <1>2, <1>3, <1>4, <1>5 DEF TaskInv, Parked, CurrentFits, PidsDiffer
<1>7. StatesFit'
  BY <1>1, <1>2, <1>3, <1>4, <1>5 DEF TaskInv, StatesFit, ExitedAt
<1>8. ForkLocals'
  BY <1>1, <1>2, <1>3 DEF TaskInv, ForkLocals, Parked, Racy
<1>9. LinkLocals'
  BY <1>1, <1>2, <1>3, <1>4, <1>5 DEF TaskInv, LinkLocals, Typed, ProcLocals
<1>10. ReapLocals'
  <2> SUFFICES ASSUME NEW u \in Slots, pc'[u] = "wait_reap"
               PROVE  /\ IsLive(arg[u])' /\ state'[arg[u]] = "ZOMBIE"
                      /\ parent'[arg[u]] = pid'[u] /\ arg[u] # current
    BY <1>2 DEF ReapLocals
  <2>1. /\ u # t /\ u # c /\ pc[u] = "wait_reap" /\ arg[u] \in Slots /\ IsLive(u)
    BY <1>2, <1>3, <1>4 DEF Typed, ProcLocals, TaskInv, StatesFit
  <2>2. /\ IsLive(arg[u]) /\ state[arg[u]] = "ZOMBIE"
        /\ parent[arg[u]] = pid[u] /\ arg[u] # current
    BY <2>1 DEF TaskInv, ReapLocals
  <2>3. arg[u] # c
    BY <1>1, <1>4, <2>1, <2>2 DEF TaskInv, PidsDiffer
  <2>4. QED
    BY <1>2, <1>3, <1>5, <2>1, <2>2, <2>3 DEF IsLive
<1>11. Wakeups'
  <2> SUFFICES ASSUME NEW u \in Slots, NEW d \in Slots,
                      pc'[u] \in {"wait_alive", "wait_block"} \/ state'[u] = "BLOCKED",
                      d \in Children(u, arg[u])', state'[d] = "ZOMBIE"
               PROVE  FALSE
    BY DEF Wakeups
  <2>1. u # t /\ d # c /\ u # c
    BY <1>1, <1>2, <1>3, <1>4
  <2>2. d \in Children(u, arg[u])
    BY <1>2, <1>3, <2>1 DEF Children
  <2>3. QED
    BY <1>1, <1>3, <2>1, <2>2 DEF TaskInv, Wakeups
<1>12. QED
  BY <1>1, <1>5, <1>6, <1>7, <1>8, <1>9, <1>10, <1>11 DEF TaskInv, c

\* The zeroed slot, already out of use, becomes free.
LEMMA WaitFreeKeeps ==
    ASSUME Typed, TaskInv, NEW t \in Slots, WaitFree(t)
    PROVE  /\ TaskInv' /\ arg[t] \in Slots /\ ~IsLive(arg[t]) /\ arg[t] # t
           /\ \A u \in Slots : IsLive(u)' <=> IsLive(u)
<1> DEFINE c == arg[t]
<1>1. /\ cpu = "run" /\ current = t /\ pc[t] = "wait_free" /\ c \in Slots /\ ~IsLive(c)
  BY DEF WaitFree, At, Typed, ProcLocals, IsLive
<1>2. /\ pc'[t] = "wait_count" /\ pid'[c] = -1
      /\ UNCHANGED <<current, cpu, task_count, next_pid, arg, val, parent, state>>
  BY <1>1 DEF WaitFree, Goto, Typed, SchedType, listVars
<1>3. /\ \A u \in Slots \ {c} : pid'[u] = pid[u]
      /\ \A u \in Slots \ {t} : pc'[u] = pc[u]
  BY <1>1 DEF WaitFree, Goto, Typed, SchedType
<1>4. IsLive(t) /\ state[t] = "RUNNING" /\ c # t
  BY <1>1, StepIsCurrent DEF ExitedAt
<1>5. \A u \in Slots : IsLive(u)' <=> IsLive(u)
  BY <1>1, <1>2, <1>3 DEF IsLive
<1> HIDE DEF c
<1>6. Parked' /\ CurrentFits' /\ PidsDiffer'
  BY <1>1, <1>2, <1>3, <1>4, <1>5 DEF TaskInv, Parked, CurrentFits, PidsDiffer
<1>7. StatesFit'
  BY <1>1, <1>2, <1>3, <1>4, <1>5 DEF TaskInv, StatesFit, ExitedAt
<1>8. ForkLocals'
  BY <1>1, <1>2, <1>3 DEF TaskInv, ForkLocals, Parked, Racy
<1>9. LinkLocals' /\ ReapLocals'
  BY <1>1, <1>2, <1>3, <1>4, <1>5 DEF TaskInv, LinkLocals, ReapLocals, StatesFit, Typed, ProcLocals
<1>11. Wakeups'
  <2> SUFFICES ASSUME NEW u \in Slots, NEW d \in Slots,
                      pc'[u] \in {"wait_alive", "wait_block"} \/ state'[u] = "BLOCKED",
                      d \in Children(u, arg[u])', state'[d] = "ZOMBIE"
               PROVE  FALSE
    BY DEF Wakeups
  <2>1. u # t /\ d # c /\ u # c
    BY <1>1, <1>2, <1>3, <1>4 DEF TaskInv, StatesFit
  <2>2. d \in Children(u, arg[u])
    BY <1>2, <1>3, <2>1 DEF Children
  <2>3. QED
    BY <1>1, <1>2, <1>3, <2>1, <2>2 DEF TaskInv, Wakeups
<1>12. QED
  BY <1>1, <1>4, <1>5, <1>6, <1>7, <1>8, <1>9, <1>11 DEF TaskInv, c

\* A task goes to sleep only when it has no exited child to collect.
LEMMA WaitBlockKeeps ==
    ASSUME Typed, TaskInv, NEW t \in Slots, WaitBlock(t)
    PROVE  TaskInv' /\ \A u \in Slots : IsLive(u)' <=> IsLive(u)
<1>1. /\ cpu = "run" /\ current = t /\ pc[t] = "wait_block"
      /\ pc'[t] = "wait_switch" /\ state'[t] = "BLOCKED"
      /\ UNCHANGED <<pid, parent, current, cpu, next_pid, task_count, arg, val>>
  BY DEF WaitBlock, At, Goto, Typed, SchedType, tableVars
<1>2. /\ \A u \in Slots \ {t} : pc'[u] = pc[u] /\ state'[u] = state[u]
      /\ IsLive(t) /\ state[t] = "RUNNING"
  BY <1>1, StepIsCurrent DEF WaitBlock, Goto, Typed, SchedType, ExitedAt
<1>3. \A u \in Slots : IsLive(u)' <=> IsLive(u)
  BY <1>1 DEF IsLive
<1>4. Parked' /\ CurrentFits' /\ PidsDiffer'
  BY <1>1, <1>2, <1>3 DEF TaskInv, Parked, CurrentFits, PidsDiffer
<1>5. StatesFit'
  BY <1>1, <1>2, <1>3 DEF TaskInv, StatesFit, ExitedAt
<1>6. ForkLocals' /\ LinkLocals' /\ ReapLocals'
  BY <1>1, <1>2, <1>3 DEF TaskInv, ForkLocals, LinkLocals, ReapLocals, Typed, ProcLocals
<1>7. Wakeups'
  <2> SUFFICES ASSUME NEW u \in Slots, NEW d \in Slots,
                      pc'[u] \in {"wait_alive", "wait_block"} \/ state'[u] = "BLOCKED",
                      d \in Children(u, arg[u])', state'[d] = "ZOMBIE"
               PROVE  FALSE
    BY DEF Wakeups
  <2>1. d # t /\ state[d] = "ZOMBIE" /\ d \in Children(u, arg[u])
    BY <1>1, <1>2 DEF Children
  <2>2. pc[u] \in {"wait_alive", "wait_block"} \/ state[u] = "BLOCKED"
    BY <1>1, <1>2
  <2>3. QED
    BY <1>1, <2>1, <2>2 DEF TaskInv, Wakeups
<1>8. QED
  BY <1>3, <1>4, <1>5, <1>6, <1>7 DEF TaskInv

-----------------------------------------------------------------------------
(* Steps that run scheduler_tick: the timer's, and the two int $32.          *)

\* The interrupted task goes on at l, where a tick may find it.
LEMMA SwitchKeeps ==
    ASSUME Typed, TaskInv, QueueFits, cpu = "run", NEW l \in ProcLabels \ Racy,
           scheduler_tick(state, next, rq),
           pc' = [pc EXCEPT ![current] = l], pc[current] \notin Racy,
           \/ l = pc[current] /\ UNCHANGED arg
           \/ /\ l = "exit_dead" /\ pc[current] = "exit_switch"
              /\ \A u \in Slots : u # current => arg'[u] = arg[u]
           \/ l = "wait_scan" /\ pc[current] = "wait_switch" /\ UNCHANGED arg,
           UNCHANGED <<tableVars, val>>
    PROVE  /\ TaskInv' /\ QueueFits'
           /\ \A u \in Slots : IsLive(u)' <=> IsLive(u)
           /\ \A u \in Slots : state[u] = "ZOMBIE" => state'[u] = "ZOMBIE"
<1> DEFINE t == current  M == ReadyTasks
<1>0. /\ state \in [Slots -> States] /\ next \in [Slots -> Slots \cup {NULL}] /\ rq \in Queues
      /\ t \in Slots /\ pc \in [Slots -> ProcLabels]
  BY DEF Typed, SchedType
<1>1. t \notin M /\ Lists(next, rq, M)
  BY DEF TaskInv, CurrentFits, ReadyTasks, InQueue, QueueFits, QueueView, Racy
<1>2. \/ /\ Requeued(state[t]) \/ state[t] = "BLOCKED"
         /\ state' = [state EXCEPT ![t] = "RUNNING"]
         /\ Lists(next', rq', M) /\ current' = t /\ cpu' = cpu
      \/ /\ state[t] = "ZOMBIE" /\ cpu' = "no_runnable" /\ state' = state
         /\ Lists(next', rq', M) /\ current' = t
      \/ \E h \in Joined(state, M) :
         /\ current' = h /\ cpu' = cpu
         /\ state' = Switched(state, Requeued(state[t]), h)
         /\ Lists(next', rq', Joined(state, M) \ {h})
  <2> HIDE DEF M
  <2>1. QED
    BY <1>0, <1>1, TickEffect
<1>3. /\ IsLive(t) /\ state[t] \in {"RUNNING", "BLOCKED", "ZOMBIE"}
      /\ state[t] = "BLOCKED" => pc[t] = "wait_switch"
      /\ state[t] = "ZOMBIE" => pc[t] = "exit_switch"
      /\ pc[t] # "exit_dead"
  BY <1>0 DEF TaskInv, CurrentFits, StatesFit, States, ExitedAt, Racy
<1>4. /\ pc'[t] = l /\ \A u \in Slots \ {t} : pc'[u] = pc[u] /\ arg'[u] = arg[u]
      /\ UNCHANGED <<pid, parent, task_count, next_pid, val>>
      /\ l # "exit_dead" => arg' = arg
      /\ l \in ExitedAt <=> pc[t] \in ExitedAt
  BY <1>0 DEF tableVars, ExitedAt
<1>5. \A h \in M : /\ h \in Slots /\ IsLive(h) /\ state[h] = "READY" /\ h # t
                   /\ \A u \in Slots : pc[u] \in {"fork_link", "exit_link"} => arg[u] # h
  BY <1>1 DEF ReadyTasks, InQueue
<1> HIDE DEF t, M
<1>6. Requeued(state[t]) <=> state[t] = "RUNNING"
  BY <1>3 DEF Requeued
\* In every case the task that has the CPU now, h, is t or one that was READY and queued.
<1>7. PICK h \in Slots :
         /\ current' = h
         /\ h = t \/ h \in M
         /\ \A u \in Slots \ {t, h} : state'[u] = state[u]
         /\ \/ h = t /\ state[t] # "ZOMBIE" /\ state'[t] = "RUNNING" /\ cpu' = cpu
            \/ h = t /\ state[t] = "ZOMBIE" /\ state'[t] = "ZOMBIE" /\ cpu' = "no_runnable"
            \/ /\ h \in M /\ state'[h] = "RUNNING" /\ cpu' = cpu
               /\ state'[t] = IF state[t] = "RUNNING" THEN "READY" ELSE state[t]
         /\ Lists(next', rq', IF h = t \/ state[t] # "RUNNING" THEN M \ {h}
                                                               ELSE (M \cup {t}) \ {h})
  <2>1. M \ {t} = M /\ (M \cup {t}) \ {t} = M
    BY <1>5
  <2>2. CASE /\ Requeued(state[t]) \/ state[t] = "BLOCKED"
             /\ state' = [state EXCEPT ![t] = "RUNNING"]
             /\ Lists(next', rq', M) /\ current' = t /\ cpu' = cpu
    BY <1>0, <1>3, <1>6, <2>1, <2>2 DEF t
  <2>3. CASE /\ state[t] = "ZOMBIE" /\ cpu' = "no_runnable" /\ state' = state
             /\ Lists(next', rq', M) /\ current' = t
    BY <1>0, <2>1, <2>3 DEF t
  <2>4. ASSUME NEW h \in Joined(state, M), current' = h, cpu' = cpu,
               state' = Switched(state, Requeued(state[t]), h),
               Lists(next', rq', Joined(state, M) \ {h})
        PROVE  /\ h \in Slots
               /\ h = t \/ h \in M
               /\ \A u \in Slots \ {t, h} : state'[u] = state[u]
               /\ \/ h = t /\ state[t] # "ZOMBIE" /\ state'[t] = "RUNNING"
                  \/ /\ h \in M /\ state'[h] = "RUNNING"
                     /\ state'[t] = IF state[t] = "RUNNING" THEN "READY" ELSE state[t]
               /\ Lists(next', rq', IF h = t \/ state[t] # "RUNNING" THEN M \ {h}
                                                                     ELSE (M \cup {t}) \ {h})
    <3>1. Joined(state, M) = IF state[t] = "RUNNING" THEN M \cup {t} ELSE M
      BY <1>6 DEF Joined, t
    <3>2. h \in Slots /\ (h = t \/ h \in M) /\ (h = t => state[t] = "RUNNING")
      BY <1>0, <1>5, <2>4, <3>1 DEF t
    <3>3. /\ \A u \in Slots \ {t, h} : state'[u] = state[u]
          /\ state'[h] = "RUNNING"
          /\ h # t => state'[t] = IF state[t] = "RUNNING" THEN "READY" ELSE state[t]
      BY <1>0, <1>6, <2>4, <3>2 DEF Switched, t
    <3>4. QED
      BY <1>5, <2>1, <2>4, <3>1, <3>2, <3>3
  <2>5. QED
    BY <1>2, <2>2, <2>3, <2>4
<1>8. pc'[h] \notin Racy /\ pc'[t] \notin Racy
  BY <1>4, <1>5, <1>7 DEF TaskInv, Parked, t
<1>9. \A u \in Slots : IsLive(u)' <=> IsLive(u)
  BY <1>4, <1>7, <1>8 DEF IsLive, Racy, t
<1>10. Parked'
  BY <1>4, <1>7, <1>8 DEF TaskInv, Parked, t
<1>11. CurrentFits'
  BY <1>3, <1>4, <1>5, <1>7, <1>9 DEF TaskInv, CurrentFits, StatesFit, ExitedAt, t
<1>12. StatesFit'
  BY <1>3, <1>4, <1>5, <1>7, <1>9 DEF TaskInv, StatesFit, ExitedAt, t
<1>13. PidsDiffer' /\ ForkLocals'
  BY <1>3, <1>4, <1>5, <1>7, <1>8, <1>9 DEF TaskInv, PidsDiffer, ForkLocals, Parked, Racy, t
<1>14. LinkLocals'
  BY <1>3, <1>4, <1>5, <1>7, <1>8, <1>9 DEF TaskInv, LinkLocals, Parked, Racy, CurrentFits, Typed, ProcLocals, t
<1>15. ReapLocals'
  BY <1>3, <1>4, <1>5, <1>7, <1>9 DEF TaskInv, ReapLocals, Typed, ProcLocals, t
<1>16. Wakeups'
  <2> SUFFICES ASSUME NEW u \in Slots, NEW d \in Slots,
                      pc'[u] \in {"wait_alive", "wait_block"} \/ state'[u] = "BLOCKED",
                      d \in Children(u, arg[u])', state'[d] = "ZOMBIE"
               PROVE  FALSE
    BY DEF Wakeups
  <2>1. state[u] = "BLOCKED" /\ state[d] = "ZOMBIE"
    BY <1>3, <1>5, <1>7, <1>8, <1>10 DEF Parked, Racy
  <2>2. d \in Children(u, arg[u])
    <3>1. arg'[u] = arg[u]
      BY <1>3, <1>4, <2>1 DEF ExitedAt
    <3>2. QED
      BY <1>4, <3>1 DEF Children
  <2>3. QED
    BY <1>3, <2>1, <2>2 DEF TaskInv, Wakeups, t
<1>17. QueueFits'
  <2>1. QueueView' = rq'
    BY <1>7, <1>8 DEF QueueView, Racy
  <2>2. ASSUME NEW u \in Slots
        PROVE  /\ (\E w \in Slots : pc'[w] \in {"fork_link", "exit_link"} /\ arg'[w] = u)
                     <=> (\E w \in Slots : pc[w] \in {"fork_link", "exit_link"} /\ arg[w] = u)
    BY <1>4 DEF ExitedAt
  <2>3. \A u \in Slots : InQueue(u)' <=> IsLive(u) /\ state'[u] = "READY"
            /\ ~\E w \in Slots : pc[w] \in {"fork_link", "exit_link"} /\ arg[w] = u
    BY <1>9, <2>2 DEF InQueue
  <2>4. \A w \in Slots : pc[w] \in {"fork_link", "exit_link"} => arg[w] # t
    BY <1>3 DEF TaskInv, LinkLocals
  <2>5. \A u \in Slots : u \in M <=> InQueue(u)
    BY DEF M, ReadyTasks
  <2>6. \A u \in Slots : InQueue(u)' <=>
           u # h /\ (u \in M \/ (u = t /\ state[t] = "RUNNING" /\ h # t))
    <3> TAKE u \in Slots
    <3>1. CASE u = h
      BY <1>7, <2>3, <3>1
    <3>2. CASE u # h /\ u = t
      BY <1>3, <1>5, <1>7, <2>3, <2>4, <3>2
    <3>3. CASE u # h /\ u # t
      BY <1>7, <2>3, <2>5, <3>3 DEF InQueue
    <3>4. QED
      BY <3>1, <3>2, <3>3
  <2>7. M \subseteq Slots
    BY <1>5
  <2>8. ReadyTasks' = IF h = t \/ state[t] # "RUNNING" THEN M \ {h} ELSE (M \cup {t}) \ {h}
    BY <1>0, <2>6, <2>7 DEF ReadyTasks, t
  <2>9. QED
    BY <1>7, <2>1, <2>8 DEF QueueFits
<1>18. \A u \in Slots : state[u] = "ZOMBIE" => state'[u] = "ZOMBIE"
  BY <1>5, <1>7
<1>19. QED
  BY <1>18, <1>9, <1>10, <1>11, <1>12, <1>13, <1>14, <1>15, <1>16, <1>17 DEF TaskInv

\* The steps that reach scheduler_tick: the timer's, and the two int $32.
LEMMA SwitchSteps ==
    ASSUME RacesClosed, Typed, TaskInv, QueueFits,
           Tick \/ \E t \in Slots : ExitSwitch(t) \/ WaitSwitch(t)
    PROVE  /\ TaskInv' /\ QueueFits'
           /\ \A u \in Slots : IsLive(u)' <=> IsLive(u)
           /\ \A u \in Slots : state[u] = "ZOMBIE" => state'[u] = "ZOMBIE"
<1>0. pc \in [Slots -> ProcLabels] /\ current \in Slots
  BY DEF Typed, SchedType
<1>1. CASE Tick
  <2>1. pc[current] \in ProcLabels \ Racy /\ pc' = [pc EXCEPT ![current] = pc[current]]
    BY <1>0, <1>1 DEF Tick, RacesClosed
  <2>2. QED
    BY <1>1, <2>1, SwitchKeeps DEF Tick
<1>2. "exit_dead" \in ProcLabels \ Racy /\ "wait_scan" \in ProcLabels \ Racy
  BY DEF ProcLabels, Racy
<1>3. CASE \E t \in Slots : ExitSwitch(t)
  <2>1. /\ cpu = "run" /\ pc[current] = "exit_switch" /\ pc' = [pc EXCEPT ![current] = "exit_dead"]
        /\ \A u \in Slots : u # current => arg'[u] = arg[u]
        /\ scheduler_tick(state, next, rq) /\ UNCHANGED <<tableVars, val>>
    BY <1>3 DEF ExitSwitch, At, Goto, Typed, SchedType
  <2>2. QED
    BY <1>2, <2>1, SwitchKeeps DEF Racy
<1>4. CASE \E t \in Slots : WaitSwitch(t)
  <2>1. /\ cpu = "run" /\ pc[current] = "wait_switch" /\ pc' = [pc EXCEPT ![current] = "wait_scan"]
        /\ scheduler_tick(state, next, rq) /\ UNCHANGED <<tableVars, arg, val>>
    BY <1>4 DEF WaitSwitch, At, Goto
  <2>2. QED
    BY <1>2, <2>1, SwitchKeeps DEF Racy
<1>5. QED
  BY <1>1, <1>3, <1>4

-----------------------------------------------------------------------------
(* The ready queue outside scheduler_tick.                                   *)

\* The queue is kept when its members and their pointers are.
LEMMA QueueKept ==
    ASSUME QueueFits, \A u \in Slots : InQueue(u)' <=> InQueue(u), QueueView' = QueueView,
           \A u \in Slots : InQueue(u) => next'[u] = next[u]
    PROVE  QueueFits'
<1>1. ReadyTasks' = ReadyTasks
  BY DEF ReadyTasks
<1>2. Lists(next', QueueView, ReadyTasks)
  BY ListFrame DEF QueueFits, ReadyTasks
<1>3. QED
  BY <1>1, <1>2 DEF QueueFits

Linking == {"fork_link", "exit_link"}
Tailing == {"fork_tail", "exit_tail"}

\* Places and locals that play no part in linking a task leave the queue alone.
LEMMA QueueUnmoved ==
    ASSUME QueueFits, NEW t \in Slots, current = t, current' = t,
           \A u \in Slots : u # t => pc'[u] = pc[u] /\ arg'[u] = arg[u],
           pc[t] \notin Linking, pc'[t] \notin Linking \cup Tailing, pc[t] \notin Tailing, rq' = rq,
           \A u \in Slots : (IsLive(u)' /\ state'[u] = "READY") <=> (IsLive(u) /\ state[u] = "READY"),
           \A u \in Slots : IsLive(u) /\ state[u] = "READY" => next'[u] = next[u]
    PROVE  QueueFits'
<1>1. \A u \in Slots : InQueue(u)' <=> InQueue(u)
  <2> TAKE u \in Slots
  <2>1. (\E w \in Slots : pc'[w] \in Linking /\ arg'[w] = u)
          <=> (\E w \in Slots : pc[w] \in Linking /\ arg[w] = u)
    BY DEF Linking, Tailing
  <2>2. QED
    BY <2>1 DEF InQueue, Linking
<1>2. QueueView' = QueueView
  BY DEF QueueView, Tailing, Linking
<1>3. QED
  BY <1>1, <1>2, QueueKept DEF InQueue

\* A system call links a task that is READY and in no list.
LEMMA LinkingKeepsQueue ==
    ASSUME Typed, TaskInv, QueueFits, NEW t \in Slots, ForkLink(t) \/ ExitLink(t)
    PROVE  QueueFits'
<1> DEFINE c == arg[t]  M == ReadyTasks
<1>1. /\ cpu = "run" /\ current = t /\ pc[t] \in Linking /\ c \in Slots /\ IsLive(c)
      /\ state[c] = "READY" /\ pc'[t] \in Tailing /\ \A u \in Slots : u # t => pc'[u] = pc[u]
      /\ next' = EnqueueNext(next, rq, c) /\ rq' = [rq EXCEPT !.head = EnqueueHead(rq, c)]
      /\ UNCHANGED <<pid, state, current, arg>>
      /\ rq \in Queues /\ next \in [Slots -> Slots \cup {NULL}]
  BY DEF ForkLink, ExitLink, LinkReady, At, Goto, Typed, ProcLocals, SchedType, TaskInv,
         LinkLocals, Linking, Tailing, tableVars
<1> HIDE DEF c, M
<1>2. \A u \in Slots : IsLive(u)' <=> IsLive(u)
  BY <1>1 DEF IsLive, Linking, Tailing
<1>3. \A u \in Slots : u # t /\ pc[u] \in Linking => pc[u] = "fork_link" /\ arg[u] # c
  BY <1>1 DEF TaskInv, Parked, Racy, Linking, LinkLocals, c
<1>4. c \notin M
  BY <1>1 DEF M, ReadyTasks, InQueue, Linking, c
<1>5. ASSUME NEW u \in Slots PROVE InQueue(u)' <=> InQueue(u) \/ u = c
  <2>1. InQueue(u)' <=> /\ IsLive(u) /\ state[u] = "READY"
                        /\ ~\E w \in Slots : w # t /\ pc[w] \in Linking /\ arg[w] = u
    BY <1>1, <1>2 DEF InQueue, Linking, Tailing
  <2>2. InQueue(u) <=> /\ IsLive(u) /\ state[u] = "READY" /\ u # c
                       /\ ~\E w \in Slots : w # t /\ pc[w] \in Linking /\ arg[w] = u
    BY <1>1 DEF InQueue, Linking, c
  <2>3. QED
    BY <1>1, <1>3, <2>1, <2>2
<1>6. ReadyTasks' = M \cup {c}
  BY <1>1, <1>5 DEF M, ReadyTasks
<1>7. QueueView = rq
  BY <1>1 DEF QueueView, Linking
<1>8. QueueView' = EnqueueQ(rq, c)
  <2>1. QueueView' = [rq' EXCEPT !.tail = c]
    BY <1>1 DEF QueueView, Tailing, c
  <2>2. QED
    BY <1>1, <2>1 DEF EnqueueQ, Queues
<1>9. Lists(next', EnqueueQ(rq, c), M \cup {c})
  BY <1>1, <1>4, <1>7, ListEnqueue DEF QueueFits, M
<1>10. QED
  BY <1>6, <1>8, <1>9 DEF QueueFits

\* No step of a system call outside scheduler_tick loses or repeats a queued task.
LEMMA StepKeepsQueue ==
    ASSUME Typed, TaskInv, QueueFits, NEW t \in Slots,
           \/ ProcCall(t)
           \/ ForkClone(t) \/ ForkPid(t) \/ ForkFill(t) \/ ForkLink(t) \/ ForkTail(t)
           \/ ForkCount(t) \/ ForkStore(t)
           \/ ExitZombie(t) \/ ExitWake(t) \/ ExitLink(t) \/ ExitTail(t)
           \/ WaitScan(t) \/ WaitReap(t) \/ WaitFree(t) \/ WaitCount(t) \/ WaitStore(t)
           \/ WaitAlive(t) \/ WaitBlock(t)
    PROVE  QueueFits'
<1>0. /\ pc \in [Slots -> ProcLabels] /\ arg \in [Slots -> Int] /\ state \in [Slots -> States]
      /\ next \in [Slots -> Slots \cup {NULL}] /\ rq \in Queues
  BY DEF Typed, SchedType
<1>1. CASE ForkLink(t) \/ ExitLink(t)
  BY <1>1, LinkingKeepsQueue
<1>2. CASE ForkTail(t) \/ ExitTail(t)
  <2>1. \A u \in Slots : IsLive(u)' <=> IsLive(u)
    BY <1>2, QuietSteps
  <2>2. /\ current = t /\ pc[t] \in Tailing /\ rq' = [rq EXCEPT !.tail = arg[t]]
        /\ pc'[t] \notin Linking \cup Tailing /\ \A u \in Slots : u # t => pc'[u] = pc[u]
        /\ UNCHANGED <<state, next, current, arg>>
    BY <1>0, <1>2 DEF ForkTail, ExitTail, TailReady, At, Goto, Tailing, Linking
  <2>3. QueueView' = QueueView
    BY <2>2 DEF QueueView, Tailing
  <2>4. \A u \in Slots : InQueue(u)' <=> InQueue(u)
    <3> TAKE u \in Slots
    <3>1. (\E w \in Slots : pc'[w] \in Linking /\ arg'[w] = u)
            <=> (\E w \in Slots : pc[w] \in Linking /\ arg[w] = u)
      BY <2>2 DEF Linking, Tailing
    <3>2. QED
      BY <2>1, <2>2, <3>1 DEF InQueue, Linking
  <2>5. QED
    BY <2>2, <2>3, <2>4, QueueKept
<1>3. CASE \/ ProcCall(t) \/ ForkClone(t) \/ ForkPid(t) \/ ForkCount(t) \/ ForkStore(t)
           \/ WaitScan(t) \/ WaitCount(t) \/ WaitStore(t) \/ WaitAlive(t)
  <2>1. \A u \in Slots : IsLive(u)' <=> IsLive(u)
    BY <1>3, QuietSteps
  <2>2. /\ current = t /\ UNCHANGED <<current, rq, next, state>>
        /\ pc[t] \notin Linking \cup Tailing /\ pc'[t] \notin Linking \cup Tailing
        /\ \A u \in Slots : u # t => pc'[u] = pc[u] /\ arg'[u] = arg[u]
    BY <1>0, <1>3 DEF ProcCall, SysFork, SysExit, SysWait, ForkClone, ForkPid, ForkCount,
         ForkStore, WaitScan, WaitCount, WaitStore, WaitAlive, Load, Return, Goto, At,
         Linking, Tailing, listVars
  <2>3. QED
    BY <2>1, <2>2, QueueUnmoved
<1>4. CASE ForkFill(t)
  <2> DEFINE c == arg[t]
  <2>1. /\ c \in Slots /\ c # t /\ ~IsLive(c)
        /\ \A u \in Slots : IsLive(u)' <=> IsLive(u) \/ u = c
    BY <1>4, ForkFillKeeps
  <2>2. /\ current = t /\ pc[t] = "fork_fill" /\ pc'[t] = "fork_link" /\ arg'[t] = c
        /\ pc'[c] = "user" /\ UNCHANGED <<current, rq>>
        /\ \A u \in Slots \ {t, c} : pc'[u] = pc[u] /\ arg'[u] = arg[u]
        /\ \A u \in Slots \ {c} : state'[u] = state[u] /\ next'[u] = next[u]
    BY <1>0, <1>4, <2>1 DEF ForkFill, At
  <2>3. pc[c] \notin Linking
    BY <2>1 DEF TaskInv, StatesFit, Linking
  <2> HIDE DEF c
  <2>4. \A u \in Slots : InQueue(u)' <=> InQueue(u)
    <3> TAKE u \in Slots
    <3>1. CASE u = c
      BY <2>1, <2>2, <3>1 DEF InQueue
    <3>2. CASE u # c
      <4>1. (\E w \in Slots : pc'[w] \in Linking /\ arg'[w] = u)
              <=> (\E w \in Slots : pc[w] \in Linking /\ arg[w] = u)
        BY <2>1, <2>2, <2>3, <3>2 DEF Linking
      <4>2. QED
        BY <2>1, <2>2, <3>2, <4>1 DEF InQueue, Linking
    <3>3. QED
      BY <3>1, <3>2
  <2>5. QueueView' = QueueView
    BY <2>2 DEF QueueView
  <2>6. QED
    BY <2>1, <2>2, <2>4, <2>5, QueueKept DEF InQueue
<1>5. CASE ExitZombie(t) \/ WaitBlock(t)
  <2>1. \A u \in Slots : IsLive(u)' <=> IsLive(u)
    BY <1>5, ExitZombieKeeps, WaitBlockKeeps
  <2>2. /\ current = t /\ UNCHANGED <<current, rq, next, arg>> /\ cpu = "run"
        /\ pc[t] \in {"exit_zombie", "wait_block"} /\ pc'[t] \notin Linking \cup Tailing
        /\ \A u \in Slots : u # t => pc'[u] = pc[u] /\ state'[u] = state[u]
        /\ state'[t] # "READY"
    BY <1>0, <1>5 DEF ExitZombie, WaitBlock, Goto, At, Linking, Tailing
  <2>3. state[t] # "READY"
    BY <2>2 DEF TaskInv, CurrentFits
  <2>4. QED
    BY <2>1, <2>2, <2>3, QueueUnmoved DEF Linking, Tailing
<1>6. CASE ExitWake(t)
  <2>1. /\ \A u \in Slots : IsLive(u)' <=> IsLive(u)
        /\ current = t /\ UNCHANGED <<current, rq, next>> /\ pc[t] = "exit_wake"
        /\ \A u \in Slots : u # t => pc'[u] = pc[u] /\ arg'[u] = arg[u]
    BY <1>0, <1>6, ExitWakeKeeps DEF ExitWake, Goto, At
  <2>2. CASE pc'[t] = "exit_switch" /\ UNCHANGED <<state, arg>>
    BY <2>1, <2>2, QueueUnmoved DEF Linking, Tailing
  <2>3. ASSUME NEW p \in Slots, state[p] = "BLOCKED", state' = [state EXCEPT ![p] = "READY"],
               arg'[t] = p, pc'[t] = "exit_link"
        PROVE  QueueFits'
    <3>1. \A u \in Slots : u # p => state'[u] = state[u]
      BY <1>0, <2>3
    <3>2. \A u \in Slots : InQueue(u)' <=> InQueue(u)
      <4> TAKE u \in Slots
      <4>1. CASE u = p
        BY <2>3, <4>1 DEF InQueue
      <4>2. CASE u # p
        <5>1. (\E w \in Slots : pc'[w] \in Linking /\ arg'[w] = u)
                <=> (\E w \in Slots : pc[w] \in Linking /\ arg[w] = u)
          BY <2>1, <2>3, <4>2 DEF Linking
        <5>2. QED
          BY <2>1, <3>1, <4>2, <5>1 DEF InQueue, Linking
      <4>3. QED
        BY <4>1, <4>2
    <3>3. QueueView' = QueueView
      BY <2>1, <2>3 DEF QueueView
    <3>4. QED
      BY <2>1, <3>2, <3>3, QueueKept
  <2>4. QED
    BY <1>6, <2>2, <2>3, ExitWakeKeeps
<1>7. CASE WaitReap(t)
  <2>1. /\ \A u \in Slots : IsLive(u)' <=> IsLive(u) /\ u # arg[t]
        /\ state[arg[t]] = "ZOMBIE" /\ arg[t] \in Slots
    BY <1>7, WaitReapKeeps
  <2>2. /\ current = t /\ UNCHANGED <<current, rq, arg>>
        /\ pc[t] = "wait_reap" /\ pc'[t] = "wait_free"
        /\ \A u \in Slots : u # t => pc'[u] = pc[u]
        /\ \A u \in Slots : u # arg[t] => state'[u] = state[u] /\ next'[u] = next[u]
    BY <1>0, <1>7, <2>1 DEF WaitReap, Goto, At
  <2>3. QED
    BY <2>1, <2>2, QueueUnmoved DEF Linking, Tailing
<1>8. CASE WaitFree(t)
  <2>1. \A u \in Slots : IsLive(u)' <=> IsLive(u)
    BY <1>8, WaitFreeKeeps
  <2>2. /\ current = t /\ UNCHANGED <<current, rq, arg, state, next>>
        /\ pc[t] = "wait_free" /\ pc'[t] = "wait_count"
        /\ \A u \in Slots : u # t => pc'[u] = pc[u]
    BY <1>0, <1>8 DEF WaitFree, Goto, At, listVars
  <2>3. QED
    BY <2>1, <2>2, QueueUnmoved DEF Linking, Tailing
<1>9. QED
  BY <1>1, <1>2, <1>3, <1>4, <1>5, <1>6, <1>7, <1>8

\* scheduler_init establishes the invariant: one task, running, and an empty queue.
LEMMA InitSafe ==
    ASSUME InitTable
    PROVE  TaskInv /\ QueueFits
<1> USE DEF InitTable
<1>1. /\ current = 0 /\ 0 \in Slots /\ cpu = "run" /\ next_pid = 1 /\ pid[0] = 0 /\ state[0] = "RUNNING"
      /\ \A t \in Slots : pc[t] = "user" /\ (t # 0 => pid[t] = -1 /\ state[t] = "READY")
  BY SlotNotNull DEF FirstPid
<1>2. \A t \in Slots : IsLive(t) <=> t = 0
  BY <1>1 DEF IsLive
<1> HIDE DEF InitTable
<1>3. Parked /\ StatesFit /\ CurrentFits /\ PidsDiffer
  BY <1>1, <1>2 DEF Parked, Racy, StatesFit, ExitedAt, CurrentFits, PidsDiffer
<1>4. ForkLocals /\ LinkLocals /\ ReapLocals /\ Wakeups
  BY <1>1, <1>2 DEF ForkLocals, LinkLocals, ReapLocals, Wakeups
<1>5. QueueFits
  <2>1. ReadyTasks = {}
    BY <1>1, <1>2 DEF ReadyTasks, InQueue
  <2>2. QueueView = rq /\ rq.head = NULL /\ rq.tail = NULL
    BY <1>1 DEF QueueView, InitTable, EmptyQueue
  <2> DEFINE s == [i \in 1 .. 0 |-> 0]
  <2>3. Enumerates(s, 0, next, rq)
    BY <2>2 DEF Enumerates
  <2>4. Elements(s, 0) = {}
    BY DEF Elements
  <2>5. QED
    BY <2>1, <2>2, <2>3, <2>4 DEF QueueFits, Lists
<1>6. QED
  BY <1>3, <1>4, <1>5 DEF TaskInv

\* Every step of the kernel, and every tick outside the racy sequences.
LEMMA StepSafe ==
    ASSUME RacesClosed, Typed, TaskInv, QueueFits, Next
    PROVE  TaskInv' /\ QueueFits'
<1>1. CASE Tick
  BY <1>1, SwitchSteps
<1>2. ASSUME NEW t \in Slots, ProcCall(t) \/ ProcStep(t)
      PROVE  TaskInv' /\ QueueFits'
  <2>1. CASE ExitSwitch(t) \/ WaitSwitch(t)
    BY <2>1, SwitchSteps
  <2>2. CASE ExitDead(t)
    BY <2>2 DEF ExitDead, At, TaskInv, CurrentFits
  <2>4. CASE ForkFill(t) \/ ExitZombie(t) \/ ExitWake(t) \/ WaitReap(t) \/ WaitFree(t) \/ WaitBlock(t)
    BY <2>4, StepKeepsQueue, ForkFillKeeps, ExitZombieKeeps, ExitWakeKeeps, WaitReapKeeps,
       WaitFreeKeeps, WaitBlockKeeps
  <2>5. CASE \/ ProcCall(t)
             \/ ForkClone(t) \/ ForkPid(t) \/ ForkLink(t) \/ ForkTail(t) \/ ForkCount(t)
             \/ ForkStore(t) \/ ExitLink(t) \/ ExitTail(t)
             \/ WaitScan(t) \/ WaitCount(t) \/ WaitStore(t) \/ WaitAlive(t)
    BY <2>5, StepKeepsQueue, QuietSteps
  <2>6. QED
    BY <1>2, <2>1, <2>2, <2>4, <2>5 DEF ProcStep
<1>3. QED
  BY <1>1, <1>2 DEF Next

-----------------------------------------------------------------------------
(* task_count.                                                               *)

InUse    == {t \in Slots : IsLive(t)}
Arriving == {t \in Slots : pc[t] \in {"fork_link", "fork_tail", "fork_count", "fork_store"}}
Leaving  == {t \in Slots : pc[t] \in {"wait_free", "wait_count", "wait_store"}}

CountFits == task_count + Cardinality(Arriving) - Cardinality(Leaving) = Cardinality(InUse)

\* Sets of tasks are finite, so they can be counted one task at a time.
LEMMA TasksCounted ==
    ASSUME NEW S \in SUBSET Slots
    PROVE  /\ Cardinality(S) \in Int
           /\ \A t \in Slots \ S : Cardinality(S \cup {t}) = Cardinality(S) + 1
           /\ \A t \in S : Cardinality(S \ {t}) = Cardinality(S) - 1
<1>1. IsFiniteSet(Slots)
  BY FS_Interval, SlotsAssumption DEF Slots
<1>2. IsFiniteSet(S)
  BY <1>1, FS_Subset
<1>3. Cardinality(S) \in Int
  BY <1>2, FS_CardinalityType
<1>4. \A t \in Slots \ S : Cardinality(S \cup {t}) = Cardinality(S) + 1
  BY <1>2, FS_AddElement
<1>5. \A t \in S : Cardinality(S \ {t}) = Cardinality(S) - 1
  BY <1>2, FS_RemoveElement
<1>6. QED
  BY <1>3, <1>4, <1>5

\* scheduler_init counts its one task.
LEMMA InitCounts ==
    ASSUME InitTable
    PROVE  CountFits
<1>1. /\ current = 0 /\ pid[0] = 0 /\ task_count = 1
      /\ \A t \in Slots : pc[t] = "user" /\ (t # 0 => pid[t] = -1)
  BY SlotNotNull DEF InitTable
<1>2. InUse = {0} /\ Arriving = {} /\ Leaving = {}
  <2>1. \A t \in Slots : IsLive(t) <=> t = 0
    BY <1>1 DEF IsLive
  <2>2. QED
    BY <1>1, <2>1, SlotNotNull DEF InUse, Arriving, Leaving
<1>3. Cardinality({0}) = 1 /\ Cardinality({}) = 0
  BY FS_Singleton, FS_EmptySet
<1>4. QED
  BY <1>1, <1>2, <1>3 DEF CountFits

\* A step that moves no task in or out of the counted sets keeps the count.
LEMMA CountKept ==
    ASSUME CountFits, task_count' = task_count,
           \A u \in Slots : IsLive(u)' <=> IsLive(u),
           \A u \in Slots : u \in Arriving' <=> u \in Arriving,
           \A u \in Slots : u \in Leaving' <=> u \in Leaving
    PROVE  CountFits'
<1>1. InUse' = InUse
  BY DEF InUse
<1>2. Arriving' = Arriving /\ Leaving' = Leaving
  BY DEF Arriving, Leaving
<1>3. QED
  BY <1>1, <1>2 DEF CountFits

\* task_count follows the tasks that fork adds and wait removes.
LEMMA StepCounts ==
    ASSUME RacesClosed, Typed, TaskInv, QueueFits, CountFits, Next
    PROVE  CountFits'
<1>0. /\ pc \in [Slots -> ProcLabels] /\ current \in Slots /\ task_count \in Int
      /\ Arriving \in SUBSET Slots /\ Leaving \in SUBSET Slots /\ InUse \in SUBSET Slots
  BY DEF Typed, SchedType, Arriving, Leaving, InUse
<1>c. /\ Cardinality(Arriving) \in Int /\ Cardinality(Leaving) \in Int /\ Cardinality(InUse) \in Int
  BY <1>0, TasksCounted
<1>1. CASE Tick
  <2>2. \A u \in Slots : IsLive(u)' <=> IsLive(u)
    BY <1>1, SwitchSteps
  <2>3. pc' = pc /\ task_count' = task_count
    BY <1>1 DEF Tick, tableVars
  <2>4. QED
    BY <2>2, <2>3, CountKept DEF Arriving, Leaving
<1>2. ASSUME NEW t \in Slots, ProcCall(t) \/ ProcStep(t)
      PROVE  CountFits'
  <2>1. CASE ExitSwitch(t) \/ WaitSwitch(t)
    <3>1. \A u \in Slots : IsLive(u)' <=> IsLive(u)
      BY <2>1, SwitchSteps
    <3>2. task_count' = task_count /\ pc[t] \in {"exit_switch", "wait_switch"}
          /\ pc'[t] \in {"exit_dead", "wait_scan"} /\ \A u \in Slots : u # t => pc'[u] = pc[u]
      BY <1>0, <2>1 DEF ExitSwitch, WaitSwitch, At, Goto, tableVars
    <3>3. QED
      BY <3>1, <3>2, CountKept DEF Arriving, Leaving
  <2>2. CASE ExitDead(t)
    BY <2>2 DEF ExitDead, At, TaskInv, CurrentFits
  <2>3. CASE \/ ExitZombie(t) \/ ExitWake(t) \/ WaitFree(t) \/ WaitBlock(t)
             \/ ProcCall(t)
             \/ ForkClone(t) \/ ForkPid(t) \/ ForkLink(t) \/ ForkTail(t) \/ ForkCount(t)
             \/ ExitLink(t) \/ ExitTail(t)
             \/ WaitScan(t) \/ WaitCount(t) \/ WaitAlive(t)
    <3>1. \A u \in Slots : IsLive(u)' <=> IsLive(u)
      BY <2>3, QuietSteps, ExitZombieKeeps, ExitWakeKeeps, WaitFreeKeeps, WaitBlockKeeps
    <3>2. task_count' = task_count /\ \A u \in Slots : u # t => pc'[u] = pc[u]
      BY <1>0, <2>3 DEF ExitZombie, ExitWake, WaitFree, WaitBlock, ProcCall, SysFork, SysExit,
         SysWait, ForkClone, ForkPid, ForkLink, ForkTail, ForkCount, ExitLink, ExitTail, WaitScan,
         WaitCount, WaitAlive, Load, LinkReady, TailReady, Return, Goto, tableVars
    <3>3. t \in Arriving' <=> t \in Arriving
      BY <1>0, <2>3 DEF ExitZombie, ExitWake, WaitFree, WaitBlock, ProcCall, SysFork, SysExit,
         SysWait, ForkClone, ForkPid, ForkLink, ForkTail, ForkCount, ExitLink, ExitTail, WaitScan,
         WaitCount, WaitAlive, Load, LinkReady, TailReady, Return, Goto, At, Arriving
    <3>4. t \in Leaving' <=> t \in Leaving
      BY <1>0, <2>3 DEF ExitZombie, ExitWake, WaitFree, WaitBlock, ProcCall, SysFork, SysExit,
         SysWait, ForkClone, ForkPid, ForkLink, ForkTail, ForkCount, ExitLink, ExitTail, WaitScan,
         WaitCount, WaitAlive, Load, LinkReady, TailReady, Return, Goto, At, Leaving
    <3>5. \A u \in Slots : /\ u \in Arriving' <=> u \in Arriving
                           /\ u \in Leaving' <=> u \in Leaving
      <4> TAKE u \in Slots
      <4>1. CASE u = t
        BY <3>3, <3>4, <4>1
      <4>2. CASE u # t
        BY <3>2, <4>2 DEF Arriving, Leaving
      <4>3. QED
        BY <4>1, <4>2
    <3>6. QED
      BY <3>1, <3>2, <3>5, CountKept
  <2>4. CASE ForkFill(t)
    <3> DEFINE c == arg[t]
    <3>1. /\ c \in Slots /\ c # t /\ ~IsLive(c)
          /\ \A u \in Slots : IsLive(u)' <=> IsLive(u) \/ u = c
      BY <2>4, ForkFillKeeps
    <3>2. /\ pc[t] = "fork_fill" /\ pc'[t] = "fork_link" /\ pc'[c] = "user"
          /\ \A u \in Slots \ {t, c} : pc'[u] = pc[u]
          /\ task_count' = task_count
      BY <1>0, <2>4, <3>1 DEF ForkFill, At
    <3>3. pc[c] \in {"user", "exit_switch", "exit_dead"}
      BY <3>1 DEF TaskInv, StatesFit
    <3> HIDE DEF c
    <3>4. InUse' = InUse \cup {c} /\ c \in Slots \ InUse
      BY <3>1 DEF InUse
    <3>5. Arriving' = Arriving \cup {t} /\ t \in Slots \ Arriving
      BY <3>1, <3>2, <3>3 DEF Arriving
    <3>6. Leaving' = Leaving
      BY <3>1, <3>2, <3>3 DEF Leaving
    <3>7. Cardinality(InUse') = Cardinality(InUse) + 1
      BY <1>0, <3>4, TasksCounted
    <3>8. Cardinality(Arriving') = Cardinality(Arriving) + 1
      BY <1>0, <3>5, TasksCounted
    <3>9. QED
      BY <1>0, <1>c, <3>2, <3>6, <3>7, <3>8 DEF CountFits
  <2>5. CASE ForkStore(t)
    <3>1. \A u \in Slots : IsLive(u)' <=> IsLive(u)
      BY <2>5, QuietSteps
    <3>2. /\ pc[t] = "fork_store" /\ pc'[t] = "user" /\ \A u \in Slots : u # t => pc'[u] = pc[u]
          /\ task_count' = task_count + 1
      BY <1>0, <2>5 DEF ForkStore, At, Return, Goto, TaskInv, ForkLocals
    <3>3. InUse' = InUse /\ Leaving' = Leaving /\ Arriving' = Arriving \ {t} /\ t \in Arriving
      BY <3>1, <3>2 DEF InUse, Leaving, Arriving
    <3>4. Cardinality(Arriving') = Cardinality(Arriving) - 1
      BY <1>0, <3>3, TasksCounted
    <3>5. QED
      BY <1>0, <1>c, <3>2, <3>3, <3>4 DEF CountFits
  <2>6. CASE WaitReap(t)
    <3>1. /\ arg[t] \in Slots /\ IsLive(arg[t])
          /\ \A u \in Slots : IsLive(u)' <=> IsLive(u) /\ u # arg[t]
      BY <2>6, WaitReapKeeps
    <3>2. /\ pc[t] = "wait_reap" /\ pc'[t] = "wait_free" /\ \A u \in Slots : u # t => pc'[u] = pc[u]
          /\ task_count' = task_count
      BY <1>0, <2>6 DEF WaitReap, At, Goto
    <3>3. /\ InUse' = InUse \ {arg[t]} /\ arg[t] \in InUse /\ Arriving' = Arriving
          /\ Leaving' = Leaving \cup {t} /\ t \in Slots \ Leaving
      BY <3>1, <3>2 DEF InUse, Leaving, Arriving
    <3>4. Cardinality(InUse') = Cardinality(InUse) - 1
      BY <1>0, <3>3, TasksCounted
    <3>5. Cardinality(Leaving') = Cardinality(Leaving) + 1
      BY <1>0, <3>3, TasksCounted
    <3>6. QED
      BY <1>0, <1>c, <3>2, <3>3, <3>4, <3>5 DEF CountFits
  <2>7. CASE WaitStore(t)
    <3>1. \A u \in Slots : IsLive(u)' <=> IsLive(u)
      BY <2>7, QuietSteps
    <3>2. /\ pc[t] = "wait_store" /\ pc'[t] = "user" /\ \A u \in Slots : u # t => pc'[u] = pc[u]
          /\ task_count' = task_count - 1
      BY <1>0, <2>7 DEF WaitStore, At, Return, Goto, TaskInv, ForkLocals
    <3>3. InUse' = InUse /\ Arriving' = Arriving /\ Leaving' = Leaving \ {t} /\ t \in Leaving
      BY <3>1, <3>2 DEF InUse, Leaving, Arriving
    <3>4. Cardinality(Leaving') = Cardinality(Leaving) - 1
      BY <1>0, <3>3, TasksCounted
    <3>5. QED
      BY <1>0, <1>c, <3>2, <3>3, <3>4 DEF CountFits
  <2>8. QED
    BY <1>2, <2>1, <2>2, <2>3, <2>4, <2>5, <2>6, <2>7 DEF ProcStep
<1>3. QED
  BY <1>1, <1>2 DEF Next

SafeInv == TypeOK /\ ProcLocals /\ TaskInv /\ QueueFits /\ CountFits

\* SafeInv is inductive: scheduler_init establishes it and every step keeps it.
LEMMA SafeInductive ==
    ASSUME RacesClosed
    PROVE  /\ InitTable => TaskInv /\ QueueFits /\ CountFits
           /\ SafeInv /\ [Next]_vars => (TaskInv /\ QueueFits /\ CountFits)'
<1>1. InitTable => TaskInv /\ QueueFits /\ CountFits
  BY InitSafe, InitCounts
<1>2. ASSUME SafeInv, [Next]_vars PROVE (TaskInv /\ QueueFits /\ CountFits)'
  <2>1. Typed
    BY <1>2 DEF SafeInv, Typed, TypeOK
  <2>2. CASE Next
    BY <1>2, <2>1, <2>2, StepSafe, StepCounts DEF SafeInv
  <2>3. CASE UNCHANGED vars
    <3>1. TaskInv'
      <4>1. \A u \in Slots : IsLive(u)' <=> IsLive(u)
        BY <2>3 DEF vars, IsLive
      <4>2. Parked' /\ CurrentFits' /\ PidsDiffer'
        BY <1>2, <2>3, <4>1 DEF vars, SafeInv, TaskInv, Parked, CurrentFits, PidsDiffer,
           TypeOK, SchedType
      <4>3. StatesFit' /\ ForkLocals'
        BY <1>2, <2>3, <4>1 DEF vars, SafeInv, TaskInv, StatesFit, ForkLocals
      <4>4. LinkLocals'
        BY <1>2, <2>3, <4>1 DEF vars, SafeInv, TaskInv, LinkLocals, Typed, ProcLocals
      <4>5. ReapLocals'
        BY <1>2, <2>3, <4>1 DEF vars, SafeInv, TaskInv, ReapLocals, Typed, ProcLocals
      <4>6. Wakeups'
        BY <1>2, <2>3 DEF vars, SafeInv, TaskInv, Wakeups, Children
      <4>7. QED
        BY <4>2, <4>3, <4>4, <4>5, <4>6 DEF TaskInv
    <3>2. QueueFits'
      <4>1. ReadyTasks' = ReadyTasks
        BY <2>3 DEF vars, ReadyTasks, InQueue, IsLive
      <4>2. QueueView' = QueueView
        BY <2>3 DEF vars, QueueView
      <4>3. QED
        BY <1>2, <2>3, <4>1, <4>2 DEF vars, SafeInv, QueueFits
    <3>3. CountFits'
      BY <1>2, <2>3 DEF vars, SafeInv, CountFits, InUse, IsLive, Arriving, Leaving
    <3>4. QED
      BY <3>1, <3>2, <3>3
  <2>4. QED
    BY <1>2, <2>2, <2>3
<1>3. QED
  BY <1>1, <1>2

\* The invariant's view of the table is the one the properties take.
LEMMA LiveIsInUse ==
    ASSUME SafeInv
    PROVE  /\ \A t \in Slots : t \in Live <=> IsLive(t)
           /\ Live = InUse
<1>1. current \in Slots
  BY DEF SafeInv, TypeOK, SchedType
<1>2. \A t \in Slots : t \in BeingReaped <=> pc[current] = "wait_free" /\ arg[current] = t
  BY <1>1 DEF SafeInv, TaskInv, Parked, Racy, BeingReaped
<1>3. \A t \in Slots : t \in Live <=> IsLive(t)
  BY <1>2 DEF Live, IsLive
<1>4. QED
  BY <1>3 DEF Live, InUse

\* Outside enqueue_ready, the queue of the invariant is the ready queue itself.
LEMMA SafeImpliesQueue ==
    ASSUME SafeInv
    PROVE  ReadyQueueExact
<1> SUFFICES ASSUME ~MidEnqueue
             PROVE  WellFormed(rq) /\ Members(rq) = {t \in Live : state[t] = "READY"} \ Unlinked
  BY DEF ReadyQueueExact
<1>1. current \in Slots
  BY DEF SafeInv, TypeOK, SchedType
<1>2. QueueView = rq
  BY <1>1 DEF MidEnqueue, QueueView
<1>3. WellFormed(rq) /\ Members(rq) = ReadyTasks
  BY <1>2, ListMembers DEF SafeInv, QueueFits
<1>4. \A t \in Slots : t \in Unlinked <=> \E u \in Slots : pc[u] \in {"fork_link", "exit_link"} /\ arg[u] = t
  BY DEF Unlinked
<1>5. \A t \in Slots : InQueue(t) <=> t \in {u \in Live : state[u] = "READY"} \ Unlinked
  BY <1>4, LiveIsInUse DEF InQueue
<1>6. Live \subseteq Slots
  BY DEF Live
<1>7. ReadyTasks = {t \in Live : state[t] = "READY"} \ Unlinked
  BY <1>5, <1>6 DEF ReadyTasks
<1>8. QED
  BY <1>3, <1>7

\* The counted sets of the invariant are those of the property.
LEMMA SafeImpliesTable ==
    ASSUME SafeInv
    PROVE  TableExact
<1>1. Cardinality(Live) = Cardinality(InUse)
  BY LiveIsInUse
<1>2. \A s, t \in Live : pid[s] = pid[t] => s = t
  BY LiveIsInUse DEF SafeInv, TaskInv, PidsDiffer, Live
<1>3. QED
  BY <1>1, <1>2 DEF TableExact, SafeInv, CountFits, Arriving, Leaving

\* No sleeper in task_wait has an exited child that will not wake it.
LEMMA SafeImpliesWakeup ==
    ASSUME SafeInv
    PROVE  NoLostWakeup
BY DEF SafeInv, TaskInv, Wakeups, NoLostWakeup, Live, Children

\* A step by which wait returns -1.
LEMMA MinusOneStep ==
    ASSUME SafeInv, [Next]_vars, NEW t \in Slots, pc[t] = "wait_alive", pc'[t] = "user"
    PROVE  Children(t, arg[t]) = {}
<1>0. pc \in [Slots -> ProcLabels] /\ current \in Slots
  BY DEF SafeInv, TypeOK, SchedType
<1>1. current = t
  BY DEF SafeInv, TaskInv, Parked, Racy
<1>2. ~has_alive(t)
  <2>1. CASE UNCHANGED vars \/ Tick
    BY <2>1 DEF vars, Tick
  <2>2. ASSUME NEW u \in Slots, ProcCall(u) \/ ProcStep(u) PROVE ~has_alive(t)
    <3>1. u = t
      BY <1>1, <2>2 DEF ProcCall, SysFork, SysExit, SysWait, ProcStep, ForkClone, ForkPid, ForkFill,
         ForkLink, ForkTail, ForkCount, ForkStore, ExitZombie, ExitWake, ExitLink, ExitTail,
         ExitSwitch, ExitDead, WaitScan, WaitReap, WaitFree, WaitCount, WaitStore, WaitAlive,
         WaitBlock, WaitSwitch, LinkReady, TailReady, Load, At
    <3>2. WaitAlive(t)
      BY <2>2, <3>1 DEF ProcCall, SysFork, SysExit, SysWait, ProcStep, ForkClone, ForkPid, ForkFill,
         ForkLink, ForkTail, ForkCount, ForkStore, ExitZombie, ExitWake, ExitLink, ExitTail,
         ExitSwitch, ExitDead, WaitScan, WaitReap, WaitFree, WaitCount, WaitStore,
         WaitBlock, WaitSwitch, LinkReady, TailReady, Load, At
    <3>3. QED
      BY <1>0, <3>2 DEF WaitAlive, Goto
  <2>3. QED
    BY <2>1, <2>2 DEF Next
<1>3. ASSUME NEW c \in Children(t, arg[t]) PROVE FALSE
  <2>1. c \in Slots /\ state[c] = "ZOMBIE"
    BY <1>2, <1>3 DEF has_alive, Children
  <2>2. c = current /\ pc[c] = "exit_wake"
    BY <1>3, <2>1 DEF SafeInv, TaskInv, Wakeups
  <2>3. QED
    BY <1>1, <2>2
<1>4. QED
  BY <1>3

\* A step that takes a task out of ZOMBIE.
LEMMA ZombieStep ==
    ASSUME RacesClosed, SafeInv, TaskInv', [Next]_vars
    PROVE  /\ cpu' # "zombie_resumed"
           /\ \A t \in Slots : (state[t] = "ZOMBIE" /\ state'[t] # "ZOMBIE") =>
                 \E p \in Slots : pc[p] = "wait_reap" /\ arg[p] = t /\ pid[p] = parent[t]
<1>0. /\ pc \in [Slots -> ProcLabels] /\ current \in Slots /\ state \in [Slots -> States]
      /\ next \in [Slots -> Slots \cup {NULL}] /\ rq \in Queues /\ arg \in [Slots -> Int]
  BY DEF SafeInv, TypeOK, SchedType
<1>1. cpu' # "zombie_resumed"
  BY DEF SafeInv, TaskInv, CurrentFits
<1>2. ASSUME NEW t \in Slots, state[t] = "ZOMBIE", state'[t] # "ZOMBIE"
      PROVE  \E p \in Slots : pc[p] = "wait_reap" /\ arg[p] = t /\ pid[p] = parent[t]
  <2>1. CASE state' = state
    BY <1>2, <2>1
  <2>2. CASE Tick \/ \E u \in Slots : ExitSwitch(u) \/ WaitSwitch(u)
    BY <1>2, <2>2, SwitchSteps DEF SafeInv, Typed, TypeOK
  <2>3. ASSUME NEW u \in Slots, ForkFill(u) PROVE FALSE
    <3>1. ~IsLive(arg[u])
      BY <2>3, ForkFillKeeps DEF SafeInv, Typed, TypeOK
    <3>2. t # arg[u]
      BY <1>2, <3>1 DEF SafeInv, TaskInv, StatesFit
    <3>3. QED
      BY <1>0, <1>2, <2>3, <3>2 DEF ForkFill
  <2>4. ASSUME NEW u \in Slots, ExitZombie(u) PROVE FALSE
    BY <1>0, <1>2, <2>4 DEF ExitZombie
  <2>5. ASSUME NEW u \in Slots, ExitWake(u) PROVE FALSE
    BY <1>0, <1>2, <2>5 DEF ExitWake
  <2>6. ASSUME NEW u \in Slots, WaitBlock(u) PROVE FALSE
    <3>1. t = u /\ current = u /\ cpu = "run" /\ pc[u] = "wait_block"
      BY <1>0, <1>2, <2>6 DEF WaitBlock, At
    <3>2. QED
      BY <1>2, <3>1 DEF SafeInv, TaskInv, StatesFit, ExitedAt, CurrentFits
  <2>7. ASSUME NEW u \in Slots, WaitReap(u)
        PROVE  \E p \in Slots : pc[p] = "wait_reap" /\ arg[p] = t /\ pid[p] = parent[t]
    BY <1>0, <1>2, <2>7 DEF WaitReap, At, SafeInv, TaskInv, ReapLocals
  <2>8. QED
    BY <1>2, <2>1, <2>2, <2>3, <2>4, <2>5, <2>6, <2>7 DEF Next, Tick, ProcCall, SysFork, SysExit,
       SysWait, ProcStep, ForkClone, ForkPid, ForkLink, ForkTail, ForkCount, ForkStore, ExitLink,
       ExitTail, ExitSwitch, ExitDead, WaitScan, WaitFree, WaitCount, WaitStore, WaitAlive,
       WaitSwitch, LinkReady, TailReady, Load, At, listVars, vars
<1>3. QED
  BY <1>1, <1>2

\* The inductive invariant holds for any number of tasks and pids and whatever
\* programs call, when no tick arrives inside a racy sequence.
THEOREM SchedulerSafe ==
    ASSUME RacesClosed
    PROVE  Spec => []SafeInv
<1>1. /\ InitTable => TaskInv /\ QueueFits /\ CountFits
      /\ SafeInv /\ [Next]_vars => (TaskInv /\ QueueFits /\ CountFits)'
  BY SafeInductive
<1>2. QED
  BY <1>1, TypeCorrect, PTL DEF Spec, SafeInv

\* The ready queue of enqueue_ready and dequeue_ready is always a finite list of
\* exactly the READY tasks: none is forgotten, none is linked twice, and no blocked,
\* exited or freed task can be given the CPU.
THEOREM QueueAlwaysExact ==
    ASSUME RacesClosed
    PROVE  Spec => []ReadyQueueExact
<1>1. Spec => []SafeInv
  BY SchedulerSafe
<1>2. SafeInv => ReadyQueueExact
  BY SafeImpliesQueue
<1>3. QED
  BY <1>1, <1>2, PTL

\* task_count is the number of tasks, up to the fork or wait that is counting, and
\* task_fork never gives a pid twice among the tasks in use.
THEOREM TableAlwaysExact ==
    ASSUME RacesClosed
    PROVE  Spec => []TableExact
<1>1. Spec => []SafeInv
  BY SchedulerSafe
<1>2. SafeInv => TableExact
  BY SafeImpliesTable
<1>3. QED
  BY <1>1, <1>2, PTL

\* A task asleep in task_wait has no exited child, but one that still has the CPU.
THEOREM WakeupsNeverLost ==
    ASSUME RacesClosed
    PROVE  Spec => []NoLostWakeup
<1>1. Spec => []SafeInv
  BY SchedulerSafe
<1>2. SafeInv => NoLostWakeup
  BY SafeImpliesWakeup
<1>3. QED
  BY <1>1, <1>2, PTL

\* task_wait returns -1 only to a task that has no child of that pid left.
THEOREM MinusOneMeansChildless ==
    ASSUME RacesClosed
    PROVE  Spec => NoFalseMinusOne
<1>1. Spec => []SafeInv
  BY SchedulerSafe
<1>2. SafeInv /\ [Next]_vars =>
        [\A t \in Slots :
            (pc[t] = "wait_alive" /\ pc'[t] = "user") => Children(t, arg[t]) = {}]_vars
  BY MinusOneStep
<1>3. QED
  BY <1>1, <1>2, PTL DEF Spec, NoFalseMinusOne

\* An exited task never runs again, and leaves ZOMBIE only in task_wait of its parent.
THEOREM ZombiesStayUntilReaped ==
    ASSUME RacesClosed
    PROVE  Spec => ZombieUntilReaped
<1>1. Spec => []SafeInv
  BY SchedulerSafe
<1>2. SafeInv /\ TaskInv' /\ [Next]_vars =>
        [/\ cpu' # "zombie_resumed"
         /\ \A t \in Slots : (state[t] = "ZOMBIE" /\ state'[t] # "ZOMBIE") =>
               \E p \in Slots : pc[p] = "wait_reap" /\ arg[p] = t /\ pid[p] = parent[t]]_vars
  BY ZombieStep
<1>3. SafeInv => TaskInv
  BY DEF SafeInv
<1>4. QED
  BY <1>1, <1>2, <1>3, PTL DEF Spec, ZombieUntilReaped
=============================================================================
