----------------------------- MODULE Scheduler -----------------------------
(***************************************************************************)
(* The process table, the ready queue and the process system calls of the  *)
(* kernel (kernel/scheduler.c), on one CPU.                                *)
(*                                                                         *)
(* A task is its slot in task_table; a task_t pointer is a slot or NULL.   *)
(* The PCB fields the properties need are variables indexed by slot: pid,  *)
(* parent (parent_pid), state, and the intrusive list pointer next, which  *)
(* the ready queue and the wait queues of kernel/ipc.c share.  A task's    *)
(* saved register frame (kernel_esp) is the pair pc, arg: where it will    *)
(* continue, and the local variable it keeps there.                        *)
(*                                                                         *)
(* System calls enter through a trap gate (kernel/idt.c, gate 128), so the *)
(* timer interrupt may arrive between any two of their steps; the timer's  *)
(* own handler runs with interrupts off and is one atomic step.  PreemptAt *)
(* is the set of places where a tick is allowed to arrive: Labels is the   *)
(* machine, a smaller set restricts attention to fewer interleavings.      *)
(***************************************************************************)
EXTENDS Integers, FiniteSets, FiniteSetsExt

CONSTANTS
    MAX_TASKS,   \* slots of task_table
    MaxPid,      \* bound: fork is not called once next_pid reaches it
    Calls,       \* Calls[t]: the system calls the program in slot t makes
    WaitPids,    \* the pid arguments programs pass to wait (-1: any child)
    PreemptAt    \* the places where a timer tick may arrive

NULL == -1

Slots == 0 .. MAX_TASKS - 1

ASSUME SlotsAssumption == MAX_TASKS \in Nat \ {0} /\ MaxPid \in Nat \ {0}

ASSUME WaitPidsAssumption == WaitPids \subseteq (-1 .. MaxPid)

VARIABLES
    pid,         \* task_table[t].pid, -1 when the slot is free
    parent,      \* task_table[t].parent_pid
    state,       \* task_table[t].state
    next,        \* task_table[t].next
    rq,          \* ready_head and ready_tail
    current,     \* current_task
    task_count,
    next_pid,
    cpu,         \* "run", or why the CPU executes cli; hlt for ever
    pc,          \* where each task continues when it is given the CPU
    arg,         \* the slot or pid the task's system call works on
    val          \* a counter the task has loaded and not yet stored back

tableVars == <<pid, parent, task_count, next_pid>>
listVars  == <<state, next, rq, current, cpu>>
vars      == <<pid, parent, state, next, rq, current, task_count, next_pid,
               cpu, pc, arg, val>>

States == {"READY", "RUNNING", "BLOCKED", "ZOMBIE"}

ProcLabels == {"user",
               "fork_clone", "fork_pid", "fork_fill", "fork_link", "fork_tail",
               "fork_count", "fork_store",
               "exit_zombie", "exit_wake", "exit_link", "exit_tail",
               "exit_switch", "exit_dead",
               "wait_scan", "wait_reap", "wait_free", "wait_count", "wait_store",
               "wait_alive", "wait_block", "wait_switch"}

\* The steps between which a tick does harm: what the code has read or half done
\* there must not change before it goes on.
Racy == {"fork_clone", "fork_pid", "fork_fill", "fork_tail", "fork_store",
         "exit_wake", "exit_link", "exit_tail",
         "wait_free", "wait_store", "wait_alive", "wait_block"}

CpuStates == {"run", "no_runnable", "zombie_resumed"}

-----------------------------------------------------------------------------
(* Intrusive FIFO lists.  nx is the next field of every task, q the head and *)
(* tail of one list.  The wait queues of ipc.c are appended to and popped    *)
(* by the same statements as the ready queue.                                *)

EmptyQueue == [head |-> NULL, tail |-> NULL]

Queues == [head : Slots \cup {NULL}, tail : Slots \cup {NULL}]

\* task->next = NULL, then the old tail (which may be task itself) points to it.
EnqueueNext(nx, q, t) ==
    IF q.tail = NULL THEN [nx EXCEPT ![t] = NULL]
                     ELSE [[nx EXCEPT ![t] = NULL] EXCEPT ![q.tail] = t]

EnqueueHead(q, t) == IF q.tail = NULL THEN t ELSE q.head

EnqueueQ(q, t) == [head |-> EnqueueHead(q, t), tail |-> t]

DequeueNext(nx, q) == [nx EXCEPT ![q.head] = NULL]

\* Mutation of DequeueQ: the tail of a list that becomes empty is not cleared.
DequeueKeepsTail(nx, q) == [head |-> nx[q.head], tail |-> q.tail]

DequeueQ(nx, q) ==
    [head |-> nx[q.head], tail |-> IF nx[q.head] = NULL THEN NULL ELSE q.tail]

-----------------------------------------------------------------------------
(* scheduler_init: slot 0 is the init task, all other slots are free.  The   *)
(* table is zeroed memory, so a free slot has state 0, which is TASK_READY.  *)

\* Mutation of FirstPid: init takes pid 0 and next_pid is not incremented.
FirstPidZero == 0

\* next_pid after task->pid = next_pid++ for init.
FirstPid == 1

InitTable ==
    /\ pid = [t \in Slots |-> IF t = 0 THEN 0 ELSE -1]
    /\ parent = [t \in Slots |-> IF t = 0 THEN -1 ELSE 0]
    /\ state = [t \in Slots |-> IF t = 0 THEN "RUNNING" ELSE "READY"]
    /\ next = [t \in Slots |-> NULL]
    /\ rq = EmptyQueue
    /\ current = 0
    /\ task_count = 1
    /\ next_pid = FirstPid
    /\ cpu = "run"
    /\ pc = [t \in Slots |-> "user"]
    /\ arg = [t \in Slots |-> NULL]
    /\ val = [t \in Slots |-> NULL]

-----------------------------------------------------------------------------
(* scheduler_tick: st, nx and q are the task states and the ready queue when *)
(* the interrupt (the timer's, or a task's own int $32) is taken.            *)

\* Mutation of Requeued: an exited task is put back on the ready queue.
RequeuedZombie(s) == s # "BLOCKED"

Requeued(s) == s \notin {"ZOMBIE", "BLOCKED"}

\* Mutation of Switched: the task that loses the CPU stays RUNNING.
SwitchedKeepsOld(st, requeue, new) == [st EXCEPT ![new] = "RUNNING"]

Switched(st, requeue, new) ==
    [[st EXCEPT ![current] = IF requeue THEN "READY" ELSE @] EXCEPT ![new] = "RUNNING"]

scheduler_tick(st, nx, q) ==
    LET requeue == Requeued(st[current])
        nx1 == IF requeue THEN EnqueueNext(nx, q, current) ELSE nx
        q1  == IF requeue THEN EnqueueQ(q, current) ELSE q
    IN  \/ \* the only task keeps the CPU
           /\ requeue /\ task_count <= 1
           /\ state' = [st EXCEPT ![current] = "RUNNING"]
           /\ next' = nx /\ rq' = q
           /\ UNCHANGED <<current, cpu>>
        \/ \* nothing is ready: the interrupted task continues, BLOCKED or not
           /\ ~(requeue /\ task_count <= 1)
           /\ q1.head = NULL /\ st[current] # "ZOMBIE"
           /\ state' = [st EXCEPT ![current] = "RUNNING"]
           /\ next' = nx1 /\ rq' = q1
           /\ UNCHANGED <<current, cpu>>
        \/ \* nothing is ready and the interrupted task has exited: cli; hlt
           /\ q1.head = NULL /\ st[current] = "ZOMBIE"
           /\ cpu' = "no_runnable"
           /\ state' = st /\ next' = nx1 /\ rq' = q1
           /\ UNCHANGED current
        \/ \* switch to the head of the ready queue
           /\ ~(requeue /\ task_count <= 1)
           /\ q1.head # NULL
           /\ current' = q1.head
           /\ state' = Switched(st, requeue, q1.head)
           /\ next' = DequeueNext(nx1, q1)
           /\ rq' = DequeueQ(nx1, q1)
           /\ UNCHANGED cpu

\* The timer interrupt: irq_handler, timer_handler, scheduler_tick.
Tick ==
    /\ cpu = "run"
    /\ pc[current] \in PreemptAt
    /\ scheduler_tick(state, next, rq)
    /\ UNCHANGED <<tableVars, pc, arg, val>>

-----------------------------------------------------------------------------
\* Task t has the CPU and is about to execute the step named l.
At(t, l) == cpu = "run" /\ current = t /\ pc[t] = l

Goto(t, l) == pc' = [pc EXCEPT ![t] = l]

\* The system call of t returns to the program; its local variables are gone.
Return(t) ==
    /\ Goto(t, "user")
    /\ arg' = [arg EXCEPT ![t] = NULL]
    /\ val' = [val EXCEPT ![t] = NULL]

\* The kernel is built without optimisation: x++ loads x, then stores it back.
Load(t, at, counter, then) ==
    /\ At(t, at)
    /\ val' = [val EXCEPT ![t] = counter]
    /\ Goto(t, then)
    /\ UNCHANGED <<tableVars, listVars, arg>>

-----------------------------------------------------------------------------
(* SYS_FORK, task_fork.                                                      *)

FreeSlots == {s \in Slots : pid[s] < 0}

\* task_find_slot; with no free slot fork returns -1 and changes nothing.
SysFork(t) ==
    /\ At(t, "user") /\ "fork" \in Calls[t] /\ next_pid < MaxPid
    /\ FreeSlots # {}
    /\ arg' = [arg EXCEPT ![t] = Min(FreeSlots)]
    /\ Goto(t, "fork_clone")
    /\ UNCHANGED <<tableVars, listVars, val>>

\* paging_clone_directory and the kernel stack; fork returns -1 without memory.
ForkClone(t) ==
    /\ At(t, "fork_clone")
    /\ \/ Goto(t, "fork_pid") /\ UNCHANGED <<arg, val>>
       \/ Return(t)
    /\ UNCHANGED <<tableVars, listVars>>

\* Mutation of ForkPid: the number of tasks serves as the next pid.
ForkPidFromCount(t) == task_count < MaxPid /\ Load(t, "fork_pid", task_count, "fork_fill")

ForkPid(t) == next_pid < MaxPid /\ Load(t, "fork_pid", next_pid, "fork_fill")

\* The PCB of the child, which will continue in user code with eax = 0.
ForkFill(t) ==
    LET c == arg[t]
    IN  /\ At(t, "fork_fill")
        /\ next_pid' = val[t] + 1
        /\ pid' = [pid EXCEPT ![c] = val[t]]
        /\ parent' = [parent EXCEPT ![c] = pid[t]]
        /\ state' = [state EXCEPT ![c] = "READY"]
        /\ next' = [next EXCEPT ![c] = NULL]
        /\ pc' = [pc EXCEPT ![c] = "user", ![t] = "fork_link"]
        /\ arg' = [arg EXCEPT ![c] = NULL, ![t] = c]
        /\ val' = [val EXCEPT ![c] = NULL, ![t] = NULL]
        /\ UNCHANGED <<task_count, rq, current, cpu>>

\* enqueue_ready in two steps: link behind the tail or as head, move the tail.
LinkReady(t, at, then) ==
    /\ At(t, at)
    /\ next' = EnqueueNext(next, rq, arg[t])
    /\ rq' = [rq EXCEPT !.head = EnqueueHead(rq, arg[t])]
    /\ Goto(t, then)
    /\ UNCHANGED <<tableVars, state, current, cpu, arg, val>>

TailReady(t, at, then) ==
    /\ At(t, at)
    /\ rq' = [rq EXCEPT !.tail = arg[t]]
    /\ Goto(t, then)
    /\ UNCHANGED <<tableVars, state, next, current, cpu, arg, val>>

ForkLink(t) == LinkReady(t, "fork_link", "fork_tail")

\* Mutation of ForkTail: ready_tail is not moved.
ForkTailForgotten(t) ==
    At(t, "fork_tail") /\ Goto(t, "fork_count") /\ UNCHANGED <<tableVars, listVars, arg, val>>

ForkTail(t) == TailReady(t, "fork_tail", "fork_count")

ForkCount(t) == Load(t, "fork_count", task_count, "fork_store")

\* task_count++ is complete and fork returns the child's pid.
ForkStore(t) ==
    /\ At(t, "fork_store")
    /\ task_count' = val[t] + 1
    /\ Return(t)
    /\ UNCHANGED <<pid, parent, next_pid, listVars>>

-----------------------------------------------------------------------------
(* SYS_EXIT, task_exit.                                                      *)

SysExit(t) ==
    /\ At(t, "user") /\ "exit" \in Calls[t]
    /\ Goto(t, "exit_zombie")
    /\ UNCHANGED <<tableVars, listVars, arg, val>>

ExitZombie(t) ==
    /\ At(t, "exit_zombie")
    /\ state' = [state EXCEPT ![t] = "ZOMBIE"]
    /\ Goto(t, "exit_wake")
    /\ UNCHANGED <<tableVars, next, rq, current, cpu, arg, val>>

\* task_from_pid: the first slot with that pid.
task_from_pid(p) ==
    IF \E s \in Slots : pid[s] = p THEN Min({s \in Slots : pid[s] = p}) ELSE NULL

\* A BLOCKED parent, whatever it is blocked on, is made READY and enqueued.
ExitWake(t) ==
    LET p == IF parent[t] >= 0 THEN task_from_pid(parent[t]) ELSE NULL
    IN  /\ At(t, "exit_wake")
        /\ \/ /\ p # NULL /\ state[p] = "BLOCKED"
              /\ state' = [state EXCEPT ![p] = "READY"]
              /\ arg' = [arg EXCEPT ![t] = p]
              /\ Goto(t, "exit_link")
           \/ /\ p # NULL => state[p] # "BLOCKED"
              /\ Goto(t, "exit_switch")
              /\ UNCHANGED <<state, arg>>
        /\ UNCHANGED <<tableVars, next, rq, current, cpu, val>>

ExitLink(t) == LinkReady(t, "exit_link", "exit_tail")

ExitTail(t) == TailReady(t, "exit_tail", "exit_switch")

\* int $32; the code after it should never run.
ExitSwitch(t) ==
    /\ At(t, "exit_switch")
    /\ Goto(t, "exit_dead")
    /\ arg' = [arg EXCEPT ![t] = NULL]
    /\ scheduler_tick(state, next, rq)
    /\ UNCHANGED <<tableVars, val>>

\* "ERROR: ZOMBIE task resumed!", cli; hlt.
ExitDead(t) ==
    /\ At(t, "exit_dead")
    /\ cpu' = "zombie_resumed"
    /\ UNCHANGED <<tableVars, state, next, rq, current, pc, arg, val>>

-----------------------------------------------------------------------------
(* SYS_WAIT, task_wait.                                                      *)

\* The slots the loops of task_wait consider, for the argument p.
Children(t, p) == {c \in Slots : /\ pid[c] >= 0
                                 /\ parent[c] = pid[t]
                                 /\ p >= 0 => pid[c] = p}

SysWait(t, p) ==
    /\ At(t, "user") /\ "wait" \in Calls[t]
    /\ arg' = [arg EXCEPT ![t] = p]
    /\ Goto(t, "wait_scan")
    /\ UNCHANGED <<tableVars, listVars, val>>

\* Mutation of Zombies: the loop ends one slot early.
ZombiesButLast(t) == {c \in Children(t, arg[t]) : state[c] = "ZOMBIE" /\ c < MAX_TASKS - 1}

Zombies(t) == {c \in Children(t, arg[t]) : state[c] = "ZOMBIE"}

\* First loop: look for an exited child; from here arg is the child's slot.
WaitScan(t) ==
    LET zombies == Zombies(t)
    IN  /\ At(t, "wait_scan")
        /\ \/ /\ zombies # {}
              /\ arg' = [arg EXCEPT ![t] = Min(zombies)]
              /\ Goto(t, "wait_reap")
           \/ /\ zombies = {}
              /\ Goto(t, "wait_alive")
              /\ UNCHANGED arg
        /\ UNCHANGED <<tableVars, listVars, val>>

\* The child's stack and page directory are freed and its PCB is zeroed.
WaitReap(t) ==
    LET c == arg[t]
    IN  /\ At(t, "wait_reap")
        /\ pid' = [pid EXCEPT ![c] = 0]
        /\ parent' = [parent EXCEPT ![c] = 0]
        /\ state' = [state EXCEPT ![c] = "READY"]
        /\ next' = [next EXCEPT ![c] = NULL]
        /\ Goto(t, "wait_free")
        /\ UNCHANGED <<task_count, next_pid, rq, current, cpu, arg, val>>

WaitFree(t) ==
    /\ At(t, "wait_free")
    /\ pid' = [pid EXCEPT ![arg[t]] = -1]
    /\ Goto(t, "wait_count")
    /\ UNCHANGED <<parent, task_count, next_pid, listVars, arg, val>>

WaitCount(t) == Load(t, "wait_count", task_count, "wait_store")

\* task_count-- is complete and wait returns the child's pid.
WaitStore(t) ==
    /\ At(t, "wait_store")
    /\ task_count' = val[t] - 1
    /\ Return(t)
    /\ UNCHANGED <<pid, parent, next_pid, listVars>>

\* Second loop: has_alive; wait returns -1 when there is no living child.
\* Mutation of has_alive: a child that is itself blocked does not count.
has_runnable(t) == \E c \in Children(t, arg[t]) : state[c] \in {"READY", "RUNNING"}

has_alive(t) == \E c \in Children(t, arg[t]) : state[c] # "ZOMBIE"

WaitAlive(t) ==
    /\ At(t, "wait_alive")
    /\ \/ has_alive(t) /\ Goto(t, "wait_block") /\ UNCHANGED <<arg, val>>
       \/ ~has_alive(t) /\ Return(t)
    /\ UNCHANGED <<tableVars, listVars>>

WaitBlock(t) ==
    /\ At(t, "wait_block")
    /\ state' = [state EXCEPT ![t] = "BLOCKED"]
    /\ Goto(t, "wait_switch")
    /\ UNCHANGED <<tableVars, next, rq, current, cpu, arg, val>>

\* Mutation of WaitSwitch: the loop does not search for exited children again.
WaitSwitchNoRescan(t) ==
    /\ At(t, "wait_switch")
    /\ Goto(t, "wait_alive")
    /\ scheduler_tick(state, next, rq)
    /\ UNCHANGED <<tableVars, arg, val>>

\* int $32, then round the loop again.
WaitSwitch(t) ==
    /\ At(t, "wait_switch")
    /\ Goto(t, "wait_scan")
    /\ scheduler_tick(state, next, rq)
    /\ UNCHANGED <<tableVars, arg, val>>

-----------------------------------------------------------------------------
\* What a program decides to call, and the kernel's own steps.
ProcCall(t) == SysFork(t) \/ SysExit(t) \/ \E p \in WaitPids : SysWait(t, p)

ProcStep(t) ==
    \/ ForkClone(t) \/ ForkPid(t) \/ ForkFill(t) \/ ForkLink(t) \/ ForkTail(t)
    \/ ForkCount(t) \/ ForkStore(t)
    \/ ExitZombie(t) \/ ExitWake(t) \/ ExitLink(t) \/ ExitTail(t)
    \/ ExitSwitch(t) \/ ExitDead(t)
    \/ WaitScan(t) \/ WaitReap(t) \/ WaitFree(t) \/ WaitCount(t) \/ WaitStore(t)
    \/ WaitAlive(t) \/ WaitBlock(t) \/ WaitSwitch(t)

Next == Tick \/ \E t \in Slots : ProcCall(t) \/ ProcStep(t)

Spec == InitTable /\ [][Next]_vars

-----------------------------------------------------------------------------
(* Fairness.  The timer is periodic and its interrupt stays pending in the   *)
(* PIC until it is accepted, so a tick that keeps becoming possible happens; *)
(* a time slice is many instructions, so a task that is given the CPU again  *)
(* and again completes the kernel step it is at.  Programs owe nothing: no   *)
(* fairness is assumed of ProcCall.                                          *)

Fairness == SF_vars(Tick) /\ \A t \in Slots : SF_vars(ProcStep(t))

FairSpec == Spec /\ Fairness

-----------------------------------------------------------------------------
\* Type correctness, over the labels of this module or of one that extends it.
SchedType(labels) ==
    /\ pid \in [Slots -> -1 .. MaxPid]
    /\ parent \in [Slots -> -1 .. MaxPid]
    /\ state \in [Slots -> States]
    /\ next \in [Slots -> Slots \cup {NULL}]
    /\ rq \in Queues
    /\ current \in Slots
    /\ task_count \in Int
    /\ next_pid \in 1 .. MaxPid
    /\ cpu \in CpuStates
    /\ pc \in [Slots -> labels]
    /\ arg \in [Slots -> Int]
    /\ val \in [Slots -> Int]

\* The local variables of a system call are what its later steps take them for:
\* a task slot, or a pid that is still to be given.
ProcLocals ==
    \A t \in Slots :
        /\ pc[t] \in {"fork_clone", "fork_pid", "fork_fill", "fork_link", "fork_tail",
                      "exit_link", "exit_tail", "wait_reap", "wait_free"}
               => arg[t] \in Slots
        /\ pc[t] = "fork_fill" => val[t] \in 1 .. MaxPid - 1

\* Every variable keeps its type, PCB fields, list pointers and program places.
TypeOK == SchedType(ProcLabels)

\* Wherever ticks arrive, RUNNING is the state of the task that has the CPU and
\* of no other: the switch in scheduler_tick leaves no second RUNNING task.
RunningIsCurrent == \A t \in Slots : state[t] = "RUNNING" => t = current

\* The slots in use: a slot being zeroed by wait is already out of use.
BeingReaped == {arg[t] : t \in {u \in Slots : pc[u] = "wait_free"}}
Live == {t \in Slots : pid[t] >= 0} \ BeingReaped

\* The task a preempted system call still has to put on the ready queue.
Unlinked == {arg[t] : t \in {u \in Slots : pc[u] \in {"fork_link", "exit_link"}}}

MidEnqueue == \E t \in Slots : pc[t] \in {"fork_tail", "exit_tail"}

\* The n-th task of the list q, NULL when the list is shorter.
NthOf(q) ==
    LET nth[n \in 0 .. MAX_TASKS] ==
            IF n = 0 THEN q.head
            ELSE IF nth[n - 1] = NULL THEN NULL ELSE next[nth[n - 1]]
    IN  nth

Members(q) == {NthOf(q)[n] : n \in 0 .. MAX_TASKS} \ {NULL}

\* The list ends, and its last member is its tail.
WellFormed(q) ==
    LET nth == NthOf(q)
    IN  /\ nth[MAX_TASKS] = NULL
        /\ (q.head = NULL) = (q.tail = NULL)
        /\ \A n \in 1 .. MAX_TASKS :
               (nth[n - 1] # NULL /\ nth[n] = NULL) => nth[n - 1] = q.tail

\* Outside enqueue_ready's own two statements, the ready queue is a finite list
\* ending at ready_tail that holds exactly the READY tasks: none is forgotten,
\* and no blocked, exited or freed task can be given the CPU.
ReadyQueueExact ==
    ~MidEnqueue =>
        /\ WellFormed(rq)
        /\ Members(rq) = {t \in Live : state[t] = "READY"} \ Unlinked

\* task_count, which decides whether scheduler_tick switches at all, is the
\* number of slots in use up to the increment or decrement still to come; and fork
\* gives every task in use a pid of its own.
TableExact ==
    /\ task_count
         + Cardinality({t \in Slots : pc[t] \in {"fork_link", "fork_tail", "fork_count", "fork_store"}})
         - Cardinality({t \in Slots : pc[t] \in {"wait_free", "wait_count", "wait_store"}})
       = Cardinality(Live)
    /\ \A s, t \in Live : pid[s] = pid[t] => s = t

\* A task asleep in wait has no exited child it could collect, unless that child
\* still has the CPU and is about to wake it: no wakeup by task_exit is lost.
NoLostWakeup ==
    \A t \in Live :
        (state[t] = "BLOCKED" /\ t # current /\ pc[t] \in {"wait_scan", "wait_switch"}) =>
            \A c \in Children(t, arg[t]) : state[c] = "ZOMBIE" => c = current

\* wait returns -1 only when the caller has no child of that pid left.
NoFalseMinusOne ==
    [][\A t \in Slots :
          (pc[t] = "wait_alive" /\ pc'[t] = "user") => Children(t, arg[t]) = {}]_vars

\* An exited task is never given the CPU again, and leaves ZOMBIE only by being
\* reaped by its waiting parent: task_wait never frees a task that is still queued.
ZombieUntilReaped ==
    [][/\ cpu' # "zombie_resumed"
       /\ \A t \in Slots : (state[t] = "ZOMBIE" /\ state'[t] # "ZOMBIE") =>
             \E p \in Slots : pc[p] = "wait_reap" /\ arg[p] = t /\ pid[p] = parent[t]]_vars

\* Round robin: every READY task of the table is eventually given the CPU.
ReadyEventuallyRuns ==
    \A t \in Slots : (t \in Live /\ state[t] = "READY") ~> (state[t] = "RUNNING")

\* A task inside wait with an exited child to collect eventually returns.
WaitReturns ==
    \A t \in Slots :
        (/\ pc[t] \in {"wait_scan", "wait_alive", "wait_block", "wait_switch"}
         /\ \E c \in Children(t, arg[t]) : state[c] = "ZOMBIE")
        ~> (pc[t] = "user")
=============================================================================
