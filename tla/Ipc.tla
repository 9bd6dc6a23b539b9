-------------------------------- MODULE Ipc --------------------------------
(***************************************************************************)
(* Semaphores and message queues (kernel/ipc.c) on top of the scheduler.   *)
(*                                                                         *)
(* A system call looks its object up with interrupts on, keeps a pointer   *)
(* (arg: the slot of sem_table or mq_table), and then works between cli    *)
(* and sti.  Everything between cli and sti is one atomic step, and so is  *)
(* the pair sti; int $32, because sti takes effect only after the next     *)
(* instruction.  The loops of the destroy calls are one step per iteration *)
(* at labels where no tick can arrive.                                     *)
(*                                                                         *)
(* Wait queues thread the same PCB field next as the ready queue.          *)
(***************************************************************************)
EXTENDS Scheduler, Sequences

CONSTANTS
    Family,         \* tasks alive in the initial state
    MAX_SEMS, MAX_MSGQUEUES, MSGQUEUE_SIZE, MSG_MAX_DATA,
    MaxIds,         \* bound: create is not called once so many ids were given
    MaxValue,       \* bound on the value of a semaphore
    SemInits,       \* initial values passed to sem_create
    Payloads,       \* message contents
    SendLens        \* message lengths passed to msg_queue_send

Sems == 0 .. MAX_SEMS - 1
Mqs  == 0 .. MAX_MSGQUEUES - 1
Ring == 0 .. MSGQUEUE_SIZE - 1
Ids  == 0 .. MaxIds - 1

ASSUME IpcAssumption ==
    /\ Family \in 1 .. MAX_TASKS /\ Family <= MaxPid
    /\ MAX_SEMS \in Nat /\ MAX_MSGQUEUES \in Nat /\ MSGQUEUE_SIZE \in Nat \ {0}
    /\ MSG_MAX_DATA \in Nat /\ MaxIds \in Nat /\ MaxValue \in Nat
    /\ SemInits \subseteq Int /\ (\A v \in SemInits : v <= MaxValue)
    /\ SendLens \subseteq Nat

VARIABLES
    sem,         \* sem_table
    sem_count,
    mq,          \* mq_table
    mq_count,
    buf,         \* the message a task is sending
    got,         \* the message a task last received
    credit       \* history: initial value + posts - successful waits (see Charge)

ipcVars == <<sem, sem_count, mq, mq_count, buf, got, credit>>
allVars == <<vars, ipcVars>>

\* Interrupts are off at these labels.
CliLabels == {"sd_loop", "md_recv", "md_send"}

IpcLabels == {"sc_load", "sc_id", "sc_fill", "sw_cli", "sw_woken", "sp_cli",
              "mc_load", "mc_id", "mc_fill", "ms_cli", "mr_cli"}

Labels == ProcLabels \cup IpcLabels \cup CliLabels

ASSUME PreemptAssumption == PreemptAt \subseteq Labels \ CliLabels

Messages == [data : Payloads, len : 0 .. MSG_MAX_DATA]
NoMessage == [data |-> "none", len |-> 0]

-----------------------------------------------------------------------------
(* A family of tasks that init has forked, queued in slot order, is the      *)
(* table that Family - 1 undisturbed forks leave; the IPC tables are empty.  *)

InitFamily ==
    /\ pid = [t \in Slots |-> IF t < Family THEN t ELSE -1]
    /\ parent = [t \in Slots |-> IF t = 0 THEN -1 ELSE 0]
    /\ state = [t \in Slots |-> IF t = 0 THEN "RUNNING" ELSE "READY"]
    /\ next = [t \in Slots |-> IF t > 0 /\ t + 1 < Family THEN t + 1 ELSE NULL]
    /\ rq = IF Family = 1 THEN EmptyQueue ELSE [head |-> 1, tail |-> Family - 1]
    /\ current = 0
    /\ task_count = Family
    /\ next_pid = Family
    /\ cpu = "run"
    /\ pc = [t \in Slots |-> "user"]
    /\ arg = [t \in Slots |-> NULL]
    /\ val = [t \in Slots |-> NULL]

\* ipc_init: every id is -1, the rest of the tables is zeroed memory.
EmptyTables ==
    /\ sem = [s \in Sems |-> [id |-> -1, value |-> 0, q |-> EmptyQueue]]
    /\ mq = [m \in Mqs |-> [id |-> -1, msgs |-> [i \in Ring |-> NoMessage],
                            head |-> 0, tail |-> 0, count |-> 0,
                            recvq |-> EmptyQueue, sendq |-> EmptyQueue]]
    /\ buf = [t \in Slots |-> NoMessage]
    /\ got = [t \in Slots |-> NoMessage]
    /\ credit = [s \in Sems |-> 0]

InitIpc == EmptyTables /\ sem_count = 0 /\ mq_count = 0

Init == InitFamily /\ InitIpc

-----------------------------------------------------------------------------
(* Steps the calls share.                                                    *)

\* The system call begins: it will go on at l, working on slot s of a table.
Enter(t, l, s) ==
    /\ Goto(t, l)
    /\ arg' = [arg EXCEPT ![t] = s]
    /\ UNCHANGED <<tableVars, listVars, val>>

\* task_block, append to the wait queue q, int $32; t continues at l.
BlockOn(t, q, l) ==
    /\ scheduler_tick([state EXCEPT ![t] = "BLOCKED"], EnqueueNext(next, q, t), rq)
    /\ Goto(t, l)
    /\ UNCHANGED <<tableVars, arg, val>>

\* Mutation of WakeFirst: the task is not made READY.
WakeFirstStillBlocked(q) ==
    \/ q.head = NULL /\ UNCHANGED <<state, next, rq>>
    \/ /\ q.head # NULL
       /\ next' = EnqueueNext(DequeueNext(next, q), rq, q.head)
       /\ rq' = EnqueueQ(rq, q.head)
       /\ UNCHANGED state

\* Pop the first task of the wait queue q, if there is one, and task_wake it.
WakeFirst(q) ==
    \/ /\ q.head = NULL
       /\ UNCHANGED <<state, next, rq>>
    \/ /\ q.head # NULL
       /\ state' = [state EXCEPT ![q.head] = "READY"]
       /\ next' = EnqueueNext(DequeueNext(next, q), rq, q.head)
       /\ rq' = EnqueueQ(rq, q.head)

Popped(q) == IF q.head = NULL THEN q ELSE DequeueQ(next, q)

\* The free slot of a table that a create call picks, the slot an id names.
FreeOf(table) == {i \in DOMAIN table : table[i].id < 0}
SlotsOf(table, id) == {i \in DOMAIN table : table[i].id = id}

-----------------------------------------------------------------------------
(* Semaphores.                                                               *)

\* Bookkeeping of credit; once a wait succeeded without a unit it stays at -1.
Charge(s, n) == credit' = [credit EXCEPT ![s] = IF @ < 0 THEN @ ELSE @ + n]

\* sem_find_slot; with no free slot sem_create returns -1 and changes nothing.
SysSemCreate(t) ==
    /\ At(t, "user") /\ "sem_create" \in Calls[t]
    /\ FreeOf(sem) # {} /\ sem_count < MaxIds
    /\ Enter(t, "sc_load", Min(FreeOf(sem)))
    /\ UNCHANGED ipcVars

SemCreateLoad(t) ==
    sem_count < MaxIds /\ Load(t, "sc_load", sem_count, "sc_id") /\ UNCHANGED ipcVars

\* id = sem_count++ is complete: the semaphore can be found before it is ready.
SemCreateId(t) ==
    /\ At(t, "sc_id")
    /\ sem' = [sem EXCEPT ![arg[t]].id = val[t]]
    /\ sem_count' = val[t] + 1
    /\ Goto(t, "sc_fill")
    /\ UNCHANGED <<tableVars, listVars, arg, val, mq, mq_count, buf, got, credit>>

StartValue(initial) == IF initial < 0 THEN 0 ELSE initial

SemCreateFill(t, initial) ==
    LET v == StartValue(initial)
    IN  /\ At(t, "sc_fill")
        /\ sem' = [sem EXCEPT ![arg[t]].value = v, ![arg[t]].q = EmptyQueue]
        /\ credit' = [credit EXCEPT ![arg[t]] = v]
        /\ Return(t)
        /\ UNCHANGED <<tableVars, listVars, sem_count, mq, mq_count, buf, got>>

\* sem_wait and sem_post look the id up before cli; an unknown id returns -1.
SysSemWait(t, id) ==
    /\ At(t, "user") /\ "sem_wait" \in Calls[t]
    /\ id < sem_count /\ SlotsOf(sem, id) # {}
    /\ Enter(t, "sw_cli", Min(SlotsOf(sem, id)))
    /\ UNCHANGED ipcVars

\* Take a unit, or block in the semaphore's wait queue.
SemWaitCli(t) ==
    LET s == arg[t]
    IN  /\ At(t, "sw_cli")
        /\ \/ /\ sem[s].value > 0
              /\ sem' = [sem EXCEPT ![s].value = @ - 1]
              /\ Charge(s, -1)
              /\ Return(t)
              /\ UNCHANGED <<tableVars, listVars>>
           \/ /\ sem[s].value <= 0
              /\ sem' = [sem EXCEPT ![s].q = EnqueueQ(@, t)]
              /\ BlockOn(t, sem[s].q, "sw_woken")
              /\ UNCHANGED credit
        /\ UNCHANGED <<sem_count, mq, mq_count, buf, got>>

\* After int $32 sem_wait returns 0 without looking at the semaphore again.
SemWaitWoken(t) ==
    /\ At(t, "sw_woken")
    /\ Charge(arg[t], -1)
    /\ Return(t)
    /\ UNCHANGED <<tableVars, listVars, sem, sem_count, mq, mq_count, buf, got>>

SysSemPost(t, id) ==
    /\ At(t, "user") /\ "sem_post" \in Calls[t]
    /\ id < sem_count /\ SlotsOf(sem, id) # {}
    /\ Enter(t, "sp_cli", Min(SlotsOf(sem, id)))
    /\ UNCHANGED ipcVars

\* Mutations of Posted: a waiter is woken and the unit is counted as well; the
\* unit is counted and the woken task stays in the wait queue.
PostedTwice(s) == [s EXCEPT !.q = Popped(@), !.value = @ + 1]
PostedNotPopped(s) == [s EXCEPT !.value = @ + 1]

\* The unit goes to the first waiter, or is counted.
Posted(s) == IF s.q.head # NULL THEN [s EXCEPT !.q = Popped(@)]
                                ELSE [s EXCEPT !.value = @ + 1]

SemPostCli(t) ==
    LET s == arg[t]
    IN  /\ At(t, "sp_cli")
        /\ sem[s].value < MaxValue
        /\ sem' = [sem EXCEPT ![s] = Posted(@)]
        /\ WakeFirst(sem[s].q)
        /\ Charge(s, 1)
        /\ Return(t)
        /\ UNCHANGED <<tableVars, current, cpu, sem_count, mq, mq_count, buf, got>>

\* sem_destroy searches with interrupts off; an unknown id returns -1.
SysSemDestroy(t, id) ==
    /\ At(t, "user") /\ "sem_destroy" \in Calls[t]
    /\ SlotsOf(sem, id) # {}
    /\ Enter(t, "sd_loop", Min(SlotsOf(sem, id)))
    /\ UNCHANGED ipcVars

SemDestroyWake(t) ==
    LET s == arg[t]
    IN  /\ At(t, "sd_loop")
        /\ sem[s].q.head # NULL
        /\ sem' = [sem EXCEPT ![s].q.head = next[@]]
        /\ WakeFirst(sem[s].q)
        /\ UNCHANGED <<tableVars, current, cpu, pc, arg, val,
                       sem_count, mq, mq_count, buf, got, credit>>

SemDestroyFree(t) ==
    LET s == arg[t]
    IN  /\ At(t, "sd_loop")
        /\ sem[s].q.head = NULL
        /\ sem' = [sem EXCEPT ![s] = [id |-> -1, value |-> 0, q |-> EmptyQueue]]
        /\ credit' = [credit EXCEPT ![s] = 0]
        /\ Return(t)
        /\ UNCHANGED <<tableVars, listVars, sem_count, mq, mq_count, buf, got>>

-----------------------------------------------------------------------------
(* Message queues.                                                           *)

SysMsgCreate(t) ==
    /\ At(t, "user") /\ "msg_create" \in Calls[t]
    /\ FreeOf(mq) # {} /\ mq_count < MaxIds
    /\ Enter(t, "mc_load", Min(FreeOf(mq)))
    /\ UNCHANGED ipcVars

MsgCreateLoad(t) ==
    mq_count < MaxIds /\ Load(t, "mc_load", mq_count, "mc_id") /\ UNCHANGED ipcVars

MsgCreateId(t) ==
    /\ At(t, "mc_id")
    /\ mq' = [mq EXCEPT ![arg[t]].id = val[t]]
    /\ mq_count' = val[t] + 1
    /\ Goto(t, "mc_fill")
    /\ UNCHANGED <<tableVars, listVars, arg, val, sem, sem_count, buf, got, credit>>

\* The ring and both wait queues are emptied; old message bytes stay in msgs.
Emptied(i, m) == [id |-> i, msgs |-> m.msgs, head |-> 0, tail |-> 0, count |-> 0,
                  recvq |-> EmptyQueue, sendq |-> EmptyQueue]

MsgCreateFill(t) ==
    /\ At(t, "mc_fill")
    /\ mq' = [mq EXCEPT ![arg[t]] = Emptied(@.id, @)]
    /\ Return(t)
    /\ UNCHANGED <<tableVars, listVars, sem, sem_count, mq_count, buf, got, credit>>

\* The length is clamped before cli; NoClamp is the mutation of Clamp.
NoClamp(len) == len

Clamp(len) == IF len > MSG_MAX_DATA THEN MSG_MAX_DATA ELSE len

SysMsgSend(t, id, x, len) ==
    /\ At(t, "user") /\ "msg_send" \in Calls[t]
    /\ SlotsOf(mq, id) # {}
    /\ Enter(t, "ms_cli", Min(SlotsOf(mq, id)))
    /\ buf' = [buf EXCEPT ![t] = [data |-> x, len |-> Clamp(len)]]
    /\ UNCHANGED <<sem, sem_count, mq, mq_count, got, credit>>

\* The queue after the message x is written at tail, and its first receiver woken.
Pushed(m, x) == [m EXCEPT !.msgs[m.tail] = x,
                          !.tail = (@ + 1) % MSGQUEUE_SIZE,
                          !.count = @ + 1,
                          !.recvq = Popped(@)]

\* Mutation of MsgSendCli: no receiver is woken.
MsgSendSilent(t) ==
    LET m == arg[t]
    IN  /\ At(t, "ms_cli")
        /\ \/ /\ mq[m].count >= MSGQUEUE_SIZE
              /\ mq' = [mq EXCEPT ![m].sendq = EnqueueQ(@, t)]
              /\ BlockOn(t, mq[m].sendq, "ms_cli")
              /\ UNCHANGED buf
           \/ /\ mq[m].count < MSGQUEUE_SIZE
              /\ mq' = [mq EXCEPT ![m] = [Pushed(@, buf[t]) EXCEPT !.recvq = mq[m].recvq]]
              /\ buf' = [buf EXCEPT ![t] = NoMessage]
              /\ Return(t)
              /\ UNCHANGED <<tableVars, listVars>>
        /\ UNCHANGED <<sem, sem_count, mq_count, got, credit>>

\* While the queue is full, block; then write the message and wake a receiver.
MsgSendCli(t) ==
    LET m == arg[t]
    IN  /\ At(t, "ms_cli")
        /\ \/ /\ mq[m].count >= MSGQUEUE_SIZE
              /\ mq' = [mq EXCEPT ![m].sendq = EnqueueQ(@, t)]
              /\ BlockOn(t, mq[m].sendq, "ms_cli")
              /\ UNCHANGED buf
           \/ /\ mq[m].count < MSGQUEUE_SIZE
              /\ mq' = [mq EXCEPT ![m] = Pushed(@, buf[t])]
              /\ WakeFirst(mq[m].recvq)
              /\ buf' = [buf EXCEPT ![t] = NoMessage]
              /\ Return(t)
              /\ UNCHANGED <<tableVars, current, cpu>>
        /\ UNCHANGED <<sem, sem_count, mq_count, got, credit>>

SysMsgRecv(t, id) ==
    /\ At(t, "user") /\ "msg_recv" \in Calls[t]
    /\ SlotsOf(mq, id) # {}
    /\ Enter(t, "mr_cli", Min(SlotsOf(mq, id)))
    /\ UNCHANGED ipcVars

\* Mutation of Oldest: the message written last is read.
Newest(m) == m.msgs[(m.tail + MSGQUEUE_SIZE - 1) % MSGQUEUE_SIZE]

Oldest(m) == m.msgs[m.head]

\* Mutation of Pulled: count is not decremented.
PulledNotCounted(m) == [m EXCEPT !.head = (@ + 1) % MSGQUEUE_SIZE, !.sendq = Popped(@)]

\* The queue after the message at head is read, and its first sender woken.
Pulled(m) == [m EXCEPT !.head = (@ + 1) % MSGQUEUE_SIZE,
                       !.count = @ - 1,
                       !.sendq = Popped(@)]

\* While the queue is empty, block; then read a message and wake a sender.
MsgRecvCli(t) ==
    LET m == arg[t]
    IN  /\ At(t, "mr_cli")
        /\ \/ /\ mq[m].count <= 0
              /\ mq' = [mq EXCEPT ![m].recvq = EnqueueQ(@, t)]
              /\ BlockOn(t, mq[m].recvq, "mr_cli")
              /\ UNCHANGED got
           \/ /\ mq[m].count > 0
              /\ got' = [got EXCEPT ![t] = Oldest(mq[m])]
              /\ mq' = [mq EXCEPT ![m] = Pulled(@)]
              /\ WakeFirst(mq[m].sendq)
              /\ Return(t)
              /\ UNCHANGED <<tableVars, current, cpu>>
        /\ UNCHANGED <<sem, sem_count, mq_count, buf, credit>>

SysMsgDestroy(t, id) ==
    /\ At(t, "user") /\ "msg_destroy" \in Calls[t]
    /\ SlotsOf(mq, id) # {}
    /\ Enter(t, "md_recv", Min(SlotsOf(mq, id)))
    /\ UNCHANGED ipcVars

\* Wake the receivers one by one, then the senders, then free the slot.
MsgDestroyRecv(t) ==
    LET m == arg[t]
    IN  /\ At(t, "md_recv")
        /\ WakeFirst(mq[m].recvq)
        /\ \/ /\ mq[m].recvq.head # NULL
              /\ mq' = [mq EXCEPT ![m].recvq.head = next[@]]
              /\ UNCHANGED pc
           \/ /\ mq[m].recvq.head = NULL
              /\ mq' = [mq EXCEPT ![m].recvq = EmptyQueue]
              /\ Goto(t, "md_send")
        /\ UNCHANGED <<tableVars, current, cpu, arg, val,
                       sem, sem_count, mq_count, buf, got, credit>>

MsgDestroySend(t) ==
    LET m == arg[t]
    IN  /\ At(t, "md_send")
        /\ mq[m].sendq.head # NULL
        /\ WakeFirst(mq[m].sendq)
        /\ mq' = [mq EXCEPT ![m].sendq.head = next[@]]
        /\ UNCHANGED <<tableVars, current, cpu, pc, arg, val,
                       sem, sem_count, mq_count, buf, got, credit>>

MsgDestroyFree(t) ==
    LET m == arg[t]
    IN  /\ At(t, "md_send")
        /\ mq[m].sendq.head = NULL
        /\ mq' = [mq EXCEPT ![m] = Emptied(-1, @)]
        /\ Return(t)
        /\ UNCHANGED <<tableVars, listVars, sem, sem_count, mq_count, buf, got, credit>>

-----------------------------------------------------------------------------
IpcCall(t) ==
    \/ SysSemCreate(t) \/ SysMsgCreate(t)
    \/ \E id \in Ids :
          \/ SysSemWait(t, id) \/ SysSemPost(t, id) \/ SysSemDestroy(t, id)
          \/ SysMsgRecv(t, id) \/ SysMsgDestroy(t, id)
          \/ \E x \in Payloads, len \in SendLens : SysMsgSend(t, id, x, len)

IpcStep(t) ==
    \/ SemCreateLoad(t) \/ SemCreateId(t)
    \/ \E v \in SemInits : SemCreateFill(t, v)
    \/ SemWaitCli(t) \/ SemWaitWoken(t) \/ SemPostCli(t)
    \/ SemDestroyWake(t) \/ SemDestroyFree(t)
    \/ MsgCreateLoad(t) \/ MsgCreateId(t) \/ MsgCreateFill(t)
    \/ MsgSendCli(t) \/ MsgRecvCli(t)
    \/ MsgDestroyRecv(t) \/ MsgDestroySend(t) \/ MsgDestroyFree(t)

\* A step of the scheduler leaves the IPC tables alone.
SchedTick == Tick /\ UNCHANGED ipcVars
SchedCall(t) == ProcCall(t) /\ UNCHANGED ipcVars
SchedStep(t) == ProcStep(t) /\ UNCHANGED ipcVars

IpcNext == \/ SchedTick
           \/ \E t \in Slots : SchedCall(t) \/ SchedStep(t) \/ IpcCall(t) \/ IpcStep(t)

IpcSpec == Init /\ [][IpcNext]_allVars

IpcFairness == SF_allVars(SchedTick) /\ \A t \in Slots : SF_allVars(SchedStep(t) \/ IpcStep(t))

-----------------------------------------------------------------------------
\* Every variable of the scheduler and of the IPC tables keeps its type.
IpcTypeOK ==
    /\ SchedType(Labels)
    /\ sem \in [Sems -> [id : -1 .. MaxIds, value : 0 .. MaxValue, q : Queues]]
    /\ mq \in [Mqs -> [id : -1 .. MaxIds,
                       msgs : [Ring -> Messages \cup {NoMessage}],
                       head : Ring, tail : Ring, count : Int,
                       recvq : Queues, sendq : Queues]]
    /\ sem_count \in 0 .. MaxIds /\ mq_count \in 0 .. MaxIds
    /\ buf \in [Slots -> Messages \cup {NoMessage}]
    /\ got \in [Slots -> Messages \cup {NoMessage}]
    /\ credit \in [Sems -> Int]

\* The local variables of an IPC call: the slot its lookup found, the id it loaded,
\* the message it sends.
IpcLocals ==
    \A t \in Slots :
        /\ pc[t] \in {"sc_load", "sc_id", "sc_fill", "sw_cli", "sw_woken", "sp_cli", "sd_loop"}
               => arg[t] \in Sems
        /\ pc[t] \in {"mc_load", "mc_id", "mc_fill", "ms_cli", "mr_cli", "md_recv", "md_send"}
               => arg[t] \in Mqs
        /\ pc[t] \in {"sc_id", "mc_id"} => val[t] \in 0 .. MaxIds - 1
        /\ pc[t] = "ms_cli" => buf[t] \in Messages

\* Wherever ticks arrive and whatever else is called, the ring of a queue is in
\* order: count is within bounds and tail is count places after head, so a send
\* never overwrites an unread message and a receive never reads an old one.
RingInOrder ==
    \A m \in Mqs :
        /\ mq[m].count \in 0 .. MSGQUEUE_SIZE
        /\ mq[m].tail = (mq[m].head + mq[m].count) % MSGQUEUE_SIZE

\* A semaphore with units has no waiter: sem_post and sem_wait never leave a
\* task waiting for a unit that is there.
NoWaiterWithUnits == \A s \in Sems : sem[s].value > 0 => sem[s].q.head = NULL

\* The waiters of a queue are exactly the tasks that block on it.
SemWaiters(s) == {t \in Live : pc[t] = "sw_woken" /\ arg[t] = s /\ state[t] = "BLOCKED"}
SemGranted(s) == {t \in Live : pc[t] = "sw_woken" /\ arg[t] = s /\ state[t] # "BLOCKED"}

BeingDestroyed(s) == \E t \in Slots : pc[t] = "sd_loop" /\ arg[t] = s

\* Units are conserved: initial value plus posts minus successful waits is what
\* the semaphore still has plus what sem_post handed to waiters not yet run; and
\* the wait queue is a list of exactly the tasks blocked on the semaphore, until
\* the semaphore is destroyed.
SemAccounting ==
    \A s \in {u \in Sems : sem[u].id # -1 /\ ~BeingDestroyed(u)} :
        /\ credit[s] = sem[s].value + Cardinality(SemGranted(s))
        /\ WellFormed(sem[s].q)
        /\ Members(sem[s].q) = SemWaiters(s)

MqBlocked(m, l) == {t \in Live : pc[t] = l /\ arg[t] = m /\ state[t] = "BLOCKED"}
MqPending(m, l) == {t \in Live : pc[t] = l /\ arg[t] = m /\ state[t] # "BLOCKED"}

\* A receiver sleeps only while every message already has an awake receiver coming
\* for it, a sender only while every free place has an awake sender; and the wait
\* queues list exactly the tasks that sleep: no wakeup of ipc.c is lost.
NoLostMessageWakeup ==
    \A m \in Mqs :
        /\ MqBlocked(m, "mr_cli") # {} =>
               mq[m].count <= Cardinality(MqPending(m, "mr_cli"))
        /\ MqBlocked(m, "ms_cli") # {} =>
               MSGQUEUE_SIZE - mq[m].count <= Cardinality(MqPending(m, "ms_cli"))
        /\ WellFormed(mq[m].recvq) /\ Members(mq[m].recvq) = MqBlocked(m, "mr_cli")
        /\ WellFormed(mq[m].sendq) /\ Members(mq[m].sendq) = MqBlocked(m, "ms_cli")

\* While tasks are in msg_queue_recv, the oldest message of the queue does not stay:
\* one of them eventually takes it.
MessageGetsThrough ==
    \A m \in Mqs, h \in Ring :
        (mq[m].head = h /\ mq[m].count > 0 /\ \E t \in Live : pc[t] = "mr_cli" /\ arg[t] = m)
        ~> (mq[m].head # h \/ ~\E t \in Live : pc[t] = "mr_cli" /\ arg[t] = m)

\* The messages of a queue in the order in which they will be received.
Queued(m) ==
    [i \in 1 .. mq[m].count |-> mq[m].msgs[(mq[m].head + i - 1) % MSGQUEUE_SIZE]]

Fifo == INSTANCE MsgFifo WITH
            Queue <- Mqs, Task <- Slots, None <- NoMessage,
            Message <- Messages, Capacity <- MSGQUEUE_SIZE,
            fifo <- [m \in Mqs |-> Queued(m)], inbox <- got

\* The rings implement bounded FIFO queues of messages of at most MSG_MAX_DATA
\* bytes: each message is received once, by one task, in the order sent.
RefinesFifo == Fifo!Spec
=============================================================================
