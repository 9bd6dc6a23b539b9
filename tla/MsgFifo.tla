------------------------------ MODULE MsgFifo ------------------------------
(***************************************************************************)
(* What the message queues of kernel/ipc.c promise, without rings, indices *)
(* or wait lists: each queue is a bounded FIFO sequence of messages.  A    *)
(* send appends one message, a receive hands the oldest message to one     *)
(* task and removes it, creating or destroying a queue empties it.         *)
(***************************************************************************)
EXTENDS Naturals, Sequences

CONSTANTS Queue, Task, Message, None, Capacity

VARIABLES
    fifo,    \* fifo[m]: the messages queued in m, oldest first
    inbox    \* inbox[t]: the message task t last received

Init ==
    /\ fifo = [m \in Queue |-> <<>>]
    /\ inbox = [t \in Task |-> None]

Send(m) ==
    /\ Len(fifo[m]) < Capacity
    /\ \E x \in Message : fifo' = [fifo EXCEPT ![m] = Append(@, x)]
    /\ UNCHANGED inbox

Receive(m, t) ==
    /\ fifo[m] # <<>>
    /\ inbox' = [inbox EXCEPT ![t] = Head(fifo[m])]
    /\ fifo' = [fifo EXCEPT ![m] = Tail(@)]

Reset(m) ==
    /\ fifo' = [fifo EXCEPT ![m] = <<>>]
    /\ UNCHANGED inbox

Next == \E m \in Queue : Send(m) \/ Reset(m) \/ \E t \in Task : Receive(m, t)

Spec == Init /\ [][Next]_<<fifo, inbox>>
=============================================================================
