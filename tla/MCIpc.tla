------------------------------- MODULE MCIpc -------------------------------
(* Small instances of Ipc for TLC. *)
EXTENDS Ipc

\* init stays at the prompt; the other tasks make the calls named.
Workers(calls) == [t \in Slots |-> IF t = 0 THEN {} ELSE calls]

\* Three tasks that use one semaphore, or one queue, while init stays at the prompt.
Work == Workers({"sem_create", "sem_wait", "sem_post", "sem_destroy",
                 "msg_create", "msg_send", "msg_recv"})

\* All ids of the other kind are spent: such objects were made and destroyed before.
InitSpent ==
    /\ InitFamily /\ EmptyTables
    /\ \/ sem_count = 0 /\ mq_count = MaxIds
       \/ sem_count = MaxIds /\ mq_count = 0

WorkSpec == InitSpent /\ [][IpcNext]_allVars /\ IpcFairness

\* Everything at once: tasks exit and wait while they use message queues.
MsgChaos == [t \in Slots |-> {"wait", "msg_create", "msg_send", "msg_recv", "msg_destroy"}
                              \cup IF t = 0 THEN {} ELSE {"exit"}]

\* Every task, init included, may sleep on a semaphore: scheduler_tick then lets the
\* last one continue without a unit, and SemAccounting fails.
AllSleep == [t \in Slots |-> {"sem_create", "sem_wait", "sem_post"}]

NoPids == {-1}
Binary == {0, 1}
NegativeOrOne == {-1, 1}
OneMessage == {"a"}
WithinLen == {1}
LongLen == {1, 3}

Everywhere == Labels \ CliLabels

\* The windows inside the create calls, which search and count with interrupts on.
CreateRaces == {"sc_load", "sc_id", "sc_fill", "mc_load", "mc_id", "mc_fill"}

OutsideRaces == Labels \ (CliLabels \cup CreateRaces \cup Racy)
=============================================================================
