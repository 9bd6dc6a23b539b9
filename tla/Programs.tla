------------------------------ MODULE Programs ------------------------------
(***************************************************************************)
(* The test commands of the shell, fork_test, sem_test and msg_test        *)
(* (user/shell.c), on top of the scheduler and the IPC calls: each is a    *)
(* fixed list of system calls for the shell and for the child it forks.    *)
(*                                                                         *)
(* kernel_after_paging calls shell_main itself, so the shell runs in       *)
(* ring 0 on the stack of the boot.  task_fork gives the child a kernel    *)
(* stack that holds a copy of the parent's registers, ebp among them.  An  *)
(* iret within ring 0 loads no esp, and sys_fork, compiled without         *)
(* optimisation, ends with leave, which sets esp to ebp: from there on the *)
(* frames of the child are in the boot stack too, where the shell's are.   *)
(***************************************************************************)
EXTENDS Ipc

VARIABLES
    script,   \* the calls a task has still to make
    onBoot,   \* the tasks whose frames are in the boot stack
    spoiled   \* those of them whose frames another task has overwritten

progVars == <<allVars, script, onBoot, spoiled>>

\* A call, and for fork the calls of the child.
Call(c) == [call |-> c, child |-> <<>>]
Fork(child) == [call |-> "fork", child |-> child]

cmd_fork_test == << Fork(<<Call("exit")>>), Call("wait") >>

cmd_sem_test ==
    << Call("sem_create"), Call("sem_wait"),
       Fork(<<Call("sem_wait"), Call("sem_post"), Call("exit")>>),
       Call("sem_post"), Call("wait"), Call("sem_destroy") >>

cmd_msg_test ==
    << Call("msg_create"),
       Fork(<<Call("msg_recv"), Call("exit")>>),
       Call("msg_send"), Call("wait"), Call("msg_destroy") >>

ProgInit ==
    /\ Init
    /\ script = [t \in Slots |-> <<>>]
    /\ onBoot = {0}
    /\ spoiled = {}

-----------------------------------------------------------------------------
\* execute at the prompt: a test is started while the bounds allow its calls.
RunTest ==
    /\ At(0, "user") /\ script[0] = <<>>
    /\ next_pid < MaxPid
    /\ \E test \in {cmd_fork_test, cmd_sem_test, cmd_msg_test} :
          /\ test = cmd_sem_test => sem_count < MaxIds
          /\ test = cmd_msg_test => mq_count < MaxIds
          /\ script' = [script EXCEPT ![0] = test]
    /\ UNCHANGED <<allVars, onBoot, spoiled>>

\* The wrapper of system call c begins.  Every test makes one object at a time.
Begin(t, c) ==
    \/ /\ \/ c = "fork" /\ SysFork(t)
          \/ c = "exit" /\ SysExit(t)
          \/ c = "wait" /\ SysWait(t, -1)
       /\ UNCHANGED ipcVars
    \/ c = "sem_create" /\ SysSemCreate(t)
    \/ c = "msg_create" /\ SysMsgCreate(t)
    \/ \E id \in Ids :
          \/ c = "sem_wait" /\ SysSemWait(t, id)
          \/ c = "sem_post" /\ SysSemPost(t, id)
          \/ c = "sem_destroy" /\ SysSemDestroy(t, id)
          \/ c = "msg_recv" /\ SysMsgRecv(t, id)
          \/ c = "msg_destroy" /\ SysMsgDestroy(t, id)
          \/ c = "msg_send" /\ \E x \in Payloads, len \in SendLens : SysMsgSend(t, id, x, len)

\* The child has left sys_fork by its first call; the frames of a call overwrite
\* those that other tasks keep below the frame of the command.
ProgCall(t) ==
    LET c == Head(script[t])
        rest == [script EXCEPT ![t] = Tail(@)]
    IN  /\ script[t] # <<>>
        /\ Begin(t, c.call)
        /\ script' = IF c.call = "fork" THEN [rest EXCEPT ![arg'[t]] = c.child] ELSE rest
        /\ onBoot' = onBoot \cup {t}
        /\ spoiled' = spoiled \cup (onBoot \ {t})

\* When fork returns -1 fork_test returns at once; the others go on as parents.
AfterFailedFork(t) ==
    IF pc[t] = "fork_clone" /\ pc'[t] = "user" /\ script[t] = <<Call("wait")>>
    THEN [script EXCEPT ![t] = <<>>] ELSE script

\* A new child has its registers on a kernel stack of its own.
Forked(t) == IF pc[t] = "fork_fill" THEN {arg[t]} ELSE {}

ProgStep(t) ==
    /\ SchedStep(t) \/ IpcStep(t)
    /\ script' = AfterFailedFork(t)
    /\ onBoot' = onBoot \ Forked(t)
    /\ spoiled' = spoiled \ Forked(t)

ProgTick == SchedTick /\ UNCHANGED <<script, onBoot, spoiled>>

ProgNext == ProgTick \/ RunTest \/ \E t \in Slots : ProgCall(t) \/ ProgStep(t)

ProgSpec == ProgInit /\ [][ProgNext]_progVars

-----------------------------------------------------------------------------
\* fork copies the process (scheduler.c:252, "copy the current process"), so a
\* task that is given the CPU finds its stack as it left it.
StackKept == current \notin spoiled
=============================================================================
