---------------------------- MODULE MCScheduler ----------------------------
(* Small instances of Scheduler for TLC. *)
EXTENDS Scheduler

\* init (slot 0) forks and waits but never exits, as the shell does.
InitStays == [t \in Slots |-> IF t = 0 THEN {"fork", "wait"}
                              ELSE {"fork", "exit", "wait"}]

AnyChild == {-1}

AnyOrFirst == {-1, 1}

\* The machine: a tick may arrive anywhere.
Everywhere == ProcLabels

\* No tick where it does harm.
OutsideRaces == ProcLabels \ Racy

\* One window opened at a time.
AndExitWake == OutsideRaces \cup {"exit_wake"}
AndWaitAlive == OutsideRaces \cup {"wait_alive"}
AndWaitBlock == OutsideRaces \cup {"wait_block"}
AndForkTail == OutsideRaces \cup {"fork_tail"}
=============================================================================
