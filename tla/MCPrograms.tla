----------------------------- MODULE MCPrograms -----------------------------
(* A small instance of Programs for TLC: the shell and one child. *)
EXTENDS Programs, MCIpc

AllCalls == [t \in Slots |-> {"fork", "exit", "wait",
                              "sem_create", "sem_wait", "sem_post", "sem_destroy",
                              "msg_create", "msg_send", "msg_recv", "msg_destroy"}]

One == {1}
=============================================================================
