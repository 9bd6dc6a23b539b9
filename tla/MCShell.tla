------------------------------ MODULE MCShell ------------------------------
(* A small instance of Shell for TLC. *)
EXTENDS Shell

\* The line buffer is not initialised; some byte of it is NUL, here the last.
EndsInNul == {[i \in 0 .. LINE - 1 |-> IF i = LINE - 1 THEN "0" ELSE "a"]}

\* Any bytes at all.
AnyBytes == [0 .. LINE - 1 -> {"a", "0"}]

AAndSpace == {"a", " "}
=============================================================================
