------------------------------ MODULE MCInput ------------------------------
(* Small instances of Input for TLC. *)
EXTENDS Input

\* A packet whose displacements look like first bytes, and an overflow packet.
SomePackets == {[id |-> "move", ovf |-> FALSE, bit3 |-> TRUE, top |-> FALSE],
                [id |-> "far", ovf |-> TRUE, bit3 |-> FALSE, top |-> TRUE]}

\* A letter and a key that changes its case.
SomeKeys == {"a", "lshift"}

OneReader == {"shell"}
TwoReaders == {"shell", "child"}
Lengths == {2}
=============================================================================
