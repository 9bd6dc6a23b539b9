----------------------------- MODULE MCKmalloc -----------------------------
(* Small instances of Kmalloc for TLC. *)
EXTENDS Kmalloc

OneCaller == {"task"}
TwoCallers == {"task", "timer"}

\* Blocks of 16, 24 and 40 bytes.
SomeSizes == {0, 5, 16, 32}
WrappingSizes == {5, 252}

\* A word that looks like the tag of a free block.
Tags == {24}
=============================================================================
