------------------------------- MODULE MCSfs -------------------------------
(* Small instances of Sfs for TLC. *)
EXTENDS Sfs

Name(x, n) == [len |-> n, slash |-> FALSE, id |-> <<x>>]

\* Names of one length, one of them also written with a leading slash.
EqualNames == {Name("a", 2), Name("b", 2), [Name("a", 3) EXCEPT !.slash = TRUE]}

\* A short name and a longer one.
TwoLengths == {Name("longer", 3), Name("b", 2)}

TwoValues == {"u", "v"}

\* Power may fail anywhere, or anywhere but inside sfs_format.
AnyCrash == Labels
NotInFormat == Labels \ FormatLabels
=============================================================================
