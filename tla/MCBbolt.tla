------------------------------- MODULE MCBbolt ------------------------------
(* Instances of Bbolt for TLC. *)
EXTENDS Bbolt

CONSTANTS a, b

MCItems == {a, b}
NoPriority == [v \in MCItems |-> 0]
MCBatches == {<<a>>, <<b, a>>}
MCDelArgs == {{a}, {a, b}}
OneItem == {<<a>>}
MCStored == {<<>>, <<a>>}
Empty == {<<>>}

\* An indexed priority queue that loses a wakeup (README, section 6): two low
\* rows are stored, two high ones land, and Del removes the low ones.
Ranked == [v \in MCItems |-> IF v = b THEN 1 ELSE 0]
TwoLow == {<<a, a>>}
TwoHigh == {<<b, b>>}
DelLow == {{a}}

Symmetry == Permutations(Procs)
=============================================================================
