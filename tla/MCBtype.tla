------------------------------ MODULE MCBtype ------------------------------
(* Instances of Btype for TLC. *)
EXTENDS Btype

MCDel    == {{4, 6}, {0, 3, 8, 9}}
MCCalls  == [m \in Restores |-> CASE m = 2 -> 5 [] m = 5 -> 4 [] m = 12 -> 3]
Symmetry == Permutations(Snaps)
=============================================================================
