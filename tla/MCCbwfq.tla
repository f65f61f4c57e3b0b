------------------------------- MODULE MCCbwfq -------------------------------
(* Instances of Cbwfq for TLC. *)
EXTENDS Cbwfq
CONSTANTS x, y, z
MCWeighted == <<x, y>>
MCWeight == [c \in {x, y} |-> IF c = x THEN 2 ELSE 1]
=============================================================================
