----------------------------- MODULE MCCowRange -----------------------------
(* Instances of CowRange for TLC. *)
EXTENDS CowRange
=============================================================================
