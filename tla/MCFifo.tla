------------------------------- MODULE MCFifo -------------------------------
(* Instances of Fifo for TLC. *)
EXTENDS Fifo

CONSTANTS a, b

MCBatches == {<<a>>, <<b, a>>}
MCRestores == {<<a>>, <<b, a>>}
MCDelArgs == {{a}, {b}}
MCItems == {a, b}
=============================================================================
