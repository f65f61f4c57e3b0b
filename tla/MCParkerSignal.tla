--------------------------- MODULE MCParkerSignal ---------------------------
(* The instance of ParkerSignal that TLC checks. *)
EXTENDS ParkerSignal
=============================================================================
