----------------------------- MODULE SignalSpec -----------------------------
(***************************************************************************)
(* What core.Signal promises its users (core/signal.go): Wait registers    *)
(* the caller, Signal releases every caller registered so far, the ctx of  *)
(* a caller releases that caller alone, and a released Wait returns.       *)
(***************************************************************************)
CONSTANT Procs

VARIABLE waiter     \* "out", "waiting" or "released", per goroutine

Wait(p) == waiter[p] = "out" /\ waiter' = [waiter EXCEPT ![p] = "waiting"]

Signal ==
    waiter' = [p \in Procs |-> IF waiter[p] = "waiting" THEN "released" ELSE waiter[p]]

Cancel(p) == waiter[p] = "waiting" /\ waiter' = [waiter EXCEPT ![p] = "released"]

Return(p) == waiter[p] = "released" /\ waiter' = [waiter EXCEPT ![p] = "out"]

Init == waiter = [p \in Procs |-> "out"]

Next == Signal \/ \E p \in Procs : Wait(p) \/ Cancel(p) \/ Return(p)

Spec == Init /\ [][Next]_waiter /\ \A p \in Procs : WF_waiter(Return(p))
=============================================================================
