-------------------------------- MODULE Cbwfq --------------------------------
(***************************************************************************)
(* The class-based weighted fair scheduler (queue/cbwfq/cbwfq.go): a set   *)
(* of class queues, one of them possibly strict-priority, drained by       *)
(* deficit weighted round robin.                                           *)
(*                                                                         *)
(* The class queues are queue.Queue values with locks of their own, so a   *)
(* Push changes a queue without holding s.mu and every Len a Pull reads    *)
(* under s.mu may be stale by its next read.  A class queue is its length: *)
(* Fifo is about what is inside it.                                        *)
(***************************************************************************)
EXTENDS Integers, FiniteSets, Sequences

CONSTANTS
    Pushers, Pullers,   \* goroutines
    Weighted,           \* the weighted classes, in round-robin order
    Weight,             \* the weight of each
    Prio,               \* the strict-priority class, or None
    Cap,                \* the maxSize of every class queue
    PullSizes,          \* the n a Pull may carry
    None

Ring == {Weighted[i] : i \in 1..Len(Weighted)}
Classes == Ring \cup ({Prio} \ {None})
Procs == Pushers \cup Pullers

ASSUME RingAssumption ==
    /\ Weighted \in Seq(Ring) /\ Weighted # <<>>
    /\ Len(Weighted) = Cardinality(Ring)
    /\ Prio \notin Ring
    /\ \A c \in Ring : Weight[c] \in Nat \ {0}
ASSUME SizesAssumption == Cap \in Nat \ {0} /\ PullSizes \subseteq Nat \ {0}
ASSUME ProcsAssumption == Pushers \cap Pullers = {} /\ IsFiniteSet(Pushers) /\ None \notin Procs

VARIABLES
    len, qclosed,       \* each class queue: its length, and whether it is closed
    mu,                 \* the holder of s.mu, or None
    cursor, deficit, pending, closed,
    waiting,            \* Pulls registered on s.sig and not yet woken
    pc, n, class,       \* per goroutine: program counter, n, chosen class
    scanned,            \* the loop counter of serveable
    cancelled,          \* the ctx of the Pull is done
    waited              \* ghost: items other weighted classes were served
                        \* since a class with a backlog was last served

queueVars == <<len, qclosed>>
schedVars == <<cursor, deficit, pending, closed>>
procVars  == <<pc, n, class, scanned, cancelled>>
vars == <<queueVars, mu, schedVars, waiting, procVars, waited>>

Goto(p, label) == pc' = [pc EXCEPT ![p] = label]

\* The items in the queues of the classes S, and how many there are in all.
ItemsIn(S) == UNION {{c} \X (1..len[c]) : c \in S}
Total == Cardinality(ItemsIn(Classes))

-----------------------------------------------------------------------------
(***************************************************************************)
(* Push: into the class queue first, then pending and the wakeup under mu. *)
(***************************************************************************)

\* queue.Push blocks while the class is full and fails once it is closed.
PushQueue(p) ==
    /\ pc[p] = "idle"
    /\ \E c \in Classes :
        /\ ~qclosed[c] /\ len[c] < Cap
        /\ len' = [len EXCEPT ![c] = @ + 1]
        /\ waited' = [waited EXCEPT ![c] = IF len[c] = 0 THEN 0 ELSE @]
    /\ Goto(p, "count")
    /\ UNCHANGED <<qclosed, mu, schedVars, waiting, n, class, scanned, cancelled>>

Settle(p, k, still) ==
    /\ pc[p] = "count" /\ mu = None
    /\ pending' = pending + k
    /\ waiting' = still
    /\ Goto(p, "idle")
    /\ UNCHANGED <<queueVars, mu, cursor, deficit, closed, n, class, scanned, cancelled, waited>>

\* Mutation: no Pull is woken for the item.
PushSilent(p) == Settle(p, 1, waiting)

\* One more item, then HasWaiters and Signal.
PushCount(p) == Settle(p, 1, {})

-----------------------------------------------------------------------------
(***************************************************************************)
(* Pull.                                                                   *)
(***************************************************************************)
Return(p) ==
    /\ Goto(p, "idle")
    /\ n' = [n EXCEPT ![p] = 0] /\ class' = [class EXCEPT ![p] = None]
    /\ cancelled' = [cancelled EXCEPT ![p] = FALSE]

Pull(p) ==
    /\ pc[p] = "idle"
    /\ \E k \in PullSizes : n' = [n EXCEPT ![p] = k]
    /\ Goto(p, "lock")
    /\ UNCHANGED <<queueVars, mu, schedVars, waiting, class, scanned, cancelled, waited>>

PullLock(p) ==
    /\ pc[p] = "lock" /\ mu = None
    /\ IF closed
       THEN Return(p) /\ UNCHANGED mu
       ELSE mu' = p /\ Goto(p, "prio") /\ UNCHANGED <<n, class, cancelled>>
    /\ UNCHANGED <<queueVars, schedVars, waiting, scanned, waited>>

\* Mutation: the priority class is chosen without looking at its Len.
PrioBlind(p) ==
    /\ pc[p] = "prio" /\ Prio # None
    /\ class' = [class EXCEPT ![p] = Prio]
    /\ Goto(p, "serve")
    /\ UNCHANGED <<queueVars, mu, schedVars, waiting, n, scanned, cancelled, waited>>

\* serveable: the priority class wins whenever its Len is positive.
CheckPrio(p) ==
    /\ pc[p] = "prio"
    /\ IF Prio # None /\ len[Prio] > 0
       THEN class' = [class EXCEPT ![p] = Prio] /\ Goto(p, "serve") /\ UNCHANGED scanned
       ELSE scanned' = [scanned EXCEPT ![p] = 0] /\ Goto(p, "scan") /\ UNCHANGED class
    /\ UNCHANGED <<queueVars, mu, schedVars, waiting, n, cancelled, waited>>

\* Mutation: the cursor stays on the class it has served.
StaysPut == UNCHANGED cursor

Advance == cursor' = (cursor % Len(Weighted)) + 1

\* A class that has used its quantum up gets a new one.
Refill(d, w) == IF d = 0 THEN w ELSE d

\* serveable: one turn of the scan, which reads one Len.
Scan(p) ==
    /\ pc[p] = "scan" /\ scanned[p] < Len(Weighted)
    /\ LET c == Weighted[cursor] IN
        IF len[c] = 0
        THEN /\ deficit' = [deficit EXCEPT ![c] = 0]
             /\ Advance
             /\ scanned' = [scanned EXCEPT ![p] = @ + 1]
             /\ UNCHANGED <<class, pc>>
        ELSE /\ deficit' = [deficit EXCEPT ![c] = Refill(@, Weight[c])]
             /\ class' = [class EXCEPT ![p] = c]
             /\ scanned' = [scanned EXCEPT ![p] = 0]
             /\ Goto(p, "serve")
             /\ UNCHANGED cursor
    /\ UNCHANGED <<queueVars, mu, pending, closed, waiting, n, cancelled, waited>>

\* Every class was found empty: register on sig, then release mu.
PullWait(p) ==
    /\ pc[p] = "scan" /\ scanned[p] = Len(Weighted)
    /\ scanned' = [scanned EXCEPT ![p] = 0]
    /\ waiting' = waiting \cup {p}
    /\ mu' = None
    /\ Goto(p, "wait")
    /\ UNCHANGED <<queueVars, schedVars, n, class, cancelled, waited>>

Least(S) == CHOOSE x \in S : \A y \in S : x <= y

\* serve: the Pop and the update of pending and deficit.  A Pop that fails
\* (its side effect or its Backup) takes nothing and returns with mu released.
ServePop(p) ==
    /\ pc[p] = "serve"
    /\ LET c == class[p]
           take == Least({n[p], len[c]} \cup (IF c = Prio THEN {} ELSE {deficit[c]}))
       IN
        \/ /\ len' = [len EXCEPT ![c] = @ - take]
           /\ pending' = pending - take
           /\ waited' = [d \in Classes |->
                            IF c = Prio THEN waited[d]
                            ELSE IF d = c \/ len[d] = 0 THEN 0 ELSE waited[d] + take]
           /\ IF c = Prio
              THEN Return(p) /\ mu' = None /\ UNCHANGED deficit
              ELSE /\ deficit' = [deficit EXCEPT ![c] = @ - take]
                   /\ Goto(p, "served")
                   /\ UNCHANGED <<mu, n, class, cancelled>>
        \/ /\ Return(p)
           /\ mu' = None
           /\ UNCHANGED <<len, pending, deficit, waited>>
    /\ UNCHANGED <<qclosed, cursor, closed, waiting, scanned>>

\* The condition of the advance: quantum used up, or a first read of Len.
ServeCheck(p) ==
    /\ pc[p] = "served"
    /\ IF deficit[class[p]] = 0 \/ len[class[p]] = 0
       THEN Goto(p, "advance") /\ UNCHANGED <<mu, n, class, cancelled>>
       ELSE Return(p) /\ mu' = None
    /\ UNCHANGED <<queueVars, schedVars, waiting, scanned, waited>>

\* The reset of the deficit is decided by a second read of Len.
ServeAdvance(p) ==
    /\ pc[p] = "advance"
    /\ deficit' = [deficit EXCEPT ![class[p]] = IF len[class[p]] = 0 THEN 0 ELSE @]
    /\ Advance
    /\ Return(p)
    /\ mu' = None
    /\ UNCHANGED <<queueVars, pending, closed, waiting, scanned, waited>>

CtxDone(p) ==
    /\ pc[p] \in {"lock", "wait"} /\ ~cancelled[p]
    /\ cancelled' = [cancelled EXCEPT ![p] = TRUE]
    /\ UNCHANGED <<queueVars, mu, schedVars, waiting, pc, n, class, scanned, waited>>

CtxWake(p) ==
    /\ p \in waiting /\ cancelled[p]
    /\ waiting' = waiting \ {p}
    /\ UNCHANGED <<queueVars, mu, schedVars, procVars, waited>>

\* sig.Wait returns: closedOrCause when the ctx is done, else another pass.
PullWoken(p) ==
    /\ pc[p] = "wait" /\ p \notin waiting
    /\ IF cancelled[p]
       THEN mu = None /\ Return(p)
       ELSE Goto(p, "lock") /\ UNCHANGED <<n, class, cancelled>>
    /\ UNCHANGED <<queueVars, mu, schedVars, waiting, scanned, waited>>

-----------------------------------------------------------------------------
(***************************************************************************)
(* Close: closed and the broadcast under mu, then the class queues.        *)
(***************************************************************************)
Closes(p, still) ==
    /\ pc[p] = "idle" /\ mu = None /\ ~closed
    /\ closed' = TRUE
    /\ waiting' = still
    /\ Goto(p, "closing")
    /\ UNCHANGED <<queueVars, mu, cursor, deficit, pending, n, class, scanned, cancelled, waited>>

\* Mutation: Close wakes nobody.
CloseSilent(p) == Closes(p, waiting)

Close(p) == Closes(p, {})

CloseQueue(p) ==
    /\ pc[p] = "closing"
    /\ \E c \in Classes :
        /\ ~qclosed[c]
        /\ qclosed' = [qclosed EXCEPT ![c] = TRUE]
        /\ Goto(p, IF \A d \in Classes \ {c} : qclosed[d] THEN "idle" ELSE "closing")
    /\ UNCHANGED <<len, mu, schedVars, waiting, n, class, scanned, cancelled, waited>>

-----------------------------------------------------------------------------
Init ==
    /\ len \in [Classes -> 0..1] /\ qclosed = [c \in Classes |-> FALSE]
    /\ mu = None
    /\ cursor = 1 /\ deficit = [c \in Ring |-> 0] /\ pending = Total /\ closed = FALSE
    /\ waiting = {}
    /\ pc = [p \in Procs |-> "idle"] /\ n = [p \in Procs |-> 0]
    /\ class = [p \in Procs |-> None] /\ scanned = [p \in Procs |-> 0]
    /\ cancelled = [p \in Procs |-> FALSE]
    /\ waited = [c \in Classes |-> 0]

PullStep(p) ==
    \/ CheckPrio(p) \/ Scan(p) \/ PullWait(p) \/ ServePop(p) \/ ServeCheck(p)
    \/ ServeAdvance(p) \/ CtxWake(p) \/ PullWoken(p)

Next ==
    \/ \E p \in Pushers : PushQueue(p) \/ PushCount(p) \/ Close(p) \/ CloseQueue(p)
    \/ \E p \in Pullers : Pull(p) \/ PullLock(p) \/ PullStep(p) \/ CtxDone(p)

\* sync.Mutex hands itself over to every waiter, hence strong fairness of the
\* steps that acquire s.mu; goroutines are scheduled, hence weak fairness.
Fairness ==
    /\ \A p \in Pushers : SF_vars(PushCount(p)) /\ WF_vars(CloseQueue(p))
    /\ \A p \in Pullers : SF_vars(PullLock(p)) /\ SF_vars(PullStep(p))

Spec == Init /\ [][Next]_vars /\ Fairness

-----------------------------------------------------------------------------
\* serve relies on the class serveable picked being non-empty: its Pop never
\* blocks with s.mu held, nor runs on a closed class queue.
PopNeverBlocks ==
    \A p \in Pullers : pc[p] = "serve" => len[class[p]] > 0 /\ ~qclosed[class[p]]

\* A Pull stays parked only while every item in the queues belongs to a Push
\* that has yet to signal; a Pull on a closed scheduler is not parked at all.
NoLostPull ==
    waiting # {} =>
        /\ ~closed
        /\ Total <= Cardinality({p \in Pushers : pc[p] = "count"})

\* One quantum of each class of S, as a set of items.
Quanta(S) == UNION {{c} \X (1..Weight[c]) : c \in S}

\* Weighted fairness: a class with a backlog is served before the others have
\* taken more than one quantum each, whatever n the Pulls ask for.
BoundedWait == \A c \in Ring : waited[c] <= Cardinality(Quanta(Ring \ {c}))

\* No Pull stays blocked while the queues stay non-empty, and Close releases
\* every Pull.
PullServed ==
    \A p \in Pullers : ~<>[](pc[p] \in {"lock", "wait"} /\ (Total > 0 \/ closed))
=============================================================================
