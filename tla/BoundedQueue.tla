---------------------------- MODULE BoundedQueue ----------------------------
(***************************************************************************)
(* What a bounded FIFO backing promises (the Backing interface of          *)
(* core/item.go): batches enter as a unit, within the bound or not at all; *)
(* removals take a prefix, a set of values, or everything; restored        *)
(* entries are exempt from the bound; a closed queue never changes again.  *)
(* There is no counter here: the bound is stated on the entries and the    *)
(* reservations themselves.                                                *)
(***************************************************************************)
EXTENDS Integers, FiniteSets, Sequences

CONSTANTS Procs, Items, MaxSize, Batches, Restores

VARIABLES
    queue,      \* the entries, oldest first, each marked restored or not
    reserved,   \* the batch each goroutine holds a reservation for, or <<>>
    closed

qvars == <<queue, reserved, closed>>

Admitted(q) == Cardinality({i \in 1..Len(q) : ~q[i].restored})

Slots(r) == UNION {{p} \X (1..Len(r[p])) : p \in Procs}

\* The bound on a queue q with reservations r.
Within(q, r) == MaxSize = 0 \/ Admitted(q) + Cardinality(Slots(r)) <= MaxSize

New(vs) == [i \in 1..Len(vs) |-> [val |-> vs[i], restored |-> FALSE]]

Restore(m) ==
    /\ queue = <<>>
    /\ queue' = [i \in 1..Len(m) |-> [val |-> m[i], restored |-> TRUE]]
    /\ UNCHANGED <<reserved, closed>>

Reserve(p, vs) ==
    /\ reserved[p] = <<>>
    /\ reserved' = [reserved EXCEPT ![p] = vs]
    /\ UNCHANGED <<queue, closed>>

GiveBack(p) ==
    /\ reserved[p] # <<>>
    /\ reserved' = [reserved EXCEPT ![p] = <<>>]
    /\ UNCHANGED <<queue, closed>>

Admit(vs) == queue' = queue \o New(vs) /\ UNCHANGED <<reserved, closed>>

\* A reservation turns into entries.
Fulfil(p) ==
    /\ reserved[p] # <<>>
    /\ queue' = queue \o New(reserved[p])
    /\ reserved' = [reserved EXCEPT ![p] = <<>>]
    /\ UNCHANGED closed

Take(k) ==
    /\ queue' = SubSeq(queue, k + 1, Len(queue))
    /\ UNCHANGED <<reserved, closed>>

\* The entries at the positions S, in their order.
Keep(S) ==
    \E f \in [1..Cardinality(S) -> S] :
        /\ \A i, j \in DOMAIN f : i < j => f[i] < f[j]
        /\ queue' = [i \in DOMAIN f |-> queue[f[i]]]

Delete(vs) ==
    /\ Keep({i \in 1..Len(queue) : queue[i].val \notin vs})
    /\ UNCHANGED <<reserved, closed>>

Close == closed' = TRUE /\ UNCHANGED <<queue, reserved>>

Init ==
    /\ queue = <<>>
    /\ reserved = [p \in Procs |-> <<>>]
    /\ closed = FALSE

Next ==
    \/ /\ ~closed
       /\ \/ \E m \in Restores : Restore(m)
          \/ \E vs \in Batches, p \in Procs : Reserve(p, vs) \/ Admit(vs)
          \/ \E p \in Procs : Fulfil(p)
          \/ \E k \in 1..Len(queue) : Take(k)
          \/ \E vs \in SUBSET Items : Delete(vs)
          \/ Close
       /\ Within(queue', reserved')
    \/ \E p \in Procs : GiveBack(p)

Spec == Init /\ [][Next]_qvars
=============================================================================
