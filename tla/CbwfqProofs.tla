---------------------------- MODULE CbwfqProofs ----------------------------
(***************************************************************************)
(* What the scheduler guarantees for every set of classes, weights, queue  *)
(* sizes and goroutines, proved from an inductive invariant.               *)
(***************************************************************************)
EXTENDS Cbwfq, FiniteSetTheorems, FunctionTheorems, TLAPS

PullerLabels == {"idle", "lock", "prio", "scan", "serve", "served", "advance", "wait"}

\* The program counters at which a Pull holds s.mu.
Inside == {"prio", "scan", "serve", "served", "advance"}

Types ==
    /\ len \in [Classes -> Nat] /\ qclosed \in [Classes -> BOOLEAN] /\ closed \in BOOLEAN
    /\ cursor \in 1..Len(Weighted) /\ deficit \in [Ring -> Nat]
    /\ pc \in [Procs -> {"count", "closing"} \cup PullerLabels]
    /\ \A p \in Pushers : pc[p] \in {"idle", "count", "closing"}
    /\ \A p \in Pullers : pc[p] \in PullerLabels
    /\ n \in [Procs -> Nat] /\ class \in [Procs -> Classes \cup {None}]
    /\ scanned \in [Procs -> 0..Len(Weighted)]
    /\ mu \in Pullers \cup {None}

-----------------------------------------------------------------------------
(***************************************************************************)
(* The inductive invariant.  The Len that serveable read stays good enough *)
(* because only the holder of mu takes items out (Holder) and Close cannot *)
(* get in between (ClosedInOrder).  A Pull that parks has read every Len,  *)
(* each at another time: what the classes it has read hold by now belongs  *)
(* to Pushes that are yet to take mu and signal (Scanning).                *)
(***************************************************************************)

\* mu is held by exactly the Pull that is inside.
Holder == \A p \in Pullers : pc[p] \in Inside <=> mu = p

\* The scheduler is closed before any of its queues, and by nobody while a
\* Pull is inside.
ClosedInOrder ==
    /\ mu # None => ~closed
    /\ \A p \in Pushers : pc[p] = "closing" => closed
    /\ \A c \in Classes : qclosed[c] => closed

\* The arguments of a Pull and the class it serves.
Serving ==
    \A p \in Pullers :
        /\ pc[p] # "idle" => n[p] # 0
        /\ pc[p] = "serve" => class[p] \in Classes /\ (class[p] # Prio => deficit[class[p]] # 0)
        /\ pc[p] \in {"served", "advance"} => class[p] \in Ring

\* How far ahead of the cursor the i-th class is.
Ahead(i) == IF i >= cursor THEN i - cursor ELSE i - cursor + Len(Weighted)

\* The classes the scan of p has left behind.
Seen(p) ==
    ({Prio} \ {None})
        \cup {Weighted[i] : i \in {j \in 1..Len(Weighted) : Ahead(j) >= Len(Weighted) - scanned[p]}}

Unsignalled == {p \in Pushers : pc[p] = "count"}

\* The items of the classes S are covered by Pushes that will signal.
Covered(S) == Cardinality(ItemsIn(S)) <= Cardinality(Unsignalled)

Scanning == \A p \in Pullers : pc[p] = "scan" => Covered(Seen(p))

FiniteItems == IsFiniteSet(ItemsIn(Classes))

IInv ==
    /\ Types /\ FiniteItems /\ Holder /\ ClosedInOrder /\ Serving
    /\ Scanning /\ PopNeverBlocks /\ NoLostPull

-----------------------------------------------------------------------------
(***************************************************************************)
(* The ring of classes and the items in them.                              *)
(***************************************************************************)

\* The ring has at least one class, and each position holds one.
LEMMA RingFacts ==
    /\ Len(Weighted) \in Nat /\ Len(Weighted) # 0
    /\ \A i \in 1..Len(Weighted) : Weighted[i] \in Ring
    /\ \A c \in Ring : \E i \in 1..Len(Weighted) : c = Weighted[i]
    /\ Ring \subseteq Classes /\ Prio \notin Ring
    /\ \A c \in Classes : c \in Ring \/ (c = Prio /\ Prio # None)
    /\ Pushers \subseteq Procs /\ Pullers \subseteq Procs /\ None \notin Procs
<1>1. Weighted \in Seq(Ring) /\ Weighted # <<>> /\ Prio \notin Ring
  BY RingAssumption
<1>2. Len(Weighted) \in Nat /\ Len(Weighted) # 0
  BY <1>1
<1>3. /\ \A i \in 1..Len(Weighted) : Weighted[i] \in Ring
      /\ \A c \in Ring : \E i \in 1..Len(Weighted) : c = Weighted[i]
  BY DEF Ring
<1>4. /\ Ring \subseteq Classes
      /\ \A c \in Classes : c \in Ring \/ (c = Prio /\ Prio # None)
  BY DEF Classes
<1>5. Pushers \subseteq Procs /\ Pullers \subseteq Procs /\ None \notin Procs
  BY ProcsAssumption DEF Procs
<1> QED BY <1>1, <1>2, <1>3, <1>4, <1>5

\* There are finitely many classes.
LEMMA FiniteClasses == IsFiniteSet(Classes)
<1>1. IsFiniteSet(1..Len(Weighted))
  BY RingFacts, FS_Interval
<1>2. Weighted \in [1..Len(Weighted) -> Ring]
  BY RingAssumption
<1>3. Weighted \in Surjection(1..Len(Weighted), Ring)
  BY <1>2, RingFacts, Fun_IsSurj
<1>4. IsFiniteSet(Ring)
  BY <1>1, <1>3, FS_Surjection
<1>5. IsFiniteSet({Prio} \ {None})
  <2>1. IsFiniteSet({Prio})
    BY FS_Singleton
  <2> QED BY <2>1, FS_Difference
<1> QED BY <1>4, <1>5, FS_Union DEF Classes

\* The cursor moves to the next class, and from the last to the first.
LEMMA AdvanceEffect ==
    ASSUME cursor \in 1..Len(Weighted), Advance
    PROVE  /\ cursor' = IF cursor = Len(Weighted) THEN 1 ELSE cursor + 1
           /\ cursor' \in 1..Len(Weighted)
<1> DEFINE L == Len(Weighted)
<1>1. L \in Nat /\ L # 0
  BY RingFacts
<1>2. cursor' = (cursor % L) + 1
  BY DEF Advance
<1> HIDE DEF L
<1>3. cursor \in 1..L
  BY DEF L
<1>4. CASE cursor = L
  <2>1. L % L = 0
    BY <1>1
  <2> QED BY <1>1, <1>2, <1>4, <2>1 DEF L
<1>5. CASE cursor < L
  <2>1. cursor % L = cursor
    BY <1>1, <1>3, <1>5
  <2> QED BY <1>1, <1>2, <1>3, <1>5, <2>1 DEF L
<1> QED BY <1>1, <1>3, <1>4, <1>5

\* The items of some classes are among all items.
LEMMA SomeItems ==
    ASSUME FiniteItems, NEW S \in SUBSET Classes
    PROVE  IsFiniteSet(ItemsIn(S)) /\ Cardinality(ItemsIn(S)) \in Nat
<1>1. ItemsIn(S) \in SUBSET ItemsIn(Classes)
  BY DEF ItemsIn
<1>2. IsFiniteSet(ItemsIn(S))
  BY <1>1, FS_Subset DEF FiniteItems
<1> QED BY <1>2, FS_CardinalityType

\* There are finitely many Pushes.
LEMMA FiniteUnsignalled == IsFiniteSet(Unsignalled) /\ Cardinality(Unsignalled) \in Nat
<1>1. Unsignalled \in SUBSET Pushers
  BY DEF Unsignalled
<1>2. IsFiniteSet(Unsignalled)
  BY <1>1, ProcsAssumption, FS_Subset
<1> QED BY <1>2, FS_CardinalityType

\* A step that leaves the queues and the Pushes alone.
LEMMA CoverKept ==
    ASSUME len' = len, Unsignalled' = Unsignalled
    PROVE  /\ FiniteItems' = FiniteItems
           /\ \A S : Covered(S)' = Covered(S)
           /\ Total' = Total
BY DEF FiniteItems, ItemsIn, Covered, Total

\* Taking items out of the queues uncovers nothing.
LEMMA CoverGrows ==
    ASSUME FiniteItems, len \in [Classes -> Nat], len' \in [Classes -> Nat],
           \A c \in Classes : len'[c] <= len[c],
           Unsignalled' = Unsignalled
    PROVE  FiniteItems' /\ \A S \in SUBSET Classes : Covered(S) => Covered(S)'
<1>1. ASSUME NEW S \in SUBSET Classes
      PROVE  /\ IsFiniteSet(ItemsIn(S)') /\ Cardinality(ItemsIn(S)') \in Nat
             /\ Cardinality(ItemsIn(S)') <= Cardinality(ItemsIn(S))
  <2>1. \A c \in S : 1..len'[c] \subseteq 1..len[c]
    <3> SUFFICES ASSUME NEW c \in S, NEW i \in 1..len'[c] PROVE i \in 1..len[c]
      OBVIOUS
    <3>1. len[c] \in Nat /\ len'[c] \in Nat /\ len'[c] <= len[c]
      BY <1>1
    <3> QED BY <3>1
  <2>2. ItemsIn(S)' \in SUBSET ItemsIn(S)
    BY <2>1 DEF ItemsIn
  <2>3. IsFiniteSet(ItemsIn(S))
    BY <1>1, SomeItems
  <2>4. IsFiniteSet(ItemsIn(S)') /\ Cardinality(ItemsIn(S)') <= Cardinality(ItemsIn(S))
    BY <2>2, <2>3, FS_Subset
  <2> QED BY <2>4, FS_CardinalityType
<1>2. \A S \in SUBSET Classes : Covered(S) => Covered(S)'
  <2> SUFFICES ASSUME NEW S \in SUBSET Classes, Covered(S) PROVE Covered(S)'
    OBVIOUS
  <2>1. Cardinality(ItemsIn(S)) \in Nat /\ Cardinality(Unsignalled) \in Nat
    BY SomeItems, FiniteUnsignalled
  <2> QED BY <1>1, <2>1 DEF Covered
<1> QED BY <1>1, <1>2 DEF FiniteItems

\* An item comes with a Push that has not signalled yet.
LEMMA CoverPushed ==
    ASSUME FiniteItems, len \in [Classes -> Nat], NEW c \in Classes,
           len' = [len EXCEPT ![c] = @ + 1],
           NEW p \in Pushers, p \notin Unsignalled, Unsignalled' = Unsignalled \cup {p}
    PROVE  FiniteItems' /\ \A S \in SUBSET Classes : Covered(S) => Covered(S)'
<1> DEFINE e == <<c, len[c] + 1>>
<1>1. ASSUME NEW S \in SUBSET Classes
      PROVE  /\ IsFiniteSet(ItemsIn(S)') /\ Cardinality(ItemsIn(S)') \in Nat
             /\ Cardinality(ItemsIn(S)') <= Cardinality(ItemsIn(S)) + 1
  <2>1. \A d \in S : len[d] \in Nat /\ len'[d] = IF d = c THEN len[d] + 1 ELSE len[d]
    OBVIOUS
  <2>2. ASSUME NEW d \in S, NEW i \in 1..len'[d]
        PROVE  i \in 1..len[d] \/ (d = c /\ i = len[c] + 1)
    BY <2>1
  <2>3. ItemsIn(S)' \subseteq ItemsIn(S) \cup {e}
    <3> SUFFICES ASSUME NEW d \in S, NEW i \in 1..len'[d] PROVE <<d, i>> \in ItemsIn(S) \cup {e}
      BY DEF ItemsIn
    <3> QED BY <2>2 DEF ItemsIn
  <2> HIDE DEF e
  <2>4. IsFiniteSet(ItemsIn(S)) /\ Cardinality(ItemsIn(S)) \in Nat
    BY <1>1, SomeItems
  <2>5. /\ IsFiniteSet(ItemsIn(S) \cup {e})
        /\ Cardinality(ItemsIn(S) \cup {e})
              = IF e \in ItemsIn(S) THEN Cardinality(ItemsIn(S)) ELSE Cardinality(ItemsIn(S)) + 1
    BY <2>4, FS_AddElement
  <2>6. /\ IsFiniteSet(ItemsIn(S)')
        /\ Cardinality(ItemsIn(S)') <= Cardinality(ItemsIn(S) \cup {e})
    BY <2>3, <2>5, FS_Subset
  <2>7. Cardinality(ItemsIn(S)') \in Nat
    BY <2>6, FS_CardinalityType
  <2> QED BY <2>4, <2>5, <2>6, <2>7
<1>2. Cardinality(Unsignalled') = Cardinality(Unsignalled) + 1
  BY FiniteUnsignalled, FS_AddElement
<1>3. \A S \in SUBSET Classes : Covered(S) => Covered(S)'
  <2> SUFFICES ASSUME NEW S \in SUBSET Classes, Covered(S) PROVE Covered(S)'
    OBVIOUS
  <2>1. Cardinality(ItemsIn(S)) \in Nat /\ Cardinality(Unsignalled) \in Nat
    BY SomeItems, FiniteUnsignalled
  <2> QED BY <1>1, <1>2, <2>1 DEF Covered
<1> QED BY <1>1, <1>3 DEF FiniteItems

\* NoLostPull, in the words of Covered.
LEMMA ParkedCovered == NoLostPull <=> (waiting # {} => ~closed /\ Covered(Classes))
BY DEF NoLostPull, Covered, Total, Unsignalled

\* The classes a scan has left behind are classes.
LEMMA SeenAreClasses == \A p : Seen(p) \in SUBSET Classes
<1> SUFFICES ASSUME NEW p PROVE Seen(p) \subseteq Classes
  OBVIOUS
<1> QED BY RingFacts DEF Seen, Classes

-----------------------------------------------------------------------------
(***************************************************************************)
(* Every action keeps the invariant.                                       *)
(***************************************************************************)

\* An item in a class queue.
LEMMA PushQueueStep ==
    ASSUME IInv, NEW p \in Pushers, PushQueue(p)
    PROVE  IInv'
<1>1. PICK c \in Classes : /\ ~qclosed[c] /\ len' = [len EXCEPT ![c] = @ + 1]
                           /\ pc[p] = "idle" /\ pc' = [pc EXCEPT ![p] = "count"]
  BY DEF PushQueue, Goto
<1>2. /\ p \in Procs /\ p \notin Pullers /\ len \in [Classes -> Nat]
      /\ pc \in [Procs -> {"count", "closing"} \cup PullerLabels]
      /\ UNCHANGED <<qclosed, mu, cursor, deficit, pending, closed, waiting, n, class, scanned, cancelled>>
  BY ProcsAssumption DEF IInv, Types, PushQueue, schedVars, Procs
<1>3. \A q \in Procs : q # p => pc'[q] = pc[q]
  BY <1>1, <1>2
<1>4. pc'[p] = "count"
  BY <1>1, <1>2
<1>5. p \notin Unsignalled /\ Unsignalled' = Unsignalled \cup {p}
  BY <1>1, <1>3, <1>4, RingFacts DEF Unsignalled
<1>c. FiniteItems' /\ \A S \in SUBSET Classes : Covered(S) => Covered(S)'
  BY <1>1, <1>2, <1>5, CoverPushed DEF IInv
<1>6. \A q \in Pullers : pc'[q] = pc[q]
  BY <1>2, <1>3, RingFacts
<1>7. \A d \in Classes : len'[d] \in Nat /\ len[d] <= len'[d]
  BY <1>1, <1>2
<1>p1. Types'
  BY <1>1, <1>2, <1>3, <1>4, <1>6, <1>7, RingFacts DEF IInv, Types, Procs
<1>p2. FiniteItems'
  BY <1>c
<1>p3. Holder'
  BY <1>1, <1>2, <1>3, <1>4, <1>6, <1>7, RingFacts DEF IInv, Holder, Procs
<1>p4. ClosedInOrder'
  BY <1>1, <1>2, <1>3, <1>4, <1>6, <1>7, RingFacts DEF IInv, ClosedInOrder, Procs
<1>p5. Serving'
  BY <1>1, <1>2, <1>3, <1>4, <1>6, <1>7, RingFacts DEF IInv, Serving, Procs
<1>p6. Scanning'
  <2>1. \A q \in Pullers : Seen(q)' = Seen(q) /\ Seen(q) \in SUBSET Classes
    BY <1>2, SeenAreClasses DEF Seen, Ahead
  <2> QED BY <1>6, <1>c, <2>1 DEF IInv, Scanning
<1>p7. PopNeverBlocks'
  BY <1>1, <1>2, <1>3, <1>4, <1>6, <1>7, RingFacts DEF IInv, PopNeverBlocks, Procs
<1>p8. NoLostPull'
  <2>1. Classes \in SUBSET Classes
    OBVIOUS
  <2> QED BY <1>2, <1>c, <2>1, ParkedCovered DEF IInv, NoLostPull, Covered, Total, Unsignalled
<1> QED BY <1>p1, <1>p2, <1>p3, <1>p4, <1>p5, <1>p6, <1>p7, <1>p8 DEF IInv

\* A Push that signals: every parked Pull is woken.
LEMMA PushCountStep ==
    ASSUME IInv, NEW p \in Pushers, PushCount(p)
    PROVE  IInv'
<1>1. /\ pc[p] = "count" /\ mu = None /\ pc' = [pc EXCEPT ![p] = "idle"] /\ waiting' = {}
      /\ UNCHANGED <<len, mu, closed, qclosed, cursor, deficit, n, class, scanned>>
  BY DEF PushCount, Settle, Goto, queueVars
<1>2. p \in Procs /\ p \notin Pullers /\ pc \in [Procs -> {"count", "closing"} \cup PullerLabels]
  BY ProcsAssumption DEF IInv, Types, Procs
<1>3. pc'[p] = "idle" /\ \A q \in Procs : q # p => pc'[q] = pc[q]
  BY <1>1, <1>2
<1>4. \A q \in Pullers : pc'[q] = pc[q] /\ pc[q] \notin Inside
  BY <1>1, <1>2, <1>3, RingFacts DEF IInv, Holder
<1>w. waiting' = {}
  BY <1>1
<1>p1. Types'
  BY <1>1, RingFacts DEF IInv, Types, PullerLabels
<1>p2. FiniteItems'
  BY <1>1 DEF IInv, FiniteItems, ItemsIn
<1>p3. Holder'
  BY <1>1, <1>2, <1>3, <1>4, RingFacts DEF IInv, Holder, Procs
<1>p4. ClosedInOrder'
  BY <1>1, <1>2, <1>3, <1>4, RingFacts DEF IInv, ClosedInOrder, Procs
<1>p5. Serving'
  BY <1>1, <1>2, <1>3, <1>4, RingFacts DEF IInv, Serving, Procs
<1>p6. Scanning'
  BY <1>4 DEF Scanning, Inside
<1>p7. PopNeverBlocks'
  BY <1>1, <1>2, <1>3, <1>4, RingFacts DEF IInv, PopNeverBlocks, Procs
<1>p8. NoLostPull'
  BY <1>w DEF NoLostPull
<1> QED BY <1>p1, <1>p2, <1>p3, <1>p4, <1>p5, <1>p6, <1>p7, <1>p8 DEF IInv

\* Close, while no Pull is inside.
LEMMA CloseStep ==
    ASSUME IInv, NEW p \in Pushers, Close(p)
    PROVE  IInv'
<1>1. /\ pc[p] = "idle" /\ mu = None /\ closed' = TRUE /\ pc' = [pc EXCEPT ![p] = "closing"] /\ waiting' = {}
      /\ UNCHANGED <<len, mu, qclosed, cursor, deficit, n, class, scanned>>
  BY DEF Close, Closes, Goto, queueVars
<1>2. p \in Procs /\ p \notin Pullers /\ pc \in [Procs -> {"count", "closing"} \cup PullerLabels]
  BY ProcsAssumption DEF IInv, Types, Procs
<1>3. pc'[p] = "closing" /\ \A q \in Procs : q # p => pc'[q] = pc[q]
  BY <1>1, <1>2
<1>4. \A q \in Pullers : pc'[q] = pc[q] /\ pc[q] \notin Inside
  BY <1>1, <1>2, <1>3, RingFacts DEF IInv, Holder
<1>w. waiting' = {}
  BY <1>1
<1>p1. Types'
  BY <1>1, <1>2, <1>3, <1>4, RingFacts DEF IInv, Types, Procs
<1>p2. FiniteItems'
  BY <1>1 DEF IInv, FiniteItems, ItemsIn
<1>p3. Holder'
  BY <1>1, <1>2, <1>3, <1>4, RingFacts DEF IInv, Holder, Procs
<1>p4. ClosedInOrder'
  BY <1>1, <1>2, <1>4, RingFacts DEF IInv, Types, Holder, ClosedInOrder, PopNeverBlocks, Inside, PullerLabels
<1>p5. Serving'
  BY <1>1, <1>2, <1>3, <1>4, RingFacts DEF IInv, Serving, Procs
<1>p6. Scanning'
  BY <1>4 DEF Scanning, Inside
<1>p7. PopNeverBlocks'
  BY <1>1, <1>2, <1>3, <1>4, RingFacts DEF IInv, PopNeverBlocks, Procs
<1>p8. NoLostPull'
  BY <1>w DEF NoLostPull
<1> QED BY <1>p1, <1>p2, <1>p3, <1>p4, <1>p5, <1>p6, <1>p7, <1>p8 DEF IInv

\* A class queue is closed after the scheduler.
LEMMA CloseQueueStep ==
    ASSUME IInv, NEW p \in Pushers, CloseQueue(p)
    PROVE  IInv'
<1>1. /\ pc[p] = "closing" /\ UNCHANGED <<len, mu, closed, cursor, deficit, waiting, n, class, scanned>>
  BY DEF CloseQueue, schedVars
<1>2. p \in Procs /\ p \notin Pullers /\ pc \in [Procs -> {"count", "closing"} \cup PullerLabels]
  BY ProcsAssumption DEF IInv, Types, Procs
<1>3. closed /\ mu = None /\ waiting = {}
  BY <1>1 DEF IInv, ClosedInOrder, NoLostPull
<1>4. /\ qclosed' \in [Classes -> BOOLEAN]
      /\ \E l \in {"idle", "closing"} : pc' = [pc EXCEPT ![p] = l]
  BY DEF CloseQueue, Goto, IInv, Types
<1>5. pc'[p] \in {"idle", "closing"} /\ \A q \in Procs : q # p => pc'[q] = pc[q]
  BY <1>2, <1>4
<1>6. \A q \in Pullers : pc'[q] = pc[q] /\ pc[q] \notin Inside
  BY <1>2, <1>3, <1>5, RingFacts DEF IInv, Holder
<1>7. pc' \in [Procs -> {"count", "closing"} \cup PullerLabels]
  BY <1>2, <1>4 DEF PullerLabels
<1>w. waiting' = {}
  BY <1>1, <1>3
<1>p1. Types'
  BY <1>1, <1>2, <1>3, <1>4, <1>5, <1>6, <1>7, RingFacts DEF IInv, Types, Procs
<1>p2. FiniteItems'
  BY <1>1 DEF IInv, FiniteItems, ItemsIn
<1>p3. Holder'
  BY <1>1, <1>2, <1>3, <1>4, <1>5, <1>6, <1>7, RingFacts DEF IInv, Holder, Procs
<1>p4. ClosedInOrder'
  BY <1>1, <1>2, <1>3, <1>4, <1>5, <1>6, <1>7, RingFacts DEF IInv, ClosedInOrder, Procs
<1>p5. Serving'
  BY <1>1, <1>2, <1>3, <1>4, <1>5, <1>6, <1>7, RingFacts DEF IInv, Serving, Procs
<1>p6. Scanning'
  BY <1>6 DEF Scanning, Inside
<1>p7. PopNeverBlocks'
  BY <1>6 DEF PopNeverBlocks, Inside
<1>p8. NoLostPull'
  BY <1>w DEF NoLostPull
<1> QED BY <1>p1, <1>p2, <1>p3, <1>p4, <1>p5, <1>p6, <1>p7, <1>p8 DEF IInv

\* A step of a Pull that is not inside before it leaves the queues, the Pushes
\* and the scans of others alone.
LEMMA OutsideStep ==
    ASSUME IInv, NEW p \in Pullers, pc[p] \notin Inside,
           pc' \in [Procs -> {"count", "closing"} \cup PullerLabels],
           \A q \in Procs : q # p => pc'[q] = pc[q],
           pc'[p] \in PullerLabels \ {"scan", "serve", "served", "advance"},
           pc'[p] = "prio" => mu = None /\ mu' = p /\ ~closed,
           pc'[p] # "prio" => mu' = mu,
           waiting' \subseteq waiting,
           UNCHANGED <<len, qclosed, closed, cursor, deficit, scanned>>,
           n' \in [Procs -> Nat], class' \in [Procs -> Classes \cup {None}],
           \A q \in Procs : q # p => n'[q] = n[q] /\ class'[q] = class[q],
           pc'[p] # "idle" => n'[p] # 0
    PROVE  IInv'
<1>1. p \in Procs /\ p \notin Pushers
  BY ProcsAssumption DEF Procs
<1>2. Unsignalled' = Unsignalled
  BY <1>1, RingFacts DEF Unsignalled
<1>c. /\ FiniteItems' = FiniteItems
      /\ \A S : Covered(S)' = Covered(S)
      /\ Total' = Total
  BY <1>2, CoverKept
<1>3. \A q \in Pullers : Seen(q)' = Seen(q)
  BY DEF Seen, Ahead
<1>p1. Types'
  <2>1. mu' \in Pullers \cup {None}
    BY DEF IInv, Types
  <2>2. \A q \in Pushers : pc'[q] \in {"idle", "count", "closing"}
    BY <1>1, RingFacts DEF IInv, Types
  <2>3. \A q \in Pullers : pc'[q] \in PullerLabels
    BY RingFacts DEF IInv, Types
  <2>4. len' \in [Classes -> Nat] /\ qclosed' \in [Classes -> BOOLEAN] /\ closed' \in BOOLEAN
    BY DEF IInv, Types
  <2>5. cursor' \in 1..Len(Weighted) /\ deficit' \in [Ring -> Nat] /\ scanned' \in [Procs -> 0..Len(Weighted)]
    BY DEF IInv, Types
  <2> QED BY <2>1, <2>2, <2>3, <2>4, <2>5 DEF Types
<1>p2. FiniteItems'
  BY <1>c DEF IInv
<1>p3. Holder'
  BY RingFacts DEF IInv, Holder, Inside
<1>p4. ClosedInOrder'
  BY <1>1, RingFacts DEF IInv, ClosedInOrder, Procs
<1>p5. Serving'
  BY DEF IInv, Serving, Procs
<1>p6. Scanning'
  BY <1>1, <1>3, <1>c, RingFacts DEF IInv, Scanning
<1>p7. PopNeverBlocks'
  BY DEF IInv, PopNeverBlocks, Procs
<1>p8. NoLostPull'
  BY <1>2, <1>c DEF IInv, NoLostPull, Unsignalled
<1> QED BY <1>p1, <1>p2, <1>p3, <1>p4, <1>p5, <1>p6, <1>p7, <1>p8 DEF IInv

\* Return, seen from outside.
LEMMA ReturnEffect ==
    ASSUME Types, NEW p \in Pullers, Return(p)
    PROVE  /\ pc' \in [Procs -> {"count", "closing"} \cup PullerLabels] /\ pc'[p] = "idle"
           /\ n' \in [Procs -> Nat] /\ class' \in [Procs -> Classes \cup {None}]
           /\ \A q \in Procs : q # p => pc'[q] = pc[q] /\ n'[q] = n[q] /\ class'[q] = class[q]
BY RingFacts DEF Types, Return, Goto, PullerLabels

\* Goto, likewise.
LEMMA GotoEffect ==
    ASSUME Types, NEW p \in Pullers, NEW l \in PullerLabels, Goto(p, l)
    PROVE  /\ pc' \in [Procs -> {"count", "closing"} \cup PullerLabels] /\ pc'[p] = l
           /\ \A q \in Procs : q # p => pc'[q] = pc[q]
BY RingFacts DEF Types, Goto

\* The steps of a Pull that holds no lock, or takes it.
LEMMA PullOutside ==
    ASSUME IInv, NEW p \in Pullers,
           Pull(p) \/ PullLock(p) \/ CtxWake(p) \/ CtxDone(p) \/ PullWoken(p)
    PROVE  IInv'
<1>0. Types /\ p \in Procs /\ n \in [Procs -> Nat] /\ class \in [Procs -> Classes \cup {None}]
  BY RingFacts DEF IInv, Types
<1>1. CASE Pull(p)
  <2>1. pc[p] = "idle" /\ Goto(p, "lock") /\ UNCHANGED <<queueVars, mu, schedVars, waiting, class, scanned>>
    BY <1>1 DEF Pull
  <2>2. PICK k \in PullSizes : n' = [n EXCEPT ![p] = k]
    BY <1>1 DEF Pull
  <2>3. n' \in [Procs -> Nat] /\ n'[p] # 0 /\ \A q \in Procs : q # p => n'[q] = n[q]
    BY <1>0, <2>2, SizesAssumption
  <2>4. /\ pc' \in [Procs -> {"count", "closing"} \cup PullerLabels] /\ pc'[p] = "lock"
        /\ \A q \in Procs : q # p => pc'[q] = pc[q]
    BY <1>0, <2>1, GotoEffect DEF PullerLabels
  <2> QED BY <1>0, <2>1, <2>3, <2>4, OutsideStep DEF queueVars, schedVars, Inside, PullerLabels
<1>2. CASE PullLock(p) /\ closed
  <2>1. pc[p] = "lock" /\ Return(p) /\ UNCHANGED <<queueVars, mu, schedVars, waiting, scanned>>
    BY <1>2 DEF PullLock
  <2> QED BY <1>0, <2>1, ReturnEffect, OutsideStep DEF queueVars, schedVars, Inside, PullerLabels
<1>3. CASE PullLock(p) /\ ~closed
  <2>1. /\ pc[p] = "lock" /\ mu = None /\ mu' = p /\ Goto(p, "prio")
        /\ UNCHANGED <<queueVars, schedVars, waiting, scanned, n, class>>
    BY <1>3 DEF PullLock
  <2>2. n[p] # 0
    BY <2>1 DEF IInv, Serving
  <2>3. /\ pc' \in [Procs -> {"count", "closing"} \cup PullerLabels] /\ pc'[p] = "prio"
        /\ \A q \in Procs : q # p => pc'[q] = pc[q]
    BY <1>0, <2>1, GotoEffect DEF PullerLabels
  <2> QED BY <1>0, <1>3, <2>1, <2>2, <2>3, OutsideStep DEF queueVars, schedVars, Inside, PullerLabels
<1>4. CASE CtxWake(p) \/ CtxDone(p)
  <2>1. /\ waiting' \subseteq waiting
        /\ UNCHANGED <<len, qclosed, mu, schedVars, pc, n, class, scanned>>
    BY <1>4 DEF CtxWake, CtxDone, queueVars, procVars
  <2>2. /\ Types' = Types /\ Holder' = Holder /\ ClosedInOrder' = ClosedInOrder
        /\ Serving' = Serving /\ PopNeverBlocks' = PopNeverBlocks
    BY <2>1 DEF Types, Holder, ClosedInOrder, Serving, PopNeverBlocks, schedVars
  <2>3. Unsignalled' = Unsignalled /\ \A q : Seen(q)' = Seen(q)
    BY <2>1 DEF Unsignalled, Seen, Ahead, schedVars
  <2>4. FiniteItems' = FiniteItems /\ Total' = Total /\ \A S : Covered(S)' = Covered(S)
    BY <2>1, <2>3, CoverKept
  <2>5. Scanning'
    BY <2>1, <2>3, <2>4 DEF IInv, Scanning
  <2>6. NoLostPull'
    BY <2>1, <2>4 DEF IInv, NoLostPull, schedVars
  <2> QED BY <2>2, <2>4, <2>5, <2>6 DEF IInv
<1>5. CASE PullWoken(p) /\ cancelled[p]
  <2>1. pc[p] = "wait" /\ Return(p) /\ UNCHANGED <<queueVars, mu, schedVars, waiting, scanned>>
    BY <1>5 DEF PullWoken
  <2> QED BY <1>0, <2>1, ReturnEffect, OutsideStep DEF queueVars, schedVars, Inside, PullerLabels
<1>6. CASE PullWoken(p) /\ ~cancelled[p]
  <2>1. pc[p] = "wait" /\ Goto(p, "lock") /\ UNCHANGED <<queueVars, mu, schedVars, waiting, scanned, n, class>>
    BY <1>6 DEF PullWoken
  <2>2. n[p] # 0
    BY <2>1 DEF IInv, Serving
  <2>3. /\ pc' \in [Procs -> {"count", "closing"} \cup PullerLabels] /\ pc'[p] = "lock"
        /\ \A q \in Procs : q # p => pc'[q] = pc[q]
    BY <1>0, <2>1, GotoEffect DEF PullerLabels
  <2> QED BY <1>0, <2>1, <2>2, <2>3, OutsideStep DEF queueVars, schedVars, Inside, PullerLabels
<1> QED BY <1>1, <1>2, <1>3, <1>4, <1>5, <1>6

\* A step of the Pull that is inside: no other Pull is.
LEMMA InsideStep ==
    ASSUME IInv, NEW p \in Pullers, pc[p] \in Inside,
           pc' \in [Procs -> {"count", "closing"} \cup PullerLabels],
           \A q \in Procs : q # p => pc'[q] = pc[q],
           pc'[p] \in PullerLabels,
           IF pc'[p] \in Inside THEN mu' = mu ELSE mu' = None,
           pc'[p] = "scan" => Covered(Seen(p))',
           FiniteItems', len' \in [Classes -> Nat],
           waiting' # {} => Covered(Classes)',
           UNCHANGED <<qclosed, closed>>,
           cursor' \in 1..Len(Weighted), deficit' \in [Ring -> Nat],
           scanned' \in [Procs -> 0..Len(Weighted)],
           n' \in [Procs -> Nat], class' \in [Procs -> Classes \cup {None}],
           \A q \in Procs : q # p => n'[q] = n[q] /\ class'[q] = class[q],
           pc'[p] # "idle" => n'[p] # 0,
           pc'[p] = "serve" =>
               /\ class'[p] \in Classes /\ len'[class'[p]] > 0
               /\ class'[p] # Prio => deficit'[class'[p]] # 0,
           pc'[p] \in {"served", "advance"} => class'[p] \in Ring
    PROVE  IInv'
<1>1. /\ p \in Procs /\ p \notin Pushers /\ mu = p /\ ~closed
      /\ \A q \in Pullers : q # p => pc[q] \notin Inside
  BY ProcsAssumption, RingFacts DEF IInv, Holder, ClosedInOrder
<1>2. \A q \in Pullers : q # p => pc'[q] = pc[q]
  BY RingFacts
<1>3. \A q \in Pushers : pc'[q] = pc[q]
  BY <1>1, RingFacts
<1>w. waiting' # {} => ~closed' /\ Covered(Classes)'
  BY <1>1
<1>p1. Types'
  <2>1. mu' \in Pullers \cup {None}
    BY DEF IInv, Types
  <2>2. \A q \in Pushers : pc'[q] \in {"idle", "count", "closing"}
    BY <1>1, RingFacts DEF IInv, Types
  <2>3. \A q \in Pullers : pc'[q] \in PullerLabels
    BY RingFacts DEF IInv, Types
  <2>4. len' \in [Classes -> Nat] /\ qclosed' \in [Classes -> BOOLEAN] /\ closed' \in BOOLEAN
    BY DEF IInv, Types
  <2>5. cursor' \in 1..Len(Weighted) /\ deficit' \in [Ring -> Nat] /\ scanned' \in [Procs -> 0..Len(Weighted)]
    BY DEF IInv, Types
  <2> QED BY <2>1, <2>2, <2>3, <2>4, <2>5 DEF Types
<1>p2. FiniteItems'
  OBVIOUS
<1>p3. Holder'
  <2>1. pc'[p] \in Inside <=> mu' = p
    BY <1>1, RingFacts
  <2>2. ASSUME NEW q \in Pullers, q # p PROVE pc'[q] \notin Inside /\ mu' # q
    BY <1>1, <1>2, <2>2, RingFacts
  <2> QED BY <2>1, <2>2 DEF Holder
<1>p4. ClosedInOrder'
  BY <1>1, <1>2, <1>3, RingFacts DEF IInv, ClosedInOrder, Procs
<1>p5. Serving'
  <2>1. ASSUME NEW q \in Pullers, q # p
        PROVE  pc'[q] \notin {"serve", "served", "advance"} /\ (pc'[q] # "idle" => n'[q] # 0)
    <3>1. q \in Procs /\ pc'[q] = pc[q] /\ n'[q] = n[q] /\ pc[q] \notin Inside
      BY <1>1, <1>2, <2>1, RingFacts
    <3> QED BY <3>1 DEF IInv, Serving, Inside
  <2> QED BY <2>1 DEF Serving
<1>p6. Scanning'
  BY <1>1, <1>2 DEF Scanning, Inside
<1>p7. PopNeverBlocks'
  BY <1>1, RingFacts DEF IInv, ClosedInOrder, PopNeverBlocks, Inside
<1>p8. NoLostPull'
  BY <1>w DEF NoLostPull, Covered, Total, Unsignalled
<1> QED BY <1>p1, <1>p2, <1>p3, <1>p4, <1>p5, <1>p6, <1>p7, <1>p8 DEF IInv

\* What an inside step starts from.
LEMMA InsideFacts ==
    ASSUME IInv, NEW p \in Pullers, pc[p] \in Inside
    PROVE  /\ Types /\ FiniteItems /\ p \in Procs /\ mu = p /\ n[p] # 0
           /\ len \in [Classes -> Nat] /\ cursor \in 1..Len(Weighted) /\ deficit \in [Ring -> Nat]
           /\ n \in [Procs -> Nat] /\ class \in [Procs -> Classes \cup {None}]
           /\ scanned \in [Procs -> 0..Len(Weighted)]
           /\ waiting # {} => Covered(Classes)
BY RingFacts, ParkedCovered DEF IInv, Types, Holder, Serving, Inside

\* A step of p that leaves the queues alone keeps what is covered.
LEMMA InsideCover ==
    ASSUME NEW p \in Pullers, \A q \in Procs : q # p => pc'[q] = pc[q], len' = len
    PROVE  FiniteItems' = FiniteItems /\ \A S : Covered(S)' = Covered(S)
<1>1. Unsignalled' = Unsignalled
  BY ProcsAssumption, RingFacts DEF Unsignalled
<1> QED BY <1>1, CoverKept

\* The priority class is empty, or chosen.
LEMMA CheckPrioStep ==
    ASSUME IInv, NEW p \in Pullers, CheckPrio(p)
    PROVE  IInv'
<1>0. pc[p] = "prio" /\ pc[p] \in Inside /\ UNCHANGED <<queueVars, mu, schedVars, waiting, n>>
  BY DEF CheckPrio, Inside
<1>1. /\ Types /\ FiniteItems /\ p \in Procs /\ mu = p /\ n[p] # 0
      /\ len \in [Classes -> Nat] /\ cursor \in 1..Len(Weighted) /\ deficit \in [Ring -> Nat]
      /\ n \in [Procs -> Nat] /\ class \in [Procs -> Classes \cup {None}]
      /\ scanned \in [Procs -> 0..Len(Weighted)]
      /\ waiting # {} => Covered(Classes)
  BY <1>0, InsideFacts
<1>2. CASE Prio # None /\ len[Prio] > 0
  <2>1. class' = [class EXCEPT ![p] = Prio] /\ Goto(p, "serve") /\ UNCHANGED scanned
    BY <1>2 DEF CheckPrio
  <2>2. /\ pc' \in [Procs -> {"count", "closing"} \cup PullerLabels] /\ pc'[p] = "serve"
        /\ \A q \in Procs : q # p => pc'[q] = pc[q]
    BY <1>1, <2>1, GotoEffect DEF PullerLabels
  <2>3. FiniteItems' = FiniteItems /\ \A S : Covered(S)' = Covered(S)
    BY <1>0, <2>2, InsideCover DEF queueVars
  <2>4. Prio \in Classes
    BY <1>2 DEF Classes
  <2>5. /\ class' \in [Procs -> Classes \cup {None}] /\ class'[p] = Prio
        /\ \A q \in Procs : q # p => class'[q] = class[q]
    BY <1>1, <2>1, <2>4
  <2> QED BY <1>0, <1>1, <1>2, <2>1, <2>2, <2>3, <2>4, <2>5, InsideStep
          DEF queueVars, schedVars, Inside, PullerLabels
<1>3. CASE ~(Prio # None /\ len[Prio] > 0)
  <2>1. scanned' = [scanned EXCEPT ![p] = 0] /\ Goto(p, "scan") /\ UNCHANGED class
    BY <1>3 DEF CheckPrio
  <2>2. /\ pc' \in [Procs -> {"count", "closing"} \cup PullerLabels] /\ pc'[p] = "scan"
        /\ \A q \in Procs : q # p => pc'[q] = pc[q]
    BY <1>1, <2>1, GotoEffect DEF PullerLabels
  <2>3. FiniteItems' = FiniteItems /\ \A S : Covered(S)' = Covered(S)
    BY <1>0, <2>2, InsideCover DEF queueVars
  <2>4. scanned' \in [Procs -> 0..Len(Weighted)] /\ scanned'[p] = 0
    BY <1>1, <2>1, RingFacts
  <2>5. Covered(Seen(p))'
    <3>1. \A i \in 1..Len(Weighted) : ~(Ahead(i)' >= Len(Weighted) - scanned'[p])
      BY <1>0, <1>1, <2>4, RingFacts DEF Ahead, schedVars
    <3>2. Seen(p)' = {Prio} \ {None}
      BY <3>1 DEF Seen
    <3>3. \A c \in {Prio} \ {None} : 1..len[c] = {}
      <4> SUFFICES ASSUME Prio # None PROVE 1..len[Prio] = {}
        OBVIOUS
      <4>1. len[Prio] \in Nat
        BY <1>1 DEF Classes
      <4> QED BY <1>3, <4>1
    <3>4. ItemsIn({Prio} \ {None}) = {}
      BY <3>3 DEF ItemsIn
    <3>5. Covered({Prio} \ {None})
      BY <3>4, FS_EmptySet, FiniteUnsignalled DEF Covered
    <3>6. Covered(Seen(p))' = Covered({Prio} \ {None})'
      BY <3>2 DEF Covered, ItemsIn
    <3> QED BY <2>3, <3>5, <3>6
  <2> QED BY <1>0, <1>1, <2>1, <2>2, <2>3, <2>4, <2>5, InsideStep
          DEF queueVars, schedVars, Inside, PullerLabels
<1> QED BY <1>2, <1>3

\* One turn of the scan leaves one more class behind, or chooses it.
LEMMA ScanStep ==
    ASSUME IInv, NEW p \in Pullers, Scan(p)
    PROVE  IInv'
<1> DEFINE c == Weighted[cursor]
<1>0. /\ pc[p] = "scan" /\ pc[p] \in Inside /\ scanned[p] < Len(Weighted)
      /\ UNCHANGED <<queueVars, mu, pending, closed, waiting, n>>
  BY DEF Scan, Inside
<1>1. /\ Types /\ FiniteItems /\ p \in Procs /\ mu = p /\ n[p] # 0
      /\ len \in [Classes -> Nat] /\ cursor \in 1..Len(Weighted) /\ deficit \in [Ring -> Nat]
      /\ n \in [Procs -> Nat] /\ class \in [Procs -> Classes \cup {None}]
      /\ scanned \in [Procs -> 0..Len(Weighted)]
      /\ waiting # {} => Covered(Classes)
  BY <1>0, InsideFacts
<1>2. c \in Ring /\ c \in Classes /\ len[c] \in Nat
  BY <1>1, RingFacts
<1>3. CASE len[c] = 0
  <2>1. /\ deficit' = [deficit EXCEPT ![c] = 0] /\ Advance
        /\ scanned' = [scanned EXCEPT ![p] = @ + 1] /\ UNCHANGED <<class, pc>>
    BY <1>3 DEF Scan
  <2>2. pc' \in [Procs -> {"count", "closing"} \cup PullerLabels]
    BY <1>1, <2>1 DEF Types
  <2>3. FiniteItems' = FiniteItems /\ \A S : Covered(S)' = Covered(S)
    BY <1>0, <2>1, InsideCover DEF queueVars
  <2>4. scanned' \in [Procs -> 0..Len(Weighted)] /\ scanned'[p] = scanned[p] + 1
    BY <1>0, <1>1, <2>1, RingFacts
  <2>5. /\ cursor' = IF cursor = Len(Weighted) THEN 1 ELSE cursor + 1
        /\ cursor' \in 1..Len(Weighted)
    BY <1>1, <2>1, AdvanceEffect
  <2>6. deficit' \in [Ring -> Nat]
    BY <1>1, <1>2, <2>1
  <2>7. Seen(p)' \subseteq Seen(p) \cup {c}
    <3>1. scanned[p] \in Nat
      BY <1>1
    <3>2. ASSUME NEW i \in 1..Len(Weighted), i # cursor, Ahead(i)' >= Len(Weighted) - scanned'[p]
          PROVE  Ahead(i) >= Len(Weighted) - scanned[p]
      BY <1>1, <2>4, <2>5, <3>1, <3>2, RingFacts DEF Ahead
    <3> QED BY <3>2 DEF Seen
  <2>8. Covered(Seen(p))'
    <3>1. Covered(Seen(p))
      BY <1>0 DEF IInv, Scanning
    <3>2. 1..len[c] = {}
      BY <1>3
    <3>3. ItemsIn(Seen(p) \cup {c}) = ItemsIn(Seen(p))
      BY <3>2 DEF ItemsIn
    <3>4. Covered(Seen(p) \cup {c})
      BY <3>1, <3>3 DEF Covered
    <3>5. Seen(p) \cup {c} \in SUBSET Classes
      BY <1>2, SeenAreClasses
    <3>6. /\ IsFiniteSet(ItemsIn(Seen(p) \cup {c})) /\ Cardinality(ItemsIn(Seen(p) \cup {c})) \in Nat
      BY <1>1, <3>5, SomeItems
    <3>7. ItemsIn(Seen(p)') \in SUBSET ItemsIn(Seen(p) \cup {c})
      BY <2>7 DEF ItemsIn
    <3>8. Cardinality(ItemsIn(Seen(p)')) <= Cardinality(ItemsIn(Seen(p) \cup {c})) /\ IsFiniteSet(ItemsIn(Seen(p)'))
      BY <3>6, <3>7, FS_Subset
    <3>9. Cardinality(ItemsIn(Seen(p)')) \in Nat
      BY <3>8, FS_CardinalityType
    <3>10. Cardinality(ItemsIn(Seen(p)')) <= Cardinality(Unsignalled)
      BY <3>4, <3>6, <3>8, <3>9, FiniteUnsignalled DEF Covered
    <3>11. Covered(Seen(p))' <=> Cardinality(ItemsIn(Seen(p)')) <= Cardinality(Unsignalled)
      BY <1>0, <2>1 DEF Covered, ItemsIn, Unsignalled, queueVars
    <3> QED BY <3>10, <3>11
  <2> HIDE DEF c
  <2> QED BY <1>0, <1>1, <2>1, <2>2, <2>3, <2>4, <2>5, <2>6, <2>8, InsideStep
          DEF queueVars, schedVars, Inside, PullerLabels
<1>4. CASE len[c] # 0
  <2>1. /\ deficit' = [deficit EXCEPT ![c] = Refill(@, Weight[c])]
        /\ class' = [class EXCEPT ![p] = c]
        /\ scanned' = [scanned EXCEPT ![p] = 0]
        /\ Goto(p, "serve") /\ UNCHANGED cursor
    BY <1>4 DEF Scan
  <2>2. /\ pc' \in [Procs -> {"count", "closing"} \cup PullerLabels] /\ pc'[p] = "serve"
        /\ \A q \in Procs : q # p => pc'[q] = pc[q]
    BY <1>1, <2>1, GotoEffect DEF PullerLabels
  <2>3. FiniteItems' = FiniteItems /\ \A S : Covered(S)' = Covered(S)
    BY <1>0, <2>2, InsideCover DEF queueVars
  <2>4. scanned' \in [Procs -> 0..Len(Weighted)]
    BY <1>1, <2>1, RingFacts
  <2>5. deficit' \in [Ring -> Nat] /\ deficit'[c] # 0
    BY <1>1, <1>2, <2>1, RingAssumption DEF Refill
  <2>6. /\ class' \in [Procs -> Classes \cup {None}] /\ class'[p] = c
        /\ \A q \in Procs : q # p => class'[q] = class[q]
    BY <1>1, <1>2, <2>1
  <2>7. len[c] > 0
    BY <1>2, <1>4
  <2> HIDE DEF c
  <2> QED BY <1>0, <1>1, <1>2, <2>1, <2>2, <2>3, <2>4, <2>5, <2>6, <2>7, InsideStep
          DEF queueVars, schedVars, Inside, PullerLabels
<1> QED BY <1>3, <1>4

\* A Pull that parks has left every class behind.
LEMMA PullWaitStep ==
    ASSUME IInv, NEW p \in Pullers, PullWait(p)
    PROVE  IInv'
<1>0. /\ pc[p] = "scan" /\ pc[p] \in Inside /\ scanned[p] = Len(Weighted) /\ mu' = None
      /\ scanned' = [scanned EXCEPT ![p] = 0] /\ Goto(p, "wait")
      /\ UNCHANGED <<queueVars, schedVars, n, class>>
  BY DEF PullWait, Inside
<1>1. /\ Types /\ FiniteItems /\ p \in Procs /\ mu = p /\ n[p] # 0
      /\ len \in [Classes -> Nat] /\ cursor \in 1..Len(Weighted) /\ deficit \in [Ring -> Nat]
      /\ n \in [Procs -> Nat] /\ class \in [Procs -> Classes \cup {None}]
      /\ scanned \in [Procs -> 0..Len(Weighted)]
      /\ waiting # {} => Covered(Classes)
  BY <1>0, InsideFacts
<1>2. /\ pc' \in [Procs -> {"count", "closing"} \cup PullerLabels] /\ pc'[p] = "wait"
      /\ \A q \in Procs : q # p => pc'[q] = pc[q]
  BY <1>0, <1>1, GotoEffect DEF PullerLabels
<1>3. FiniteItems' = FiniteItems /\ \A S : Covered(S)' = Covered(S)
  BY <1>0, <1>2, InsideCover DEF queueVars
<1>4. scanned' \in [Procs -> 0..Len(Weighted)]
  BY <1>0, <1>1, RingFacts
<1>5. Classes \subseteq Seen(p)
  <2>1. \A i \in 1..Len(Weighted) : Ahead(i) >= Len(Weighted) - scanned[p]
    BY <1>0, <1>1, RingFacts DEF Ahead
  <2>2. \A d \in Ring : d \in Seen(p)
    BY <2>1, RingFacts DEF Seen
  <2> QED BY <2>2, RingFacts DEF Seen
<1>6. Seen(p) = Classes
  BY <1>5, SeenAreClasses
<1>7. Covered(Classes)
  BY <1>0, <1>6 DEF IInv, Scanning
<1> QED BY <1>0, <1>1, <1>2, <1>3, <1>4, <1>7, InsideStep DEF queueVars, schedVars, Inside, PullerLabels

\* How many items serve takes: one of its three limits, and no more than any.
LEMMA TakeBounds ==
    ASSUME NEW a \in Nat, NEW b \in Nat, NEW d \in Nat
    PROVE  /\ Least({a, b, d}) \in {a, b, d}
           /\ Least({a, b, d}) <= a /\ Least({a, b, d}) <= b /\ Least({a, b, d}) <= d
<1> DEFINE S == {a, b, d}
<1>1. \E x \in S : \A y \in S : x <= y
  <2>1. CASE a <= b /\ a <= d
    BY <2>1
  <2>2. CASE b <= a /\ b <= d
    BY <2>2
  <2>3. CASE d <= a /\ d <= b
    BY <2>3
  <2> QED BY <2>1, <2>2, <2>3
<1>2. Least(S) \in S /\ \A y \in S : Least(S) <= y
  <2> HIDE DEF S
  <2> QED BY <1>1 DEF Least
<1> QED BY <1>2

\* What serve takes.
Taken(p) == Least({n[p], len[class[p]]} \cup (IF class[p] = Prio THEN {} ELSE {deficit[class[p]]}))

\* It is something, and no more than there is and than the quantum allows.
LEMMA TakenFacts ==
    ASSUME IInv, NEW p \in Pullers, pc[p] = "serve"
    PROVE  /\ class[p] \in Classes /\ len[class[p]] \in Nat
           /\ Taken(p) \in Nat /\ Taken(p) # 0 /\ Taken(p) <= len[class[p]]
           /\ class[p] # Prio =>
                class[p] \in Ring /\ deficit[class[p]] \in Nat /\ Taken(p) <= deficit[class[p]]
<1> DEFINE c == class[p]
           S == {n[p], len[c]} \cup (IF c = Prio THEN {} ELSE {deficit[c]})
           take == Least(S)
<1>1. pc[p] \in Inside
  BY DEF Inside
<1>2. /\ p \in Procs /\ n[p] # 0
      /\ len \in [Classes -> Nat] /\ deficit \in [Ring -> Nat] /\ n \in [Procs -> Nat]
  BY <1>1, InsideFacts
<1>3. /\ c \in Classes /\ len[c] \in Nat /\ len[c] # 0 /\ n[p] \in Nat
      /\ c # Prio => c \in Ring /\ deficit[c] \in Nat /\ deficit[c] # 0
  BY <1>2, RingFacts DEF IInv, Serving, PopNeverBlocks
<1>4. /\ take \in Nat /\ take # 0 /\ take <= len[c]
      /\ c # Prio => take <= deficit[c]
  <2>1. CASE c = Prio
    <3>1. S = {n[p], len[c], len[c]}
      BY <2>1
    <3>2. take = Least({n[p], len[c], len[c]})
      BY <3>1, Zenon
    <3> HIDE DEF take, c
    <3> QED BY <1>2, <1>3, <2>1, <3>2, TakeBounds
  <2>2. CASE c # Prio
    <3>1. S = {n[p], len[c], deficit[c]}
      BY <2>2
    <3>2. take = Least({n[p], len[c], deficit[c]})
      BY <3>1, Zenon
    <3> HIDE DEF take, c
    <3> QED BY <1>2, <1>3, <2>2, <3>2, TakeBounds
  <2> QED BY <2>1, <2>2
<1> QED BY <1>3, <1>4 DEF Taken

\* The Pop of serve takes what is there.
LEMMA ServePopStep ==
    ASSUME IInv, NEW p \in Pullers, ServePop(p)
    PROVE  IInv'
<1> DEFINE c == class[p]
           S == {n[p], len[c]} \cup (IF c = Prio THEN {} ELSE {deficit[c]})
           take == Least(S)
<1>0. pc[p] = "serve" /\ pc[p] \in Inside /\ UNCHANGED <<qclosed, cursor, closed, waiting, scanned>>
  BY DEF ServePop, Inside
<1>1. /\ Types /\ FiniteItems /\ p \in Procs /\ mu = p /\ n[p] # 0
      /\ len \in [Classes -> Nat] /\ cursor \in 1..Len(Weighted) /\ deficit \in [Ring -> Nat]
      /\ n \in [Procs -> Nat] /\ class \in [Procs -> Classes \cup {None}]
      /\ scanned \in [Procs -> 0..Len(Weighted)]
      /\ waiting # {} => Covered(Classes)
  BY <1>0, InsideFacts
<1>2. /\ c \in Classes /\ len[c] \in Nat /\ len[c] # 0 /\ n[p] \in Nat
      /\ c # Prio => c \in Ring /\ deficit[c] \in Nat /\ deficit[c] # 0
  BY <1>0, <1>1, RingFacts DEF IInv, Serving, PopNeverBlocks
<1>3. /\ take \in Nat /\ take # 0 /\ take <= len[c]
      /\ c # Prio => take <= deficit[c]
  BY <1>0, TakenFacts DEF Taken
<1>4. CASE Return(p) /\ mu' = None /\ UNCHANGED <<len, deficit>>
  <2>1. /\ pc' \in [Procs -> {"count", "closing"} \cup PullerLabels] /\ pc'[p] = "idle"
        /\ n' \in [Procs -> Nat] /\ class' \in [Procs -> Classes \cup {None}]
        /\ \A q \in Procs : q # p => pc'[q] = pc[q] /\ n'[q] = n[q] /\ class'[q] = class[q]
    BY <1>1, <1>4, ReturnEffect
  <2>2. FiniteItems' = FiniteItems /\ \A T : Covered(T)' = Covered(T)
    BY <1>4, <2>1, InsideCover
  <2> QED BY <1>0, <1>1, <1>4, <2>1, <2>2, InsideStep DEF Inside, PullerLabels
<1>5. CASE /\ len' = [len EXCEPT ![c] = @ - take]
           /\ IF c = Prio
              THEN Return(p) /\ mu' = None /\ UNCHANGED deficit
              ELSE /\ deficit' = [deficit EXCEPT ![c] = @ - take]
                   /\ Goto(p, "served")
                   /\ UNCHANGED <<mu, n, class, cancelled>>
  <2> HIDE DEF take
  <2>1. len' \in [Classes -> Nat] /\ \A d \in Classes : len'[d] <= len[d]
    BY <1>1, <1>2, <1>3, <1>5
  <2>2. /\ pc' \in [Procs -> {"count", "closing"} \cup PullerLabels]
        /\ n' \in [Procs -> Nat] /\ class' \in [Procs -> Classes \cup {None}]
        /\ \A q \in Procs : q # p => pc'[q] = pc[q] /\ n'[q] = n[q] /\ class'[q] = class[q]
    BY <1>1, <1>5, ReturnEffect, GotoEffect DEF PullerLabels
  <2>3. Unsignalled' = Unsignalled
    BY <2>2, ProcsAssumption, RingFacts DEF Unsignalled
  <2>4. FiniteItems' /\ \A T \in SUBSET Classes : Covered(T) => Covered(T)'
    BY <1>1, <2>1, <2>3, CoverGrows
  <2>5. waiting' # {} => Covered(Classes)'
    BY <1>0, <1>1, <2>4
  <2>6. CASE c = Prio
    <3>1. pc'[p] = "idle" /\ mu' = None /\ deficit' = deficit
      BY <1>1, <1>5, <2>6, ReturnEffect
    <3> QED BY <1>0, <1>1, <2>1, <2>2, <2>4, <2>5, <3>1, InsideStep DEF Inside, PullerLabels
  <2>7. CASE c # Prio
    <3>1. pc'[p] = "served" /\ mu' = mu /\ n'[p] = n[p] /\ class'[p] = c
      BY <1>1, <1>5, <2>7, GotoEffect DEF PullerLabels
    <3>2. deficit' \in [Ring -> Nat]
      <4>1. deficit' = [deficit EXCEPT ![c] = @ - take]
        BY <1>5, <2>7
      <4>2. c \in Ring /\ deficit[c] - take \in Nat
        BY <1>2, <1>3, <2>7
      <4> QED BY <1>1, <4>1, <4>2
    <3>3. /\ pc'[p] \in PullerLabels /\ pc'[p] \in Inside /\ pc'[p] \notin {"scan", "serve"}
          /\ n'[p] # 0 /\ class'[p] \in Ring
      BY <1>1, <1>2, <2>7, <3>1 DEF Inside, PullerLabels
    <3> HIDE DEF c
    <3> QED BY <1>0, <1>1, <2>1, <2>2, <2>4, <2>5, <3>1, <3>2, <3>3, InsideStep
  <2> QED BY <2>6, <2>7
<1> QED BY <1>4, <1>5 DEF ServePop

\* The Pull returns, or goes on to move the cursor.
LEMMA ServeCheckStep ==
    ASSUME IInv, NEW p \in Pullers, ServeCheck(p)
    PROVE  IInv'
<1>0. pc[p] = "served" /\ pc[p] \in Inside /\ UNCHANGED <<queueVars, schedVars, waiting, scanned>>
  BY DEF ServeCheck, Inside
<1>1. /\ Types /\ FiniteItems /\ p \in Procs /\ mu = p /\ n[p] # 0
      /\ len \in [Classes -> Nat] /\ cursor \in 1..Len(Weighted) /\ deficit \in [Ring -> Nat]
      /\ n \in [Procs -> Nat] /\ class \in [Procs -> Classes \cup {None}]
      /\ scanned \in [Procs -> 0..Len(Weighted)]
      /\ waiting # {} => Covered(Classes)
  BY <1>0, InsideFacts
<1>2. CASE Return(p) /\ mu' = None
  <2>1. /\ pc' \in [Procs -> {"count", "closing"} \cup PullerLabels] /\ pc'[p] = "idle"
        /\ n' \in [Procs -> Nat] /\ class' \in [Procs -> Classes \cup {None}]
        /\ \A q \in Procs : q # p => pc'[q] = pc[q] /\ n'[q] = n[q] /\ class'[q] = class[q]
    BY <1>1, <1>2, ReturnEffect
  <2>2. FiniteItems' = FiniteItems /\ \A T : Covered(T)' = Covered(T)
    BY <1>0, <2>1, InsideCover DEF queueVars
  <2> QED BY <1>0, <1>1, <1>2, <2>1, <2>2, InsideStep DEF Inside, PullerLabels, queueVars, schedVars
<1>3. CASE Goto(p, "advance") /\ UNCHANGED <<mu, n, class, cancelled>>
  <2>1. /\ pc' \in [Procs -> {"count", "closing"} \cup PullerLabels] /\ pc'[p] = "advance"
        /\ \A q \in Procs : q # p => pc'[q] = pc[q]
    BY <1>1, <1>3, GotoEffect DEF PullerLabels
  <2>2. FiniteItems' = FiniteItems /\ \A T : Covered(T)' = Covered(T)
    BY <1>0, <2>1, InsideCover DEF queueVars
  <2>3. class[p] \in Ring
    BY <1>0 DEF IInv, Serving
  <2> QED BY <1>0, <1>1, <1>3, <2>1, <2>2, <2>3, InsideStep DEF Inside, PullerLabels, queueVars, schedVars
<1> QED BY <1>2, <1>3 DEF ServeCheck

\* The cursor moves on and the Pull returns.
LEMMA ServeAdvanceStep ==
    ASSUME IInv, NEW p \in Pullers, ServeAdvance(p)
    PROVE  IInv'
<1>0. /\ pc[p] = "advance" /\ pc[p] \in Inside /\ Return(p) /\ mu' = None /\ Advance
      /\ UNCHANGED <<queueVars, pending, closed, waiting, scanned>>
  BY DEF ServeAdvance, Inside
<1>1. /\ Types /\ FiniteItems /\ p \in Procs /\ mu = p /\ n[p] # 0
      /\ len \in [Classes -> Nat] /\ cursor \in 1..Len(Weighted) /\ deficit \in [Ring -> Nat]
      /\ n \in [Procs -> Nat] /\ class \in [Procs -> Classes \cup {None}]
      /\ scanned \in [Procs -> 0..Len(Weighted)]
      /\ waiting # {} => Covered(Classes)
  BY <1>0, InsideFacts
<1>2. /\ pc' \in [Procs -> {"count", "closing"} \cup PullerLabels] /\ pc'[p] = "idle"
      /\ n' \in [Procs -> Nat] /\ class' \in [Procs -> Classes \cup {None}]
      /\ \A q \in Procs : q # p => pc'[q] = pc[q] /\ n'[q] = n[q] /\ class'[q] = class[q]
  BY <1>0, <1>1, ReturnEffect
<1>3. FiniteItems' = FiniteItems /\ \A T : Covered(T)' = Covered(T)
  BY <1>0, <1>2, InsideCover DEF queueVars
<1>4. deficit' \in [Ring -> Nat]
  BY <1>1 DEF ServeAdvance
<1>5. cursor' \in 1..Len(Weighted)
  BY <1>0, <1>1, AdvanceEffect
<1> QED BY <1>0, <1>1, <1>2, <1>3, <1>4, <1>5, InsideStep DEF Inside, PullerLabels, queueVars, schedVars

-----------------------------------------------------------------------------
(***************************************************************************)
(* The theorems.                                                           *)
(***************************************************************************)

\* Whatever the class queues hold at first, nobody waits.
LEMMA InitInvariant == Init => IInv
<1> SUFFICES ASSUME Init PROVE IInv
  OBVIOUS
<1>1. FiniteItems
  <2>1. \A c \in Classes : len[c] \in 0..1
    BY DEF Init
  <2>2. ItemsIn(Classes) \in SUBSET (Classes \X (0..1))
    <3>1. \A c \in Classes : {c} \X (1..len[c]) \subseteq Classes \X (0..1)
      BY <2>1
    <3> DEFINE F == {{c} \X (1..len[c]) : c \in Classes}
    <3>2. \A T \in F : T \subseteq Classes \X (0..1)
      BY <3>1
    <3> HIDE DEF F
    <3>3. UNION F \subseteq Classes \X (0..1)
      BY <3>2, Zenon
    <3>4. ItemsIn(Classes) = UNION F
      BY DEF ItemsIn, F
    <3> QED BY <3>3, <3>4
  <2>3. IsFiniteSet(0..1)
    <3>1. \A a, b \in Int : IsFiniteSet(a..b)
      BY FS_Interval
    <3>2. 0 \in Int /\ 1 \in Int
      OBVIOUS
    <3> QED BY <3>1, <3>2, Zenon
  <2>4. IsFiniteSet(Classes \X (0..1))
    BY <2>3, FiniteClasses, FS_Product
  <2> QED BY <2>2, <2>4, FS_Subset DEF FiniteItems
<1>2. Types
  <2>1. /\ qclosed \in [Classes -> BOOLEAN] /\ closed \in BOOLEAN
        /\ pc \in [Procs -> {"count", "closing"} \cup PullerLabels]
    BY DEF Init, PullerLabels
  <2>2. len \in [Classes -> Nat] /\ cursor \in 1..Len(Weighted) /\ deficit \in [Ring -> Nat]
    BY RingFacts DEF Init
  <2>3. /\ n \in [Procs -> Nat] /\ scanned \in [Procs -> 0..Len(Weighted)]
        /\ class \in [Procs -> Classes \cup {None}]
    BY RingFacts DEF Init
  <2>4. \A p \in Procs : pc[p] = "idle"
    BY DEF Init
  <2> QED BY <2>1, <2>2, <2>3, <2>4, RingFacts DEF Types, Init, PullerLabels
<1>3. \A p \in Pullers : pc[p] = "idle" /\ mu # p
  BY RingFacts DEF Init
<1>4. Holder /\ Serving /\ Scanning /\ PopNeverBlocks
  BY <1>3 DEF Holder, Serving, Scanning, PopNeverBlocks, Inside
<1>5. ClosedInOrder /\ NoLostPull
  BY RingFacts DEF Init, ClosedInOrder, NoLostPull
<1> QED BY <1>1, <1>2, <1>4, <1>5 DEF IInv

\* Every step keeps the invariant.
LEMMA NextInvariant == IInv /\ [Next]_vars => IInv'
<1> SUFFICES ASSUME IInv, [Next]_vars PROVE IInv'
  OBVIOUS
<1>1. ASSUME NEW p \in Pushers, PushQueue(p) \/ PushCount(p) \/ Close(p) \/ CloseQueue(p)
      PROVE  IInv'
  BY <1>1, PushQueueStep, PushCountStep, CloseStep, CloseQueueStep
<1>2. ASSUME NEW p \in Pullers, Pull(p) \/ PullLock(p) \/ PullStep(p) \/ CtxDone(p)
      PROVE  IInv'
  BY <1>2, PullOutside, CheckPrioStep, ScanStep, PullWaitStep, ServePopStep, ServeCheckStep, ServeAdvanceStep
  DEF PullStep
<1>3. CASE UNCHANGED vars
  <2>1. UNCHANGED <<len, pc, cursor, scanned>>
    BY <1>3 DEF vars, queueVars, procVars, schedVars
  <2>2. Unsignalled' = Unsignalled /\ \A q : Seen(q)' = Seen(q)
    BY <2>1 DEF Unsignalled, Seen, Ahead
  <2>3. FiniteItems' = FiniteItems /\ Total' = Total /\ \A S : Covered(S)' = Covered(S)
    BY <2>1, <2>2, CoverKept
  <2>4. Scanning' /\ NoLostPull'
    BY <1>3, <2>1, <2>2, <2>3 DEF IInv, Scanning, NoLostPull, Unsignalled, vars, schedVars
  <2>5. Types' /\ Holder' /\ ClosedInOrder' /\ Serving' /\ PopNeverBlocks'
    BY <1>3
    DEF IInv, Types, Holder, ClosedInOrder, Serving, PopNeverBlocks, vars, queueVars, procVars, schedVars
  <2> QED BY <2>3, <2>4, <2>5 DEF IInv
<1> QED BY <1>1, <1>2, <1>3 DEF Next

\* The invariant holds at all times.
THEOREM CbwfqInvariance == Spec => []IInv
<1>1. Init => IInv
  BY InitInvariant
<1>2. IInv /\ [Next]_vars => IInv'
  BY NextInvariant
<1> QED BY <1>1, <1>2, PTL DEF Spec

\* serve's Pop finds an item in an open queue although the Len it relies on
\* was read without that queue's lock: s.mu is never held by a Pull that
\* blocks (cbwfq.go, serveable and serve).
THEOREM ServeNeverBlocks == Spec => []PopNeverBlocks
<1>1. IInv => PopNeverBlocks
  BY DEF IInv
<1> QED BY <1>1, CbwfqInvariance, PTL

\* A Pull is parked only while every queued item has its Push's signal still
\* to come, although Pull reads the lengths one after the other and Push
\* inserts before it takes s.mu; and never on a closed scheduler.
THEOREM NoPullIsLost == Spec => []NoLostPull
<1>1. IInv => NoLostPull
  BY DEF IInv
<1> QED BY <1>1, CbwfqInvariance, PTL

-----------------------------------------------------------------------------
(***************************************************************************)
(* Weighted fairness.  Since a class with a backlog was last served, the   *)
(* others have had at most the quanta of those the cursor has passed since *)
(* and what the class under the cursor has used of its own.  The quantum   *)
(* that a class keeps when the cursor leaves it early (ServeAdvance) only  *)
(* makes its next turn shorter.                                            *)
(***************************************************************************)

Current == Weighted[cursor]

\* How far behind the cursor the i-th class is; a full turn at the cursor.
Behind(i) == IF i < cursor THEN cursor - i ELSE cursor - i + Len(Weighted)

\* The classes the cursor has passed since it left the i-th.
Passed(i) == {Weighted[j] : j \in {k \in 1..Len(Weighted) : Behind(k) < Behind(i)}}

\* A Pull has served the class under the cursor and not yet decided whether to
\* move on.
Deciding == \E p \in Pullers : pc[p] \in {"served", "advance"}

\* What the class under the cursor has used of its quantum.
Used == IF deficit[Current] = 0 /\ ~Deciding THEN 0 ELSE Weight[Current] - deficit[Current]

TurnTypes ==
    /\ waited \in [Classes -> Nat]
    /\ \A c \in Ring : deficit[c] <= Weight[c]
    /\ \A c \in Ring : len[c] = 0 => waited[c] = 0

\* A Pull serves the class under the cursor.
TurnOf ==
    \A p \in Pullers :
        /\ pc[p] = "serve" /\ class[p] # Prio => class[p] = Current
        /\ pc[p] \in {"served", "advance"} => class[p] = Current /\ waited[class[p]] = 0

Owed(i) == Cardinality(Quanta(Passed(i))) + (IF i = cursor THEN 0 ELSE Used)

Turns == \A i \in 1..Len(Weighted) : waited[Weighted[i]] <= Owed(i)

Fair == TurnTypes /\ TurnOf /\ Turns

\* Each class has one place in the ring.
LEMMA OnePlace == \A i, j \in 1..Len(Weighted) : Weighted[i] = Weighted[j] => i = j
<1>1. Weighted \in Surjection(1..Len(Weighted), Ring)
  <2>1. Weighted \in [1..Len(Weighted) -> Ring]
    BY RingAssumption
  <2> QED BY <2>1, RingFacts, Fun_IsSurj
<1>2. IsFiniteSet(1..Len(Weighted)) /\ Cardinality(1..Len(Weighted)) = Len(Weighted)
  BY RingFacts, FS_Interval
<1>3. Cardinality(1..Len(Weighted)) = Cardinality(Ring)
  BY <1>2, RingAssumption
<1>4. Weighted \in Injection(1..Len(Weighted), Ring)
  BY <1>1, <1>2, <1>3, FS_SurjSameCardinalityImpliesInj
<1> QED BY <1>4 DEF Injection, IsInjective

\* One quantum of a class.
LEMMA OneQuantum ==
    ASSUME NEW c \in Ring
    PROVE  /\ Weight[c] \in Nat \ {0}
           /\ IsFiniteSet({c} \X (1..Weight[c]))
           /\ Cardinality({c} \X (1..Weight[c])) = Weight[c]
<1>1. Weight[c] \in Nat \ {0}
  BY RingAssumption
<1>2. IsFiniteSet(1..Weight[c]) /\ Cardinality(1..Weight[c]) = Weight[c]
  BY <1>1, FS_Interval
<1>3. IsFiniteSet({c}) /\ Cardinality({c}) = 1
  BY FS_Singleton
<1>4. /\ IsFiniteSet({c} \X (1..Weight[c]))
      /\ Cardinality({c} \X (1..Weight[c])) = Cardinality({c}) * Cardinality(1..Weight[c])
  BY <1>2, <1>3, FS_Product
<1> QED BY <1>1, <1>2, <1>3, <1>4

\* The quanta of some classes are finitely many, and more classes have no fewer.
LEMMA QuantaFinite ==
    ASSUME NEW S \in SUBSET Ring
    PROVE  /\ IsFiniteSet(Quanta(S)) /\ Cardinality(Quanta(S)) \in Nat
           /\ \A T \in SUBSET S : Cardinality(Quanta(T)) <= Cardinality(Quanta(S))
<1> DEFINE F == {{c} \X (1..Weight[c]) : c \in S}
           f == [c \in S |-> {c} \X (1..Weight[c])]
<1>1. IsFiniteSet(S)
  BY FiniteClasses, RingFacts, FS_Subset
<1>2. f \in Surjection(S, F)
  <2>1. f \in [S -> F] /\ \A t \in F : \E c \in S : f[c] = t
    OBVIOUS
  <2> HIDE DEF f, F
  <2> QED BY <2>1, Fun_IsSurj
<1>3. IsFiniteSet(F)
  <2> HIDE DEF f, F
  <2> QED BY <1>1, <1>2, FS_Surjection
<1>4. \A T \in F : IsFiniteSet(T)
  BY OneQuantum
<1>5. IsFiniteSet(UNION F)
  <2> HIDE DEF F
  <2> QED BY <1>3, <1>4, FS_UNION
<1>6. IsFiniteSet(Quanta(S)) /\ Cardinality(Quanta(S)) \in Nat
  BY <1>5, FS_CardinalityType DEF Quanta
<1>7. ASSUME NEW T \in SUBSET S
      PROVE  Cardinality(Quanta(T)) <= Cardinality(Quanta(S))
  <2>1. Quanta(T) \in SUBSET Quanta(S)
    BY DEF Quanta
  <2> QED BY <1>6, <2>1, FS_Subset
<1> QED BY <1>6, <1>7

\* One class more.
LEMMA QuantaAdd ==
    ASSUME NEW S \in SUBSET Ring, NEW c \in Ring, c \notin S
    PROVE  Cardinality(Quanta(S \cup {c})) = Cardinality(Quanta(S)) + Weight[c]
<1> DEFINE Q == {c} \X (1..Weight[c])
<1>1. IsFiniteSet(Quanta(S)) /\ IsFiniteSet(Q) /\ Cardinality(Q) = Weight[c] /\ Weight[c] \in Nat
  BY QuantaFinite, OneQuantum
<1>2. Quanta(S \cup {c}) = Quanta(S) \cup Q
  BY DEF Quanta
<1>3. Quanta(S) \cap Q = {}
  BY DEF Quanta
<1>4. Cardinality(Quanta(S) \cup Q) = Cardinality(Quanta(S)) + Cardinality(Q) - Cardinality(Quanta(S) \cap Q)
  <2> HIDE DEF Q
  <2> QED BY <1>1, FS_Union
<1>5. Cardinality(Quanta(S) \cap Q) = 0
  BY <1>3, FS_EmptySet
<1>6. Cardinality(Quanta(S)) \in Nat
  BY QuantaFinite
<1> HIDE DEF Q
<1>7. Cardinality(Quanta(S \cup {c})) = Cardinality(Quanta(S) \cup Q)
  BY <1>2, Zenon
<1> QED BY <1>1, <1>4, <1>5, <1>6, <1>7

\* Where the classes are as seen from the cursor.
LEMMA Places ==
    ASSUME IInv
    PROVE  /\ Current \in Ring /\ Weight[Current] \in Nat \ {0} /\ deficit[Current] \in Nat
           /\ \A i \in 1..Len(Weighted) :
                /\ Behind(i) \in 1..Len(Weighted) /\ (i # cursor => Behind(i) < Len(Weighted))
                /\ Passed(i) \in SUBSET Ring
                /\ Weighted[i] \notin Passed(i)
                /\ i # cursor => Current \notin Passed(i) /\ Current # Weighted[i]
<1>1. cursor \in 1..Len(Weighted) /\ deficit \in [Ring -> Nat] /\ Len(Weighted) \in Nat
  BY RingFacts DEF IInv, Types
<1>2. \A i \in 1..Len(Weighted) : Behind(i) \in 1..Len(Weighted) /\ (i # cursor => Behind(i) < Len(Weighted))
  BY <1>1 DEF Behind
<1>3. Behind(cursor) = Len(Weighted)
  BY <1>1 DEF Behind
<1>4. Current \in Ring /\ Weight[Current] \in Nat \ {0} /\ deficit[Current] \in Nat
  BY <1>1, RingFacts, RingAssumption DEF Current
<1>5. ASSUME NEW i \in 1..Len(Weighted)
      PROVE  /\ Passed(i) \in SUBSET Ring
             /\ Weighted[i] \notin Passed(i)
             /\ i # cursor => Current \notin Passed(i) /\ Current # Weighted[i]
  <2>1. \A j \in 1..Len(Weighted) : Weighted[j] \in Passed(i) => Behind(j) < Behind(i)
    BY OnePlace DEF Passed
  <2>2. Passed(i) \in SUBSET Ring
    BY RingFacts DEF Passed
  <2>3. Weighted[i] \notin Passed(i)
    BY <1>2, <2>1
  <2>4. i # cursor => Current \notin Passed(i) /\ Current # Weighted[i]
    BY <1>1, <1>2, <1>3, <2>1, OnePlace DEF Current
  <2> QED BY <2>2, <2>3, <2>4
<1> QED BY <1>2, <1>4, <1>5

\* The part of a quantum that is used.
LEMMA UsedBounds == IInv /\ TurnTypes => Used \in Nat /\ Used <= Weight[Current]
  BY Places DEF Used, TurnTypes

\* The bound on the wait follows.
LEMMA FairBound == IInv /\ Fair => BoundedWait
<1> SUFFICES ASSUME IInv, Fair, NEW c \in Ring
             PROVE  waited[c] <= Cardinality(Quanta(Ring \ {c}))
  BY DEF BoundedWait
<1>1. PICK i \in 1..Len(Weighted) : c = Weighted[i]
  BY RingFacts
<1>2. waited[c] <= Owed(i) /\ waited[c] \in Nat
  BY <1>1, RingFacts DEF Fair, Turns, TurnTypes
<1>3. Used \in Nat /\ Used <= Weight[Current] /\ Weight[Current] \in Nat /\ Current \in Ring
  BY UsedBounds, Places DEF Fair
<1>4. Passed(i) \in SUBSET Ring /\ c \notin Passed(i)
  BY <1>1, Places
<1>5. CASE i = cursor
  <2>1. Passed(i) \in SUBSET (Ring \ {c})
    BY <1>4
  <2>2. Cardinality(Quanta(Passed(i))) <= Cardinality(Quanta(Ring \ {c}))
    BY <2>1, QuantaFinite
  <2>3. Cardinality(Quanta(Passed(i))) \in Nat /\ Cardinality(Quanta(Ring \ {c})) \in Nat
    BY <1>4, QuantaFinite
  <2> QED BY <1>2, <1>5, <2>2, <2>3 DEF Owed
<1>6. CASE i # cursor
  <2>1. Current \notin Passed(i) /\ Current # c
    BY <1>1, <1>6, Places
  <2>2. Passed(i) \cup {Current} \in SUBSET (Ring \ {c})
    BY <1>3, <1>4, <2>1
  <2>3. Cardinality(Quanta(Passed(i) \cup {Current})) <= Cardinality(Quanta(Ring \ {c}))
    BY <2>2, QuantaFinite
  <2>4. Cardinality(Quanta(Passed(i) \cup {Current})) = Cardinality(Quanta(Passed(i))) + Weight[Current]
    BY <1>3, <1>4, <2>1, QuantaAdd
  <2>5. Cardinality(Quanta(Passed(i))) \in Nat /\ Cardinality(Quanta(Ring \ {c})) \in Nat
    BY <1>4, QuantaFinite
  <2> QED BY <1>2, <1>3, <1>6, <2>3, <2>4, <2>5 DEF Owed
<1> QED BY <1>5, <1>6

\* A step that leaves the cursor where it is: what the others get is used of
\* the quantum under the cursor.
LEMMA CursorStays ==
    ASSUME IInv, Fair, UNCHANGED cursor, TurnTypes', TurnOf',
           NEW k \in Nat, Used' = Used + k,
           \A i \in 1..Len(Weighted) :
               waited'[Weighted[i]] <= waited[Weighted[i]] + (IF i = cursor THEN 0 ELSE k)
    PROVE  Fair'
<1>1. Used \in Nat
  BY UsedBounds DEF Fair
<1>2. ASSUME NEW i \in 1..Len(Weighted)
      PROVE  waited'[Weighted[i]] <= Owed(i)'
  <2>1. Passed(i)' = Passed(i)
    BY DEF Passed, Behind
  <2>2. Cardinality(Quanta(Passed(i))') = Cardinality(Quanta(Passed(i)))
    BY <2>1 DEF Quanta
  <2>3. Cardinality(Quanta(Passed(i))) \in Nat
    BY Places, QuantaFinite
  <2>4. waited[Weighted[i]] \in Nat /\ waited'[Weighted[i]] \in Nat /\ waited[Weighted[i]] <= Owed(i)
    BY RingFacts DEF Fair, Turns, TurnTypes
  <2>5. Owed(i)' = Cardinality(Quanta(Passed(i))) + (IF i = cursor THEN 0 ELSE Used')
    BY <2>2 DEF Owed
  <2>6. Owed(i) = Cardinality(Quanta(Passed(i))) + (IF i = cursor THEN 0 ELSE Used)
    BY DEF Owed
  <2>7. waited'[Weighted[i]] <= waited[Weighted[i]] + (IF i = cursor THEN 0 ELSE k)
    OBVIOUS
  <2> QED BY <1>1, <2>3, <2>4, <2>5, <2>6, <2>7
<1> QED BY <1>2 DEF Fair, Turns

\* The cursor moves on from a class that waits for nothing.
LEMMA CursorMoves ==
    ASSUME IInv, IInv', Fair, Advance, TurnTypes', TurnOf', waited[Current] = 0,
           \A c \in Ring : waited'[c] = waited[c]
    PROVE  Fair'
<1>1. Used \in Nat /\ Used <= Weight[Current] /\ Weight[Current] \in Nat
  BY UsedBounds, Places DEF Fair
<1>2. Used' \in Nat
  <2>1. (IInv /\ TurnTypes => Used \in Nat)'
    BY UsedBounds, PTL
  <2> QED BY <2>1
<1>m. PICK m \in 1..Len(Weighted) : m = cursor
  BY DEF IInv, Types
<1>3. /\ Len(Weighted) \in Nat /\ Current = Weighted[m]
      /\ cursor' = IF m = Len(Weighted) THEN 1 ELSE m + 1
  BY <1>m, AdvanceEffect, RingFacts DEF Current
<1>4. ASSUME NEW i \in 1..Len(Weighted)
      PROVE  waited'[Weighted[i]] <= Owed(i)'
  <2>0. /\ waited[Weighted[i]] \in Nat /\ waited'[Weighted[i]] = waited[Weighted[i]]
        /\ waited[Weighted[i]] <= Owed(i)
    BY RingFacts DEF Fair, Turns, TurnTypes
  <2>1. Owed(i)' = Cardinality(Quanta(Passed(i)')) + (IF i = cursor' THEN 0 ELSE Used')
    BY DEF Owed, Quanta
  <2>2. Passed(i)' \in SUBSET Ring /\ Cardinality(Quanta(Passed(i)')) \in Nat
    <3>1. Passed(i)' \in SUBSET Ring
      BY RingFacts DEF Passed
    <3> QED BY <3>1, QuantaFinite
  <2>3. CASE i = m
    BY <1>2, <1>3, <2>0, <2>1, <2>2, <2>3
  <2>4. CASE i # m
    <3>1. /\ \A j \in 1..Len(Weighted) : Behind(j) \in 1..Len(Weighted)
          /\ Behind(m) = Len(Weighted) /\ Behind(m)' = 1
          /\ \A j \in 1..Len(Weighted) : j # m => Behind(j)' = Behind(j) + 1
      BY <1>m, <1>3 DEF Behind
    <3>2. {j \in 1..Len(Weighted) : Behind(j)' < Behind(i)'}
            = {j \in 1..Len(Weighted) : Behind(j) < Behind(i)} \cup {m}
      <4>1. \A j \in 1..Len(Weighted) : Behind(j)' < Behind(i)' <=> Behind(j) < Behind(i) \/ j = m
        <5>1. Behind(i) \in 1..Len(Weighted) /\ Behind(i)' = Behind(i) + 1
          BY <2>4, <3>1
        <5>2. ASSUME NEW j \in 1..Len(Weighted), j # m
              PROVE  Behind(j)' < Behind(i)' <=> Behind(j) < Behind(i)
          <6>1. Behind(j) \in 1..Len(Weighted) /\ Behind(j)' = Behind(j) + 1
            BY <3>1, <5>2
          <6> QED BY <1>3, <5>1, <6>1
        <5>3. Behind(m)' < Behind(i)'
          BY <1>3, <3>1, <5>1
        <5> QED BY <5>2, <5>3
      <4> QED BY <4>1
    <3>3. Passed(i)' = Passed(i) \cup {Current}
      BY <1>3, <3>2 DEF Passed
    <3>4. Current \in Ring /\ Passed(i) \in SUBSET Ring /\ Current \notin Passed(i)
      BY <1>m, <2>4, Places
    <3>5. Cardinality(Quanta(Passed(i) \cup {Current})) = Cardinality(Quanta(Passed(i))) + Weight[Current]
      BY <3>4, QuantaAdd
    <3>6. Cardinality(Quanta(Passed(i)')) = Cardinality(Quanta(Passed(i))) + Weight[Current]
      BY <3>3, <3>5, Zenon
    <3>7. Cardinality(Quanta(Passed(i))) \in Nat
      BY <3>4, QuantaFinite
    <3>8. Owed(i) = Cardinality(Quanta(Passed(i))) + Used
      BY <1>m, <2>4 DEF Owed
    <3> QED BY <1>1, <1>2, <2>0, <2>1, <3>6, <3>7, <3>8
  <2> QED BY <2>3, <2>4
<1> QED BY <1>4 DEF Fair, Turns


\* A step that serves no weighted class and takes nobody's turn.
LEMMA QuietTurn ==
    ASSUME IInv, Fair, UNCHANGED <<cursor, deficit>>,
           waited' \in [Classes -> Nat], \A c \in Ring : waited'[c] \in {0, waited[c]},
           \A c \in Ring : len'[c] = 0 => waited'[c] = 0,
           \A q \in Pullers :
               /\ pc'[q] = "serve" /\ class'[q] # Prio => pc[q] = "serve" /\ class'[q] = class[q]
               /\ pc'[q] \in {"served", "advance"} <=> pc[q] \in {"served", "advance"}
               /\ pc'[q] \in {"served", "advance"} => class'[q] = class[q]
    PROVE  Fair'
<1>1. Current \in Ring /\ Current' = Current
  BY Places DEF Current
<1>2. TurnTypes'
  BY DEF Fair, TurnTypes
<1>3. TurnOf'
  BY <1>1 DEF Fair, TurnOf
<1>4. Used' = Used
  BY <1>1 DEF Used, Deciding
<1>5. Used \in Nat
  BY UsedBounds DEF Fair
<1>6. \A i \in 1..Len(Weighted) : waited'[Weighted[i]] <= waited[Weighted[i]] + (IF i = cursor THEN 0 ELSE 0)
  <2> SUFFICES ASSUME NEW i \in 1..Len(Weighted)
               PROVE  waited'[Weighted[i]] <= waited[Weighted[i]] + 0
    OBVIOUS
  <2>1. waited[Weighted[i]] \in Nat /\ waited'[Weighted[i]] \in {0, waited[Weighted[i]]}
    BY RingFacts DEF Fair, TurnTypes
  <2> QED BY <2>1
<1> QED BY <1>2, <1>3, <1>4, <1>5, <1>6, CursorStays

\* A Push does not touch the turns: a backlog that begins has waited for nothing.
LEMMA PushFair ==
    ASSUME IInv, Fair, NEW p \in Pushers,
           PushQueue(p) \/ PushCount(p) \/ Close(p) \/ CloseQueue(p)
    PROVE  Fair'
<1>1. \A q \in Pullers : pc'[q] = pc[q]
  <2>1. \E l : pc' = [pc EXCEPT ![p] = l]
    BY DEF PushQueue, PushCount, Settle, Close, Closes, CloseQueue, Goto
  <2>2. pc \in [Procs -> {"count", "closing"} \cup PullerLabels]
    BY DEF IInv, Types
  <2> QED BY <2>1, <2>2, ProcsAssumption, RingFacts
<1>2. UNCHANGED <<cursor, deficit, class>>
  BY DEF PushQueue, PushCount, Settle, Close, Closes, CloseQueue, schedVars
<1>3. /\ waited \in [Classes -> Nat] /\ len \in [Classes -> Nat]
      /\ \A c \in Ring : len[c] = 0 => waited[c] = 0
  BY DEF IInv, Types, Fair, TurnTypes
<1>4. CASE PushQueue(p)
  <2>1. PICK c \in Classes : /\ len' = [len EXCEPT ![c] = @ + 1]
                             /\ waited' = [waited EXCEPT ![c] = IF len[c] = 0 THEN 0 ELSE @]
    BY <1>4 DEF PushQueue
  <2>2. waited' \in [Classes -> Nat] /\ \A d \in Ring : waited'[d] \in {0, waited[d]}
    BY <1>3, <2>1, RingFacts
  <2>3. \A d \in Ring : len'[d] = 0 => waited'[d] = 0
    BY <1>3, <2>1, RingFacts
  <2> QED BY <1>1, <1>2, <2>2, <2>3, QuietTurn
<1>5. CASE PushCount(p) \/ Close(p) \/ CloseQueue(p)
  <2>1. UNCHANGED <<len, waited>>
    BY <1>5 DEF PushCount, Settle, Close, Closes, CloseQueue, queueVars
  <2> QED BY <1>1, <1>2, <1>3, <2>1, QuietTurn
<1> QED BY <1>4, <1>5

\* Nor does a Pull that serves no weighted class.
LEMMA PullFair ==
    ASSUME IInv, Fair, NEW p \in Pullers,
           UNCHANGED <<cursor, deficit, waited>>,
           \A c \in Ring : len'[c] = len[c],
           \A q \in Pullers : q # p => pc'[q] = pc[q] /\ class'[q] = class[q],
           pc'[p] = "serve" => class'[p] = Prio,
           pc'[p] \in {"served", "advance"} <=> pc[p] \in {"served", "advance"},
           pc'[p] \in {"served", "advance"} => class'[p] = class[p]
    PROVE  Fair'
<1>1. waited' \in [Classes -> Nat] /\ \A c \in Ring : waited'[c] \in {0, waited[c]}
  BY DEF Fair, TurnTypes
<1>2. \A c \in Ring : len'[c] = 0 => waited'[c] = 0
  BY DEF Fair, TurnTypes
<1> QED BY <1>1, <1>2, QuietTurn

\* Pulls that are on their way in or out.
LEMMA OutsideFair ==
    ASSUME IInv, Fair, NEW p \in Pullers,
           Pull(p) \/ PullLock(p) \/ CtxDone(p) \/ CtxWake(p) \/ PullWoken(p)
             \/ PullWait(p) \/ CheckPrio(p)
    PROVE  Fair'
<1>1. Types
  BY DEF IInv
<1>2. UNCHANGED <<len, cursor, deficit, waited>>
  BY DEF Pull, PullLock, CtxDone, CtxWake, PullWoken, PullWait, CheckPrio, queueVars, schedVars
<1>3. pc[p] \in {"idle", "lock", "prio", "scan", "wait"} \/ UNCHANGED <<pc, class>>
  BY DEF Pull, PullLock, CtxDone, CtxWake, PullWoken, PullWait, CheckPrio, procVars
<1>4. CASE UNCHANGED <<pc, class>>
  <2>1. \A q \in Pullers : pc'[q] = pc[q] /\ class'[q] = class[q]
    BY <1>4
  <2>2. waited \in [Classes -> Nat] /\ \A c \in Ring : len[c] = 0 => waited[c] = 0
    BY DEF Fair, TurnTypes
  <2> QED BY <1>2, <2>1, <2>2, QuietTurn
<1>5. CASE Return(p) /\ pc[p] \in {"idle", "lock", "prio", "scan", "wait"}
  BY <1>1, <1>2, <1>5, ReturnEffect, RingFacts, PullFair
<1>6. ASSUME NEW l \in {"lock", "prio", "scan", "wait"}, Goto(p, l), class' = class,
             pc[p] \in {"idle", "lock", "prio", "scan", "wait"}
      PROVE  Fair'
  <2>1. pc'[p] = l /\ \A q \in Pullers : q # p => pc'[q] = pc[q]
    BY <1>1, <1>6, GotoEffect, RingFacts DEF PullerLabels
  <2> QED BY <1>2, <1>6, <2>1, PullFair
<1>7. CASE pc[p] = "prio" /\ class' = [class EXCEPT ![p] = Prio] /\ Goto(p, "serve")
  <2>1. pc'[p] = "serve" /\ \A q \in Pullers : q # p => pc'[q] = pc[q]
    BY <1>1, <1>7, GotoEffect, RingFacts DEF PullerLabels
  <2>2. class'[p] = Prio /\ \A q \in Pullers : q # p => class'[q] = class[q]
    BY <1>1, <1>7, RingFacts DEF Types
  <2> QED BY <1>2, <1>7, <2>1, <2>2, PullFair
<1> QED BY <1>3, <1>4, <1>5, <1>6, <1>7
     DEF Pull, PullLock, CtxDone, CtxWake, PullWoken, PullWait, CheckPrio, procVars

\* Only one Pull is inside, so nobody else serves.
LEMMA AloneInside ==
    ASSUME IInv, NEW p \in Pullers, pc[p] \in Inside
    PROVE  \A q \in Pullers : q # p => pc[q] \notin {"prio", "scan", "serve", "served", "advance"}
BY DEF IInv, Holder, Inside

\* The scan: an empty class is passed, the first other one has its turn.
LEMMA ScanFair ==
    ASSUME IInv, IInv', Fair, NEW p \in Pullers, Scan(p)
    PROVE  Fair'
<1>1. pc[p] = "scan" /\ UNCHANGED <<len, waited>>
  BY DEF Scan, queueVars
<1>2. /\ Types /\ p \in Procs /\ deficit \in [Ring -> Nat] /\ class \in [Procs -> Classes \cup {None}]
      /\ \A q \in Pullers : q # p => pc[q] \notin {"prio", "scan", "serve", "served", "advance"}
  BY <1>1, InsideFacts, AloneInside DEF Inside
<1>3. Current \in Ring /\ Weight[Current] \in Nat \ {0} /\ deficit[Current] \in Nat
  BY Places
<1>4. waited \in [Classes -> Nat] /\ \A c \in Ring : deficit[c] <= Weight[c] /\ (len[c] = 0 => waited[c] = 0)
  BY DEF Fair, TurnTypes
<1>5. CASE len[Current] = 0
  <2>1. deficit' = [deficit EXCEPT ![Current] = 0] /\ Advance /\ UNCHANGED <<class, pc>>
    BY <1>5 DEF Scan, Current
  <2>2. \A c \in Ring : deficit'[c] <= Weight[c]
    BY <1>2, <1>4, <2>1, RingAssumption
  <2>3. TurnTypes'
    BY <1>1, <1>4, <2>2 DEF TurnTypes
  <2>4. TurnOf'
    BY <1>1, <1>2, <2>1 DEF TurnOf
  <2>5. waited[Current] = 0 /\ \A c \in Ring : waited'[c] = waited[c]
    BY <1>1, <1>3, <1>4, <1>5
  <2> QED BY <2>1, <2>3, <2>4, <2>5, CursorMoves
<1>6. CASE len[Current] # 0
  <2>1. /\ deficit' = [deficit EXCEPT ![Current] = Refill(@, Weight[Current])]
        /\ class' = [class EXCEPT ![p] = Current] /\ Goto(p, "serve") /\ UNCHANGED cursor
    BY <1>6 DEF Scan, Current
  <2>2. pc'[p] = "serve" /\ \A q \in Pullers : q # p => pc'[q] = pc[q]
    BY <1>2, <2>1, GotoEffect, RingFacts DEF PullerLabels
  <2>3. class'[p] = Current /\ Current' = Current
    BY <1>2, <2>1 DEF Current
  <2>4. /\ deficit'[Current] = Refill(deficit[Current], Weight[Current])
        /\ \A c \in Ring : c # Current => deficit'[c] = deficit[c]
    BY <1>2, <1>3, <2>1
  <2>5. \A c \in Ring : deficit'[c] <= Weight[c]
    BY <1>3, <1>4, <2>4 DEF Refill
  <2>6. TurnTypes'
    BY <1>1, <1>4, <2>5 DEF TurnTypes
  <2>7. TurnOf'
    BY <1>2, <2>2, <2>3 DEF TurnOf
  <2>8. ~Deciding /\ ~Deciding'
    BY <1>1, <1>2, <2>2 DEF Deciding
  <2>9. Used' = Used /\ Used \in Nat
    <3>1. Used \in Nat
      BY UsedBounds DEF Fair
    <3>2. Used' = IF deficit'[Current] = 0 THEN 0 ELSE Weight[Current] - deficit'[Current]
      BY <2>3, <2>8 DEF Used
    <3>3. Used = IF deficit[Current] = 0 THEN 0 ELSE Weight[Current] - deficit[Current]
      BY <2>8 DEF Used
    <3> QED BY <1>3, <2>4, <3>1, <3>2, <3>3 DEF Refill
  <2>10. \A i \in 1..Len(Weighted) : waited'[Weighted[i]] <= waited[Weighted[i]] + (IF i = cursor THEN 0 ELSE 0)
    <3>1. \A i \in 1..Len(Weighted) : waited[Weighted[i]] \in Nat
      BY <1>4, RingFacts
    <3> QED BY <1>1, <3>1
  <2>11. Used' = Used + 0
    BY <2>9
  <2> QED BY <2>1, <2>6, <2>7, <2>10, <2>11, CursorStays
<1> QED BY <1>5, <1>6

\* A Pop that fails, or one of the priority class, leaves the turns alone; one
\* of the class under the cursor is counted to the others as used of its quantum.
LEMMA ServePopFair ==
    ASSUME IInv, Fair, NEW p \in Pullers, ServePop(p)
    PROVE  Fair'
<1> DEFINE c == class[p]
           take == Taken(p)
<1>1. pc[p] = "serve" /\ UNCHANGED cursor
  BY DEF ServePop
<1>2. /\ Types /\ p \in Procs /\ deficit \in [Ring -> Nat] /\ len \in [Classes -> Nat]
      /\ \A q \in Pullers : q # p => pc[q] \notin {"prio", "scan", "serve", "served", "advance"}
  BY <1>1, InsideFacts, AloneInside DEF Inside
<1>3. /\ c \in Classes /\ len[c] \in Nat /\ take \in Nat /\ take <= len[c]
      /\ c # Prio => c \in Ring /\ deficit[c] \in Nat /\ deficit[c] # 0 /\ take <= deficit[c] /\ c = Current
  BY <1>1, TakenFacts DEF IInv, Serving, Fair, TurnOf
<1>4. waited \in [Classes -> Nat] /\ \A d \in Ring : deficit[d] <= Weight[d] /\ (len[d] = 0 => waited[d] = 0)
  BY DEF Fair, TurnTypes
<1>5. CASE Return(p) /\ UNCHANGED <<len, deficit, waited>>
  BY <1>1, <1>2, <1>5, ReturnEffect, RingFacts, PullFair
<1>6. CASE /\ c = Prio /\ Return(p) /\ UNCHANGED deficit
           /\ len' = [len EXCEPT ![c] = @ - take]
           /\ waited' = [d \in Classes |-> waited[d]]
  <2>1. waited' = waited
    BY <1>4, <1>6
  <2>2. \A d \in Ring : len'[d] = len[d]
    BY <1>2, <1>6, RingFacts
  <2> QED BY <1>1, <1>2, <1>6, <2>1, <2>2, ReturnEffect, RingFacts, PullFair
<1>7. CASE /\ c # Prio /\ Goto(p, "served") /\ UNCHANGED class
           /\ len' = [len EXCEPT ![c] = @ - take]
           /\ deficit' = [deficit EXCEPT ![c] = @ - take]
           /\ waited' = [d \in Classes |-> IF d = c \/ len[d] = 0 THEN 0 ELSE waited[d] + take]
  <2> HIDE DEF take
  <2>1. /\ c \in Ring /\ deficit[c] \in Nat /\ deficit[c] # 0 /\ take <= deficit[c]
        /\ c = Current /\ Current' = Current /\ Weight[c] \in Nat
    BY <1>1, <1>3, <1>7, RingAssumption DEF Current
  <2>2. pc'[p] = "served" /\ \A q \in Pullers : q # p => pc'[q] = pc[q]
    BY <1>2, <1>7, GotoEffect, RingFacts DEF PullerLabels
  <2>3. deficit'[c] = deficit[c] - take /\ \A d \in Ring : d # c => deficit'[d] = deficit[d]
    BY <1>2, <1>7, <2>1
  <2>4. \A d \in Ring : waited'[d] = IF d = c \/ len[d] = 0 THEN 0 ELSE waited[d] + take
    BY <1>7, RingFacts
  <2>5. TurnTypes'
    <3>1. waited' \in [Classes -> Nat]
      BY <1>3, <1>4, <1>7
    <3>2. \A d \in Ring : deficit'[d] <= Weight[d]
      <4>1. deficit[c] - take <= Weight[c]
        BY <1>3, <1>4, <2>1
      <4> HIDE DEF c
      <4> QED BY <1>4, <2>3, <4>1
    <3>3. \A d \in Ring : len'[d] = 0 => waited'[d] = 0
      BY <1>2, <1>3, <1>7, <2>4, RingFacts
    <3> QED BY <3>1, <3>2, <3>3 DEF TurnTypes
  <2>6. TurnOf'
    BY <1>2, <1>7, <2>1, <2>2, <2>4 DEF TurnOf
  <2>7. Used = Weight[c] - deficit[c] /\ Used' = Weight[c] - deficit'[c]
    <3>1. Deciding'
      BY <2>2 DEF Deciding
    <3> QED BY <2>1, <3>1 DEF Used
  <2>8. Used' = Used + take
    BY <1>3, <2>1, <2>3, <2>7
  <2>9. ASSUME NEW i \in 1..Len(Weighted)
        PROVE  waited'[Weighted[i]] <= waited[Weighted[i]] + (IF i = cursor THEN 0 ELSE take)
    <3>1. Weighted[i] \in Ring /\ waited[Weighted[i]] \in Nat
      BY <1>4, RingFacts
    <3>2. i = cursor => Weighted[i] = c
      BY <2>1 DEF Current
    <3> HIDE DEF c
    <3> QED BY <1>3, <2>4, <3>1, <3>2
  <2>10. take \in Nat
    BY <1>3
  <2> QED BY <1>1, <2>5, <2>6, <2>8, <2>9, <2>10, CursorStays
<1> QED BY <1>5, <1>6, <1>7 DEF ServePop, Taken

\* A Pull that stays on its class has not used the quantum up.
LEMMA ServeCheckFair ==
    ASSUME IInv, Fair, NEW p \in Pullers, ServeCheck(p)
    PROVE  Fair'
<1>1. pc[p] = "served" /\ UNCHANGED <<len, cursor, deficit, waited>>
  BY DEF ServeCheck, queueVars, schedVars
<1>2. /\ Types /\ p \in Procs
      /\ \A q \in Pullers : q # p => pc[q] \notin {"prio", "scan", "serve", "served", "advance"}
  BY <1>1, InsideFacts, AloneInside DEF Inside
<1>3. CASE Goto(p, "advance") /\ UNCHANGED class
  <2>1. pc'[p] = "advance" /\ \A q \in Pullers : q # p => pc'[q] = pc[q]
    BY <1>2, <1>3, GotoEffect, RingFacts DEF PullerLabels
  <2> QED BY <1>1, <1>3, <2>1, PullFair
<1>4. CASE deficit[class[p]] # 0 /\ Return(p)
  <2>1. pc'[p] = "idle" /\ \A q \in Pullers : q # p => pc'[q] = pc[q]
    BY <1>2, <1>4, ReturnEffect, RingFacts
  <2>2. deficit[Current] # 0 /\ Current' = Current
    BY <1>1, <1>4 DEF Fair, TurnOf, Current
  <2>3. TurnTypes'
    BY <1>1 DEF Fair, TurnTypes
  <2>4. TurnOf'
    BY <1>2, <2>1 DEF TurnOf
  <2>5. Used' = Used
    BY <1>1, <2>2 DEF Used
  <2>6. Used \in Nat
    BY UsedBounds DEF Fair
  <2>7. Used' = Used + 0
    BY <2>5, <2>6
  <2>8. \A i \in 1..Len(Weighted) : waited'[Weighted[i]] <= waited[Weighted[i]] + (IF i = cursor THEN 0 ELSE 0)
    <3>1. \A i \in 1..Len(Weighted) : waited[Weighted[i]] \in Nat
      BY RingFacts DEF Fair, TurnTypes
    <3> QED BY <1>1, <3>1
  <2> QED BY <1>1, <2>3, <2>4, <2>7, <2>8, CursorStays
<1> QED BY <1>3, <1>4 DEF ServeCheck

\* The class the cursor leaves has just been served.
LEMMA ServeAdvanceFair ==
    ASSUME IInv, IInv', Fair, NEW p \in Pullers, ServeAdvance(p)
    PROVE  Fair'
<1>1. /\ pc[p] = "advance" /\ Advance /\ Return(p) /\ UNCHANGED <<len, waited>>
      /\ deficit' = [deficit EXCEPT ![class[p]] = IF len[class[p]] = 0 THEN 0 ELSE @]
  BY DEF ServeAdvance, queueVars
<1>2. /\ Types /\ p \in Procs /\ deficit \in [Ring -> Nat]
      /\ \A q \in Pullers : q # p => pc[q] \notin {"prio", "scan", "serve", "served", "advance"}
  BY <1>1, InsideFacts, AloneInside DEF Inside
<1>3. pc'[p] = "idle" /\ \A q \in Pullers : q # p => pc'[q] = pc[q]
  BY <1>1, <1>2, ReturnEffect, RingFacts
<1>4. waited[Current] = 0
  BY <1>1 DEF Fair, TurnOf
<1>5. \A d \in Ring : deficit'[d] <= Weight[d]
  BY <1>1, <1>2, RingAssumption DEF Fair, TurnTypes
<1>6. TurnTypes'
  BY <1>1, <1>5 DEF Fair, TurnTypes
<1>7. TurnOf'
  BY <1>2, <1>3 DEF TurnOf
<1> QED BY <1>1, <1>4, <1>6, <1>7, CursorMoves

\* Nobody has waited at first.
LEMMA InitFair == Init => Fair
<1> SUFFICES ASSUME Init PROVE Fair
  OBVIOUS
<1>1. IInv
  BY InitInvariant
<1>2. /\ waited \in [Classes -> Nat] /\ \A c \in Classes : waited[c] = 0
      /\ \A c \in Ring : deficit[c] = 0
  BY DEF Init
<1>3. TurnTypes
  BY <1>2, RingFacts, RingAssumption DEF TurnTypes
<1>4. \A p \in Pullers : pc[p] = "idle"
  BY RingFacts DEF Init
<1>5. TurnOf
  BY <1>4 DEF TurnOf
<1>6. ASSUME NEW i \in 1..Len(Weighted)
      PROVE  waited[Weighted[i]] <= Owed(i)
  <2>1. Cardinality(Quanta(Passed(i))) \in Nat
    BY <1>1, Places, QuantaFinite
  <2>2. Used \in Nat
    BY <1>1, <1>3, UsedBounds
  <2>3. waited[Weighted[i]] = 0
    BY <1>2, RingFacts
  <2> QED BY <2>1, <2>2, <2>3 DEF Owed
<1> QED BY <1>3, <1>5, <1>6 DEF Fair, Turns

\* Every step keeps the account of the turns.
LEMMA NextFair == IInv /\ IInv' /\ Fair /\ [Next]_vars => Fair'
<1> SUFFICES ASSUME IInv, IInv', Fair, [Next]_vars PROVE Fair'
  OBVIOUS
<1>1. ASSUME NEW p \in Pushers, PushQueue(p) \/ PushCount(p) \/ Close(p) \/ CloseQueue(p)
      PROVE  Fair'
  BY <1>1, PushFair
<1>2. ASSUME NEW p \in Pullers, Pull(p) \/ PullLock(p) \/ PullStep(p) \/ CtxDone(p)
      PROVE  Fair'
  BY <1>2, OutsideFair, ScanFair, ServePopFair, ServeCheckFair, ServeAdvanceFair DEF PullStep
<1>3. CASE UNCHANGED vars
  <2>1. UNCHANGED <<len, cursor, deficit, pc, class, waited>>
    BY <1>3 DEF vars, queueVars, procVars, schedVars
  <2>2. waited \in [Classes -> Nat] /\ \A c \in Ring : len[c] = 0 => waited[c] = 0
    BY DEF Fair, TurnTypes
  <2> QED BY <2>1, <2>2, QuietTurn
<1> QED BY <1>1, <1>2, <1>3 DEF Next

\* Weighted fairness for every ring, every weight and every n a Pull asks for:
\* between two turns of a class with a backlog the others take at most one
\* quantum each, also when a Pull leaves part of a quantum to the next or the
\* cursor moves on while a Push refills the class (cbwfq.go, serve).
THEOREM NoClassIsStarved == Spec => []BoundedWait
<1>1. Init => Fair
  BY InitFair
<1>2. IInv /\ IInv' /\ Fair /\ [Next]_vars => Fair'
  BY NextFair
<1>3. IInv /\ Fair => BoundedWait
  BY FairBound
<1> QED BY <1>1, <1>2, <1>3, CbwfqInvariance, PTL DEF Spec
=============================================================================
