----------------------------- MODULE FifoProofs -----------------------------
(***************************************************************************)
(* What Fifo guarantees for every set of goroutines, items, batches and    *)
(* every bound, proved from an inductive invariant.                        *)
(***************************************************************************)
EXTENDS Fifo, FiniteSetTheorems, SequenceTheorems, TLAPS

EntrySet == [val : Items, restored : BOOLEAN]

\* Restored or pushed, a batch of items is a sequence of entries as long.
LEMMA EntriesAreEntries ==
    ASSUME NEW vs \in Seq(Items), NEW r \in BOOLEAN
    PROVE  /\ Entries(vs, r) \in Seq(EntrySet)
           /\ Len(Entries(vs, r)) = Len(vs)
           /\ \A i \in 1..Len(vs) : Entries(vs, r)[i].restored = r
BY DEF Entries, Entry, EntrySet

-----------------------------------------------------------------------------
(***************************************************************************)
(* The inductive invariant.  NoLostWakeupFull speaks of counters and of    *)
(* the arguments of parked calls, so it needs the types, and that a parked *)
(* call cannot start another one (Parked); InflightExact needs that a      *)
(* reservation is only held by a call with a hook (HookCalls); Bounded     *)
(* follows from the same gate stated on the counters (Admitted), once the  *)
(* counters are known to count the right entries (HydratedPrefix).         *)
(***************************************************************************)
Parked == \A p \in notFull \cup notEmpty : pc[p] = "wait"

HookCalls == \A p \in Procs : pc[p] = "hook" => call[p].hook

Admitted == MaxSize > 0 => Len(live) - hydrated + inflight <= MaxSize

NotOpened ==
    ~opened => /\ live = <<>> /\ hydrated = 0 /\ inflight = 0 /\ ~closed
               /\ notFull = {} /\ notEmpty = {}

SlotsCounted == IsFiniteSet(ReservedSlots) /\ InflightExact

IInv ==
    /\ QueueTypes /\ NotOpened
    /\ SlotsCounted /\ HookCalls
    /\ Parked /\ NoLostWakeupEmpty /\ NoLostWakeupFull
    /\ Admitted /\ HydratedPrefix

-----------------------------------------------------------------------------
(***************************************************************************)
(* Reservations.                                                           *)
(***************************************************************************)

\* The first n positions are n positions.
LEMMA IntervalCount ==
    ASSUME NEW n \in Nat
    PROVE  IsFiniteSet(1..n) /\ Cardinality(1..n) = n
<1>1. /\ IsFiniteSet(1..n)
      /\ Cardinality(1..n) = IF 1 > n THEN 0 ELSE n - 1 + 1
  BY FS_Interval
<1> QED BY <1>1

\* A step that keeps the set of running hooks and their batches keeps the
\* reserved slots.
LEMMA SlotsKept ==
    ASSUME \A q \in Procs : pc'[q] = "hook" <=> pc[q] = "hook",
           \A q \in Procs : pc[q] = "hook" => call'[q] = call[q]
    PROVE  ReservedSlots' = ReservedSlots
BY DEF ReservedSlots

\* A hook that starts adds the slots of its batch, and no others.
LEMMA SlotsTaken ==
    ASSUME QueueTypes, SlotsCounted, NEW p \in Procs, pc[p] # "hook", NEW c,
           Len(c.vs) \in Nat, Continue(p, c, "hook")
    PROVE  /\ IsFiniteSet(ReservedSlots')
           /\ Cardinality(ReservedSlots') = Cardinality(ReservedSlots) + Len(c.vs)
<1> DEFINE mine == {p} \X (1..Len(c.vs))
<1>1. ReservedSlots' = ReservedSlots \cup mine
  BY DEF ReservedSlots, Continue, QueueTypes, ProcTypes
<1>2. ReservedSlots \cap mine = {}
  BY DEF ReservedSlots
<1>3. IsFiniteSet({p}) /\ Cardinality({p}) = 1
  BY FS_Singleton
<1>4. IsFiniteSet(1..Len(c.vs)) /\ Cardinality(1..Len(c.vs)) = Len(c.vs)
  BY IntervalCount
<1>5. IsFiniteSet(mine) /\ Cardinality(mine) = Len(c.vs)
  <2>1. IsFiniteSet(mine) /\ Cardinality(mine) = Cardinality({p}) * Cardinality(1..Len(c.vs))
    BY <1>3, <1>4, FS_Product
  <2> QED BY <2>1, <1>3, <1>4
<1>6. Cardinality(ReservedSlots) \in Nat
  BY FS_CardinalityType DEF SlotsCounted
<1>7. /\ IsFiniteSet(ReservedSlots \cup mine)
      /\ Cardinality(ReservedSlots \cup mine)
            = Cardinality(ReservedSlots) + Cardinality(mine) - Cardinality(ReservedSlots \cap mine)
  BY <1>5, FS_Union DEF SlotsCounted
<1>8. Cardinality(ReservedSlots \cap mine) = 0
  BY <1>2, FS_EmptySet
<1> HIDE DEF mine
<1> QED BY <1>1, <1>5, <1>6, <1>7, <1>8

\* A hook that ends gives exactly its own slots back.
LEMMA SlotsGiven ==
    ASSUME QueueTypes, SlotsCounted, NEW p \in Procs, pc[p] = "hook",
           \A q \in Procs : q # p => pc'[q] = pc[q] /\ call'[q] = call[q],
           pc'[p] # "hook"
    PROVE  /\ IsFiniteSet(ReservedSlots')
           /\ Cardinality(ReservedSlots') = Cardinality(ReservedSlots) - Len(call[p].vs)
<1> DEFINE mine == {p} \X (1..Len(call[p].vs))
<1>0. Len(call[p].vs) \in Nat
  BY BatchesAssumption, LenProperties DEF QueueTypes, ProcTypes, Call
<1>1. ReservedSlots' = ReservedSlots \ mine
  BY DEF ReservedSlots
<1>2. ReservedSlots \cap mine = mine
  BY DEF ReservedSlots
<1>3. IsFiniteSet({p}) /\ Cardinality({p}) = 1
  BY FS_Singleton
<1>4. IsFiniteSet(1..Len(call[p].vs)) /\ Cardinality(1..Len(call[p].vs)) = Len(call[p].vs)
  BY <1>0, IntervalCount
<1>5. Cardinality(mine) = Len(call[p].vs)
  <2>1. Cardinality(mine) = Cardinality({p}) * Cardinality(1..Len(call[p].vs))
    BY <1>3, <1>4, FS_Product
  <2> QED BY <2>1, <1>3, <1>4, <1>0
<1>6. /\ IsFiniteSet(ReservedSlots \ mine)
      /\ Cardinality(ReservedSlots \ mine)
            = Cardinality(ReservedSlots) - Cardinality(ReservedSlots \cap mine)
  BY FS_Difference DEF SlotsCounted
<1> HIDE DEF mine
<1> QED BY <1>1, <1>2, <1>5, <1>6

-----------------------------------------------------------------------------
(***************************************************************************)
(* The two ways a critical section leaves the goroutine that ran it.       *)
(***************************************************************************)
Labels == Idle \cup {"hook", "wait", "retry", "err", "bcast1", "bcast2"}

\* Return leaves an idle goroutine and touches no other.
LEMMA ReturnEffect ==
    ASSUME ProcTypes, NEW p \in Procs, NEW r \in Idle, Return(p, r)
    PROVE  /\ ProcTypes'
           /\ pc'[p] = r
           /\ \A q \in Procs : q # p => pc'[q] = pc[q] /\ call'[q] = call[q]
<1>1. NoCall \in Call
  BY DEF NoCall, Call, Ops
<1> QED BY <1>1 DEF ProcTypes, Return

\* Continue moves one goroutine to the given label, with the given call.
LEMMA ContinueEffect ==
    ASSUME ProcTypes, NEW p \in Procs, NEW c \in Call, NEW l \in Labels, Continue(p, c, l)
    PROVE  /\ ProcTypes'
           /\ pc'[p] = l /\ call'[p] = c
           /\ \A q \in Procs : q # p => pc'[q] = pc[q] /\ call'[q] = call[q]
BY DEF ProcTypes, Continue, Labels

\* A step of one goroutine that is in no hook before or after it, and that
\* neither frees capacity nor adds entries, keeps the invariant if it parks
\* that goroutine only where the condition it waits for is false.
LEMMA QuietStep ==
    ASSUME IInv, NEW p \in Procs, ProcTypes',
           UNCHANGED <<opened, attached, live, hydrated, inflight>>,
           \A q \in Procs : q # p => pc'[q] = pc[q] /\ call'[q] = call[q],
           pc[p] # "hook", pc'[p] # "hook",
           pc[p] \notin {"bcast1", "bcast2"},
           notFull' \subseteq notFull \cup {p}, notEmpty' \subseteq notEmpty \cup {p},
           p \in notFull' =>
               \/ p \in notFull /\ pc'[p] = pc[p] /\ call'[p] = call[p]
               \/ /\ opened /\ pc'[p] = "wait" /\ ~closed'
                  /\ IF call'[p].op = "push" THEN ~Gate(Len(call'[p].vs)) ELSE ~Room,
           p \in notEmpty' =>
               \/ p \in notEmpty /\ pc'[p] = pc[p]
               \/ opened /\ pc'[p] = "wait" /\ ~closed' /\ live = <<>>,
           closed' = closed \/ (opened /\ closed' = TRUE /\ pc'[p] = "bcast1")
    PROVE  IInv'
<1> USE DEF IInv
<1>1. QueueTypes'
  BY DEF QueueTypes
<1>2. NotOpened'
  BY DEF NotOpened
<1>3. ReservedSlots' = ReservedSlots
  BY SlotsKept
<1>4. SlotsCounted'
  BY <1>3 DEF SlotsCounted, InflightExact
<1>5. HookCalls'
  BY DEF HookCalls
<1>6. Parked'
  BY DEF Parked, QueueTypes
<1>7. NoLostWakeupEmpty'
  BY DEF NoLostWakeupEmpty, QueueTypes
<1>8. NoLostWakeupFull'
  BY DEF NoLostWakeupFull, QueueTypes, Gate, Room
<1>9. Admitted' /\ HydratedPrefix'
  BY DEF Admitted, HydratedPrefix
<1> QED BY <1>1, <1>2, <1>4, <1>5, <1>6, <1>7, <1>8, <1>9

\* A removal: it wakes every producer, and the queue it found was not empty,
\* so nobody was parked on notEmpty.
LEMMA RemovalStep ==
    ASSUME IInv, opened, NEW p \in Procs, ProcTypes',
           UNCHANGED <<opened, attached, inflight, closed, notEmpty>>,
           \A q \in Procs : q # p => pc'[q] = pc[q] /\ call'[q] = call[q],
           pc[p] # "hook", pc'[p] # "hook",
           live # <<>>, notFull' = {},
           live' \in Seq(EntrySet), hydrated' \in Nat, HydratedPrefix',
           Len(live') - hydrated' <= Len(live) - hydrated
    PROVE  IInv'
<1> USE DEF IInv
<1>1. notEmpty = {}
  BY DEF NoLostWakeupEmpty
<1>2. QueueTypes'
  BY DEF QueueTypes, EntrySet
<1>3. ReservedSlots' = ReservedSlots
  BY SlotsKept
<1>4. SlotsCounted'
  BY <1>3 DEF SlotsCounted, InflightExact
<1>5. HookCalls'
  BY DEF HookCalls
<1>6. Admitted'
  <2>1. Len(live) \in Int /\ Len(live') \in Int /\ hydrated \in Int /\ inflight \in Int
    BY LenProperties DEF QueueTypes, EntrySet
  <2> QED BY <2>1, MaxSizeAssumption DEF Admitted, QueueTypes
<1>7. NotOpened' /\ Parked' /\ NoLostWakeupEmpty' /\ NoLostWakeupFull'
  BY <1>1 DEF NotOpened, Parked, NoLostWakeupEmpty, NoLostWakeupFull
<1> QED BY <1>2, <1>4, <1>5, <1>6, <1>7

\* Appending a batch makes the queue longer by the length of the batch.
LEMMA AppendedLength ==
    ASSUME QueueTypes, NEW vs \in Seq(Items)
    PROVE  /\ live \o Entries(vs, FALSE) \in Seq(EntrySet)
           /\ Len(live \o Entries(vs, FALSE)) = Len(live) + Len(vs)
           /\ \A i \in 1..Len(live) : (live \o Entries(vs, FALSE))[i] = live[i]
           /\ \A i \in (Len(live) + 1)..(Len(live) + Len(vs)) :
                 (live \o Entries(vs, FALSE))[i].restored = FALSE
<1>1. live \in Seq(EntrySet) /\ Entries(vs, FALSE) \in Seq(EntrySet)
  BY EntriesAreEntries DEF QueueTypes, EntrySet
<1>2. Len(Entries(vs, FALSE)) = Len(vs)
  BY EntriesAreEntries
<1> DEFINE es == Entries(vs, FALSE)
<1> HIDE DEF es
<1>3. /\ live \o es \in Seq(EntrySet) /\ Len(live \o es) = Len(live) + Len(es)
      /\ \A i \in 1..(Len(live) + Len(es)) :
            (live \o es)[i] = IF i <= Len(live) THEN live[i] ELSE es[i - Len(live)]
  BY <1>1, ConcatProperties DEF es
<1>4. \A i \in 1..Len(vs) : es[i].restored = FALSE
  BY EntriesAreEntries DEF es
<1>5. Len(live) \in Nat /\ Len(vs) \in Nat
  BY <1>1, LenProperties
<1>e. Len(es) = Len(vs)
  BY <1>2 DEF es
<1>6. \A i \in 1..Len(live) : (live \o es)[i] = live[i]
  BY <1>e, <1>3, <1>5
<1>7. \A i \in (Len(live) + 1)..(Len(live) + Len(vs)) : (live \o es)[i].restored = FALSE
  <2> SUFFICES ASSUME NEW i \in (Len(live) + 1)..(Len(live) + Len(vs))
               PROVE  (live \o es)[i].restored = FALSE
    OBVIOUS
  <2>1. i \in 1..(Len(live) + Len(es)) /\ ~(i <= Len(live)) /\ i - Len(live) \in 1..Len(vs)
    BY <1>e, <1>5
  <2> QED BY <1>3, <1>4, <2>1
<1> QED BY <1>2, <1>3, <1>6, <1>7 DEF es

\* A queue extended by entries that are not restored keeps its prefix.
LEMMA PrefixExtended ==
    ASSUME Len(live) \in Nat, hydrated \in Nat, HydratedPrefix, NEW m \in Nat,
           Len(live') = Len(live) + m, hydrated' = hydrated,
           \A i \in 1..Len(live) : live'[i] = live[i],
           \A i \in (Len(live) + 1)..(Len(live) + m) : live'[i].restored = FALSE
    PROVE  HydratedPrefix'
<1>1. hydrated <= Len(live)
  BY DEF HydratedPrefix
<1>2. hydrated' <= Len(live')
  BY <1>1
<1>3. ASSUME NEW i \in 1..Len(live')
      PROVE  live'[i].restored <=> i <= hydrated'
  <2>1. CASE i \in 1..Len(live)
    BY <2>1 DEF HydratedPrefix
  <2>2. CASE i \in (Len(live) + 1)..(Len(live) + m)
    BY <1>1, <2>2
  <2> QED BY <2>1, <2>2
<1> QED BY <1>2, <1>3 DEF HydratedPrefix

\* Appended entries are not restored ones.
LEMMA AppendedPrefix ==
    ASSUME QueueTypes, HydratedPrefix, NEW vs \in Seq(Items),
           live' = live \o Entries(vs, FALSE), UNCHANGED hydrated
    PROVE  HydratedPrefix'
<1>1. Len(live) \in Nat /\ hydrated \in Nat /\ Len(vs) \in Nat
  BY LenProperties DEF QueueTypes
<1>2. /\ Len(live') = Len(live) + Len(vs)
      /\ \A i \in 1..Len(live) : live'[i] = live[i]
      /\ \A i \in (Len(live) + 1)..(Len(live) + Len(vs)) : live'[i].restored = FALSE
  BY AppendedLength
<1> QED BY <1>1, <1>2, PrefixExtended

\* A gate that is shut stays shut as long as no capacity is freed.
LEMMA GateStaysShut ==
    ASSUME Len(live) \in Nat, Len(live') \in Nat, hydrated \in Nat, hydrated' = hydrated,
           inflight \in Nat, inflight' \in Nat,
           Len(live) + inflight <= Len(live') + inflight'
    PROVE  /\ \A m \in Nat : ~Gate(m) => ~(Gate(m)')
           /\ ~Room => ~(Room')
BY MaxSizeAssumption DEF Gate, Room

\* An insertion: the gate admitted it, and what it adds to the queue is at
\* least what it gives back of a reservation.
LEMMA InsertionStep ==
    ASSUME IInv, opened, ~closed, NEW p \in Procs, ProcTypes', pc'[p] \in Idle,
           p \notin notFull,
           UNCHANGED <<opened, attached, hydrated, closed, notFull>>,
           \A q \in Procs : q # p => pc'[q] = pc[q] /\ call'[q] = call[q],
           live' \in Seq(EntrySet),
           IF live = <<>> THEN SignalNotEmpty ELSE UNCHANGED notEmpty,
           SlotsCounted', inflight' \in Nat,
           Len(live) + inflight <= Len(live') + inflight',
           Admitted', HydratedPrefix'
    PROVE  IInv'
<1> USE DEF IInv
<1>1. notEmpty' = {}
  BY DEF NoLostWakeupEmpty, SignalNotEmpty
<1>2. Len(live) \in Nat /\ Len(live') \in Nat /\ hydrated \in Nat /\ inflight \in Nat
  BY LenProperties DEF QueueTypes
<1>3. QueueTypes'
  BY <1>1 DEF QueueTypes, EntrySet
<1>4. HookCalls'
  BY DEF HookCalls, Idle
<1>5. NotOpened' /\ NoLostWakeupEmpty'
  BY <1>1 DEF NotOpened, NoLostWakeupEmpty
<1>6. Parked'
  BY <1>1 DEF Parked, QueueTypes
<1>7. NoLostWakeupFull'
  <2> SUFFICES ASSUME NEW q \in notFull
               PROVE  IF call'[q].op = "push" THEN ~Gate(Len(call[q].vs))' ELSE ~Room'
    BY DEF NoLostWakeupFull
  <2>1. Len(call[q].vs) \in Nat
    BY BatchesAssumption, LenProperties DEF QueueTypes, ProcTypes, Call
  <2>2. IF call[q].op = "push" THEN ~Gate(Len(call[q].vs)) ELSE ~Room
    BY DEF NoLostWakeupFull
  <2>3. call'[q] = call[q]
    BY DEF QueueTypes
  <2>5. /\ \A m \in Nat : ~Gate(m) => ~(Gate(m)')
        /\ ~Room => ~(Room')
    BY <1>2, GateStaysShut
  <2> QED BY <2>1, <2>2, <2>3, <2>5 DEF Gate
<1> QED BY <1>3, <1>4, <1>5, <1>6, <1>7

\* A reservation given back with nothing inserted: the producers are woken.
LEMMA GiveBackStep ==
    ASSUME IInv, opened, NEW p \in Procs, ProcTypes', pc'[p] \in Idle,
           UNCHANGED <<opened, attached, live, hydrated, closed, notEmpty>>,
           \A q \in Procs : q # p => pc'[q] = pc[q] /\ call'[q] = call[q],
           pc[p] = "hook", notFull' = {},
           SlotsCounted', inflight' \in Nat, inflight' <= inflight
    PROVE  IInv'
<1> USE DEF IInv
<1>1. QueueTypes'
  BY DEF QueueTypes
<1>2. p \notin notEmpty
  BY DEF Parked
<1>3. HookCalls'
  BY DEF HookCalls, Idle
<1>4. NotOpened' /\ Parked' /\ NoLostWakeupEmpty' /\ NoLostWakeupFull'
  BY <1>2 DEF NotOpened, Parked, NoLostWakeupEmpty, NoLostWakeupFull, QueueTypes
<1>5. Admitted'
  <2>1. Len(live) \in Int /\ hydrated \in Int /\ inflight \in Int
    BY LenProperties DEF QueueTypes
  <2> QED BY <2>1, MaxSizeAssumption DEF Admitted
<1>6. HydratedPrefix'
  BY DEF HydratedPrefix
<1> QED BY <1>1, <1>3, <1>4, <1>5, <1>6

-----------------------------------------------------------------------------
(***************************************************************************)
(* The critical sections.                                                  *)
(***************************************************************************)

\* Where a goroutine holds no reservation, is not parked and owes no broadcast.
Free == Idle \cup {"retry", "err"}

\* What holds of a goroutine that enters a critical section.
LEMMA Entering ==
    ASSUME IInv, NEW p \in Procs, pc[p] \in Free
    PROVE  /\ ProcTypes
           /\ pc[p] \notin {"hook", "bcast1", "bcast2", "wait"}
           /\ p \notin notFull /\ p \notin notEmpty
BY DEF IInv, QueueTypes, Parked, Idle, Free

\* The batch of a call is a sequence of items.
LEMMA BatchLength ==
    ASSUME NEW c \in Call
    PROVE  c.vs \in Seq(Items) /\ Len(c.vs) \in Nat
<1>1. c.vs \in Batches \/ c.vs = <<>>
  BY DEF Call
<1>2. <<>> \in Seq(Items)
  OBVIOUS
<1>3. c.vs \in Seq(Items)
  BY <1>1, <1>2, BatchesAssumption
<1> QED BY <1>3, LenProperties

\* A critical section that returns and changes nothing else.
LEMMA QuietReturn ==
    ASSUME IInv, NEW p \in Procs, pc[p] \in Free, NEW r \in Idle,
           Return(p, r),
           UNCHANGED <<opened, attached, queueVars, notFull, notEmpty>>
    PROVE  IInv'
<1>1. /\ ProcTypes /\ pc[p] \notin {"hook", "bcast1", "bcast2", "wait"}
      /\ p \notin notFull /\ p \notin notEmpty
  BY Entering
<1>2. /\ ProcTypes' /\ pc'[p] = r
      /\ \A q \in Procs : q # p => pc'[q] = pc[q] /\ call'[q] = call[q]
  BY <1>1, ReturnEffect
<1> QED BY <1>1, <1>2, QuietStep DEF queueVars, Idle

\* One pass of Push.
LEMMA PushPassStep ==
    ASSUME IInv, opened, NEW p \in Procs, pc[p] \in Free,
           NEW c \in Call, c.op = "push", PushPass(p, c), UNCHANGED <<opened, attached>>
    PROVE  IInv'
<1> DEFINE n == Len(c.vs)
<1>0. /\ ProcTypes /\ pc[p] \notin {"hook", "bcast1", "bcast2", "wait"}
      /\ p \notin notFull /\ p \notin notEmpty
  BY Entering
<1>n. c.vs \in Seq(Items) /\ n \in Nat
  BY BatchLength
<1>t. Len(live) \in Nat /\ hydrated \in Nat /\ inflight \in Nat
  BY LenProperties DEF IInv, QueueTypes
<1> HIDE DEF n
<1>2. CASE Return(p, "errClosed") /\ UNCHANGED <<queueVars, notFull, notEmpty>>
  BY <1>2, QuietReturn DEF Idle
<1>3. CASE Return(p, "idle") /\ UNCHANGED <<queueVars, notFull, notEmpty>>
  BY <1>3, QuietReturn DEF Idle
<1>4. CASE /\ ~closed /\ Gate(n) /\ c.hook
           /\ inflight' = inflight + n
           /\ Continue(p, c, "hook")
           /\ UNCHANGED <<live, hydrated, closed, mirror, notFull, notEmpty>>
  <2> USE DEF IInv
  <2>1. /\ ProcTypes' /\ pc'[p] = "hook" /\ call'[p] = c
        /\ \A q \in Procs : q # p => pc'[q] = pc[q] /\ call'[q] = call[q]
    BY <1>0, <1>4, ContinueEffect DEF Labels
  <2>2. /\ IsFiniteSet(ReservedSlots')
        /\ Cardinality(ReservedSlots') = Cardinality(ReservedSlots) + n
    BY <1>0, <1>4, <1>n, SlotsTaken DEF n
  <2>3. SlotsCounted'
    BY <1>4, <2>2 DEF SlotsCounted, InflightExact
  <2>4. QueueTypes'
    BY <1>4, <1>n, <1>t, <2>1 DEF QueueTypes
  <2>5. HookCalls'
    BY <1>4, <2>1 DEF HookCalls
  <2>6. NotOpened' /\ Parked' /\ NoLostWakeupEmpty'
    BY <1>0, <1>4, <2>1 DEF NotOpened, Parked, NoLostWakeupEmpty, QueueTypes
  <2>7. Len(live) + inflight <= Len(live') + inflight'
    BY <1>4, <1>n, <1>t
  <2>8. /\ \A m \in Nat : ~Gate(m) => ~(Gate(m)')
        /\ ~Room => ~(Room')
    BY <1>4, <1>n, <1>t, <2>7, GateStaysShut
  <2>9. NoLostWakeupFull'
    <3> SUFFICES ASSUME NEW q \in notFull
                 PROVE  IF call'[q].op = "push" THEN ~(Gate(Len(call[q].vs))') ELSE ~(Room')
      BY <1>4 DEF NoLostWakeupFull
    <3>1. Len(call[q].vs) \in Nat
      BY BatchLength DEF QueueTypes, ProcTypes
    <3>2. IF call[q].op = "push" THEN ~Gate(Len(call[q].vs)) ELSE ~Room
      BY DEF NoLostWakeupFull
    <3>3. call'[q] = call[q]
      BY <1>0, <2>1 DEF QueueTypes
    <3> QED BY <2>8, <3>1, <3>2, <3>3 DEF Gate
  <2>10. Admitted'
    BY <1>4, <1>n, <1>t, MaxSizeAssumption DEF Gate, Admitted
  <2>11. HydratedPrefix'
    BY <1>4 DEF HydratedPrefix
  <2> QED BY <2>3, <2>4, <2>5, <2>6, <2>9, <2>10, <2>11
<1>5. CASE ~closed /\ Gate(n) /\ ~c.hook /\ Insert(p, c) /\ UNCHANGED <<hydrated, inflight, closed>>
  <2>1. CASE /\ live' = live \o Entries(c.vs, FALSE)
             /\ IF live = <<>> THEN SignalNotEmpty ELSE UNCHANGED notEmpty
             /\ Return(p, "idle")
             /\ UNCHANGED notFull
    <3>1. /\ ProcTypes' /\ pc'[p] \in Idle
          /\ \A q \in Procs : q # p => pc'[q] = pc[q] /\ call'[q] = call[q]
      BY <1>0, <2>1, ReturnEffect DEF Idle
    <3>2. live' \in Seq(EntrySet) /\ Len(live') = Len(live) + n
      BY <2>1, <1>n, AppendedLength DEF n, IInv
    <3>3. ReservedSlots' = ReservedSlots
      BY <1>0, <3>1, SlotsKept DEF Idle
    <3>4. SlotsCounted'
      BY <3>3, <1>5 DEF SlotsCounted, InflightExact, IInv
    <3>5. Len(live) + inflight <= Len(live') + inflight' /\ inflight' \in Nat
      BY <3>2, <1>5, <1>n, <1>t
    <3>6. Admitted'
      BY <3>2, <1>5, <1>n, <1>t, MaxSizeAssumption DEF Gate, Admitted
    <3>7. HydratedPrefix'
      BY <1>5, <1>n, <2>1, AppendedPrefix DEF IInv
    <3> QED BY <1>0, <1>5, <2>1, <3>1, <3>2, <3>4, <3>5, <3>6, <3>7, InsertionStep
  <2>2. CASE Abandon(p, c)
    BY <1>5, <2>2, QuietReturn DEF Abandon, ReleaseReservation, queueVars, Idle
  <2> QED BY <1>5, <2>1, <2>2 DEF Insert
<1>6. CASE /\ ~closed /\ ~Gate(n)
           /\ notFull' = notFull \cup {p}
           /\ Continue(p, c, "wait")
           /\ UNCHANGED <<queueVars, notEmpty>>
  <2>1. /\ ProcTypes' /\ pc'[p] = "wait" /\ call'[p] = c
        /\ \A q \in Procs : q # p => pc'[q] = pc[q] /\ call'[q] = call[q]
    BY <1>0, <1>6, ContinueEffect DEF Labels
  <2> QED BY <1>0, <1>6, <2>1, QuietStep DEF queueVars, n
<1> QED BY <1>2, <1>3, <1>4, <1>5, <1>6 DEF PushPass, n

\* Pop's removal of the k oldest entries never adds to what counts against
\* maxSize: a restored entry leaves together with its exemption.
LEMMA TakeEffect ==
    ASSUME QueueTypes, HydratedPrefix, NEW k \in Nat, 1 <= k, k <= Len(live), Take(k)
    PROVE  /\ live' \in Seq(EntrySet) /\ hydrated' \in Nat /\ HydratedPrefix'
           /\ Len(live') - hydrated' <= Len(live) - hydrated
           /\ notFull' = {}
<1>1. live \in Seq(EntrySet) /\ Len(live) \in Nat /\ hydrated \in Nat
  BY LenProperties DEF QueueTypes, EntrySet
<1>2. /\ live' \in Seq(EntrySet) /\ Len(live') = Len(live) - k
      /\ \A i \in 1..(Len(live) - k) : live'[i] = live[k + i]
  <2>1. live' = SubSeq(live, k + 1, Len(live))
    BY DEF Take
  <2>2. \A i \in (k + 1)..Len(live) : i \in 1..Len(live) /\ live[i] \in EntrySet
    BY <1>1, ElementOfSeq
  <2>3. /\ SubSeq(live, k + 1, Len(live)) \in Seq(EntrySet)
        /\ Len(SubSeq(live, k + 1, Len(live)))
              = IF k + 1 <= Len(live) THEN Len(live) - (k + 1) + 1 ELSE 0
        /\ \A i \in 1..(Len(live) - (k + 1) + 1) :
              SubSeq(live, k + 1, Len(live))[i] = live[(k + 1) + i - 1]
    BY <1>1, <2>2, SubSeqProperties
  <2> QED BY <1>1, <2>1, <2>3
<1>3. hydrated' = IF k < hydrated THEN hydrated - k ELSE 0
  BY <1>1 DEF Take, DropHydrated
<1>4. notFull' = {}
  BY DEF Take, SignalNotFull
<1>5. hydrated' <= Len(live')
  BY <1>1, <1>2, <1>3 DEF HydratedPrefix
<1>6. ASSUME NEW i \in 1..Len(live')
      PROVE  live'[i].restored <=> i <= hydrated'
  <2>1. i \in 1..(Len(live) - k) /\ k + i \in 1..Len(live)
    BY <1>1, <1>2
  <2>2. live'[i] = live[k + i]
    BY <1>2, <2>1
  <2>3. k + i <= hydrated <=> i <= hydrated'
    BY <1>1, <1>3, <2>1
  <2> QED BY <2>1, <2>2, <2>3 DEF HydratedPrefix
<1>7. HydratedPrefix'
  BY <1>5, <1>6 DEF HydratedPrefix
<1> QED BY <1>1, <1>2, <1>3, <1>4, <1>7

\* One pass of Pop.
LEMMA PopPassStep ==
    ASSUME IInv, opened, NEW p \in Procs, pc[p] \in Free,
           NEW c \in Call, c.op = "pop", c.n # 0, PopPass(p, c), UNCHANGED <<opened, attached>>
    PROVE  IInv'
<1>0. /\ ProcTypes /\ pc[p] \notin {"hook", "bcast1", "bcast2", "wait"}
      /\ p \notin notFull /\ p \notin notEmpty
  BY Entering
<1>1. CASE Return(p, "errClosed") /\ UNCHANGED <<queueVars, notFull, notEmpty>>
  BY <1>1, QuietReturn DEF Idle
<1>2. CASE /\ Return(p, "idle") /\ UNCHANGED <<inflight, closed, notEmpty>>
           /\ UNCHANGED <<live, mirror, hydrated, notFull>>
  BY <1>2, QuietReturn DEF Idle, queueVars
<1>3. CASE /\ live # <<>>
           /\ Take(IF c.n > Len(live) THEN Len(live) ELSE c.n)
           /\ Return(p, "idle") /\ UNCHANGED <<inflight, closed, notEmpty>>
  <2> DEFINE k == IF c.n > Len(live) THEN Len(live) ELSE c.n
  <2>1. QueueTypes /\ HydratedPrefix /\ Len(live) \in Nat /\ Len(live) # 0
    BY <1>3, EmptySeq, LenProperties DEF IInv, QueueTypes
  <2>2. k \in Nat /\ 1 <= k /\ k <= Len(live)
    BY <2>1 DEF Call
  <2>3. Take(k)
    BY <1>3
  <2> HIDE DEF k
  <2>4. /\ live' \in Seq(EntrySet) /\ hydrated' \in Nat /\ HydratedPrefix'
        /\ Len(live') - hydrated' <= Len(live) - hydrated
        /\ notFull' = {}
    BY <2>1, <2>2, <2>3, TakeEffect
  <2>5. /\ ProcTypes' /\ pc'[p] = "idle"
        /\ \A q \in Procs : q # p => pc'[q] = pc[q] /\ call'[q] = call[q]
    BY <1>0, <1>3, ReturnEffect DEF Idle
  <2> QED BY <1>0, <1>3, <2>4, <2>5, RemovalStep
<1>4. CASE /\ ~closed /\ live = <<>>
           /\ notEmpty' = notEmpty \cup {p}
           /\ Continue(p, c, "wait")
           /\ UNCHANGED <<queueVars, notFull>>
  <2>1. /\ ProcTypes' /\ pc'[p] = "wait" /\ call'[p] = c
        /\ \A q \in Procs : q # p => pc'[q] = pc[q] /\ call'[q] = call[q]
    BY <1>0, <1>4, ContinueEffect DEF Labels
  <2> QED BY <1>0, <1>4, <2>1, QuietStep DEF queueVars
<1> QED BY <1>1, <1>2, <1>3, <1>4 DEF PopPass

\* One pass of NotEmpty.
LEMMA NotEmptyPassStep ==
    ASSUME IInv, opened, NEW p \in Procs, pc[p] \in Free,
           NEW c \in Call, NotEmptyPass(p, c), UNCHANGED <<opened, attached, queueVars>>
    PROVE  IInv'
<1>0. /\ ProcTypes /\ pc[p] \notin {"hook", "bcast1", "bcast2", "wait"}
      /\ p \notin notFull /\ p \notin notEmpty
  BY Entering
<1>1. CASE Return(p, IF closed THEN "errClosed" ELSE "idle") /\ UNCHANGED <<notFull, notEmpty>>
  <2>1. (IF closed THEN "errClosed" ELSE "idle") \in Idle
    BY DEF Idle
  <2> QED BY <1>1, <2>1, QuietReturn
<1>2. CASE /\ ~closed /\ live = <<>>
           /\ notEmpty' = notEmpty \cup {p}
           /\ Continue(p, c, "wait")
           /\ UNCHANGED notFull
  <2>1. /\ ProcTypes' /\ pc'[p] = "wait" /\ call'[p] = c
        /\ \A q \in Procs : q # p => pc'[q] = pc[q] /\ call'[q] = call[q]
    BY <1>0, <1>2, ContinueEffect DEF Labels
  <2> QED BY <1>0, <1>2, <2>1, QuietStep DEF queueVars
<1> QED BY <1>1, <1>2 DEF NotEmptyPass

\* One pass of NotFull.
LEMMA NotFullPassStep ==
    ASSUME IInv, opened, NEW p \in Procs, pc[p] \in Free,
           NEW c \in Call, c.op = "notFull", NotFullPass(p, c),
           UNCHANGED <<opened, attached, queueVars>>
    PROVE  IInv'
<1>0. /\ ProcTypes /\ pc[p] \notin {"hook", "bcast1", "bcast2", "wait"}
      /\ p \notin notFull /\ p \notin notEmpty
  BY Entering
<1>1. CASE Return(p, IF closed THEN "errClosed" ELSE "idle") /\ UNCHANGED <<notFull, notEmpty>>
  <2>1. (IF closed THEN "errClosed" ELSE "idle") \in Idle
    BY DEF Idle
  <2> QED BY <1>1, <2>1, QuietReturn
<1>2. CASE /\ ~closed /\ ~Room
           /\ notFull' = notFull \cup {p}
           /\ Continue(p, c, "wait")
           /\ UNCHANGED notEmpty
  <2>1. /\ ProcTypes' /\ pc'[p] = "wait" /\ call'[p] = c
        /\ \A q \in Procs : q # p => pc'[q] = pc[q] /\ call'[q] = call[q]
    BY <1>0, <1>2, ContinueEffect DEF Labels
  <2> QED BY <1>0, <1>2, <2>1, QuietStep DEF queueVars
<1> QED BY <1>1, <1>2 DEF NotFullPass

\* The hook of a Push ends: its reservation is gone, and either the batch is
\* in the queue or the producers have been woken.
LEMMA HookReturnStep ==
    ASSUME IInv, opened, NEW p \in Procs, HookReturn(p)
    PROVE  IInv'
<1> DEFINE n == Len(call[p].vs)
<1>0. pc[p] = "hook" /\ inflight' = inflight - n /\ UNCHANGED <<opened, attached, hydrated, closed>>
  BY DEF HookReturn
<1>1. call[p] \in Call /\ call[p].hook /\ p \notin notFull /\ p \notin notEmpty /\ ProcTypes
  BY <1>0 DEF IInv, QueueTypes, ProcTypes, HookCalls, Parked
<1>2. call[p].vs \in Seq(Items) /\ n \in Nat
  BY <1>1, BatchLength
<1>3. Len(live) \in Nat /\ hydrated \in Nat /\ inflight \in Nat
  BY LenProperties DEF IInv, QueueTypes
<1> HIDE DEF n
<1>4. ASSUME NEW r \in Idle, Return(p, r)
      PROVE  /\ ProcTypes' /\ pc'[p] \in Idle
             /\ \A q \in Procs : q # p => pc'[q] = pc[q] /\ call'[q] = call[q]
             /\ SlotsCounted' /\ inflight' \in Nat /\ inflight' <= inflight
  <2>1. /\ ProcTypes' /\ pc'[p] = r
        /\ \A q \in Procs : q # p => pc'[q] = pc[q] /\ call'[q] = call[q]
    BY <1>1, <1>4, ReturnEffect
  <2>2. /\ IsFiniteSet(ReservedSlots')
        /\ Cardinality(ReservedSlots') = Cardinality(ReservedSlots) - n
    BY <1>0, <2>1, SlotsGiven DEF n, Idle, IInv
  <2>3. SlotsCounted'
    BY <1>0, <2>2 DEF SlotsCounted, InflightExact, IInv
  <2>4. inflight' \in Nat
    BY <2>3, FS_CardinalityType DEF SlotsCounted, InflightExact
  <2>5. inflight' <= inflight
    BY <1>0, <1>2, <1>3
  <2> QED BY <2>1, <2>3, <2>4, <2>5
<1>5. ASSUME NEW r \in Idle, Return(p, r), notFull' = {}, UNCHANGED <<live, mirror, notEmpty>>
      PROVE  IInv'
  <2>1. /\ ProcTypes' /\ pc'[p] \in Idle
        /\ \A q \in Procs : q # p => pc'[q] = pc[q] /\ call'[q] = call[q]
        /\ SlotsCounted' /\ inflight' \in Nat /\ inflight' <= inflight
    BY <1>4, <1>5
  <2> QED BY <1>0, <1>5, <2>1, GiveBackStep
<1>6. CASE SignalNotFull /\ Return(p, "idle") /\ UNCHANGED <<live, mirror, notEmpty>>
  BY <1>5, <1>6 DEF SignalNotFull, Idle
<1>7. CASE /\ ReleaseReservation(call[p]) /\ Return(p, "errClosed")
           /\ UNCHANGED <<live, mirror, notEmpty>>
  BY <1>1, <1>5, <1>7 DEF ReleaseReservation, SignalNotFull, Idle
<1>8. CASE Abandon(p, call[p])
  BY <1>1, <1>5, <1>8 DEF Abandon, ReleaseReservation, SignalNotFull, Idle
<1>9. CASE /\ ~closed
           /\ live' = live \o Entries(call[p].vs, FALSE)
           /\ IF live = <<>> THEN SignalNotEmpty ELSE UNCHANGED notEmpty
           /\ Return(p, "idle")
           /\ UNCHANGED notFull
  <2>1. /\ ProcTypes' /\ pc'[p] \in Idle
        /\ \A q \in Procs : q # p => pc'[q] = pc[q] /\ call'[q] = call[q]
        /\ SlotsCounted' /\ inflight' \in Nat
    BY <1>4, <1>9 DEF Idle
  <2>2. live' \in Seq(EntrySet) /\ Len(live') = Len(live) + n
    BY <1>9, <1>2, AppendedLength DEF n, IInv
  <2>3. Len(live) + inflight <= Len(live') + inflight'
    BY <1>0, <1>2, <1>3, <2>2
  <2>4. Admitted'
    BY <1>0, <1>2, <1>3, <2>2, MaxSizeAssumption DEF Admitted, IInv
  <2>5. HydratedPrefix'
    BY <1>0, <1>2, <1>9, AppendedPrefix DEF IInv
  <2> QED BY <1>0, <1>1, <1>9, <2>1, <2>2, <2>3, <2>4, <2>5, InsertionStep
<1> QED BY <1>6, <1>7, <1>8, <1>9 DEF HookReturn, Insert

\* The enumeration reaches every position of the set, and each once.
LEMMA IncreasingOnto ==
    ASSUME NEW L \in Nat, NEW K \in SUBSET (1..L), NEW f \in Increasing(K)
    PROVE  /\ \A i, j \in DOMAIN f : f[i] = f[j] => i = j
           /\ \A x \in K : \E i \in DOMAIN f : f[i] = x
<1> DEFINE N == Cardinality(K)
<1>1. IsFiniteSet(K) /\ N \in Nat
  BY IntervalCount, FS_Subset, FS_CardinalityType
<1>2. f \in [1..N -> K] /\ \A i, j \in 1..N : i < j => f[i] < f[j]
  BY DEF Increasing
<1>3. \A y \in K : y \in Nat
  OBVIOUS
<1>4. IsFiniteSet(1..N) /\ Cardinality(1..N) = N
  BY <1>1, IntervalCount
<1> HIDE DEF N
<1>5. \A i, j \in 1..N : f[i] = f[j] => i = j
  <2> SUFFICES ASSUME NEW i \in 1..N, NEW j \in 1..N, i # j
               PROVE  f[i] # f[j]
    OBVIOUS
  <2>1. f[i] \in Nat /\ f[j] \in Nat
    BY <1>2, <1>3, Zenon
  <2>2. i < j \/ j < i
    BY <1>1
  <2> QED BY <1>2, <2>1, <2>2
<1>6. f \in Injection(1..N, K)
  BY <1>2, <1>5 DEF Injection, IsInjective
<1>7. f \in Surjection(1..N, K)
  BY <1>1, <1>4, <1>6, FS_Injection DEF N
<1> QED BY <1>2, <1>5, <1>7 DEF Surjection

\* The increasing enumeration of a set of positions lists the positions up
\* to h first, and there are as many of them as the set has.
LEMMA IncreasingPrefix ==
    ASSUME NEW L \in Nat, NEW h \in Nat, NEW K \in SUBSET (1..L), NEW f \in Increasing(K)
    PROVE  \A i \in DOMAIN f : f[i] <= h <=> i <= Cardinality(K \cap 1..h)
<1> DEFINE N == Cardinality(K)
           D == {i \in 1..N : f[i] <= h}
           m == Cardinality(K \cap 1..h)
<1>1. IsFiniteSet(K) /\ N \in Nat
  BY IntervalCount, FS_Subset, FS_CardinalityType
<1>0. \A x \in K : x \in Nat /\ 1 <= x
  OBVIOUS
<1>2. f \in [1..N -> K] /\ \A i, j \in 1..N : i < j => f[i] < f[j]
  BY DEF Increasing
<1>3. IsFiniteSet(1..N) /\ Cardinality(1..N) = N
  BY <1>1, IntervalCount
<1>4. IsFiniteSet(D) /\ IsFiniteSet(K \cap 1..h) /\ m \in Nat /\ Cardinality(D) \in Nat
  BY <1>1, <1>3, FS_Subset, FS_Intersection, FS_CardinalityType
<1> HIDE DEF N
<1>5. \A i, j \in 1..N : f[i] = f[j] => i = j
  BY <1>2, IncreasingOnto
<1>6. \A x \in K : \E i \in 1..N : f[i] = x
  BY <1>2, IncreasingOnto
<1>8. Cardinality(D) = m
  <2> DEFINE g == [i \in D |-> f[i]]
  <2>1. g \in [D -> K \cap 1..h]
    <3> SUFFICES ASSUME NEW i \in D PROVE f[i] \in K /\ f[i] \in 1..h
      OBVIOUS
    <3>1. f[i] \in K /\ f[i] <= h
      BY <1>2
    <3>2. f[i] \in Nat /\ 1 <= f[i]
      BY <1>0, <3>1, Zenon
    <3>3. f[i] \in 1..h
      BY <3>1, <3>2
    <3> QED BY <3>1, <3>3
  <2>2. g \in Injection(D, K \cap 1..h)
    BY <2>1, <1>5 DEF Injection, IsInjective
  <2>3. \A t \in K \cap 1..h : \E i \in D : g[i] = t
    BY <1>6
  <2>4. g \in Surjection(D, K \cap 1..h)
    BY <2>1, <2>3 DEF Surjection
  <2> QED BY <1>4, <2>2, <2>4, FS_Injection
<1> SUFFICES ASSUME NEW i \in 1..N
             PROVE  f[i] <= h <=> i <= m
  BY <1>2
<1>9. i \in Nat /\ \A j \in 1..N : j \in Nat /\ f[j] \in Nat
  <2>1. \A j \in 1..N : f[j] \in Nat
    BY <1>0, <1>2, Zenon
  <2> QED BY <1>1, <2>1
<1>10. ASSUME f[i] <= h PROVE i <= m
  <2>1. 1..i \subseteq D
    <3> SUFFICES ASSUME NEW j \in 1..i PROVE j \in 1..N /\ f[j] <= h
      OBVIOUS
    <3>1. j \in 1..N
      BY <1>1, <1>9
    <3>2. j = i \/ j < i
      BY <1>9
    <3> QED BY <1>2, <1>9, <1>10, <3>1, <3>2
  <2>2. IsFiniteSet(1..i) /\ Cardinality(1..i) = i
    BY <1>9, IntervalCount
  <2>3. Cardinality(1..i) <= Cardinality(D)
    BY <1>4, <2>1, FS_Subset
  <2> QED BY <1>8, <2>2, <2>3
<1>11. ASSUME ~(f[i] <= h) PROVE ~(i <= m)
  <2>1. D \subseteq 1..(i - 1)
    <3> SUFFICES ASSUME NEW j \in D PROVE j \in 1..(i - 1)
      OBVIOUS
    <3>1. j \in 1..N /\ f[j] <= h
      OBVIOUS
    <3>2. ~(i < j) /\ i # j
      BY <1>2, <1>9, <1>11, <3>1
    <3> QED BY <1>1, <1>9, <3>1, <3>2
  <2>2. i - 1 \in Nat
    BY <1>9
  <2>3. IsFiniteSet(1..(i - 1)) /\ Cardinality(1..(i - 1)) = i - 1
    BY <2>2, IntervalCount
  <2>4. Cardinality(D) <= i - 1
    BY <2>1, <2>3, FS_Subset
  <2> QED BY <1>4, <1>8, <1>9, <2>4
<1> QED BY <1>10, <1>11

\* Del's removal: one position is left for each entry that is kept, and the
\* exemption shrinks by no more than the number of entries removed.
LEMMA DelEffect ==
    ASSUME QueueTypes, HydratedPrefix, NEW vs, DelMatched(vs)
    PROVE  /\ live' \in Seq(EntrySet) /\ hydrated' \in Nat /\ HydratedPrefix'
           /\ Len(live') - hydrated' <= Len(live) - hydrated
           /\ notFull' = {}
<1> DEFINE M == Matched(vs)
           K == (1..Len(live)) \ M
<1>1. live \in Seq(EntrySet) /\ Len(live) \in Nat /\ hydrated \in Nat
  BY LenProperties DEF QueueTypes, EntrySet
<1>2. IsFiniteSet(1..Len(live)) /\ Cardinality(1..Len(live)) = Len(live)
  BY <1>1, IntervalCount
<1>3. M \subseteq 1..Len(live)
  BY DEF Matched
<1>4. IsFiniteSet(M) /\ Cardinality(M) \in Nat
  BY <1>2, <1>3, FS_Subset, FS_CardinalityType
<1>5. /\ IsFiniteSet(M \cap 1..hydrated) /\ Cardinality(M \cap 1..hydrated) \in Nat
      /\ Cardinality(M \cap 1..hydrated) <= Cardinality(M)
  BY <1>4, FS_Intersection, FS_CardinalityType
<1>6. Cardinality(K) \in Nat /\ Cardinality(K) = Len(live) - Cardinality(M)
  <2>1. (1..Len(live)) \cap M = M
    BY <1>3
  <2>2. IsFiniteSet(K) /\ Cardinality(K) = Cardinality(1..Len(live)) - Cardinality((1..Len(live)) \cap M)
    BY <1>2, FS_Difference
  <2>3. Cardinality(K) \in Nat
    BY <2>2, FS_CardinalityType
  <2> QED BY <1>2, <2>1, <2>2, <2>3
<1>7. PICK f \in Increasing(K) : live' = [i \in DOMAIN f |-> live[f[i]]]
  BY DEF DelMatched
<1>8. f \in [1..Cardinality(K) -> K]
  BY DEF Increasing
<1>9. live' = [i \in 1..Cardinality(K) |-> live[f[i]]]
  BY <1>7, <1>8
<1>10. live' \in Seq(EntrySet) /\ Len(live') = Cardinality(K)
  <2>1. \A i \in 1..Cardinality(K) : live[f[i]] \in EntrySet
    BY <1>1, <1>8, ElementOfSeq
  <2> HIDE DEF K
  <2> QED BY <1>6, <1>9, <2>1
<1>11. hydrated' = DropHydrated(Cardinality(M \cap 1..hydrated)) /\ notFull' = {}
  BY DEF DelMatched, Charged, SignalNotFull
<1>12. /\ hydrated' = Cardinality(K \cap 1..hydrated)
       /\ hydrated' = hydrated - Cardinality(M \cap 1..hydrated)
       /\ hydrated' \in Nat
  <2>1. IsFiniteSet(1..hydrated) /\ Cardinality(1..hydrated) = hydrated
    BY <1>1, IntervalCount
  <2>2. Cardinality((1..hydrated) \ M) = Cardinality(1..hydrated) - Cardinality((1..hydrated) \cap M)
    BY <2>1, FS_Difference
  <2>3. (1..hydrated) \ M = K \cap 1..hydrated /\ (1..hydrated) \cap M = M \cap 1..hydrated
    BY <1>1 DEF HydratedPrefix
  <2>4. IsFiniteSet(K \cap 1..hydrated) /\ Cardinality(K \cap 1..hydrated) \in Nat
    BY <2>1, FS_Intersection, FS_CardinalityType
  <2>5. DropHydrated(Cardinality(M \cap 1..hydrated)) = hydrated - Cardinality(M \cap 1..hydrated)
    <3> DEFINE d == Cardinality(M \cap 1..hydrated)
    <3>1. d \in Nat /\ hydrated - d \in Nat
      <4> HIDE DEF M, K
      <4> QED BY <1>5, <2>1, <2>2, <2>3, <2>4
    <3> HIDE DEF d
    <3>2. DropHydrated(d) = hydrated - d
      BY <1>1, <3>1 DEF DropHydrated
    <3> QED BY <3>2 DEF d
  <2> HIDE DEF M, K
  <2> QED BY <1>11, <2>1, <2>2, <2>3, <2>4, <2>5
<1>13. hydrated' <= Len(live')
  <2>1. IsFiniteSet(K) /\ K \cap 1..hydrated \subseteq K
    BY <1>2, FS_Difference
  <2> HIDE DEF K
  <2> QED BY <1>10, <1>12, <2>1, FS_Subset
<1>14. ASSUME NEW i \in 1..Len(live')
       PROVE  live'[i].restored <=> i <= hydrated'
  <2>1. i \in DOMAIN f /\ f[i] \in 1..Len(live) /\ live'[i] = live[f[i]]
    BY <1>8, <1>9, <1>10
  <2>2. f[i] <= hydrated <=> i <= Cardinality(K \cap 1..hydrated)
    BY <1>1, <2>1, IncreasingPrefix
  <2>3. live[f[i]].restored <=> f[i] <= hydrated
    BY <2>1 DEF HydratedPrefix
  <2> HIDE DEF K
  <2> QED BY <1>12, <2>1, <2>2, <2>3
<1>15. HydratedPrefix'
  BY <1>13, <1>14 DEF HydratedPrefix
<1> HIDE DEF M, K
<1>16. hydrated - hydrated' <= Cardinality(M)
  BY <1>1, <1>4, <1>5, <1>12
<1> QED BY <1>1, <1>4, <1>6, <1>10, <1>11, <1>12, <1>15, <1>16

\* Del: nothing, or a removal.
LEMMA DelStep ==
    ASSUME IInv, opened, NEW p \in Procs, NEW vs, Del(p, vs)
    PROVE  IInv'
<1>0. /\ pc[p] \in Free /\ ProcTypes
      /\ pc[p] \notin {"hook", "bcast1", "bcast2", "wait"}
  BY Entering DEF Del, InCall, Free
<1>1. CASE Return(p, "errClosed") /\ UNCHANGED <<live, mirror, hydrated, notFull>>
  BY <1>0, <1>1, QuietReturn DEF Del, Idle, queueVars
<1>2. CASE Return(p, "idle") /\ UNCHANGED <<live, mirror, hydrated, notFull>>
  BY <1>0, <1>2, QuietReturn DEF Del, Idle, queueVars
<1>3. CASE Return(p, "idle") /\ Matched(vs) # {} /\ DelMatched(vs)
  <2>1. /\ live' \in Seq(EntrySet) /\ hydrated' \in Nat /\ HydratedPrefix'
        /\ Len(live') - hydrated' <= Len(live) - hydrated
        /\ notFull' = {}
    BY <1>3, DelEffect DEF IInv
  <2>2. /\ ProcTypes' /\ pc'[p] = "idle"
        /\ \A q \in Procs : q # p => pc'[q] = pc[q] /\ call'[q] = call[q]
    BY <1>0, <1>3, ReturnEffect DEF Idle
  <2>3. live # <<>>
    BY <1>3 DEF Matched
  <2>4. UNCHANGED <<opened, attached, inflight, closed, notEmpty>>
    BY DEF Del
  <2> QED BY <1>0, <2>1, <2>2, <2>3, <2>4, RemovalStep
<1> QED BY <1>1, <1>2, <1>3 DEF Del

\* Clear: nothing, or a removal of everything.
LEMMA ClearStep ==
    ASSUME IInv, opened, NEW p \in Procs, Clear(p)
    PROVE  IInv'
<1>0. /\ pc[p] \in Free /\ ProcTypes
      /\ pc[p] \notin {"hook", "bcast1", "bcast2", "wait"}
  BY Entering DEF Clear, InCall, Free
<1>1. CASE Return(p, "errClosed") /\ UNCHANGED <<live, mirror, hydrated, notFull>>
  BY <1>0, <1>1, QuietReturn DEF Clear, Idle, queueVars
<1>2. CASE Return(p, "idle") /\ UNCHANGED <<live, mirror, hydrated, notFull>>
  BY <1>0, <1>2, QuietReturn DEF Clear, Idle, queueVars
<1>3. CASE Return(p, "idle") /\ live # <<>> /\ Empty
  <2>1. live' = <<>> /\ hydrated' = 0 /\ notFull' = {}
    BY <1>3 DEF Empty, SignalNotFull
  <2>2. live' \in Seq(EntrySet) /\ hydrated' \in Nat /\ Len(live') = 0
    BY <2>1
  <2>3. /\ ProcTypes' /\ pc'[p] = "idle"
        /\ \A q \in Procs : q # p => pc'[q] = pc[q] /\ call'[q] = call[q]
    BY <1>0, <1>3, ReturnEffect DEF Idle
  <2>4. UNCHANGED <<opened, attached, inflight, closed, notEmpty>>
    BY DEF Clear
  <2>5. HydratedPrefix' /\ Len(live') - hydrated' <= Len(live) - hydrated
    <3>1. Len(live) \in Nat /\ hydrated \in Nat /\ hydrated <= Len(live)
      BY LenProperties DEF IInv, QueueTypes, HydratedPrefix
    <3>2. Len(live') - hydrated' <= Len(live) - hydrated
      BY <2>1, <2>2, <3>1
    <3> QED BY <2>1, <2>2, <3>2 DEF HydratedPrefix
  <2> QED BY <1>0, <1>3, <2>1, <2>2, <2>3, <2>4, <2>5, RemovalStep
<1> QED BY <1>1, <1>2, <1>3 DEF Clear

\* A step that at most unregisters waiters.
LEMMA WakeStep ==
    ASSUME IInv, ProcTypes',
           UNCHANGED <<opened, attached, live, hydrated, inflight, closed, pc, call>>,
           notFull' \subseteq notFull, notEmpty' \subseteq notEmpty
    PROVE  IInv'
<1> USE DEF IInv
<1>1. QueueTypes' /\ NotOpened'
  BY DEF QueueTypes, NotOpened
<1>2. ReservedSlots' = ReservedSlots
  BY SlotsKept
<1>3. SlotsCounted' /\ HookCalls'
  BY <1>2 DEF SlotsCounted, InflightExact, HookCalls
<1>4. Parked' /\ NoLostWakeupEmpty' /\ NoLostWakeupFull'
  BY DEF Parked, NoLostWakeupEmpty, NoLostWakeupFull, Gate, Room
<1>5. Admitted' /\ HydratedPrefix'
  BY DEF Admitted, HydratedPrefix
<1> QED BY <1>1, <1>3, <1>4, <1>5

\* A ctx that is done changes nothing the invariant speaks of.
LEMMA CtxDoneStep ==
    ASSUME IInv, NEW p \in Procs, CtxDone(p)
    PROVE  IInv'
<1>1. ProcTypes'
  BY DEF IInv, QueueTypes, ProcTypes, CtxDone
<1> QED BY <1>1, WakeStep DEF CtxDone, queueVars

\* The AfterFunc callback unregisters one waiter.
LEMMA CtxWakeStep ==
    ASSUME IInv, NEW p \in Procs, CtxWake(p)
    PROVE  IInv'
<1>1. ProcTypes'
  BY DEF IInv, QueueTypes, ProcTypes, CtxWake, procVars
<1> QED BY <1>1, WakeStep DEF CtxWake, queueVars, procVars

\* A stuttering step.
LEMMA StutterStep ==
    ASSUME IInv, UNCHANGED vars
    PROVE  IInv'
<1>1. ProcTypes'
  BY DEF IInv, QueueTypes, ProcTypes, vars, procVars
<1> QED BY <1>1, WakeStep DEF vars, queueVars, procVars

\* Signal.Wait returns to a goroutine that is registered nowhere any more.
LEMMA WaitReturnStep ==
    ASSUME IInv, NEW p \in Procs, WaitReturn(p)
    PROVE  IInv'
<1> DEFINE l == IF cancelled[p] THEN "err" ELSE "retry"
<1>0. pc[p] = "wait" /\ p \notin notFull /\ p \notin notEmpty /\ Continue(p, call[p], l)
      /\ UNCHANGED <<opened, attached, queueVars, notFull, notEmpty>>
  BY DEF WaitReturn, Waiting
<1>1. l \in Labels /\ l # "hook" /\ call[p] \in Call /\ ProcTypes
  BY DEF Labels, IInv, QueueTypes, ProcTypes
<1> HIDE DEF l
<1>2. /\ ProcTypes' /\ pc'[p] = l
      /\ \A q \in Procs : q # p => pc'[q] = pc[q] /\ call'[q] = call[q]
  BY <1>0, <1>1, ContinueEffect
<1> QED BY <1>0, <1>1, <1>2, QuietStep DEF queueVars

\* The error return of a wait.
LEMMA ClosedOrCauseStep ==
    ASSUME IInv, NEW p \in Procs, ClosedOrCause(p)
    PROVE  IInv'
<1>1. (IF closed THEN "errClosed" ELSE "errCause") \in Idle
  BY DEF Idle
<1>2. pc[p] \in Free
  BY DEF ClosedOrCause, Free
<1> QED BY <1>1, <1>2, QuietReturn DEF ClosedOrCause

\* Peek and Exists.
LEMMA ReadStep ==
    ASSUME IInv, NEW p \in Procs, Read(p)
    PROVE  IInv'
<1>1. (IF closed THEN "errClosed" ELSE "idle") \in Idle
  BY DEF Idle
<1>2. pc[p] \in Free
  BY DEF Read, InCall, Free
<1> QED BY <1>1, <1>2, QuietReturn DEF Read

\* Close takes effect: the goroutine that closed owes both broadcasts.
LEMMA CloseStep ==
    ASSUME IInv, opened, NEW p \in Procs, Close(p)
    PROVE  IInv'
<1>0. pc[p] \in Free
  BY DEF Close, InCall, Free
<1>1. /\ ProcTypes /\ pc[p] \notin {"hook", "bcast1", "bcast2", "wait"}
      /\ p \notin notFull /\ p \notin notEmpty
  BY <1>0, Entering
<1>2. CASE UNCHANGED closed /\ Return(p, "idle")
  BY <1>0, <1>2, QuietReturn DEF Close, Idle, queueVars
<1>3. CASE closed' = TRUE /\ Continue(p, NoCall, "bcast1")
  <2>1. NoCall \in Call /\ "bcast1" \in Labels
    BY DEF NoCall, Call, Ops, Labels
  <2>2. /\ ProcTypes' /\ pc'[p] = "bcast1"
        /\ \A q \in Procs : q # p => pc'[q] = pc[q] /\ call'[q] = call[q]
    BY <1>1, <1>3, <2>1, ContinueEffect
  <2> QED BY <1>1, <1>3, <2>2, QuietStep DEF Close
<1> QED BY <1>2, <1>3 DEF Close

\* The first broadcast: a producer still parked is owed the second one.
LEMMA CloseNotEmptyStep ==
    ASSUME IInv, NEW p \in Procs, CloseNotEmpty(p)
    PROVE  IInv'
<1> USE DEF IInv
<1>0. /\ pc[p] = "bcast1" /\ notEmpty' = {} /\ Continue(p, NoCall, "bcast2")
      /\ UNCHANGED <<opened, attached, live, hydrated, inflight, closed, notFull>>
  BY DEF CloseNotEmpty, SignalNotEmpty, queueVars
<1>1. NoCall \in Call /\ "bcast2" \in Labels /\ ProcTypes
  BY DEF NoCall, Call, Ops, Labels, QueueTypes
<1>2. /\ ProcTypes' /\ pc'[p] = "bcast2"
      /\ \A q \in Procs : q # p => pc'[q] = pc[q] /\ call'[q] = call[q]
  BY <1>0, <1>1, ContinueEffect
<1>3. p \notin notFull
  BY <1>0 DEF Parked
<1>4. QueueTypes' /\ NotOpened'
  BY <1>0, <1>2 DEF QueueTypes, NotOpened
<1>5. ReservedSlots' = ReservedSlots
  BY <1>0, <1>2, SlotsKept
<1>6. SlotsCounted' /\ HookCalls'
  BY <1>0, <1>2, <1>5 DEF SlotsCounted, InflightExact, HookCalls
<1>7. Parked' /\ NoLostWakeupEmpty'
  BY <1>0, <1>2, <1>3 DEF Parked, NoLostWakeupEmpty, QueueTypes
<1>8. NoLostWakeupFull'
  BY <1>0, <1>2, <1>3 DEF NoLostWakeupFull, Gate, Room, QueueTypes
<1>9. Admitted' /\ HydratedPrefix'
  BY <1>0 DEF Admitted, HydratedPrefix
<1> QED BY <1>4, <1>6, <1>7, <1>8, <1>9

\* The second broadcast: nobody is owed it any more.
LEMMA CloseNotFullStep ==
    ASSUME IInv, NEW p \in Procs, CloseNotFull(p)
    PROVE  IInv'
<1> USE DEF IInv
<1>0. /\ pc[p] = "bcast2" /\ notFull' = {} /\ Return(p, "idle")
      /\ UNCHANGED <<opened, attached, live, hydrated, inflight, closed, notEmpty>>
  BY DEF CloseNotFull, SignalNotFull, queueVars
<1>1. "idle" \in Idle /\ ProcTypes
  BY DEF Idle, QueueTypes
<1>2. /\ ProcTypes' /\ pc'[p] = "idle"
      /\ \A q \in Procs : q # p => pc'[q] = pc[q] /\ call'[q] = call[q]
  BY <1>0, <1>1, ReturnEffect
<1>3. p \notin notEmpty
  BY <1>0 DEF Parked
<1>4. QueueTypes' /\ NotOpened'
  BY <1>0, <1>2 DEF QueueTypes, NotOpened
<1>5. ReservedSlots' = ReservedSlots
  BY <1>0, <1>2, SlotsKept
<1>6. SlotsCounted' /\ HookCalls'
  BY <1>0, <1>2, <1>5 DEF SlotsCounted, InflightExact, HookCalls
<1>7. Parked' /\ NoLostWakeupFull'
  BY <1>0, <1>2, <1>3 DEF Parked, NoLostWakeupFull, QueueTypes
<1>8. NoLostWakeupEmpty'
  BY <1>0, <1>2 DEF NoLostWakeupEmpty
<1>9. Admitted' /\ HydratedPrefix'
  BY <1>0 DEF Admitted, HydratedPrefix
<1> QED BY <1>4, <1>6, <1>7, <1>8, <1>9

\* New, with or without a Backup to restore from.
LEMMA NewStep ==
    ASSUME IInv, New
    PROVE  IInv'
<1> USE DEF IInv
<1>0. /\ ~opened /\ opened' = TRUE
      /\ UNCHANGED <<inflight, closed, notFull, notEmpty, pc, call, cancelled>>
  BY DEF New, procVars
<1>1. live = <<>> /\ hydrated = 0 /\ inflight = 0 /\ notFull = {} /\ notEmpty = {}
  BY <1>0 DEF NotOpened
<1>2. /\ live' \in Seq(EntrySet) /\ hydrated' = Len(live') /\ attached' \in BOOLEAN
      /\ Len(live') \in Nat
      /\ \A i \in 1..Len(live') : live'[i].restored = TRUE
  <2>1. CASE UNCHANGED <<live, hydrated, mirror, attached>>
    BY <1>1, <2>1 DEF QueueTypes, EntrySet
  <2>2. ASSUME NEW m \in Restores, Hydrate(m)
        PROVE  /\ live' \in Seq(EntrySet) /\ hydrated' = Len(live') /\ attached' \in BOOLEAN
               /\ Len(live') \in Nat
               /\ \A i \in 1..Len(live') : live'[i].restored = TRUE
    <3>1. m \in Seq(Items)
      BY RestoresAssumption
    <3>2. live' = Entries(m, TRUE) /\ hydrated' = Len(m) /\ attached' = TRUE
      BY <2>2 DEF Hydrate
    <3>3. Len(m) \in Nat
      BY <3>1, LenProperties
    <3> QED BY <3>1, <3>2, <3>3, EntriesAreEntries
  <2> QED BY <2>1, <2>2 DEF New
<1>3. QueueTypes' /\ NotOpened'
  BY <1>0, <1>1, <1>2 DEF QueueTypes, ProcTypes, NotOpened, EntrySet
<1>4. ReservedSlots' = ReservedSlots
  BY <1>0, SlotsKept
<1>5. SlotsCounted' /\ HookCalls'
  BY <1>0, <1>4 DEF SlotsCounted, InflightExact, HookCalls
<1>6. Parked' /\ NoLostWakeupEmpty' /\ NoLostWakeupFull'
  BY <1>0, <1>1 DEF Parked, NoLostWakeupEmpty, NoLostWakeupFull
<1>7. Admitted'
  BY <1>0, <1>1, <1>2, MaxSizeAssumption DEF Admitted
<1>8. HydratedPrefix'
  BY <1>2 DEF HydratedPrefix
<1> QED BY <1>3, <1>5, <1>6, <1>7, <1>8

\* One pass of a blocking call, its first or one after a wait.
LEMMA PassStep ==
    ASSUME IInv, opened, NEW p \in Procs, pc[p] \in Free, NEW c \in Call, Pass(p, c)
    PROVE  IInv'
<1>1. CASE c.op = "push" /\ PushPass(p, c) /\ UNCHANGED <<opened, attached>>
  BY <1>1, PushPassStep
<1>2. CASE c.op = "pop" /\ PopPass(p, c) /\ UNCHANGED <<opened, attached>>
  <2>1. c.n # 0
    BY <1>2 DEF Call
  <2> QED BY <1>2, <2>1, PopPassStep
<1>3. CASE NotEmptyPass(p, c) /\ UNCHANGED queueVars /\ UNCHANGED <<opened, attached>>
  BY <1>3, NotEmptyPassStep
<1>4. CASE /\ c.op = "notFull" /\ NotFullPass(p, c) /\ UNCHANGED queueVars
           /\ UNCHANGED <<opened, attached>>
  BY <1>4, NotFullPassStep
<1> QED BY <1>1, <1>2, <1>3, <1>4 DEF Pass

\* The calls a goroutine may start.
LEMMA CallsStep ==
    ASSUME IInv, opened, NEW p \in Procs, Calls(p)
    PROVE  IInv'
<1>0. ~InCall(p) => pc[p] \in Free
  BY DEF InCall, Free
<1>1. CASE Push(p)
  <2>1. PICK vs \in Batches, h \in BOOLEAN : ~InCall(p) /\ Pass(p, PushCall(vs, h))
    BY <1>1 DEF Push
  <2>2. PushCall(vs, h) \in Call
    BY DEF PushCall, Call, Ops
  <2> QED BY <1>0, <2>1, <2>2, PassStep
<1>2. CASE Pop(p)
  <2>1. PICK n \in PopSizes : ~InCall(p) /\ Pass(p, PopCall(n))
    BY <1>2 DEF Pop
  <2>2. PopCall(n) \in Call
    BY PopAssumption DEF PopCall, Call, Ops
  <2> QED BY <1>0, <2>1, <2>2, PassStep
<1>3. CASE NotEmpty(p)
  <2>1. WaitCall("notEmpty") \in Call
    BY DEF WaitCall, Call, Ops
  <2> QED BY <1>0, <1>3, <2>1, PassStep DEF NotEmpty
<1>4. CASE NotFull(p)
  <2>1. WaitCall("notFull") \in Call
    BY DEF WaitCall, Call, Ops
  <2> QED BY <1>0, <1>4, <2>1, PassStep DEF NotFull
<1>5. CASE \E vs \in DelArgs : Del(p, vs)
  BY <1>5, DelStep
<1>6. CASE Clear(p)
  BY <1>6, ClearStep
<1>7. CASE Close(p)
  BY <1>7, CloseStep
<1>8. CASE Read(p)
  BY <1>8, ReadStep
<1> QED BY <1>1, <1>2, <1>3, <1>4, <1>5, <1>6, <1>7, <1>8 DEF Calls

\* The steps a goroutine takes inside a call.
LEMMA ProgressStep ==
    ASSUME IInv, opened, NEW p \in Procs, Progress(p)
    PROVE  IInv'
<1>1. CASE HookReturn(p)
  BY <1>1, HookReturnStep
<1>2. CASE CtxWake(p)
  BY <1>2, CtxWakeStep
<1>3. CASE WaitReturn(p)
  BY <1>3, WaitReturnStep
<1>4. CASE ClosedOrCause(p)
  BY <1>4, ClosedOrCauseStep
<1>5. CASE Retry(p)
  <2>1. pc[p] \in Free /\ call[p] \in Call
    BY <1>5 DEF Retry, Free, IInv, QueueTypes, ProcTypes
  <2> QED BY <1>5, <2>1, PassStep DEF Retry
<1>6. CASE CloseNotEmpty(p)
  BY <1>6, CloseNotEmptyStep
<1>7. CASE CloseNotFull(p)
  BY <1>7, CloseNotFullStep
<1> QED BY <1>1, <1>2, <1>3, <1>4, <1>5, <1>6, <1>7 DEF Progress

\* The invariant holds initially.
LEMMA InitIInv == Init => IInv
<1> SUFFICES ASSUME Init PROVE IInv
  OBVIOUS
<1> USE DEF Init
<1>1. QueueTypes
  <2>1. NoCall \in Call
    BY DEF NoCall, Call, Ops
  <2>2. ProcTypes
    BY <2>1 DEF ProcTypes, Idle
  <2>3. live \in Seq([val : Items, restored : BOOLEAN]) /\ hydrated \in Nat /\ inflight \in Nat
    OBVIOUS
  <2> QED BY <2>2, <2>3, Zenon DEF QueueTypes
<1>2. ReservedSlots = {}
  BY DEF ReservedSlots
<1>3. SlotsCounted
  BY <1>2, FS_EmptySet DEF SlotsCounted, InflightExact
<1>4. NotOpened /\ HookCalls /\ Parked /\ NoLostWakeupEmpty /\ NoLostWakeupFull
  BY DEF NotOpened, HookCalls, Parked, NoLostWakeupEmpty, NoLostWakeupFull
<1>5. Admitted /\ HydratedPrefix
  <2>1. Len(live) = 0
    OBVIOUS
  <2> QED BY <2>1, MaxSizeAssumption DEF Admitted, HydratedPrefix
<1> QED BY <1>1, <1>3, <1>4, <1>5 DEF IInv

\* Every step keeps the invariant.
LEMMA NextIInv == IInv /\ [Next]_vars => IInv'
<1> SUFFICES ASSUME IInv, [Next]_vars PROVE IInv'
  OBVIOUS
<1>1. CASE New
  BY <1>1, NewStep
<1>2. ASSUME opened, NEW p \in Procs, Calls(p)
      PROVE  IInv'
  BY <1>2, CallsStep
<1>3. ASSUME NEW p \in Procs, CtxDone(p)
      PROVE  IInv'
  BY <1>3, CtxDoneStep
<1>4. ASSUME opened, NEW p \in Procs, Progress(p)
      PROVE  IInv'
  BY <1>4, ProgressStep
<1>5. CASE UNCHANGED vars
  BY <1>5, StutterStep
<1> QED BY <1>1, <1>2, <1>3, <1>4, <1>5 DEF Next

\* The inductive invariant holds of every reachable state.
THEOREM Invariance == Spec => []IInv
<1>1. Init => IInv
  BY InitIInv
<1>2. IInv /\ [Next]_vars => IInv'
  BY NextIInv
<1> QED BY <1>1, <1>2, PTL DEF Spec

-----------------------------------------------------------------------------
(***************************************************************************)
(* What the invariant implies.                                             *)
(***************************************************************************)

\* Every variable of the queue and of its callers keeps the shape the code
\* gives it (the contents of the Backup, computed by a fold, are left to TLC).
THEOREM TypesKept == Spec => []QueueTypes
<1>1. IInv => QueueTypes
  BY DEF IInv
<1> QED BY <1>1, Invariance, PTL

\* f.inflight is at all times the number of slots the running hooks hold:
\* RunOnAdmit and ReleaseReservation neither leak nor double-free one.
THEOREM ReservationsExact == Spec => []InflightExact
<1>1. IInv => InflightExact
  BY DEF IInv, SlotsCounted
<1> QED BY <1>1, Invariance, PTL

\* No call stays parked on notEmpty over a non-empty queue, no Push on notFull
\* once its batch fits, no NotFull once there is room, and none of them past
\* the broadcasts of Close.
THEOREM WaitersWoken == Spec => []NoLostWakeup
<1>1. IInv => NoLostWakeup
  BY DEF IInv, NoLostWakeup
<1> QED BY <1>1, Invariance, PTL

\* The restored entries are the first f.hydrated ones, after any Del.
THEOREM RestoredFirst == Spec => []HydratedPrefix
<1>1. IInv => HydratedPrefix
  BY DEF IInv
<1> QED BY <1>1, Invariance, PTL

\* A step that gives one goroutine a label, and not another answer than
\* ErrClosed to a blocked call of a closed queue.
LEMMA RelabelStep ==
    ASSUME ProcTypes, NEW p \in Procs, NEW l, pc' = [pc EXCEPT ![p] = l],
           closed /\ Blocked(p) /\ l \in Idle => l = "errClosed"
    PROVE  ClosedFirst
BY DEF ProcTypes, ClosedFirst, Blocked, Idle

\* ErrClosed takes precedence: on a closed queue a blocked call returns that,
\* whatever it was woken for and whether its ctx is done.
THEOREM ClosedPrecedence == Spec => [][ClosedFirst]_vars
<1>1. ASSUME IInv, [Next]_vars PROVE ClosedFirst
  <2>0. ProcTypes
    BY <1>1 DEF IInv, QueueTypes
  <2>1. CASE UNCHANGED pc
    BY <2>0, <2>1 DEF ClosedFirst, Blocked, Idle, ProcTypes
  <2>2. ASSUME NEW p \in Procs, NEW l, Return(p, l) \/ \E c : Continue(p, c, l),
               ~closed \/ ~Blocked(p) \/ l \notin Idle \/ l = "errClosed"
        PROVE  ClosedFirst
    <3>1. pc' = [pc EXCEPT ![p] = l]
      BY <2>2 DEF Return, Continue
    <3> QED BY <2>0, <2>2, <3>1, RelabelStep
  <2>3. ASSUME NEW p \in Procs, NEW c, Pass(p, c)
        PROVE  ClosedFirst
    <3>1. CASE PushPass(p, c)
      BY <2>2, <3>1 DEF PushPass, Insert, Abandon
    <3>2. CASE PopPass(p, c)
      BY <2>2, <3>2 DEF PopPass
    <3>3. CASE NotEmptyPass(p, c) \/ NotFullPass(p, c)
      BY <2>2, <3>3 DEF NotEmptyPass, NotFullPass
    <3> QED BY <2>3, <3>1, <3>2, <3>3 DEF Pass
  <2>4. CASE New
    BY <2>1, <2>4 DEF New, procVars
  <2>5. ASSUME NEW p \in Procs, Calls(p)
        PROVE  ClosedFirst
    <3>1. CASE Push(p) \/ Pop(p) \/ NotEmpty(p) \/ NotFull(p)
      BY <2>3, <3>1 DEF Push, Pop, NotEmpty, NotFull
    <3>2. CASE (\E vs \in DelArgs : Del(p, vs)) \/ Clear(p) \/ Close(p) \/ Read(p)
      <4>1. ~Blocked(p)
        BY <3>2 DEF Del, Clear, Close, Read, InCall, Blocked, Idle
      <4> QED BY <2>2, <3>2, <4>1 DEF Del, Clear, Close, Read
    <3> QED BY <2>5, <3>1, <3>2 DEF Calls
  <2>6. ASSUME NEW p \in Procs, CtxDone(p)
        PROVE  ClosedFirst
    BY <2>1, <2>6 DEF CtxDone
  <2>7. ASSUME NEW p \in Procs, Progress(p)
        PROVE  ClosedFirst
    <3>1. CASE HookReturn(p)
      <4>1. ~Blocked(p)
        BY <3>1 DEF HookReturn, Blocked
      <4> QED BY <2>2, <3>1, <4>1 DEF HookReturn, Insert, Abandon
    <3>2. CASE CtxWake(p)
      BY <2>1, <3>2 DEF CtxWake, procVars
    <3>3. CASE WaitReturn(p)
      BY <2>2, <3>3 DEF WaitReturn, Idle
    <3>4. CASE CloseNotEmpty(p) \/ CloseNotFull(p)
      <4>1. ~Blocked(p)
        BY <3>4 DEF CloseNotEmpty, CloseNotFull, Blocked
      <4> QED BY <2>2, <3>4, <4>1 DEF CloseNotEmpty, CloseNotFull
    <3>5. CASE ClosedOrCause(p)
      BY <2>2, <3>5 DEF ClosedOrCause
    <3>6. CASE Retry(p)
      BY <2>3, <3>6 DEF Retry
    <3> QED BY <2>7, <3>1, <3>2, <3>3, <3>4, <3>5, <3>6 DEF Progress
  <2> QED BY <1>1, <2>1, <2>4, <2>5, <2>6, <2>7 DEF Next, vars, procVars
<1> QED BY <1>1, Invariance, PTL DEF Spec

\* The invariant bounds the entries and the reservations.
LEMMA InvImpliesBounded == IInv => Bounded
<1> SUFFICES ASSUME IInv, MaxSize > 0
             PROVE  Cardinality({i \in 1..Len(live) : ~live[i].restored})
                      + Cardinality(ReservedSlots) <= MaxSize
  BY DEF Bounded
<1>1. Len(live) \in Nat /\ hydrated \in Nat /\ inflight \in Nat /\ hydrated <= Len(live)
  BY LenProperties DEF IInv, QueueTypes, HydratedPrefix
<1>2. {i \in 1..Len(live) : ~live[i].restored} = (1..Len(live)) \ (1..hydrated)
  BY <1>1 DEF IInv, HydratedPrefix
<1>3. (1..Len(live)) \cap (1..hydrated) = 1..hydrated
  BY <1>1
<1>4. Cardinality((1..Len(live)) \ (1..hydrated)) = Len(live) - hydrated
  <2>1. /\ IsFiniteSet(1..Len(live)) /\ Cardinality(1..Len(live)) = Len(live)
        /\ Cardinality(1..hydrated) = hydrated
    BY <1>1, IntervalCount
  <2>2. Cardinality((1..Len(live)) \ (1..hydrated))
          = Cardinality(1..Len(live)) - Cardinality((1..Len(live)) \cap (1..hydrated))
    BY <2>1, FS_Difference
  <2> QED BY <1>3, <2>1, <2>2
<1>5. Cardinality(ReservedSlots) = inflight
  BY DEF IInv, SlotsCounted, InflightExact
<1>6. Len(live) - hydrated + inflight <= MaxSize
  BY DEF IInv, Admitted
<1> QED BY <1>2, <1>4, <1>5, <1>6

\* Entries admitted by Push and slots reserved for hooks never exceed maxSize.
THEOREM CapacityRespected == Spec => []Bounded
BY InvImpliesBounded, Invariance, PTL

-----------------------------------------------------------------------------
(***************************************************************************)
(* The backing implements BoundedQueue.  A Push with a hook is two steps   *)
(* there, Reserve and then Fulfil or GiveBack; a Push without one, Admit;  *)
(* a Clear takes everything.  Each of them must leave the abstract bound   *)
(* intact, which is what IInv says of the counters.                        *)
(***************************************************************************)

\* BoundedQueue counts with the same Cardinality.
LEMMA SameCount == \A S : Abstract!Cardinality(S) = Cardinality(S)
BY DEF Abstract!Cardinality, Cardinality

\* The invariant contains the abstract bound.
LEMMA WithinBound == IInv => Abstract!Within(live, Reservations)
<1> SUFFICES ASSUME IInv PROVE Abstract!Within(live, Reservations)
  OBVIOUS
<1>1. Abstract!Slots(Reservations) = ReservedSlots
  <2>1. \A p \in Procs : pc[p] # "hook" => 1..Len(Reservations[p]) = {}
    BY DEF Reservations
  <2>2. \A p \in Procs : pc[p] = "hook" => Reservations[p] = call[p].vs
    BY DEF Reservations
  <2>3. ASSUME NEW p \in Procs, NEW x \in {p} \X (1..Len(Reservations[p]))
        PROVE  x \in ReservedSlots
    <3>1. pc[p] = "hook"
      BY <2>1
    <3> QED BY <2>2, <2>3, <3>1 DEF ReservedSlots
  <2>4. ASSUME NEW p \in Procs, pc[p] = "hook", NEW x \in {p} \X (1..Len(call[p].vs))
        PROVE  x \in Abstract!Slots(Reservations)
    BY <2>2, <2>4 DEF Abstract!Slots
  <2>5. ReservedSlots \subseteq Abstract!Slots(Reservations)
    BY <2>4 DEF ReservedSlots
  <2>6. Abstract!Slots(Reservations) \subseteq ReservedSlots
    BY <2>3 DEF Abstract!Slots
  <2> QED BY <2>5, <2>6
<1>2. Abstract!Admitted(live) = Cardinality({i \in 1..Len(live) : ~live[i].restored})
  BY SameCount DEF Abstract!Admitted
<1>3. Bounded
  BY InvImpliesBounded
<1>4. MaxSize = 0 \/ Abstract!Admitted(live) + Cardinality(Abstract!Slots(Reservations)) <= MaxSize
  BY <1>1, <1>2, <1>3, MaxSizeAssumption DEF Bounded
<1> QED BY <1>4, SameCount DEF Abstract!Within

\* A step that changes neither the contents nor a reservation is not seen.
LEMMA UnseenStep ==
    ASSUME UNCHANGED <<live, closed>>, Reservations' = Reservations
    PROVE  UNCHANGED Abstract!qvars
BY DEF Abstract!qvars

\* The reservations that a step of p leaves alone.
LEMMA ReservationsKept ==
    ASSUME ProcTypes, ProcTypes', NEW p \in Procs,
           \A q \in Procs : q # p => pc'[q] = pc[q] /\ call'[q] = call[q],
           pc[p] # "hook", pc'[p] # "hook"
    PROVE  Reservations' = Reservations
BY DEF Reservations

\* The one that p takes, or gives back.
LEMMA ReservationChanged ==
    ASSUME ProcTypes, ProcTypes', NEW p \in Procs,
           \A q \in Procs : q # p => pc'[q] = pc[q] /\ call'[q] = call[q]
    PROVE  /\ pc'[p] = "hook" => Reservations' = [Reservations EXCEPT ![p] = call'[p].vs]
           /\ pc'[p] # "hook" => Reservations' = [Reservations EXCEPT ![p] = <<>>]
BY DEF Reservations

\* A step on an open queue that is one of the abstract ones, and keeps IInv.
LEMMA SeenStep ==
    ASSUME ~closed, (Abstract!Within(live, Reservations))',
           \/ \E m \in Restores : Abstract!Restore(m)
           \/ \E vs \in Batches, p \in Procs : Abstract!Reserve(p, vs) \/ Abstract!Admit(vs)
           \/ \E p \in Procs : Abstract!Fulfil(p)
           \/ \E k \in 1..Len(live) : Abstract!Take(k)
           \/ \E vs \in SUBSET Items : Abstract!Delete(vs)
           \/ Abstract!Close
    PROVE  Abstract!Next
BY DEF Abstract!Next, Abstract!Within, Abstract!Admitted, Abstract!Slots

\* A goroutine that leaves its hook, or was in none, and leaves the contents
\* alone gives its reservation back, or is not seen.
LEMMA GiveBackRefines ==
    ASSUME ProcTypes, ProcTypes', NEW p \in Procs,
           \A q \in Procs : q # p => pc'[q] = pc[q] /\ call'[q] = call[q],
           pc'[p] # "hook", UNCHANGED <<live, closed>>
    PROVE  Abstract!Next \/ UNCHANGED Abstract!qvars
<1>1. Reservations' = [Reservations EXCEPT ![p] = <<>>]
  BY ReservationChanged
<1>2. CASE Reservations[p] = <<>>
  <2>1. Reservations' = Reservations
    BY <1>1, <1>2 DEF Reservations
  <2> QED BY <2>1, UnseenStep
<1>3. CASE Reservations[p] # <<>>
  BY <1>1, <1>3 DEF Abstract!Next, Abstract!GiveBack
<1> QED BY <1>2, <1>3

\* An insert without a reservation is an Admit, one with a reservation its
\* Fulfil; an abandoned one is not seen, or a GiveBack.
LEMMA InsertRefines ==
    ASSUME IInv, (Abstract!Within(live, Reservations))', ProcTypes', NEW p \in Procs, NEW c \in Call,
           ~closed, Insert(p, c), UNCHANGED closed,
           pc[p] # "hook" \/ c = call[p]
    PROVE  Abstract!Next \/ UNCHANGED Abstract!qvars
<1>0. ProcTypes /\ live \in Seq(EntrySet)
  BY DEF IInv, QueueTypes, EntrySet
<1>1. /\ pc'[p] = "idle"
      /\ \A q \in Procs : q # p => pc'[q] = pc[q] /\ call'[q] = call[q]
  BY <1>0, ReturnEffect DEF Insert, Abandon, Idle
<1>2. CASE live' = live \o Entries(c.vs, FALSE)
  <2>1. Entries(c.vs, FALSE) = Abstract!New(c.vs)
    BY DEF Entries, Entry, Abstract!New
  <2>2. CASE c.vs = <<>>
    <3>1. Entries(c.vs, FALSE) = <<>>
      BY <2>2 DEF Entries
    <3>2. live' = live
      BY <1>0, <1>2, <3>1, ConcatEmptySeq
    <3>3. Reservations' = Reservations
      BY <1>0, <1>1, <2>2 DEF Reservations
    <3> QED BY <3>2, <3>3, UnseenStep
  <2>3. CASE c.vs # <<>> /\ pc[p] # "hook"
    <3>1. c.vs \in Batches
      BY <2>3 DEF Call
    <3>2. Reservations' = Reservations
      BY <1>0, <1>1, <2>3, ReservationsKept
    <3>3. Abstract!Admit(c.vs)
      BY <1>2, <2>1, <3>2 DEF Abstract!Admit
    <3> QED BY <3>1, <3>3, SeenStep
  <2>4. CASE c.vs # <<>> /\ pc[p] = "hook"
    <3>1. Reservations[p] = c.vs
      BY <2>4 DEF Reservations
    <3>2. Reservations' = [Reservations EXCEPT ![p] = <<>>]
      BY <1>0, <1>1, ReservationChanged
    <3>3. Abstract!Fulfil(p)
      BY <1>2, <2>1, <2>4, <3>1, <3>2 DEF Abstract!Fulfil
    <3> QED BY <3>3, SeenStep
  <2> QED BY <2>2, <2>3, <2>4
<1>3. CASE Abandon(p, c)
  <2>1. live' = live
    BY <1>3 DEF Abandon
  <2> QED BY <1>0, <1>1, <2>1, GiveBackRefines
<1> QED BY <1>2, <1>3 DEF Insert

\* A pass of Push that is granted its capacity reserves it or inserts.
LEMMA PushRefines ==
    ASSUME IInv, (Abstract!Within(live, Reservations))', ProcTypes', NEW p \in Procs, pc[p] \in Free,
           NEW c \in Call, PushPass(p, c)
    PROVE  Abstract!Next \/ UNCHANGED Abstract!qvars
<1>0. ProcTypes /\ pc[p] # "hook"
  BY Entering
<1>1. CASE \/ Return(p, "errClosed") /\ UNCHANGED queueVars
           \/ Return(p, "idle") /\ UNCHANGED queueVars
           \/ Continue(p, c, "wait") /\ UNCHANGED queueVars
  BY <1>0, <1>1, ReturnEffect, ContinueEffect, GiveBackRefines DEF queueVars, Idle, Labels
<1>2. CASE ~closed /\ Continue(p, c, "hook") /\ UNCHANGED <<live, closed>>
  <2>1. /\ pc'[p] = "hook" /\ call'[p] = c
        /\ \A q \in Procs : q # p => pc'[q] = pc[q] /\ call'[q] = call[q]
    BY <1>0, <1>2, ContinueEffect DEF Labels
  <2>2. Reservations' = [Reservations EXCEPT ![p] = c.vs] /\ Reservations[p] = <<>>
    BY <1>0, <2>1, ReservationChanged DEF Reservations
  <2>3. CASE c.vs = <<>>
    <3>1. Reservations' = Reservations
      BY <2>2, <2>3 DEF Reservations
    <3> QED BY <1>2, <3>1, UnseenStep
  <2>4. CASE c.vs # <<>>
    <3>1. c.vs \in Batches
      BY <2>4 DEF Call
    <3>2. Abstract!Reserve(p, c.vs)
      BY <1>2, <2>2 DEF Abstract!Reserve
    <3> QED BY <1>2, <3>1, <3>2, SeenStep
  <2> QED BY <2>3, <2>4
<1>3. CASE ~closed /\ Insert(p, c) /\ UNCHANGED closed
  BY <1>0, <1>3, InsertRefines
<1> QED BY <1>1, <1>2, <1>3 DEF PushPass

\* A hook that returns fulfils its reservation or gives it back.
LEMMA HookRefines ==
    ASSUME IInv, (Abstract!Within(live, Reservations))', ProcTypes', NEW p \in Procs, HookReturn(p)
    PROVE  Abstract!Next \/ UNCHANGED Abstract!qvars
<1>0. ProcTypes /\ call[p] \in Call
  BY DEF IInv, QueueTypes, ProcTypes
<1>1. CASE /\ Return(p, "idle") \/ Return(p, "errClosed")
           /\ UNCHANGED <<live, closed>>
  BY <1>0, <1>1, ReturnEffect, GiveBackRefines DEF Idle
<1>2. CASE ~closed /\ Insert(p, call[p]) /\ UNCHANGED closed
  BY <1>0, <1>2, InsertRefines
<1> QED BY <1>1, <1>2 DEF HookReturn

\* Pop takes the oldest entries, as many as it asked for or all.
LEMMA PopRefines ==
    ASSUME IInv, (Abstract!Within(live, Reservations))', ProcTypes', NEW p \in Procs, pc[p] \in Free,
           NEW c \in Call, c.n # 0, PopPass(p, c)
    PROVE  Abstract!Next \/ UNCHANGED Abstract!qvars
<1>0. ProcTypes /\ pc[p] # "hook" /\ live \in Seq(EntrySet) /\ c.n \in Nat
  BY Entering DEF IInv, QueueTypes, EntrySet, Call
<1> DEFINE k == IF c.n > Len(live) THEN Len(live) ELSE c.n
<1>1. CASE UNCHANGED <<live, closed>>
  <2>1. /\ pc'[p] # "hook"
        /\ \A q \in Procs : q # p => pc'[q] = pc[q] /\ call'[q] = call[q]
    BY <1>0, ReturnEffect, ContinueEffect DEF PopPass, Idle, Labels
  <2> QED BY <1>0, <1>1, <2>1, GiveBackRefines
<1>2. CASE ~closed /\ live # <<>> /\ Take(k) /\ Return(p, "idle") /\ UNCHANGED closed
  <2>1. k \in 1..Len(live)
    BY <1>0, <1>2
  <2>2. Reservations' = Reservations
    BY <1>0, <1>2, ReturnEffect, ReservationsKept DEF Idle
  <2>3. Abstract!Take(k)
    BY <1>2, <2>2 DEF Take, Abstract!Take
  <2> HIDE DEF k
  <2> QED BY <1>2, <2>1, <2>3, SeenStep
<1> QED BY <1>1, <1>2 DEF PopPass, queueVars

\* Del keeps what does not match, in its order.
LEMMA DelRefines ==
    ASSUME IInv, (Abstract!Within(live, Reservations))', ProcTypes', NEW p \in Procs, NEW vs \in DelArgs, Del(p, vs)
    PROVE  Abstract!Next \/ UNCHANGED Abstract!qvars
<1>0. ProcTypes /\ pc[p] # "hook"
  BY DEF IInv, QueueTypes, Del, InCall, Idle
<1>1. /\ pc'[p] # "hook" /\ closed' = closed
      /\ \A q \in Procs : q # p => pc'[q] = pc[q] /\ call'[q] = call[q]
  BY <1>0, ReturnEffect DEF Del, Idle
<1>2. CASE live' = live
  BY <1>0, <1>1, <1>2, GiveBackRefines
<1>3. CASE ~closed /\ DelMatched(vs)
  <2> DEFINE K == (1..Len(live)) \ Matched(vs)
  <2>1. Reservations' = Reservations
    BY <1>0, <1>1, ReservationsKept
  <2>2. {i \in 1..Len(live) : live[i].val \notin vs} = K
    BY DEF Matched
  <2>3. PICK f \in Increasing(K) : live' = [i \in DOMAIN f |-> live[f[i]]]
    BY <1>3 DEF DelMatched
  <2> HIDE DEF K
  <2>4. f \in [1..Abstract!Cardinality(K) -> K] /\ \A i, j \in DOMAIN f : i < j => f[i] < f[j]
    BY <2>3, SameCount DEF Increasing
  <2>5. Abstract!Keep(K)
    BY <2>3, <2>4 DEF Abstract!Keep
  <2>6. Abstract!Delete(vs)
    BY <1>1, <2>1, <2>2, <2>5 DEF Abstract!Delete
  <2>7. vs \in SUBSET Items
    BY DelAssumption
  <2> QED BY <1>3, <2>6, <2>7, SeenStep
<1> QED BY <1>2, <1>3 DEF Del

\* Clear takes everything.
LEMMA ClearRefines ==
    ASSUME IInv, (Abstract!Within(live, Reservations))', ProcTypes', NEW p \in Procs, Clear(p)
    PROVE  Abstract!Next \/ UNCHANGED Abstract!qvars
<1>0. ProcTypes /\ pc[p] # "hook" /\ live \in Seq(EntrySet)
  BY DEF IInv, QueueTypes, Clear, InCall, Idle, EntrySet
<1>1. /\ pc'[p] # "hook" /\ closed' = closed
      /\ \A q \in Procs : q # p => pc'[q] = pc[q] /\ call'[q] = call[q]
  BY <1>0, ReturnEffect DEF Clear, Idle
<1>2. CASE live' = live
  BY <1>0, <1>1, <1>2, GiveBackRefines
<1>3. CASE ~closed /\ live # <<>> /\ Empty
  <2>1. Reservations' = Reservations
    BY <1>0, <1>1, ReservationsKept
  <2>2. Len(live) \in 1..Len(live) /\ SubSeq(live, Len(live) + 1, Len(live)) = <<>>
    BY <1>0, <1>3
  <2>3. Abstract!Take(Len(live))
    BY <1>1, <1>3, <2>1, <2>2 DEF Empty, Abstract!Take
  <2> QED BY <1>3, <2>2, <2>3, SeenStep
<1> QED BY <1>2, <1>3 DEF Clear

\* The other calls leave the contents alone, Close but for the flag.
LEMMA CloseRefines ==
    ASSUME IInv, (Abstract!Within(live, Reservations))', ProcTypes', NEW p \in Procs, Close(p)
    PROVE  Abstract!Next \/ UNCHANGED Abstract!qvars
<1>0. ProcTypes /\ pc[p] # "hook" /\ live' = live
  BY DEF IInv, QueueTypes, Close, InCall, Idle
<1>1. NoCall \in Call
  BY DEF NoCall, Call, Ops
<1>2. /\ pc'[p] # "hook"
      /\ \A q \in Procs : q # p => pc'[q] = pc[q] /\ call'[q] = call[q]
  BY <1>0, <1>1, ReturnEffect, ContinueEffect DEF Close, Idle, Labels
<1>3. CASE closed' = closed
  BY <1>0, <1>2, <1>3, GiveBackRefines
<1>4. CASE ~closed /\ closed' = TRUE
  <2>1. Reservations' = Reservations
    BY <1>0, <1>2, ReservationsKept
  <2> QED BY <1>0, <1>4, <2>1, SeenStep DEF Abstract!Close
<1> QED BY <1>3, <1>4 DEF Close

\* Every step of the backing is a step of the abstract queue, or unseen.
LEMMA NextRefines ==
    ASSUME IInv, (Abstract!Within(live, Reservations))', ProcTypes', [Next]_vars
    PROVE  Abstract!Next \/ UNCHANGED Abstract!qvars
<1>0. ProcTypes
  BY DEF IInv, QueueTypes
<1>1. ASSUME NEW p \in Procs, pc[p] \in Free, NEW c \in Call, Pass(p, c)
      PROVE  Abstract!Next \/ UNCHANGED Abstract!qvars
  <2>1. CASE c.op = "push" /\ PushPass(p, c)
    BY <1>1, <2>1, PushRefines
  <2>2. CASE c.op = "pop" /\ PopPass(p, c)
    BY <1>1, <2>2, PopRefines DEF Call
  <2>3. CASE (NotEmptyPass(p, c) \/ NotFullPass(p, c)) /\ UNCHANGED queueVars
    <3>1. /\ pc'[p] # "hook"
          /\ \A q \in Procs : q # p => pc'[q] = pc[q] /\ call'[q] = call[q]
      BY <1>0, <1>1, <2>3, ReturnEffect, ContinueEffect DEF NotEmptyPass, NotFullPass, Idle, Labels
    <3> QED BY <1>0, <2>3, <3>1, GiveBackRefines DEF queueVars
  <2> QED BY <1>1, <2>1, <2>2, <2>3 DEF Pass
<1>2. ASSUME NEW p \in Procs, Calls(p)
      PROVE  Abstract!Next \/ UNCHANGED Abstract!qvars
  <2>0. ~InCall(p) => pc[p] \in Free
    BY DEF InCall, Free
  <2>1. CASE Push(p)
    <3>1. PICK vs \in Batches, h \in BOOLEAN : ~InCall(p) /\ Pass(p, PushCall(vs, h))
      BY <2>1 DEF Push
    <3>2. PushCall(vs, h) \in Call
      BY DEF PushCall, Call, Ops
    <3> QED BY <1>1, <2>0, <3>1, <3>2
  <2>2. CASE Pop(p)
    <3>1. PICK n \in PopSizes : ~InCall(p) /\ Pass(p, PopCall(n))
      BY <2>2 DEF Pop
    <3>2. PopCall(n) \in Call
      BY PopAssumption DEF PopCall, Call, Ops
    <3> QED BY <1>1, <2>0, <3>1, <3>2
  <2>3. CASE NotEmpty(p) \/ NotFull(p)
    <3>1. WaitCall("notEmpty") \in Call /\ WaitCall("notFull") \in Call
      BY DEF WaitCall, Call, Ops
    <3> QED BY <1>1, <2>0, <2>3, <3>1 DEF NotEmpty, NotFull
  <2>4. CASE (\E vs \in DelArgs : Del(p, vs)) \/ Clear(p) \/ Close(p)
    BY <2>4, DelRefines, ClearRefines, CloseRefines
  <2>5. CASE Read(p)
    <3>1. /\ pc'[p] # "hook"
          /\ \A q \in Procs : q # p => pc'[q] = pc[q] /\ call'[q] = call[q]
      BY <1>0, <2>5, ReturnEffect DEF Read, Idle
    <3> QED BY <1>0, <2>5, <3>1, GiveBackRefines DEF Read, queueVars
  <2> QED BY <1>2, <2>1, <2>2, <2>3, <2>4, <2>5 DEF Calls
<1>3. ASSUME NEW p \in Procs, Progress(p)
      PROVE  Abstract!Next \/ UNCHANGED Abstract!qvars
  <2>0. call[p] \in Call /\ NoCall \in Call
    BY <1>0 DEF ProcTypes, NoCall, Call, Ops
  <2>1. CASE HookReturn(p)
    BY <2>1, HookRefines
  <2>2. CASE CtxWake(p)
    BY <2>2 DEF CtxWake, queueVars, procVars, Abstract!qvars, Reservations
  <2>3. CASE Retry(p)
    BY <1>1, <2>0, <2>3 DEF Retry, Free
  <2>4. CASE WaitReturn(p) \/ CloseNotEmpty(p)
    <3>1. \E l \in Labels \ {"hook"}, c \in Call : Continue(p, c, l)
      BY <2>0, <2>4 DEF WaitReturn, CloseNotEmpty, Labels
    <3>2. /\ pc'[p] # "hook"
          /\ \A q \in Procs : q # p => pc'[q] = pc[q] /\ call'[q] = call[q]
      BY <1>0, <3>1, ContinueEffect
    <3> QED BY <1>0, <2>4, <3>2, GiveBackRefines DEF WaitReturn, CloseNotEmpty, queueVars
  <2>5. CASE ClosedOrCause(p) \/ CloseNotFull(p)
    <3>1. /\ pc'[p] # "hook"
          /\ \A q \in Procs : q # p => pc'[q] = pc[q] /\ call'[q] = call[q]
      BY <1>0, <2>5, ReturnEffect DEF ClosedOrCause, CloseNotFull, Idle
    <3> QED BY <1>0, <2>5, <3>1, GiveBackRefines DEF ClosedOrCause, CloseNotFull, queueVars
  <2> QED BY <1>3, <2>1, <2>2, <2>3, <2>4, <2>5 DEF Progress
<1>4. CASE New
  <2>1. ~closed /\ live = <<>> /\ UNCHANGED <<closed, pc, call>>
    BY <1>4 DEF New, IInv, NotOpened, procVars
  <2>2. Reservations' = Reservations
    BY <2>1 DEF Reservations
  <2>3. CASE live' = live
    BY <2>1, <2>2, <2>3, UnseenStep
  <2>4. ASSUME NEW m \in Restores, Hydrate(m)
        PROVE  Abstract!Next
    <3>1. Abstract!Restore(m)
      BY <2>1, <2>2, <2>4 DEF Hydrate, Entries, Entry, Abstract!Restore
    <3> QED BY <2>1, <3>1, SeenStep
  <2> QED BY <1>4, <2>3, <2>4 DEF New
<1>5. CASE UNCHANGED vars \/ \E p \in Procs : CtxDone(p)
  BY <1>5 DEF vars, CtxDone, queueVars, procVars, Abstract!qvars, Reservations
<1> QED BY <1>2, <1>3, <1>4, <1>5 DEF Next

\* The initial state is the abstract one.
LEMMA InitRefines == Init => Abstract!Init
BY DEF Init, Reservations, Abstract!Init

\* What Push, Pop, Del, Clear, Close and New do to the contents, with hooks
\* that drop the lock and side effects and Backups that fail or unwind, is
\* what the abstract bounded queue allows: batches enter as a unit and within
\* the bound, removals keep the order, a closed queue never changes.
THEOREM FifoImplementsQueue == Spec => ImplementsQueue
<1>1. Init => Abstract!Init
  BY InitRefines
<1>2. IInv => Abstract!Within(live, Reservations)
  BY WithinBound
<1>3. IInv => ProcTypes
  BY DEF IInv, QueueTypes
<1>4. IInv /\ (Abstract!Within(live, Reservations))' /\ ProcTypes' /\ [Next]_vars
        => [Abstract!Next]_Abstract!qvars
  BY NextRefines
<1> QED BY <1>1, <1>2, <1>3, <1>4, Invariance, PTL DEF Spec, ImplementsQueue, Abstract!Spec
-----------------------------------------------------------------------------
(***************************************************************************)
(* The Backup.  A removal tells it values and the queue removes positions: *)
(* the two agree because the entries Pop takes are the first of their      *)
(* values, and those Del takes are all of theirs.  Only the positions that *)
(* remain matter then, since a set of positions has one enumeration.       *)
(***************************************************************************)

\* A set of positions has only one order-preserving enumeration.
LEMMA IncreasingUnique ==
    ASSUME NEW L \in Nat, NEW K \in SUBSET (1..L), NEW f \in Increasing(K), NEW g \in Increasing(K)
    PROVE  f = g
<1> DEFINE N == Cardinality(K)
<1>1. f \in [1..N -> K] /\ g \in [1..N -> K]
  BY DEF Increasing
<1>2. \A x \in K : x \in Nat
  OBVIOUS
<1> HIDE DEF N
<1>3. \A i \in 1..N : f[i] \in Nat /\ g[i] \in Nat /\ i \in DOMAIN f /\ i \in DOMAIN g
  BY <1>1, <1>2, Zenon
<1>4. ASSUME NEW i \in 1..N
      PROVE  f[i] = g[i]
  <2>1. f[i] <= g[i] <=> i <= Cardinality(K \cap 1..g[i])
    BY <1>3, IncreasingPrefix
  <2>2. g[i] <= g[i] <=> i <= Cardinality(K \cap 1..g[i])
    BY <1>3, IncreasingPrefix
  <2>3. g[i] <= f[i] <=> i <= Cardinality(K \cap 1..f[i])
    BY <1>3, IncreasingPrefix
  <2>4. f[i] <= f[i] <=> i <= Cardinality(K \cap 1..f[i])
    BY <1>3, IncreasingPrefix
  <2>5. f[i] \in Nat /\ g[i] \in Nat
    BY <1>3
  <2>6. f[i] <= g[i] /\ g[i] <= f[i]
    BY <2>1, <2>2, <2>3, <2>4, <2>5
  <2> QED BY <2>5, <2>6
<1>5. f = [i \in 1..N |-> f[i]] /\ g = [i \in 1..N |-> g[i]]
  BY <1>1
<1> QED BY <1>4, <1>5

\* The values of the entries are items, as many.
LEMMA ValuesInSeq ==
    ASSUME NEW s \in Seq(EntrySet)
    PROVE  /\ Values(s) \in Seq(Items) /\ Len(Values(s)) = Len(s) /\ Len(s) \in Nat
           /\ \A i \in 1..Len(s) : Values(s)[i] = s[i].val
<1>1. Len(s) \in Nat /\ \A i \in 1..Len(s) : s[i] \in EntrySet
  BY LenProperties, ElementOfSeq
<1>2. \A i \in 1..Len(s) : s[i].val \in Items
  BY <1>1 DEF EntrySet
<1> QED BY <1>1, <1>2 DEF Values

\* The entries of a batch have the values of the batch, and those of a longer
\* queue the values of its parts.
LEMMA ValuesOf ==
    ASSUME NEW s \in Seq(EntrySet), NEW vs \in Seq(Items), NEW r \in BOOLEAN
    PROVE  /\ Values(Entries(vs, r)) = vs
           /\ Values(s \o Entries(vs, r)) = Values(s) \o vs
<1> DEFINE es == Entries(vs, r)
<1>1. es \in Seq(EntrySet) /\ Len(es) = Len(vs)
  BY EntriesAreEntries
<1>2. \A i \in 1..Len(vs) : es[i].val = vs[i]
  BY DEF Entries, Entry
<1>3. Len(s) \in Nat /\ Len(vs) \in Nat
  BY LenProperties
<1>4. vs = [i \in 1..Len(vs) |-> vs[i]]
  OBVIOUS
<1> HIDE DEF es
<1>5. Values(es) = vs
  BY <1>1, <1>2, <1>4 DEF Values
<1>6. /\ s \o es \in Seq(EntrySet) /\ Len(s \o es) = Len(s) + Len(vs)
      /\ \A i \in 1..(Len(s) + Len(vs)) :
            (s \o es)[i] = IF i <= Len(s) THEN s[i] ELSE es[i - Len(s)]
  <2>1. /\ s \o es \in Seq(EntrySet) /\ Len(s \o es) = Len(s) + Len(es)
        /\ \A i \in 1..(Len(s) + Len(es)) :
              (s \o es)[i] = IF i <= Len(s) THEN s[i] ELSE es[i - Len(s)]
    BY <1>1, ConcatProperties
  <2> QED BY <1>1, <2>1
<1>7. \A i \in 1..(Len(s) + Len(vs)) :
         (s \o es)[i].val = IF i <= Len(s) THEN Values(s)[i] ELSE vs[i - Len(s)]
  <2> SUFFICES ASSUME NEW i \in 1..(Len(s) + Len(vs))
               PROVE  (s \o es)[i].val = IF i <= Len(s) THEN Values(s)[i] ELSE vs[i - Len(s)]
    OBVIOUS
  <2>1. CASE i <= Len(s)
    BY <1>3, <1>6, <2>1 DEF Values
  <2>2. CASE ~(i <= Len(s))
    <3>1. i - Len(s) \in 1..Len(vs)
      BY <1>3, <2>2
    <3> QED BY <1>2, <1>6, <2>2, <3>1
  <2> QED BY <2>1, <2>2
<1>8. Values(s) \in Seq(Items) /\ Len(Values(s)) = Len(s)
  BY ValuesInSeq
<1>9. /\ Values(s) \o vs \in Seq(Items) /\ Len(Values(s) \o vs) = Len(s) + Len(vs)
      /\ \A i \in 1..(Len(s) + Len(vs)) :
            (Values(s) \o vs)[i] = IF i <= Len(s) THEN Values(s)[i] ELSE vs[i - Len(s)]
  <2> DEFINE m == Values(s)
  <2>1. m \in Seq(Items) /\ Len(m) = Len(s)
    BY <1>8
  <2> HIDE DEF m
  <2>2. /\ m \o vs \in Seq(Items) /\ Len(m \o vs) = Len(m) + Len(vs)
        /\ \A i \in 1..(Len(m) + Len(vs)) :
              (m \o vs)[i] = IF i <= Len(m) THEN m[i] ELSE vs[i - Len(m)]
    BY <2>1, ConcatProperties
  <2>3. /\ m \o vs \in Seq(Items) /\ Len(m \o vs) = Len(s) + Len(vs)
        /\ \A i \in 1..(Len(s) + Len(vs)) :
              (m \o vs)[i] = IF i <= Len(s) THEN m[i] ELSE vs[i - Len(s)]
    BY <2>1, <2>2
  <2> QED BY <2>3 DEF m
<1>10. Values(s \o es) = Values(s) \o vs
  <2> DEFINE w == Values(s \o es)
             u == Values(s) \o vs
  <2>1. w \in Seq(Items) /\ Len(w) = Len(s) + Len(vs)
    BY <1>6, ValuesInSeq
  <2>2. \A i \in 1..(Len(s) + Len(vs)) : w[i] = (s \o es)[i].val
    BY <1>6 DEF Values
  <2>3. u \in Seq(Items) /\ Len(u) = Len(s) + Len(vs)
    BY <1>9
  <2>4. \A i \in 1..(Len(s) + Len(vs)) : w[i] = u[i]
    BY <1>7, <1>9, <2>2
  <2> HIDE DEF w, u
  <2>5. w = u
    BY <2>1, <2>3, <2>4, SeqEqual
  <2> QED BY <2>5 DEF w, u
<1> QED BY <1>5, <1>10 DEF es

\* Counting an item up to a position is counting a finite set.
LEMMA CountFinite ==
    ASSUME NEW s, NEW n \in Nat, NEW v
    PROVE  IsFiniteSet({j \in 1..n : s[j] = v}) /\ CountUpTo(s, n, v) \in Nat
<1>1. {j \in 1..n : s[j] = v} \in SUBSET (1..n)
  OBVIOUS
<1>2. IsFiniteSet({j \in 1..n : s[j] = v})
  BY <1>1, IntervalCount, FS_Subset
<1> QED BY <1>2, FS_CardinalityType DEF CountUpTo

\* The Backup removes the first occurrences of the values Pop took, and they
\* are the first k entries: of those no more are left than were named, and
\* behind them one more than were.
LEMMA TakeKeeps ==
    ASSUME NEW m \in Seq(Items), NEW vs \in Seq(Items), NEW k \in Nat, k <= Len(m),
           Len(vs) = k, \A i \in 1..k : vs[i] = m[i]
    PROVE  Kept(m, vs) = (k + 1)..Len(m)
<1>0. Len(m) \in Nat
  BY LenProperties
<1>1. ASSUME NEW i \in 1..Len(m)
      PROVE  CountUpTo(m, i, m[i]) > CountUpTo(vs, k, m[i]) <=> i > k
  <2> DEFINE A == {j \in 1..i : m[j] = m[i]}
             B == {j \in 1..k : vs[j] = m[i]}
  <2>1. i \in Nat /\ 1 <= i /\ i <= Len(m)
    BY <1>0
  <2>2. /\ IsFiniteSet(A) /\ IsFiniteSet(B)
        /\ Cardinality(A) = CountUpTo(m, i, m[i]) /\ Cardinality(B) = CountUpTo(vs, k, m[i])
        /\ Cardinality(A) \in Nat /\ Cardinality(B) \in Nat
    <3>1. IsFiniteSet(A) /\ CountUpTo(m, i, m[i]) \in Nat
      BY <2>1, CountFinite
    <3>2. IsFiniteSet(B) /\ CountUpTo(vs, k, m[i]) \in Nat
      <4>1. \A s, v : IsFiniteSet({j \in 1..k : s[j] = v}) /\ CountUpTo(s, k, v) \in Nat
        BY CountFinite, Zenon
      <4> QED BY <4>1, Zenon
    <3>3. Cardinality(A) = CountUpTo(m, i, m[i]) /\ Cardinality(B) = CountUpTo(vs, k, m[i])
      BY Zenon DEF CountUpTo
    <3> HIDE DEF A, B
    <3> QED BY <3>1, <3>2, <3>3
  <2>3. B = {j \in 1..k : m[j] = m[i]}
    OBVIOUS
  <2>4. CASE i > k
    <3>1. B \subseteq A /\ i \in A /\ i \notin B
      BY <2>1, <2>3, <2>4
    <3> HIDE DEF A, B
    <3>2. Cardinality(B) <= Cardinality(A) /\ Cardinality(B) # Cardinality(A)
      BY <2>2, <3>1, FS_Subset
    <3> QED BY <2>2, <2>4, <3>2
  <2>5. CASE ~(i > k)
    <3>1. A \subseteq B
      BY <2>1, <2>3, <2>5
    <3> HIDE DEF A, B
    <3>2. Cardinality(A) <= Cardinality(B)
      BY <2>2, <3>1, FS_Subset
    <3> QED BY <2>2, <2>5, <3>2
  <2> QED BY <2>4, <2>5
<1>2. Kept(m, vs) = {i \in 1..Len(m) : i > k}
  BY <1>1 DEF Kept
<1> QED BY <1>0, <1>2

\* The positions behind the first k are enumerated by adding k.
LEMMA ShiftIncreases ==
    ASSUME NEW L \in Nat, NEW k \in Nat, k <= L, NEW h \in Increasing((k + 1)..L)
    PROVE  h = [i \in 1..(L - k) |-> k + i]
<1> DEFINE K == (k + 1)..L
           s == [i \in 1..(L - k) |-> k + i]
<1>1. Cardinality(K) = L - k
  <2>1. Cardinality((k + 1)..L) = IF k + 1 > L THEN 0 ELSE L - (k + 1) + 1
    BY FS_Interval
  <2> QED BY <2>1
<1>2. s \in [1..(L - k) -> K] /\ \A i, j \in 1..(L - k) : i < j => s[i] < s[j]
  OBVIOUS
<1>3. K \in SUBSET (1..L)
  OBVIOUS
<1> HIDE DEF K, s
<1>4. s \in Increasing(K)
  BY <1>1, <1>2 DEF Increasing
<1>5. h = s
  BY <1>3, <1>4, IncreasingUnique DEF K
<1> QED BY <1>5 DEF s

\* Pop: the mirror loses what the queue loses.
LEMMA TakeMirrored ==
    ASSUME QueueTypes, MirrorAgrees, NEW k \in Nat, k <= Len(live), Take(k),
           UNCHANGED attached
    PROVE  MirrorAgrees'
<1> SUFFICES ASSUME attached PROVE mirror' = Values(live')
  BY DEF MirrorAgrees
<1> DEFINE m == Values(live)
           L == Len(live)
           vs == Values(SubSeq(live, 1, k))
<1>0. live \in Seq(EntrySet)
  BY DEF QueueTypes, EntrySet
<1>1. L \in Nat /\ m \in Seq(Items) /\ Len(m) = L /\ \A i \in 1..L : m[i] = live[i].val
  BY <1>0, ValuesInSeq
<1>2. mirror = m
  BY DEF MirrorAgrees
<1>3. \A i \in 1..L : live[i] \in EntrySet
  BY <1>0, ElementOfSeq
<1>4. vs \in Seq(Items) /\ Len(vs) = k /\ \A i \in 1..k : vs[i] = m[i]
  <2> DEFINE t == SubSeq(live, 1, k)
  <2>1. /\ t \in Seq(EntrySet) /\ Len(t) = k
        /\ \A i \in 1..k : t[i] = live[i]
    BY <1>0, <1>1, <1>3
  <2> HIDE DEF t
  <2>2. Values(t) \in Seq(Items) /\ Len(Values(t)) = k /\ \A i \in 1..k : Values(t)[i] = t[i].val
    BY <2>1, ValuesInSeq
  <2> HIDE DEF m
  <2>3. \A i \in 1..k : Values(t)[i] = m[i]
    BY <1>1, <2>1, <2>2
  <2> QED BY <2>2, <2>3 DEF t
<1>5. PICK h \in Increasing(Kept(m, vs)) : mirror' = [i \in DOMAIN h |-> m[h[i]]]
  BY <1>2 DEF Take, BackupDel, Mirrored
<1>6. live' = SubSeq(live, k + 1, L)
  BY DEF Take
<1> HIDE DEF m, L, vs
<1>7. k <= L
  BY DEF L
<1>8. Kept(m, vs) = (k + 1)..L
  <2>1. k <= Len(m)
    BY <1>1, <1>7
  <2>2. Kept(m, vs) = (k + 1)..Len(m)
    BY <1>1, <1>4, <2>1, TakeKeeps
  <2> QED BY <1>1, <2>2
<1>9. h = [i \in 1..(L - k) |-> k + i]
  BY <1>1, <1>5, <1>7, <1>8, ShiftIncreases
<1>10. mirror' = [i \in 1..(L - k) |-> m[k + i]]
  BY <1>5, <1>9
<1>11. Len(live') = L - k /\ \A i \in 1..(L - k) : live'[i] = live[k + i]
  BY <1>0, <1>1, <1>3, <1>6, <1>7 DEF L
<1>12. \A i \in 1..(L - k) : m[k + i] = live'[i].val
  <2> SUFFICES ASSUME NEW i \in 1..(L - k) PROVE m[k + i] = live'[i].val
    OBVIOUS
  <2>1. k + i \in 1..L
    BY <1>1, <1>7
  <2> QED BY <1>1, <1>11, <2>1
<1> QED BY <1>10, <1>11, <1>12 DEF Values

\* Del names every occurrence of a matched value and none of another: the
\* Backup keeps the positions that the queue keeps.
LEMMA DelKeeps ==
    ASSUME NEW m \in Seq(Items), NEW M \in SUBSET (1..Len(m)),
           \A i, j \in 1..Len(m) : m[i] = m[j] /\ i \in M => j \in M,
           NEW g \in Increasing(M)
    PROVE  Kept(m, [i \in DOMAIN g |-> m[g[i]]]) = (1..Len(m)) \ M
<1> DEFINE N == Cardinality(M)
           ds == [i \in DOMAIN g |-> m[g[i]]]
<1>0. Len(m) \in Nat
  BY LenProperties
<1>1. \A i \in M : i \in 1..Len(m)
  OBVIOUS
<1>2. N \in Nat
  BY <1>0, <1>1, IntervalCount, FS_Subset, FS_CardinalityType
<1>3. g \in [1..N -> M]
  BY DEF Increasing
<1>4. \A x \in M : \E j \in 1..N : g[j] = x
  <2>1. \A x \in M : \E j \in DOMAIN g : g[j] = x
    BY <1>0, <1>1, IncreasingOnto
  <2> QED BY <1>3, <2>1
<1> HIDE DEF N
<1>5. Len(ds) = N /\ \A j \in 1..N : ds[j] = m[g[j]]
  BY <1>2, <1>3
<1> HIDE DEF ds
<1>6. ASSUME NEW i \in 1..Len(m)
      PROVE  CountUpTo(m, i, m[i]) > CountUpTo(ds, N, m[i]) <=> i \notin M
  <2> DEFINE A == {j \in 1..i : m[j] = m[i]}
             B == {j \in 1..N : ds[j] = m[i]}
             C == {j \in 1..Len(m) : m[j] = m[i]}
  <2>1. i \in Nat /\ 1 <= i /\ i <= Len(m)
    BY <1>0
  <2>2. /\ IsFiniteSet(A) /\ IsFiniteSet(B)
        /\ Cardinality(A) = CountUpTo(m, i, m[i]) /\ Cardinality(B) = CountUpTo(ds, N, m[i])
        /\ Cardinality(A) \in Nat /\ Cardinality(B) \in Nat
    <3>1. IsFiniteSet(A) /\ CountUpTo(m, i, m[i]) \in Nat
      BY <2>1, CountFinite
    <3>2. IsFiniteSet(B) /\ CountUpTo(ds, N, m[i]) \in Nat
      BY <1>2, CountFinite
    <3> QED BY <3>1, <3>2 DEF CountUpTo
  <2>3. CASE i \in M
    <3>1. C \subseteq M /\ A \subseteq C
      BY <1>0, <2>1, <2>3
    <3> DEFINE f == [j \in B |-> g[j]]
    <3>2. \A j \in B : g[j] \in C
      BY <1>1, <1>3, <1>5
    <3>3. \A x \in C : \E j \in B : f[j] = x
      <4> SUFFICES ASSUME NEW x \in C PROVE \E j \in B : g[j] = x
        OBVIOUS
      <4>1. x \in M /\ m[x] = m[i]
        BY <3>1
      <4>2. PICK j \in 1..N : g[j] = x
        BY <1>4, <4>1
      <4>3. ds[j] = m[i]
        BY <1>5, <4>1, <4>2
      <4> QED BY <4>2, <4>3
    <3>4. f \in Surjection(B, C)
      BY <3>2, <3>3 DEF Surjection
    <3> HIDE DEF A, B, C, f
    <3>5. IsFiniteSet(C) /\ Cardinality(C) <= Cardinality(B)
      BY <2>2, <3>4, FS_Surjection
    <3>6. Cardinality(A) <= Cardinality(C) /\ Cardinality(C) \in Nat
      BY <3>1, <3>5, FS_Subset, FS_CardinalityType
    <3> QED BY <2>2, <2>3, <3>5, <3>6
  <2>4. CASE i \notin M
    <3>1. B = {}
      <4> SUFFICES ASSUME NEW j \in 1..N PROVE ds[j] # m[i]
        OBVIOUS
      <4> QED BY <1>1, <1>3, <1>5, <2>4
    <3>2. i \in A
      BY <2>1
    <3> HIDE DEF A, B
    <3>3. Cardinality(B) = 0 /\ Cardinality(A) # 0
      BY <2>2, <3>1, <3>2, FS_EmptySet
    <3> QED BY <2>2, <2>4, <3>3
  <2> QED BY <2>3, <2>4
<1>7. Kept(m, ds) = (1..Len(m)) \ M
  BY <1>5, <1>6 DEF Kept
<1> QED BY <1>7 DEF ds

\* Del: the mirror loses what the queue loses.
LEMMA DelMirrored ==
    ASSUME QueueTypes, MirrorAgrees, NEW vs, DelMatched(vs), UNCHANGED attached
    PROVE  MirrorAgrees'
<1> SUFFICES ASSUME attached PROVE mirror' = Values(live')
  BY DEF MirrorAgrees
<1> DEFINE m == Values(live)
           L == Len(live)
           K == (1..L) \ Matched(vs)
<1>0. live \in Seq(EntrySet)
  BY DEF QueueTypes, EntrySet
<1>1. L \in Nat /\ m \in Seq(Items) /\ Len(m) = L /\ \A i \in 1..L : m[i] = live[i].val
  BY <1>0, ValuesInSeq
<1>2. mirror = m
  BY DEF MirrorAgrees
<1>3. Matched(vs) = {i \in 1..L : m[i] \in vs} /\ K = {i \in 1..L : m[i] \notin vs}
  BY <1>1 DEF Matched
<1>4. PICK f \in Increasing(K) : live' = [i \in DOMAIN f |-> live[f[i]]]
  BY DEF DelMatched
<1>5. PICK g \in Increasing(Matched(vs)) : BackupDel([i \in DOMAIN g |-> live[g[i]].val])
  BY DEF DelMatched
<1>6. [i \in DOMAIN g |-> live[g[i]].val] = [i \in DOMAIN g |-> m[g[i]]]
  <2>1. \A i \in DOMAIN g : g[i] \in 1..L
    BY <1>5 DEF Increasing, Matched
  <2> HIDE DEF m, L
  <2> QED BY <1>1, <2>1
<1>7. PICK h \in Increasing(Kept(m, [i \in DOMAIN g |-> m[g[i]]])) :
         mirror' = [i \in DOMAIN h |-> m[h[i]]]
  BY <1>2, <1>5, <1>6 DEF BackupDel, Mirrored
<1> HIDE DEF m, L
<1>8. Kept(m, [i \in DOMAIN g |-> m[g[i]]]) = K
  <2> DEFINE M == Matched(vs)
  <2>1. /\ M \in SUBSET (1..Len(m))
        /\ \A i, j \in 1..Len(m) : m[i] = m[j] /\ i \in M => j \in M
    BY <1>1, <1>3
  <2>2. g \in Increasing(M)
    BY <1>5
  <2> HIDE DEF M
  <2>3. Kept(m, [i \in DOMAIN g |-> m[g[i]]]) = (1..Len(m)) \ M
    BY <1>1, <2>1, <2>2, DelKeeps
  <2> QED BY <1>1, <2>3 DEF M
<1>9. h = f
  <2>1. K \in SUBSET (1..L) /\ h \in Increasing(K) /\ f \in Increasing(K)
    BY <1>4, <1>7, <1>8
  <2> HIDE DEF K
  <2> QED BY <1>1, <2>1, IncreasingUnique
<1>10. f \in [1..Cardinality(K) -> K] /\ Cardinality(K) \in Nat
  <2>1. IsFiniteSet(1..L) /\ K \in SUBSET (1..L)
    BY <1>1, IntervalCount
  <2>2. Cardinality(K) \in Nat
    BY <2>1, FS_Subset, FS_CardinalityType
  <2> QED BY <1>4, <2>2 DEF Increasing
<1>11. \A i \in DOMAIN f : f[i] \in 1..L
  BY <1>10
<1> HIDE DEF K
<1>12. Len(live') = Cardinality(K) /\ \A i \in 1..Cardinality(K) : live'[i] = live[f[i]]
  BY <1>4, <1>10
<1>13. \A i \in 1..Cardinality(K) : m[f[i]] = live'[i].val
  BY <1>1, <1>10, <1>11, <1>12
<1>14. mirror' = [i \in 1..Cardinality(K) |-> m[f[i]]]
  BY <1>7, <1>9, <1>10
<1> QED BY <1>12, <1>13, <1>14 DEF Values

\* A Push that inserts gives the Backup its batch; one that is abandoned
\* leaves both as they were.
LEMMA InsertMirrored ==
    ASSUME QueueTypes, MirrorAgrees, NEW p, NEW c \in Call, Insert(p, c), UNCHANGED attached
    PROVE  MirrorAgrees'
<1>0. live \in Seq(EntrySet) /\ c.vs \in Seq(Items)
  BY BatchLength DEF QueueTypes, EntrySet
<1>1. CASE live' = live \o Entries(c.vs, FALSE) /\ Mirrored(mirror \o c.vs)
  <2>1. Values(live \o Entries(c.vs, FALSE)) = Values(live) \o c.vs
    BY <1>0, ValuesOf
  <2> QED BY <1>1, <2>1 DEF MirrorAgrees, Mirrored
<1>2. CASE UNCHANGED <<live, mirror>>
  BY <1>2 DEF MirrorAgrees
<1> QED BY <1>1, <1>2 DEF Insert, Abandon

\* One pass of a blocking call keeps the Backup a mirror.
LEMMA PassMirrored ==
    ASSUME QueueTypes, MirrorAgrees, NEW p, NEW c \in Call, Pass(p, c)
    PROVE  MirrorAgrees'
<1>0. UNCHANGED attached
  BY DEF Pass
<1>1. CASE UNCHANGED <<live, mirror>>
  BY <1>0, <1>1 DEF MirrorAgrees
<1>2. CASE PushPass(p, c)
  <2>1. UNCHANGED <<live, mirror>> \/ Insert(p, c)
    BY <1>2 DEF PushPass, queueVars
  <2> QED BY <1>0, <1>1, <2>1, InsertMirrored
<1>3. CASE PopPass(p, c)
  <2> DEFINE k == IF c.n > Len(live) THEN Len(live) ELSE c.n
  <2>1. UNCHANGED <<live, mirror>> \/ Take(k)
    BY <1>3 DEF PopPass, queueVars
  <2>2. c.n \in Nat /\ Len(live) \in Nat
    BY LenProperties DEF Call, QueueTypes
  <2>3. k \in Nat /\ k <= Len(live)
    BY <2>2
  <2> HIDE DEF k
  <2> QED BY <1>0, <1>1, <2>1, <2>3, TakeMirrored
<1> QED BY <1>1, <1>2, <1>3 DEF Pass, queueVars

\* Hydrate loads exactly what the Backup holds before it attaches it.
LEMMA NewMirrored ==
    ASSUME MirrorAgrees, New
    PROVE  MirrorAgrees'
<1>1. CASE UNCHANGED <<live, hydrated, mirror, attached>>
  BY <1>1 DEF MirrorAgrees
<1>2. ASSUME NEW m \in Restores, Hydrate(m)
      PROVE  MirrorAgrees'
  <2>1. m \in Seq(Items) /\ <<>> \in Seq(EntrySet)
    BY RestoresAssumption
  <2>2. Values(Entries(m, TRUE)) = m
    BY <2>1, ValuesOf
  <2> QED BY <1>2, <2>2 DEF Hydrate, MirrorAgrees
<1> QED BY <1>1, <1>2 DEF New

\* Every step keeps the Backup a mirror.
LEMMA NextMirrored == IInv /\ MirrorAgrees /\ [Next]_vars => MirrorAgrees'
<1> SUFFICES ASSUME QueueTypes, MirrorAgrees, [Next]_vars PROVE MirrorAgrees'
  BY DEF IInv
<1>0. CASE UNCHANGED <<live, mirror, attached>>
  BY <1>0 DEF MirrorAgrees
<1>1. CASE New
  BY <1>1, NewMirrored
<1>2. ASSUME NEW p \in Procs, Calls(p)
      PROVE  MirrorAgrees'
  <2>1. CASE Push(p)
    <3>1. PICK vs \in Batches, h \in BOOLEAN : Pass(p, PushCall(vs, h))
      BY <2>1 DEF Push
    <3>2. PushCall(vs, h) \in Call
      BY DEF PushCall, Call, Ops
    <3> QED BY <3>1, <3>2, PassMirrored
  <2>2. CASE Pop(p)
    <3>1. PICK n \in PopSizes : Pass(p, PopCall(n))
      BY <2>2 DEF Pop
    <3>2. PopCall(n) \in Call
      BY PopAssumption DEF PopCall, Call, Ops
    <3> QED BY <3>1, <3>2, PassMirrored
  <2>3. CASE NotEmpty(p) \/ NotFull(p)
    <3>1. WaitCall("notEmpty") \in Call /\ WaitCall("notFull") \in Call
      BY DEF WaitCall, Call, Ops
    <3> QED BY <2>3, <3>1, PassMirrored DEF NotEmpty, NotFull
  <2>4. ASSUME NEW vs \in DelArgs, Del(p, vs)
        PROVE  MirrorAgrees'
    <3>1. UNCHANGED attached /\ (UNCHANGED <<live, mirror>> \/ DelMatched(vs))
      BY <2>4 DEF Del
    <3> QED BY <1>0, <3>1, DelMirrored
  <2>5. CASE Clear(p)
    <3>1. UNCHANGED attached /\ (UNCHANGED <<live, mirror>> \/ Empty)
      BY <2>5 DEF Clear
    <3>2. Values(<<>>) = <<>>
      BY DEF Values
    <3> QED BY <1>0, <3>1, <3>2 DEF Empty, Mirrored, MirrorAgrees
  <2>6. CASE Close(p) \/ Read(p)
    BY <1>0, <2>6 DEF Close, Read, queueVars
  <2> QED BY <1>2, <2>1, <2>2, <2>3, <2>4, <2>5, <2>6 DEF Calls
<1>3. ASSUME NEW p \in Procs, Progress(p)
      PROVE  MirrorAgrees'
  <2>0. call[p] \in Call
    BY DEF QueueTypes, ProcTypes
  <2>1. CASE HookReturn(p)
    <3>1. UNCHANGED attached /\ (UNCHANGED <<live, mirror>> \/ Insert(p, call[p]))
      BY <2>1 DEF HookReturn
    <3> QED BY <1>0, <2>0, <3>1, InsertMirrored
  <2>2. CASE Retry(p)
    BY <2>0, <2>2, PassMirrored DEF Retry
  <2>3. CASE \/ CtxWake(p) \/ WaitReturn(p) \/ ClosedOrCause(p)
             \/ CloseNotEmpty(p) \/ CloseNotFull(p)
    BY <1>0, <2>3 DEF CtxWake, WaitReturn, ClosedOrCause, CloseNotEmpty, CloseNotFull, queueVars
  <2> QED BY <1>3, <2>1, <2>2, <2>3 DEF Progress
<1>4. CASE UNCHANGED vars \/ \E p \in Procs : CtxDone(p)
  BY <1>0, <1>4 DEF vars, CtxDone, queueVars
<1> QED BY <1>1, <1>2, <1>3, <1>4 DEF Next

\* The attached Backup holds exactly the values of the queue in their order,
\* for every maxSize, batch, Pop and Del: whichever of the side effect and
\* the Backup fails or unwinds, a step changes both or neither, and the
\* first occurrences the Backup looks for by value are the entries the queue
\* removed by position.
THEOREM BackupMirrors == Spec => []MirrorAgrees
<1>1. Init => MirrorAgrees
  BY DEF Init, MirrorAgrees
<1>2. IInv /\ MirrorAgrees /\ [Next]_vars => MirrorAgrees'
  BY NextMirrored
<1> QED BY <1>1, <1>2, Invariance, PTL DEF Spec

-----------------------------------------------------------------------------
(***************************************************************************)
(* The Signals.  ParkerSignal shows that core.Signal keeps the contract of *)
(* SignalSpec; here the backing is shown to use its two Signals within it. *)
(* A step does one of three things to the goroutines that wait: it leaves  *)
(* them where they are and may wake some, it parks one more, or it lets    *)
(* one return that was woken.                                              *)
(***************************************************************************)
ParkedRightly ==
    /\ \A p \in notFull : call[p].op \in FullOps
    /\ \A p \in notEmpty : call[p].op \in EmptyOps

SInv == IInv /\ ParkedRightly

Wakes(before, now) == now = before \/ now = {} \/ \E q \in before : now = before \ {q}

Others(p) == \A q \in Procs : q # p => pc'[q] = pc[q] /\ call'[q] = call[q]

NoneMoves ==
    /\ \A q \in Procs : /\ pc'[q] = "wait" <=> pc[q] = "wait"
                        /\ pc[q] = "wait" => call'[q] = call[q]
    /\ Wakes(notFull, notFull') /\ Wakes(notEmpty, notEmpty')

Parks(p) ==
    /\ pc[p] # "wait" /\ pc'[p] = "wait" /\ Others(p)
    /\ \/ call'[p].op \in FullOps /\ notFull' = notFull \cup {p} /\ UNCHANGED notEmpty
       \/ call'[p].op \in EmptyOps /\ notEmpty' = notEmpty \cup {p} /\ UNCHANGED notFull

Leaves(p) ==
    /\ pc[p] = "wait" /\ pc'[p] # "wait" /\ ~Waiting(p) /\ Others(p)
    /\ UNCHANGED <<notFull, notEmpty>>

Kinds == NoneMoves \/ \E p \in Procs : Parks(p) \/ Leaves(p)

\* A goroutine that neither waited before nor waits after its step, which may
\* have woken the waiters of either Signal.
LEMMA MovesOutside ==
    ASSUME NEW p \in Procs, pc[p] # "wait", pc'[p] # "wait", Others(p),
           notFull' = notFull \/ notFull' = {}, notEmpty' = notEmpty \/ notEmpty' = {}
    PROVE  Kinds
BY DEF Kinds, NoneMoves, Others, Wakes

\* A critical section that returns.
LEMMA ReturnOutside ==
    ASSUME ProcTypes, NEW p \in Procs, NEW r \in Idle, pc[p] # "wait", Return(p, r),
           notFull' = notFull \/ notFull' = {}, notEmpty' = notEmpty \/ notEmpty' = {}
    PROVE  Kinds
<1>1. pc'[p] = r /\ Others(p)
  BY ReturnEffect DEF Others
<1> QED BY <1>1, MovesOutside DEF Idle

\* A critical section that goes on elsewhere.
LEMMA ContinueOutside ==
    ASSUME ProcTypes, NEW p \in Procs, NEW c \in Call, NEW l \in Labels, l # "wait", pc[p] # "wait",
           Continue(p, c, l),
           notFull' = notFull \/ notFull' = {}, notEmpty' = notEmpty \/ notEmpty' = {}
    PROVE  Kinds
<1>1. pc'[p] = l /\ Others(p)
  BY ContinueEffect DEF Others
<1> QED BY <1>1, MovesOutside

\* A critical section that parks.
LEMMA ContinueParks ==
    ASSUME ProcTypes, NEW p \in Procs, NEW c \in Call, pc[p] # "wait", Continue(p, c, "wait"),
           \/ c.op \in FullOps /\ notFull' = notFull \cup {p} /\ UNCHANGED notEmpty
           \/ c.op \in EmptyOps /\ notEmpty' = notEmpty \cup {p} /\ UNCHANGED notFull
    PROVE  Kinds
<1>1. pc'[p] = "wait" /\ call'[p] = c /\ Others(p)
  BY ContinueEffect DEF Others, Labels
<1> QED BY <1>1 DEF Kinds, Parks

\* A Push that inserts or gives up.
LEMMA InsertOutside ==
    ASSUME ProcTypes, NEW p \in Procs, NEW c, pc[p] # "wait", Insert(p, c)
    PROVE  Kinds
<1>1. /\ Return(p, "idle")
      /\ notFull' = notFull \/ notFull' = {}
      /\ notEmpty' = notEmpty \/ notEmpty' = {}
  BY DEF Insert, Abandon, ReleaseReservation, SignalNotFull, SignalNotEmpty
<1> QED BY <1>1, ReturnOutside DEF Idle

\* One pass of a blocking call: it returns, runs a hook or parks, and it parks
\* on the Signal of its own operation.
LEMMA PassKinds ==
    ASSUME ProcTypes, NEW p \in Procs, NEW c \in Call, pc[p] # "wait", Pass(p, c)
    PROVE  Kinds
<1> USE DEF FullOps, EmptyOps
<1>1. CASE c.op = "push" /\ PushPass(p, c)
  <2>1. CASE \/ Return(p, "errClosed") /\ UNCHANGED <<notFull, notEmpty>>
             \/ Return(p, "idle") /\ UNCHANGED <<notFull, notEmpty>>
    BY <2>1, ReturnOutside DEF Idle
  <2>2. CASE Continue(p, c, "hook") /\ UNCHANGED <<notFull, notEmpty>>
    BY <2>2, ContinueOutside DEF Labels
  <2>3. CASE Insert(p, c)
    BY <2>3, InsertOutside
  <2>4. CASE Continue(p, c, "wait") /\ notFull' = notFull \cup {p} /\ UNCHANGED notEmpty
    BY <1>1, <2>4, ContinueParks
  <2> QED BY <1>1, <2>1, <2>2, <2>3, <2>4 DEF PushPass
<1>2. CASE c.op = "pop" /\ PopPass(p, c)
  <2>1. CASE /\ Return(p, "errClosed") \/ Return(p, "idle")
             /\ notFull' = notFull \/ notFull' = {}
             /\ UNCHANGED notEmpty
    BY <2>1, ReturnOutside DEF Idle
  <2>2. CASE Continue(p, c, "wait") /\ notEmpty' = notEmpty \cup {p} /\ UNCHANGED notFull
    BY <1>2, <2>2, ContinueParks
  <2> QED BY <1>2, <2>1, <2>2 DEF PopPass, Take, SignalNotFull
<1>3. CASE c.op = "notEmpty" /\ NotEmptyPass(p, c)
  <2>1. CASE Return(p, IF closed THEN "errClosed" ELSE "idle") /\ UNCHANGED <<notFull, notEmpty>>
    BY <2>1, ReturnOutside DEF Idle
  <2>2. CASE Continue(p, c, "wait") /\ notEmpty' = notEmpty \cup {p} /\ UNCHANGED notFull
    BY <1>3, <2>2, ContinueParks
  <2> QED BY <1>3, <2>1, <2>2 DEF NotEmptyPass
<1>4. CASE c.op = "notFull" /\ NotFullPass(p, c)
  <2>1. CASE Return(p, IF closed THEN "errClosed" ELSE "idle") /\ UNCHANGED <<notFull, notEmpty>>
    BY <2>1, ReturnOutside DEF Idle
  <2>2. CASE Continue(p, c, "wait") /\ notFull' = notFull \cup {p} /\ UNCHANGED notEmpty
    BY <1>4, <2>2, ContinueParks
  <2> QED BY <1>4, <2>1, <2>2 DEF NotFullPass
<1> QED BY <1>1, <1>2, <1>3, <1>4 DEF Pass

\* The calls a goroutine may start.
LEMMA CallsKinds ==
    ASSUME ProcTypes, NEW p \in Procs, Calls(p)
    PROVE  Kinds
<1>0. ~InCall(p) => pc[p] # "wait"
  BY DEF InCall, Idle
<1>1. CASE Push(p)
  <2>1. PICK vs \in Batches, h \in BOOLEAN : ~InCall(p) /\ Pass(p, PushCall(vs, h))
    BY <1>1 DEF Push
  <2>2. PushCall(vs, h) \in Call
    BY DEF PushCall, Call, Ops
  <2> QED BY <1>0, <2>1, <2>2, PassKinds
<1>2. CASE Pop(p)
  <2>1. PICK n \in PopSizes : ~InCall(p) /\ Pass(p, PopCall(n))
    BY <1>2 DEF Pop
  <2>2. PopCall(n) \in Call
    BY PopAssumption DEF PopCall, Call, Ops
  <2> QED BY <1>0, <2>1, <2>2, PassKinds
<1>3. CASE NotEmpty(p) \/ NotFull(p)
  <2>1. WaitCall("notEmpty") \in Call /\ WaitCall("notFull") \in Call
    BY DEF WaitCall, Call, Ops
  <2> QED BY <1>0, <1>3, <2>1, PassKinds DEF NotEmpty, NotFull
<1>4. CASE (\E vs \in DelArgs : Del(p, vs)) \/ Clear(p) \/ Read(p)
  <2>1. /\ pc[p] # "wait"
        /\ Return(p, "errClosed") \/ Return(p, "idle")
        /\ notFull' = notFull \/ notFull' = {}
        /\ UNCHANGED notEmpty
    BY <1>0, <1>4 DEF Del, DelMatched, Clear, Empty, Read, SignalNotFull
  <2> QED BY <2>1, ReturnOutside DEF Idle
<1>5. CASE Close(p)
  <2>1. /\ pc[p] # "wait" /\ UNCHANGED <<notFull, notEmpty>>
        /\ Continue(p, NoCall, "bcast1") \/ Return(p, "idle")
    BY <1>0, <1>5 DEF Close
  <2>2. NoCall \in Call
    BY DEF NoCall, Call, Ops
  <2> QED BY <2>1, <2>2, ReturnOutside, ContinueOutside DEF Idle, Labels
<1> QED BY <1>1, <1>2, <1>3, <1>4, <1>5 DEF Calls

\* The steps a goroutine takes inside a call.
LEMMA ProgressKinds ==
    ASSUME SInv, NEW p \in Procs, Progress(p)
    PROVE  Kinds
<1>0. ProcTypes /\ call[p] \in Call /\ NoCall \in Call
  BY DEF SInv, IInv, QueueTypes, ProcTypes, NoCall, Call, Ops
<1>1. CASE HookReturn(p)
  <2>1. CASE /\ Return(p, "errClosed") \/ Return(p, "idle")
             /\ notFull' = notFull \/ notFull' = {}
             /\ UNCHANGED notEmpty
    BY <1>0, <1>1, <2>1, ReturnOutside DEF Idle, HookReturn
  <2>2. CASE Insert(p, call[p])
    BY <1>0, <1>1, <2>2, InsertOutside DEF HookReturn
  <2> QED BY <1>1, <2>1, <2>2 DEF HookReturn, ReleaseReservation, SignalNotFull
<1>2. CASE CtxWake(p)
  <2>1. p \in notFull => p \notin notEmpty
    BY DEF SInv, ParkedRightly, FullOps, EmptyOps
  <2>2. Wakes(notFull, notFull')
    BY <1>2 DEF CtxWake, Wakes
  <2>3. Wakes(notEmpty, notEmpty')
    BY <1>2 DEF CtxWake, Wakes
  <2> QED BY <1>2, <2>2, <2>3 DEF CtxWake, procVars, Kinds, NoneMoves
<1>3. CASE WaitReturn(p)
  <2>1. (IF cancelled[p] THEN "err" ELSE "retry") \in Labels \ {"wait"}
    BY DEF Labels
  <2>2. pc'[p] # "wait" /\ Others(p)
    BY <1>0, <1>3, <2>1, ContinueEffect DEF WaitReturn, Others
  <2> QED BY <1>3, <2>2 DEF WaitReturn, Kinds, Leaves
<1>4. CASE ClosedOrCause(p)
  <2>1. (IF closed THEN "errClosed" ELSE "errCause") \in Idle
    BY DEF Idle
  <2> QED BY <1>0, <1>4, <2>1, ReturnOutside DEF ClosedOrCause
<1>5. CASE Retry(p)
  BY <1>0, <1>5, PassKinds DEF Retry
<1>6. CASE CloseNotEmpty(p)
  BY <1>0, <1>6, ContinueOutside DEF CloseNotEmpty, SignalNotEmpty, Labels
<1>7. CASE CloseNotFull(p)
  BY <1>0, <1>7, ReturnOutside DEF CloseNotFull, SignalNotFull, Idle
<1> QED BY <1>1, <1>2, <1>3, <1>4, <1>5, <1>6, <1>7 DEF Progress

\* Every step is one of the three.
LEMMA NextKinds == SInv /\ [Next]_vars => Kinds
<1> SUFFICES ASSUME SInv, [Next]_vars PROVE Kinds
  OBVIOUS
<1>0. ProcTypes
  BY DEF SInv, IInv, QueueTypes
<1>1. CASE UNCHANGED <<pc, call, notFull, notEmpty>>
  BY <1>1 DEF Kinds, NoneMoves, Wakes
<1>2. ASSUME NEW p \in Procs, Calls(p)
      PROVE  Kinds
  BY <1>0, <1>2, CallsKinds
<1>3. ASSUME NEW p \in Procs, Progress(p)
      PROVE  Kinds
  BY <1>3, ProgressKinds
<1>4. CASE New \/ (\E p \in Procs : CtxDone(p)) \/ UNCHANGED vars
  BY <1>1, <1>4 DEF New, CtxDone, vars, procVars
<1> QED BY <1>2, <1>3, <1>4 DEF Next

\* A goroutine is registered with the Signal of its own operation.
LEMMA NextParkedRightly == SInv /\ [Next]_vars => SInv'
<1> SUFFICES ASSUME SInv, [Next]_vars PROVE ParkedRightly'
  BY NextIInv DEF SInv
<1>1. Kinds
  BY NextKinds
<1>2. /\ \A p \in notFull : p \in Procs /\ pc[p] = "wait" /\ call[p].op \in FullOps
      /\ \A p \in notEmpty : p \in Procs /\ pc[p] = "wait" /\ call[p].op \in EmptyOps
  BY DEF SInv, IInv, QueueTypes, Parked, ParkedRightly
<1>3. CASE NoneMoves
  <2>1. notFull' \subseteq notFull /\ notEmpty' \subseteq notEmpty
    BY <1>3 DEF NoneMoves, Wakes
  <2> QED BY <1>2, <1>3, <2>1 DEF NoneMoves, ParkedRightly
<1>4. ASSUME NEW p \in Procs, Parks(p) \/ Leaves(p)
      PROVE  ParkedRightly'
  <2>1. /\ \A q \in notFull' : q = p \/ q \in notFull
        /\ \A q \in notEmpty' : q = p \/ q \in notEmpty
    BY <1>4 DEF Parks, Leaves
  <2>2. CASE Parks(p)
    BY <1>2, <2>1, <2>2 DEF Parks, Others, ParkedRightly
  <2>3. CASE Leaves(p)
    BY <1>2, <2>1, <2>3 DEF Leaves, Waiting, Others, ParkedRightly
  <2> QED BY <1>4, <2>2, <2>3
<1> QED BY <1>1, <1>3, <1>4 DEF Kinds

\* What one Signal sees, given who is registered and where everybody is.
View(set, ops, at, calls) ==
    [p \in Procs |-> IF p \in set THEN "waiting"
                     ELSE IF at[p] = "wait" /\ calls[p].op \in ops THEN "released"
                     ELSE "out"]

\* What a contract step does to that view: nothing, a Signal, or a Wait, a
\* Cancel or a Return of one goroutine.
ContractStep(w, v) ==
    \/ v = w
    \/ v = [p \in Procs |-> IF w[p] = "waiting" THEN "released" ELSE w[p]]
    \/ \E p \in Procs :
          \/ w[p] = "out" /\ v = [w EXCEPT ![p] = "waiting"]
          \/ w[p] = "waiting" /\ v = [w EXCEPT ![p] = "released"]
          \/ w[p] = "released" /\ v = [w EXCEPT ![p] = "out"]

\* Waking some of those registered with a Signal is a step of its contract.
LEMMA WakingStep ==
    ASSUME NEW set \in SUBSET Procs, NEW now, NEW ops,
           \A p \in set : pc[p] = "wait" /\ call[p].op \in ops,
           NoneMoves, Wakes(set, now)
    PROVE  ContractStep(View(set, ops, pc, call), View(now, ops, pc', call'))
<1> DEFINE w == View(set, ops, pc, call)
           v == View(now, ops, pc', call')
<1>1. \A q \in Procs : /\ pc'[q] = "wait" <=> pc[q] = "wait"
                       /\ pc[q] = "wait" => call'[q] = call[q]
  BY DEF NoneMoves
<1>2. CASE now = set
  <2>1. v = w
    BY <1>1, <1>2 DEF View
  <2> QED BY <2>1 DEF ContractStep
<1>3. CASE now = {}
  <2>1. v = [p \in Procs |-> IF w[p] = "waiting" THEN "released" ELSE w[p]]
    BY <1>1, <1>3 DEF View
  <2> QED BY <2>1 DEF ContractStep
<1>4. ASSUME NEW q \in set, now = set \ {q}
      PROVE  ContractStep(w, v)
  <2>1. q \in Procs /\ w[q] = "waiting"
    BY DEF View
  <2>2. v = [w EXCEPT ![q] = "released"]
    BY <1>1, <1>4, <2>1 DEF View
  <2> QED BY <2>1, <2>2 DEF ContractStep
<1> QED BY <1>2, <1>3, <1>4 DEF Wakes

\* A goroutine that parks is a Wait of the Signal it parks on, and the other
\* Signal does not see it.
LEMMA ParkingStep ==
    ASSUME NEW set \in SUBSET Procs, NEW now, NEW ops, NEW p \in Procs,
           \A q \in set : pc[q] = "wait",
           pc[p] # "wait", pc'[p] = "wait", Others(p),
           IF call'[p].op \in ops THEN now = set \cup {p} ELSE now = set
    PROVE  ContractStep(View(set, ops, pc, call), View(now, ops, pc', call'))
<1> DEFINE w == View(set, ops, pc, call)
           v == View(now, ops, pc', call')
<1>1. p \notin set /\ w[p] = "out"
  BY DEF View
<1>2. CASE call'[p].op \in ops
  <2>1. v = [w EXCEPT ![p] = "waiting"]
    BY <1>1, <1>2 DEF View, Others
  <2> QED BY <1>1, <2>1 DEF ContractStep
<1>3. CASE call'[p].op \notin ops
  <2>1. v = w
    BY <1>1, <1>3 DEF View, Others
  <2> QED BY <2>1 DEF ContractStep
<1> QED BY <1>2, <1>3

\* A goroutine that was woken and leaves its wait is a Return of its Signal.
LEMMA LeavingStep ==
    ASSUME NEW set \in SUBSET Procs, NEW ops, NEW p \in Procs,
           p \notin set, pc[p] = "wait", pc'[p] # "wait", Others(p)
    PROVE  ContractStep(View(set, ops, pc, call), View(set, ops, pc', call'))
<1> DEFINE w == View(set, ops, pc, call)
           v == View(set, ops, pc', call')
<1>1. CASE call[p].op \in ops
  <2>1. w[p] = "released"
    BY <1>1 DEF View
  <2>2. v = [w EXCEPT ![p] = "out"]
    BY <1>1 DEF View, Others
  <2> QED BY <2>1, <2>2 DEF ContractStep
<1>2. CASE call[p].op \notin ops
  <2>1. v = w
    BY <1>2 DEF View, Others
  <2> QED BY <2>1 DEF ContractStep
<1> QED BY <1>1, <1>2

\* Every step of the backing is a step of both contracts.
LEMMA NextContracts ==
    ASSUME SInv, [Next]_vars
    PROVE  /\ ContractStep(View(notFull, FullOps, pc, call), View(notFull', FullOps, pc', call'))
           /\ ContractStep(View(notEmpty, EmptyOps, pc, call), View(notEmpty', EmptyOps, pc', call'))
<1>1. Kinds
  BY NextKinds
<1>2. /\ notFull \in SUBSET Procs /\ \A p \in notFull : pc[p] = "wait" /\ call[p].op \in FullOps
      /\ notEmpty \in SUBSET Procs /\ \A p \in notEmpty : pc[p] = "wait" /\ call[p].op \in EmptyOps
  BY DEF SInv, IInv, QueueTypes, Parked, ParkedRightly
<1>3. CASE NoneMoves
  <2>1. Wakes(notFull, notFull') /\ Wakes(notEmpty, notEmpty')
    BY <1>3 DEF NoneMoves
  <2> QED BY <1>2, <1>3, <2>1, WakingStep
<1>4. ASSUME NEW p \in Procs, Parks(p)
      PROVE  /\ ContractStep(View(notFull, FullOps, pc, call), View(notFull', FullOps, pc', call'))
             /\ ContractStep(View(notEmpty, EmptyOps, pc, call), View(notEmpty', EmptyOps, pc', call'))
  <2>1. /\ IF call'[p].op \in FullOps THEN notFull' = notFull \cup {p} ELSE notFull' = notFull
        /\ IF call'[p].op \in EmptyOps THEN notEmpty' = notEmpty \cup {p} ELSE notEmpty' = notEmpty
    BY <1>4 DEF Parks, FullOps, EmptyOps
  <2>2. pc[p] # "wait" /\ pc'[p] = "wait" /\ Others(p)
    BY <1>4 DEF Parks
  <2> QED BY <1>2, <2>1, <2>2, ParkingStep
<1>5. ASSUME NEW p \in Procs, Leaves(p)
      PROVE  /\ ContractStep(View(notFull, FullOps, pc, call), View(notFull', FullOps, pc', call'))
             /\ ContractStep(View(notEmpty, EmptyOps, pc, call), View(notEmpty', EmptyOps, pc', call'))
  <2>1. /\ pc[p] = "wait" /\ pc'[p] # "wait" /\ Others(p)
        /\ p \notin notFull /\ p \notin notEmpty /\ notFull' = notFull /\ notEmpty' = notEmpty
    BY <1>5 DEF Leaves, Waiting
  <2> QED BY <1>2, <2>1, LeavingStep
<1> QED BY <1>1, <1>3, <1>4, <1>5 DEF Kinds

\* The backing keeps its side of the contract of both Signals, for any number
\* of goroutines and however calls are cancelled or closed: it parks a call
\* only on the Signal of its operation and only once, a broadcast releases
\* all that are parked there, a done ctx releases its own call, and only a
\* released call returns from Wait.
THEOREM SignalsUsedRightly ==
    Spec => /\ NotFullSignal!Init /\ [][NotFullSignal!Next]_FullWaiter
            /\ NotEmptySignal!Init /\ [][NotEmptySignal!Next]_EmptyWaiter
<1>1. Init => SInv
  BY InitIInv DEF Init, SInv, ParkedRightly
<1>2. SInv /\ [Next]_vars => SInv'
  BY NextParkedRightly
<1>3. Init => NotFullSignal!Init /\ NotEmptySignal!Init
  BY DEF Init, NotFullSignal!Init, NotEmptySignal!Init, FullWaiter, EmptyWaiter, Waiter
<1>4. SInv /\ [Next]_vars => [NotFullSignal!Next]_FullWaiter /\ [NotEmptySignal!Next]_EmptyWaiter
  <2> SUFFICES ASSUME SInv, [Next]_vars
               PROVE  [NotFullSignal!Next]_FullWaiter /\ [NotEmptySignal!Next]_EmptyWaiter
    OBVIOUS
  <2>1. ContractStep(FullWaiter, FullWaiter') /\ ContractStep(EmptyWaiter, EmptyWaiter')
    BY NextContracts DEF FullWaiter, EmptyWaiter, Waiter, View
  <2>2. [NotFullSignal!Next]_FullWaiter
    BY <2>1 DEF ContractStep, NotFullSignal!Next, NotFullSignal!Signal, NotFullSignal!Wait,
        NotFullSignal!Cancel, NotFullSignal!Return
  <2>3. [NotEmptySignal!Next]_EmptyWaiter
    BY <2>1 DEF ContractStep, NotEmptySignal!Next, NotEmptySignal!Signal, NotEmptySignal!Wait,
        NotEmptySignal!Cancel, NotEmptySignal!Return
  <2> QED BY <2>2, <2>3
<1> QED BY <1>1, <1>2, <1>3, <1>4, PTL DEF Spec
=============================================================================
