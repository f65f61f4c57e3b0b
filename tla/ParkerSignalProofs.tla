------------------------- MODULE ParkerSignalProofs -------------------------
(***************************************************************************)
(* What Wait, Signal and the parkers guarantee for every number of         *)
(* goroutines and Parkers, proved from an inductive invariant, and that    *)
(* they implement the contract of a Signal step by step.                   *)
(***************************************************************************)
EXTENDS ParkerSignal, FiniteSetTheorems, SequenceTheorems, TLAPS

\* The program counters at which a Wait has a Parker.
Owning == InWait \ {"leave"}

Labels == InWait \cup {"out", "steal", "swap"}

\* The parts of the type invariant.
ProcTypes ==
    /\ pc \in [Procs -> Labels] /\ par \in [Procs -> Parkers \cup {None}]
    /\ ready \in [Procs -> Parkers \cup {None}]
CtxTypes == armed \in [Procs -> BOOLEAN] /\ done \in [Procs -> BOOLEAN]
ParkerTypes ==
    /\ state \in [Parkers -> {"init", "parked", "woken"}]
    /\ g \in [Parkers -> Procs \cup {None}]
    /\ pool \subseteq Parkers /\ firing \subseteq Parkers /\ cbReady \subseteq Parkers
SeqTypes == list \in Seq(Parkers) /\ stolen \in [Procs -> Seq(Parkers)]

Types == ProcTypes /\ CtxTypes /\ ParkerTypes /\ SeqTypes

-----------------------------------------------------------------------------
(***************************************************************************)
(* The inductive invariant.  A Parker may be recycled (Pooled) because the *)
(* branch of Wait that does so is taken by an owner nobody else can reach  *)
(* any more (Clean).  That rests on what the owner can conclude from its   *)
(* cancel(): a woken Parker that is still on the list, or in the hands of  *)
(* a Broadcast, was woken by the callback of its own ctx (Reasons), which  *)
(* cancel() then finds started.                                            *)
(***************************************************************************)

\* k is on the list or in the hands of a Broadcast.
On(k) == Contains(list, k) \/ \E q \in Procs : Contains(stolen[q], k)

\* A goroutine has a Parker from its Register until its Detach or Put, and no
\* two have the same.
Owned ==
    /\ \A p \in Procs : par[p] # None <=> pc[p] \in Owning
    /\ \A p, q \in Procs : par[p] = par[q] /\ par[p] # None => p = q

\* A Parker in the pool is as new, and nobody else can reach it.
Pooled == \A k \in pool : state[k] = "init" /\ ~Referenced(k)

Distinct(s) == \A i, j \in 1..Len(s) : s[i] = s[j] => i = j

\* A Parker is in one place of one of the lists.
Once ==
    /\ Distinct(list)
    /\ \A q \in Procs : Distinct(stolen[q])
    /\ \A q \in Procs, k \in Parkers : ~(Contains(list, k) /\ Contains(stolen[q], k))
    /\ \A q, r \in Procs, k \in Parkers :
        Contains(stolen[q], k) /\ Contains(stolen[r], k) => q = r

\* Before AfterFunc there is no callback: only a Broadcast can have woken the
\* Parker.
NotYet ==
    \A p \in Procs : pc[p] \in {"registered", "unlocked"} =>
        /\ par[p] \notin firing
        /\ state[par[p]] = "woken" => ~On(par[p])

\* A registration of the callback is pending only around the park.
Armed == \A p \in Procs : armed[p] => pc[p] \in {"park", "parked", "unparked"}

\* What a callback is about to wake, or has woken although it is still to be
\* broadcast, has an owner whose ctx is done and whose callback was started.
Reasons ==
    \A p \in Procs : par[p] # None =>
        /\ state[par[p]] = "woken" /\ On(par[p]) => done[p] /\ ~armed[p]
        /\ par[p] \in firing => done[p] /\ ~armed[p]

\* A goroutine that is past its park was woken.
Late ==
    \A p \in Procs :
        pc[p] \in {"unparked", "release", "detach", "put"} => state[par[p]] = "woken"

\* A Parker on its way to the pool is out of everybody's reach.
Clean ==
    \A p \in Procs :
        pc[p] \in {"release", "put"} => ~On(par[p]) /\ par[p] \notin firing

\* The goroutine parked on k, as the field g has it.
ParkedOn(k) == g[k] \in Procs /\ par[g[k]] = k /\ pc[g[k]] = "parked"

ParkedOwner == \A k \in Parkers : state[k] = "parked" => ParkedOn(k)

\* One caller at a time owes a parked goroutine its goready.
Readied ==
    /\ \A k \in cbReady : state[k] = "woken" /\ ParkedOn(k)
    /\ \A p \in Procs : ready[p] # None => state[ready[p]] = "woken" /\ ParkedOn(ready[p])
    /\ \A p \in Procs : ready[p] \notin cbReady
    /\ \A p, q \in Procs : ready[p] = ready[q] /\ ready[p] # None => p = q

\* A Wait holds the queue lock until it has counted itself.
Locked == \A p \in Procs : pc[p] = "registered" => lk = p

Counted == {p \in Procs : pc[p] \in InWait \ {"registered"}}

WaitersExact == waiters = Cardinality(Counted)

IInv ==
    /\ Types /\ Owned /\ Pooled /\ Once /\ NotYet /\ Armed /\ Reasons /\ Late /\ Clean
    /\ ParkedOwner /\ Readied /\ Locked /\ WaitersExact /\ NoLostSignal

-----------------------------------------------------------------------------
(***************************************************************************)
(* The lists of Parkers.                                                   *)
(***************************************************************************)

\* Register appends.
LEMMA AppendEffect ==
    ASSUME NEW S, NEW s \in Seq(S), NEW x \in S
    PROVE  /\ Append(s, x) \in Seq(S)
           /\ \A y : Contains(Append(s, x), y) <=> Contains(s, y) \/ y = x
           /\ Distinct(s) /\ ~Contains(s, x) => Distinct(Append(s, x))
<1>1. /\ Append(s, x) \in Seq(S) /\ Len(s) \in Nat /\ Len(Append(s, x)) = Len(s) + 1
      /\ \A i \in 1..Len(s) : Append(s, x)[i] = s[i]
      /\ Append(s, x)[Len(s) + 1] = x
  BY AppendProperties
<1>2. 1..Len(Append(s, x)) = (1..Len(s)) \cup {Len(s) + 1}
  BY <1>1
<1>3. \A y : Contains(Append(s, x), y) <=> Contains(s, y) \/ y = x
  BY <1>1, <1>2 DEF Contains
<1>4. Distinct(s) /\ ~Contains(s, x) => Distinct(Append(s, x))
  BY <1>1, <1>2 DEF Contains, Distinct
<1> QED BY <1>1, <1>3, <1>4

\* The loop of Broadcast takes the first.
LEMMA TailEffect ==
    ASSUME NEW S, NEW s \in Seq(S), s # <<>>
    PROVE  /\ Tail(s) \in Seq(S) /\ Head(s) \in S
           /\ Contains(s, Head(s))
           /\ \A y : Contains(Tail(s), y) => Contains(s, y)
           /\ Distinct(s) => Distinct(Tail(s)) /\ ~Contains(Tail(s), Head(s))
<1>1. /\ Tail(s) \in Seq(S) /\ Len(s) \in Nat \ {0} /\ Len(Tail(s)) = Len(s) - 1
      /\ Head(s) = s[1] /\ \A i \in 1..Len(Tail(s)) : Tail(s)[i] = s[i + 1]
  BY HeadTailProperties, EmptySeq
<1>2. 1 \in 1..Len(s) /\ \A i \in 1..Len(Tail(s)) : i + 1 \in 1..Len(s) /\ i + 1 # 1
  BY <1>1
<1>3. Contains(s, Head(s)) /\ Head(s) \in S
  BY <1>1, <1>2, ElementOfSeq DEF Contains
<1>4. \A y : Contains(Tail(s), y) => Contains(s, y)
  BY <1>1, <1>2 DEF Contains
<1>5. ASSUME Distinct(s)
      PROVE  Distinct(Tail(s)) /\ ~Contains(Tail(s), Head(s))
  BY <1>1, <1>2, <1>5 DEF Contains, Distinct
<1> QED BY <1>1, <1>3, <1>4, <1>5

\* Release and Detach remove the one at position i.
LEMMA RemoveAtEffect ==
    ASSUME NEW S, NEW s \in Seq(S), NEW i \in 1..Len(s)
    PROVE  /\ RemoveAt(s, i) \in Seq(S)
           /\ Distinct(s) =>
                /\ Distinct(RemoveAt(s, i))
                /\ \A y : Contains(RemoveAt(s, i), y) <=> Contains(s, y) /\ y # s[i]
<1> DEFINE a == SubSeq(s, 1, i - 1)
           b == SubSeq(s, i + 1, Len(s))
           t == RemoveAt(s, i)
<1>1. /\ Len(s) \in Nat /\ i \in Nat /\ 1 <= i /\ i <= Len(s)
      /\ \A j \in 1..(i - 1) : s[j] \in S
      /\ \A j \in (i + 1)..Len(s) : s[j] \in S
  BY ElementOfSeq
<1>2. /\ a \in Seq(S) /\ Len(a) = i - 1 /\ \A j \in 1..(i - 1) : a[j] = s[j]
  BY <1>1, SubSeqProperties
<1>3. /\ b \in Seq(S) /\ Len(b) = Len(s) - i /\ \A j \in 1..(Len(s) - i) : b[j] = s[i + j]
  <2>1. /\ b \in Seq(S)
        /\ Len(b) = IF i + 1 <= Len(s) THEN Len(s) - (i + 1) + 1 ELSE 0
        /\ \A j \in 1..(Len(s) - (i + 1) + 1) : b[j] = s[(i + 1) + j - 1]
    BY <1>1, SubSeqProperties
  <2> HIDE DEF b
  <2> QED BY <1>1, <2>1
<1>4. /\ t \in Seq(S) /\ Len(t) = Len(s) - 1
      /\ \A j \in 1..Len(t) : t[j] = IF j < i THEN s[j] ELSE s[j + 1]
  <2> HIDE DEF a, b
  <2>1. t = a \o b
    BY DEF RemoveAt, a, b
  <2>2. /\ a \o b \in Seq(S) /\ Len(a \o b) = Len(a) + Len(b)
        /\ \A j \in 1..(Len(a) + Len(b)) :
              (a \o b)[j] = IF j <= Len(a) THEN a[j] ELSE b[j - Len(a)]
    BY <1>2, <1>3, ConcatProperties
  <2> HIDE DEF t
  <2>3. \A j \in 1..Len(t) : j > i - 1 => j - (i - 1) \in 1..(Len(s) - i) /\ i + (j - (i - 1)) = j + 1
    BY <1>1, <1>2, <1>3, <2>1, <2>2
  <2>4. \A j \in 1..Len(t) : j <= i - 1 => j \in 1..(i - 1)
    BY <1>1, <1>2, <1>3, <2>1, <2>2
  <2>5. t \in Seq(S) /\ Len(t) = Len(s) - 1 /\ Len(t) = Len(a) + Len(b)
    BY <1>1, <1>2, <1>3, <2>1, <2>2
  <2>6. ASSUME NEW j \in 1..Len(t), j < i
        PROVE  t[j] = s[j]
    BY <1>1, <1>2, <2>1, <2>2, <2>4, <2>5, <2>6
  <2>7. ASSUME NEW j \in 1..Len(t), ~(j < i)
        PROVE  t[j] = s[j + 1]
    <3>1. t[j] = b[j - (i - 1)]
      BY <1>1, <1>2, <2>1, <2>2, <2>5, <2>7
    <3>2. j - (i - 1) \in 1..(Len(s) - i) /\ i + (j - (i - 1)) = j + 1
      BY <1>1, <2>3, <2>7
    <3> QED BY <1>3, <3>1, <3>2
  <2> QED BY <2>5, <2>6, <2>7
<1>5. \A j \in 1..Len(t) : j \in 1..Len(s) /\ j + 1 \in 1..Len(s)
  BY <1>1, <1>4
<1> HIDE DEF t
<1>6. ASSUME Distinct(s)
      PROVE  Distinct(t) /\ \A y : Contains(t, y) <=> Contains(s, y) /\ y # s[i]
  <2>1. Distinct(t)
    BY <1>1, <1>4, <1>5, <1>6 DEF Distinct
  <2>2. ASSUME NEW y, Contains(t, y)
        PROVE  Contains(s, y) /\ y # s[i]
    <3>1. PICK j \in 1..Len(t) : t[j] = y
      BY <2>2 DEF Contains
    <3>2. PICK m \in 1..Len(s) : m # i /\ s[m] = y
      <4>1. CASE j < i
        BY <1>1, <1>4, <1>5, <3>1, <4>1
      <4>2. CASE ~(j < i)
        <5>1. j + 1 \in 1..Len(s) /\ j + 1 # i /\ s[j + 1] = y
          BY <1>1, <1>4, <1>5, <3>1, <4>2
        <5> QED BY <5>1
      <4> QED BY <4>1, <4>2
    <3> QED BY <1>6, <3>2 DEF Contains, Distinct
  <2>3. ASSUME NEW y, Contains(s, y), y # s[i]
        PROVE  Contains(t, y)
    <3>1. PICK j \in 1..Len(s) : s[j] = y
      BY <2>3 DEF Contains
    <3>2. CASE j < i
      <4>1. j \in 1..Len(t) /\ t[j] = y
        BY <1>1, <1>4, <3>1, <3>2
      <4> QED BY <4>1 DEF Contains
    <3>3. CASE j > i
      <4>1. j - 1 \in 1..Len(t) /\ t[j - 1] = y
        BY <1>1, <1>4, <3>1, <3>3
      <4> QED BY <4>1 DEF Contains
    <3> QED BY <1>1, <2>3, <3>1, <3>2, <3>3
  <2> QED BY <2>1, <2>2, <2>3
<1> QED BY <1>4, <1>6 DEF t

\* A new list.
LEMMA EmptyList == Distinct(<<>>) /\ \A y : ~Contains(<<>>, y)
  BY DEF Distinct, Contains

\* What Referenced says, in terms of On.
LEMMA ReferencedOn ==
    ASSUME NEW k
    PROVE  Referenced(k) <=>
              \/ \E p \in Procs : par[p] = k \/ ready[p] = k
              \/ On(k) \/ k \in firing \cup cbReady
  BY DEF Referenced, On

-----------------------------------------------------------------------------
(***************************************************************************)
(* The count of waiters.                                                   *)
(***************************************************************************)

\* Nobody enters or leaves.
LEMMA CountKept ==
    ASSUME IInv, waiters' = waiters,
           \A q \in Procs :
               pc'[q] \in InWait \ {"registered"} <=> pc[q] \in InWait \ {"registered"}
    PROVE  WaitersExact'
<1>1. Counted' = Counted
  BY DEF Counted
<1> QED BY <1>1 DEF IInv, WaitersExact

\* A Wait counts itself.
LEMMA CountUp ==
    ASSUME IInv, NEW p \in Procs, waiters' = waiters + 1,
           pc[p] \notin InWait \ {"registered"}, pc'[p] \in InWait \ {"registered"},
           \A q \in Procs : q # p => pc'[q] = pc[q]
    PROVE  WaitersExact'
<1>1. Counted' = Counted \cup {p} /\ p \notin Counted
  BY DEF Counted
<1>2. IsFiniteSet(Counted)
  BY ProcsAssumption, FS_Subset DEF Counted
<1>3. Cardinality(Counted \cup {p}) = Cardinality(Counted) + 1
  BY <1>1, <1>2, FS_AddElement
<1> QED BY <1>1, <1>3 DEF IInv, WaitersExact

\* A Wait takes itself out of the count.
LEMMA CountDown ==
    ASSUME IInv, NEW p \in Procs, waiters' = waiters - 1,
           pc[p] \in InWait \ {"registered"}, pc'[p] \notin InWait \ {"registered"},
           \A q \in Procs : q # p => pc'[q] = pc[q]
    PROVE  WaitersExact'
<1>1. Counted' = Counted \ {p} /\ p \in Counted
  BY DEF Counted
<1>2. IsFiniteSet(Counted)
  BY ProcsAssumption, FS_Subset DEF Counted
<1>3. Cardinality(Counted \ {p}) = Cardinality(Counted) - 1
  BY <1>1, <1>2, FS_RemoveElement
<1> QED BY <1>1, <1>3 DEF IInv, WaitersExact

-----------------------------------------------------------------------------
(***************************************************************************)
(* Steps that have much in common.                                         *)
(***************************************************************************)

\* p moves on and touches no Parker.
LEMMA CallerStep ==
    ASSUME IInv, NEW p \in Procs,
           UNCHANGED <<par, state, g, pool, list, bcVars, cbVars>>,
           pc' \in [Procs -> Labels], CtxTypes',
           \A q \in Procs : q # p => pc'[q] = pc[q] /\ armed'[q] = armed[q] /\ done'[q] = done[q],
           pc'[p] \in Owning <=> pc[p] \in Owning,
           pc[p] = "parked" => pc'[p] = "parked",
           pc'[p] \in {"registered", "unlocked"} => pc[p] \in {"registered", "unlocked"},
           armed'[p] => pc'[p] \in {"park", "parked", "unparked"},
           par[p] # None /\ ((state[par[p]] = "woken" /\ On(par[p])) \/ par[p] \in firing)
               => done'[p] /\ ~armed'[p],
           pc'[p] \in {"unparked", "release", "detach", "put"}
               => pc[p] \in {"unparked", "release", "detach", "put"},
           pc'[p] \in {"release", "put"} => ~On(par[p]) /\ par[p] \notin firing,
           \A q \in Procs : pc'[q] = "registered" => lk' = q,
           WaitersExact', NoLostSignal'
    PROVE  IInv'
<1>1. \A k : (On(k)' <=> On(k)) /\ (Referenced(k)' <=> Referenced(k))
  BY DEF On, Referenced, bcVars, cbVars
<1>p1. Types'
  BY DEF IInv, Types, ProcTypes, ParkerTypes, SeqTypes, bcVars, cbVars
<1>p2. Owned'
  BY DEF IInv, Owned
<1>p3. Pooled'
  BY <1>1 DEF IInv, Pooled
<1>p4. Once'
  BY DEF IInv, Once, bcVars
<1>p5. NotYet'
  BY <1>1 DEF IInv, NotYet, cbVars
<1>p6. Armed'
  BY DEF IInv, Armed
<1>p7. Reasons'
  BY <1>1 DEF IInv, Reasons, cbVars
<1>p8. Late'
  BY DEF IInv, Late
<1>p9. Clean'
  BY <1>1 DEF IInv, Clean, cbVars
<1>p10. \A k : ParkedOn(k) => ParkedOn(k)'
  BY DEF ParkedOn
<1>p11. ParkedOwner'
  BY <1>p10 DEF IInv, ParkedOwner
<1>p12. Readied'
  BY <1>p10 DEF IInv, Readied, cbVars, bcVars
<1>p13. Locked'
  BY DEF Locked
<1> QED BY <1>p1, <1>p2, <1>p3, <1>p4, <1>p5, <1>p6, <1>p7, <1>p8, <1>p9, <1>p11, <1>p12, <1>p13 DEF IInv

\* The goroutine parked on k is made runnable.
LEMMA GoreadyStep ==
    ASSUME IInv, NEW k \in Parkers, state[k] = "woken", ParkedOn(k), Goready(k),
           UNCHANGED <<lk, cond, par, armed, done, sigVars, stolen, firing>>,
           ready' \in [Procs -> Parkers \cup {None}],
           \A x \in cbReady' : x \in cbReady /\ x # k,
           \A q \in Procs : ready'[q] # None => ready'[q] = ready[q] /\ ready'[q] # k
    PROVE  IInv'
<1> DEFINE p == g[k]
<1>1. \A x : (On(x)' <=> On(x)) /\ (Referenced(x)' => Referenced(x) \/ x = None)
  BY DEF On, Referenced, sigVars
<1>2. /\ p \in Procs /\ par[p] = k /\ pc[p] = "parked"
      /\ pc'[p] = "unparked" /\ \A q \in Procs : q # p => pc'[q] = pc[q]
      /\ pc' \in [Procs -> Labels]
  BY DEF IInv, Types, ProcTypes, Goready, ParkedOn, Labels, InWait
<1>3. None \notin Parkers
  BY NoneAssumption
<1> HIDE DEF p
<1>4. \A q \in Procs : pc'[q] \in Owning <=> pc[q] \in Owning
  BY <1>2 DEF Owning, InWait
<1>5. \A x \in Parkers : x # k /\ ParkedOn(x) => ParkedOn(x)'
  BY <1>2 DEF ParkedOn, sigVars
<1>p1. Types'
  BY <1>2 DEF IInv, Types, ProcTypes, CtxTypes, ParkerTypes, SeqTypes, sigVars
<1>p2. Owned'
  BY <1>4 DEF IInv, Owned
<1>p3. Pooled'
  <2>1. pool \subseteq Parkers
    BY DEF IInv, Types, ParkerTypes
  <2> QED BY <1>1, <1>3, <2>1 DEF IInv, Pooled, sigVars
<1>p4. Once'
  BY DEF IInv, Once, sigVars
<1>p5. NotYet'
  BY <1>1, <1>2 DEF IInv, NotYet, sigVars
<1>p6. Armed'
  BY <1>2 DEF IInv, Armed
<1>p7. Reasons'
  BY <1>1 DEF IInv, Reasons, sigVars
<1>p8. Late'
  BY <1>2 DEF IInv, Late, sigVars
<1>p9. Clean'
  BY <1>1, <1>2 DEF IInv, Clean
<1>p10. ParkedOwner'
  BY <1>5 DEF IInv, ParkedOwner, sigVars
<1>p11. Readied'
  BY <1>3, <1>5 DEF IInv, Readied, Types, ParkerTypes, ProcTypes, sigVars
<1>p12. Locked'
  BY <1>2 DEF IInv, Locked
<1>p13. WaitersExact'
  BY <1>2, CountKept DEF InWait, sigVars
<1>p14. NoLostSignal'
  BY <1>2 DEF IInv, NoLostSignal, sigVars
<1> QED BY <1>p1, <1>p2, <1>p3, <1>p4, <1>p5, <1>p6, <1>p7, <1>p8, <1>p9, <1>p10, <1>p11, <1>p12,
           <1>p13, <1>p14
        DEF IInv

\* The state of k is swapped to woken.
LEMMA SwapStep ==
    ASSUME IInv, NEW k \in Parkers, Swap(k),
           UNCHANGED <<lk, cond, pc, par, armed, done, g, pool, list, waiters>>,
           ProcTypes', ParkerTypes', SeqTypes', Once', Readied',
           firing' \subseteq firing, Referenced(k),
           \A x \in Parkers : (On(x)' => On(x)) /\ (Referenced(x)' => Referenced(x)),
           \A p \in Procs : par[p] = k => (On(k)' => done[p] /\ ~armed[p] /\ pc[p] \notin {"registered", "unlocked"})
    PROVE  IInv'
<1>1. /\ state'[k] = "woken" /\ \A x \in Parkers : x # k => state'[x] = state[x]
      /\ par \in [Procs -> Parkers \cup {None}] /\ pool \subseteq Parkers
      /\ None \notin Parkers
  BY NoneAssumption DEF IInv, Types, ProcTypes, ParkerTypes, Swap
<1>2. \A p \in Procs : pc[p] \in Owning <=> par[p] \in Parkers
  BY <1>1 DEF IInv, Owned
<1>p1. Types'
  BY DEF IInv, Types, CtxTypes
<1>p2. Owned'
  BY DEF IInv, Owned
<1>p3. Pooled'
  BY <1>1 DEF IInv, Pooled
<1>p5. NotYet'
  BY <1>1, <1>2 DEF IInv, NotYet, Owning, InWait
<1>p6. Armed'
  BY DEF IInv, Armed
<1>p7. Reasons'
  BY <1>1 DEF IInv, Reasons
<1>p8. Late'
  BY <1>1, <1>2 DEF IInv, Late, Owning, InWait
<1>p9. Clean'
  BY <1>1, <1>2 DEF IInv, Clean, Owning, InWait
<1>p10. ParkedOwner'
  BY <1>1 DEF IInv, ParkedOwner, ParkedOn
<1>p12. Locked'
  BY DEF IInv, Locked
<1>p13. WaitersExact'
  BY CountKept
<1>p14. NoLostSignal'
  BY <1>1 DEF IInv, NoLostSignal
<1> QED BY <1>p1, <1>p2, <1>p3, <1>p5, <1>p6, <1>p7, <1>p8, <1>p9, <1>p10, <1>p12, <1>p13, <1>p14 DEF IInv

-----------------------------------------------------------------------------
(***************************************************************************)
(* The steps of Wait.                                                      *)
(***************************************************************************)

\* Register: the Parker is nobody's else, so what holds of the others holds
\* still.
LEMMA RegisterStep ==
    ASSUME IInv, NEW p \in Procs, Register(p)
    PROVE  IInv'
<1>1. /\ pc[p] = "out" /\ lk = None /\ ~cond /\ lk' = p
      /\ UNCHANGED <<cond, armed, done, waiters, bcVars, cbVars>>
  BY DEF Register
<1>2. /\ pc' \in [Procs -> Labels] /\ pc'[p] = "registered"
      /\ \A q \in Procs : q # p => pc'[q] = pc[q]
  BY DEF Register, Goto, IInv, Types, ProcTypes, Labels, InWait
<1>3. PICK k \in Parkers :
        /\ \/ k \in pool /\ UNCHANGED <<state, g>>
           \/ /\ k \notin pool /\ ~Referenced(k)
              /\ state' = [state EXCEPT ![k] = "init"]
              /\ g' = [g EXCEPT ![k] = None]
        /\ pool' = pool \ {k}
        /\ par' = [par EXCEPT ![p] = k]
        /\ list' = Append(list, k)
  BY DEF Register
<1>4. /\ ~Referenced(k) /\ state'[k] = "init"
      /\ \A x \in Parkers : x # k => state'[x] = state[x] /\ g'[x] = g[x]
      /\ state' \in [Parkers -> {"init", "parked", "woken"}]
      /\ g' \in [Parkers -> Procs \cup {None}]
  BY <1>3 DEF IInv, Types, ParkerTypes, Pooled
<1>5. /\ par'[p] = k /\ \A q \in Procs : q # p => par'[q] = par[q]
      /\ par' \in [Procs -> Parkers \cup {None}]
  BY <1>3 DEF IInv, Types, ProcTypes
<1>6. /\ ~On(k) /\ ~Contains(list, k) /\ k \notin firing \cup cbReady /\ k # None
      /\ \A q \in Procs : par[q] # k /\ ready[q] # k /\ ~Contains(stolen[q], k)
  BY <1>4, ReferencedOn, NoneAssumption DEF On
<1>7. /\ list' \in Seq(Parkers)
      /\ \A x : Contains(list', x) <=> Contains(list, x) \/ x = k
      /\ Distinct(list')
  BY <1>3, <1>6, AppendEffect DEF IInv, Types, SeqTypes, Once
<1>8. \A x : On(x)' <=> On(x) \/ x = k
  BY <1>1, <1>7 DEF On, bcVars
<1>9. \A x \in Parkers : x # k => (Referenced(x)' <=> Referenced(x))
  <2>1. \A x \in Parkers : x # k => ((\E q \in Procs : par'[q] = x) <=> (\E q \in Procs : par[q] = x))
    <3>1. par[p] \notin Parkers
      BY <1>1, NoneAssumption DEF IInv, Owned, Owning, InWait
    <3> QED BY <1>5, <3>1
  <2> QED BY <1>1, <1>7, <2>1 DEF Referenced, bcVars, cbVars
<1>10. \A q \in Procs : par[q] # None => par[q] \in Parkers /\ q # p
  BY <1>1 DEF IInv, Types, ProcTypes, Owned, Owning, InWait
<1>11. \A x \in Parkers : ParkedOn(x) => x # k /\ ParkedOn(x)'
  BY <1>1, <1>2, <1>4, <1>5, <1>6 DEF ParkedOn
<1>12. \A x \in Parkers : ~(ParkedOn(x) /\ x = k)
  BY <1>11
<1>p1. Types'
  BY <1>1, <1>2, <1>3, <1>4, <1>5, <1>7
  DEF IInv, Types, ProcTypes, CtxTypes, ParkerTypes, SeqTypes, bcVars, cbVars
<1>p2. Owned'
  BY <1>1, <1>2, <1>5, <1>6 DEF IInv, Owned, Owning, InWait
<1>p3. Pooled'
  BY <1>3, <1>4, <1>9 DEF IInv, Types, ParkerTypes, Pooled
<1>p4. Once'
  BY <1>1, <1>6, <1>7 DEF IInv, Once, bcVars
<1>p5. NotYet'
  <2>1. \A q \in Procs : q # p /\ pc[q] \in {"registered", "unlocked"} => par[q] \in Parkers /\ par[q] # k
    BY <1>6, <1>10 DEF IInv, Owned, Owning, InWait
  <2> QED BY <1>1, <1>2, <1>4, <1>5, <1>6, <1>8, <2>1 DEF IInv, NotYet, cbVars
<1>p6. Armed'
  BY <1>1, <1>2 DEF IInv, Armed
<1>p7. Reasons'
  BY <1>1, <1>4, <1>5, <1>6, <1>8, <1>10 DEF IInv, Reasons, cbVars
<1>p8. Late'
  <2>1. \A q \in Procs : q # p /\ pc[q] \in {"unparked", "release", "detach", "put"} => par[q] \in Parkers /\ par[q] # k
    BY <1>6, <1>10 DEF IInv, Owned, Owning, InWait
  <2> QED BY <1>2, <1>4, <1>5, <2>1 DEF IInv, Late
<1>p9. Clean'
  BY <1>1, <1>2, <1>5, <1>6, <1>8 DEF IInv, Clean, cbVars
<1>p10. ParkedOwner'
  BY <1>4, <1>11 DEF IInv, ParkedOwner
<1>p11. Readied'
  <2>1. \A x \in Parkers : x # k /\ state[x] = "woken" => state'[x] = "woken"
    BY <1>4
  <2> QED BY <1>1, <1>11, <2>1 DEF IInv, Readied, Types, ParkerTypes, ProcTypes, bcVars, cbVars
<1>p12. Locked'
  BY <1>1, <1>2, NoneAssumption DEF IInv, Locked
<1>p13. WaitersExact'
  BY <1>1, <1>2, CountKept DEF InWait
<1>p14. NoLostSignal'
  BY <1>1 DEF NoLostSignal
<1> QED BY <1>p1, <1>p2, <1>p3, <1>p4, <1>p5, <1>p6, <1>p7, <1>p8, <1>p9, <1>p10, <1>p11, <1>p12,
           <1>p13, <1>p14
        DEF IInv

\* waiters.Add and the unlock.
LEMMA UnlockStep ==
    ASSUME IInv, NEW p \in Procs, Unlock(p)
    PROVE  IInv'
<1>1. /\ pc[p] = "registered" /\ lk = p /\ lk' = None
      /\ UNCHANGED <<cond, par, armed, done, state, g, pool, list, bcVars, cbVars>>
  BY DEF Unlock, IInv, Locked
<1>2. /\ pc' \in [Procs -> Labels] /\ pc'[p] = "unlocked" /\ waiters' = waiters + 1
      /\ \A q \in Procs : q # p => pc'[q] = pc[q] /\ pc[q] # "registered"
  BY <1>1 DEF Unlock, Goto, IInv, Types, ProcTypes, Labels, InWait, Locked
<1>3. WaitersExact'
  BY <1>1, <1>2, CountUp DEF InWait
<1>4. NoLostSignal'
  BY <1>1, <1>2 DEF IInv, NoLostSignal
<1>5. CtxTypes' /\ ~armed[p]
  BY <1>1 DEF IInv, Types, CtxTypes, Armed
<1>6. /\ state[par[p]] = "woken" => ~On(par[p])
      /\ par[p] \notin firing
  BY <1>1 DEF IInv, NotYet
<1> QED BY <1>1, <1>2, <1>3, <1>4, <1>5, <1>6, CallerStep DEF Owning, InWait

\* AfterFunc.
LEMMA AfterFuncStep ==
    ASSUME IInv, NEW p \in Procs, AfterFunc(p)
    PROVE  IInv'
<1>1. /\ pc[p] = "unlocked"
      /\ UNCHANGED <<lk, cond, par, done, sigVars, bcVars, cbVars>>
  BY DEF AfterFunc
<1>2. /\ pc' \in [Procs -> Labels] /\ pc'[p] = "park"
      /\ \A q \in Procs : q # p => pc'[q] = pc[q]
  BY DEF AfterFunc, Goto, IInv, Types, ProcTypes, Labels, InWait
<1>3. /\ CtxTypes' /\ \A q \in Procs : q # p => armed'[q] = armed[q]
  <2>1. PICK c \in {done[p], TRUE} : armed' = [armed EXCEPT ![p] = c]
    BY DEF AfterFunc
  <2>2. armed \in [Procs -> BOOLEAN] /\ done \in [Procs -> BOOLEAN] /\ done[p] \in BOOLEAN
    BY DEF IInv, Types, CtxTypes
  <2>3. c \in BOOLEAN
    BY <2>1, <2>2
  <2> QED BY <1>1, <2>1, <2>2, <2>3 DEF CtxTypes
<1>4. WaitersExact'
  BY <1>1, <1>2, CountKept DEF InWait, sigVars
<1>5. NoLostSignal'
  BY <1>1, <1>2 DEF IInv, NoLostSignal, sigVars
<1>6. /\ state[par[p]] = "woken" => ~On(par[p])
      /\ par[p] \notin firing
      /\ \A q \in Procs : pc[q] = "registered" => lk = q
  BY <1>1 DEF IInv, NotYet, Locked
<1>7. UNCHANGED <<par, state, g, pool, list, bcVars, cbVars>> /\ \A q \in Procs : done'[q] = done[q]
  BY <1>1 DEF sigVars
<1> QED BY <1>1, <1>2, <1>3, <1>4, <1>5, <1>6, <1>7, CallerStep DEF Owning, InWait

\* The park: a Parker that is not init any more was woken.
LEMMA ParkStep ==
    ASSUME IInv, NEW p \in Procs, Park(p)
    PROVE  IInv'
<1>0. pc[p] = "park"
  BY DEF Park
<1>k. PICK k \in Parkers : k = par[p]
  BY <1>0 DEF IInv, Types, ProcTypes, Owned, Owning, InWait
<1>1. /\ pc[p] = "park" /\ k # None /\ None \notin Parkers /\ k = par[p]
      /\ UNCHANGED <<lk, cond, par, armed, done, pool, list, waiters, bcVars, cbVars>>
  BY <1>k, NoneAssumption DEF Park
<1>2. state[k] # "parked" /\ k \notin cbReady /\ \A q \in Procs : ready[q] # k
  <2>1. ~ParkedOn(k)
    BY <1>1 DEF IInv, ParkedOn, Owned
  <2> QED BY <1>1, <2>1 DEF IInv, ParkedOwner, Readied
<1>3. /\ g'[k] = p /\ g' \in [Parkers -> Procs \cup {None}]
      /\ \A x \in Parkers : x # k => g'[x] = g[x]
  BY <1>1 DEF Park, IInv, Types, ParkerTypes
<1>4. \/ /\ state[k] = "init" /\ state' = [state EXCEPT ![k] = "parked"]
         /\ pc' = [pc EXCEPT ![p] = "parked"]
      \/ state[k] = "woken" /\ pc' = [pc EXCEPT ![p] = "unparked"] /\ UNCHANGED state
  BY <1>1, <1>2 DEF Park, Goto, IInv, Types, ParkerTypes
<1>5. /\ state' \in [Parkers -> {"init", "parked", "woken"}]
      /\ pc' \in [Procs -> Labels]
      /\ \A x \in Parkers : x # k => state'[x] = state[x]
      /\ \A q \in Procs : q # p => pc'[q] = pc[q]
      /\ \/ pc'[p] = "parked" /\ state[k] = "init" /\ state'[k] = "parked"
         \/ pc'[p] = "unparked" /\ state[k] = "woken" /\ state'[k] = "woken"
  BY <1>1, <1>4 DEF IInv, Types, ProcTypes, ParkerTypes, Labels, InWait
<1>6. \A x : (On(x)' <=> On(x)) /\ (Referenced(x)' <=> Referenced(x))
  BY <1>1 DEF On, Referenced, bcVars, cbVars
<1>7. \A q \in Procs : par[q] # None => par[q] \in Parkers /\ (q # p => par[q] # k)
  BY <1>1 DEF IInv, Types, ProcTypes, Owned
<1>8. \A x \in Parkers : ParkedOn(x) => x # k /\ ParkedOn(x)'
  BY <1>1, <1>3, <1>5, <1>7 DEF ParkedOn
<1>9. \A q \in Procs : pc'[q] \in Owning <=> pc[q] \in Owning
  BY <1>1, <1>5 DEF Owning, InWait
<1>10. \A q \in Procs : q # p /\ pc[q] \in Owning => par[q] \in Parkers /\ par[q] # k
  BY <1>7 DEF IInv, Owned
<1>11. Referenced(k)
  BY <1>1 DEF Referenced
<1>p1. Types'
  BY <1>1, <1>3, <1>5 DEF IInv, Types, ProcTypes, CtxTypes, ParkerTypes, SeqTypes, bcVars, cbVars
<1>p2. Owned'
  BY <1>1, <1>9 DEF IInv, Owned
<1>p3. Pooled'
  BY <1>1, <1>5, <1>6, <1>11 DEF IInv, Pooled, Types, ParkerTypes
<1>p4. Once'
  BY <1>1 DEF IInv, Once, bcVars
<1>p5. NotYet'
  BY <1>1, <1>5, <1>6, <1>10 DEF IInv, NotYet, Owning, InWait, cbVars
<1>p6. Armed'
  BY <1>1, <1>5 DEF IInv, Armed
<1>p7. Reasons'
  BY <1>1, <1>5, <1>6, <1>7 DEF IInv, Reasons, cbVars
<1>p8. Late'
  BY <1>1, <1>5, <1>10 DEF IInv, Late, Owning, InWait
<1>p9. Clean'
  BY <1>1, <1>5, <1>6 DEF IInv, Clean, cbVars
<1>p10. ParkedOwner'
  <2>1. state'[k] = "parked" => ParkedOn(k)'
    BY <1>1, <1>3, <1>5 DEF ParkedOn
  <2>2. \A x \in Parkers : x # k /\ state'[x] = "parked" => ParkedOn(x)'
    BY <1>5, <1>8 DEF IInv, ParkedOwner
  <2> QED BY <2>1, <2>2 DEF ParkedOwner
<1>p11. Readied'
  BY <1>1, <1>2, <1>5, <1>8 DEF IInv, Readied, Types, ParkerTypes, ProcTypes, bcVars, cbVars
<1>p12. Locked'
  BY <1>1, <1>5 DEF IInv, Locked
<1>p13. WaitersExact'
  BY <1>1, <1>5, CountKept DEF InWait
<1>p14. NoLostSignal'
  <2>1. \A x \in Parkers : state'[x] # "woken" => state[x] # "woken"
    BY <1>5
  <2> QED BY <1>1, <1>5, <1>7, <2>1 DEF IInv, NoLostSignal
<1> QED BY <1>p1, <1>p2, <1>p3, <1>p4, <1>p5, <1>p6, <1>p7, <1>p8, <1>p9, <1>p10, <1>p11, <1>p12,
           <1>p13, <1>p14
        DEF IInv

\* cancel(): it returns true for an owner that no callback and no Broadcast
\* can reach.
LEMMA CancelStep ==
    ASSUME IInv, NEW p \in Procs, Cancel(p)
    PROVE  IInv'
<1>1. /\ pc[p] = "unparked" /\ armed' = [armed EXCEPT ![p] = FALSE]
      /\ UNCHANGED <<lk, cond, par, done, sigVars, bcVars, cbVars>>
  BY DEF Cancel
<1>2. /\ pc' \in [Procs -> Labels] /\ pc'[p] = IF armed[p] \/ ~done[p] THEN "release" ELSE "detach"
      /\ \A q \in Procs : q # p => pc'[q] = pc[q]
  BY DEF Cancel, Goto, IInv, Types, ProcTypes, Labels, InWait
<1>3. CtxTypes' /\ ~armed'[p] /\ \A q \in Procs : (q # p => armed'[q] = armed[q]) /\ done'[q] = done[q]
  BY <1>1 DEF IInv, Types, CtxTypes
<1>4. WaitersExact'
  BY <1>1, <1>2, CountKept DEF InWait, sigVars
<1>5. NoLostSignal'
  BY <1>1, <1>2 DEF IInv, NoLostSignal, sigVars
<1>6. /\ par[p] # None /\ state[par[p]] = "woken"
      /\ On(par[p]) \/ par[p] \in firing => done[p] /\ ~armed[p]
      /\ \A q \in Procs : pc[q] = "registered" => lk = q
  BY <1>1 DEF IInv, Reasons, Late, Locked, Owned, Owning, InWait
<1>7. UNCHANGED <<par, state, g, pool, list, bcVars, cbVars>>
  BY <1>1 DEF sigVars
<1> QED BY <1>1, <1>2, <1>3, <1>4, <1>5, <1>6, <1>7, CallerStep DEF Owning, InWait

\* Release and Detach take the Parker off the list.
LEMMA UnlistStep ==
    ASSUME IInv, NEW p \in Procs, Release(p) \/ Detach(p)
    PROVE  IInv'
<1>1. /\ pc[p] \in {"release", "detach"}
      /\ UNCHANGED <<lk, cond, armed, done, state, g, pool, waiters, bcVars, cbVars>>
      /\ \/ ~Contains(list, par[p]) /\ UNCHANGED list
         \/ \E i \in 1..Len(list) : list[i] = par[p] /\ list' = RemoveAt(list, i)
  BY DEF Release, Detach, Unlist
<1>2. /\ \/ pc[p] = "release" /\ pc' = [pc EXCEPT ![p] = "put"] /\ par' = par
         \/ pc[p] = "detach" /\ pc' = [pc EXCEPT ![p] = "leave"] /\ par' = [par EXCEPT ![p] = None]
  BY DEF Release, Detach, Unlist, Goto
<1>3. /\ pc' \in [Procs -> Labels] /\ par' \in [Procs -> Parkers \cup {None}]
      /\ \A q \in Procs : q # p => pc'[q] = pc[q] /\ par'[q] = par[q]
      /\ \/ pc[p] = "release" /\ pc'[p] = "put" /\ par'[p] = par[p]
         \/ pc[p] = "detach" /\ pc'[p] = "leave" /\ par'[p] = None
  BY <1>2 DEF IInv, Types, ProcTypes, Labels, InWait
<1>4. /\ list' \in Seq(Parkers) /\ Distinct(list')
      /\ \A x : Contains(list', x) => Contains(list, x)
  <2>1. list \in Seq(Parkers) /\ Distinct(list)
    BY DEF IInv, Types, SeqTypes, Once
  <2>2. CASE UNCHANGED list
    BY <2>1, <2>2
  <2>3. CASE \E i \in 1..Len(list) : list[i] = par[p] /\ list' = RemoveAt(list, i)
    BY <2>1, <2>3, RemoveAtEffect
  <2> QED BY <1>1, <2>2, <2>3
<1>5. \A x : On(x)' => On(x)
  BY <1>1, <1>4 DEF On, bcVars
<1>6. \A x \in Parkers : Referenced(x)' => Referenced(x)
  BY <1>1, <1>3, <1>4, NoneAssumption DEF Referenced, bcVars, cbVars
<1>7. \A q \in Procs : par'[q] # None => par'[q] = par[q]
  BY <1>3
<1>8. \A x \in Parkers : ParkedOn(x) => ParkedOn(x)'
  BY <1>1, <1>3 DEF ParkedOn
<1>p1. Types'
  BY <1>1, <1>3, <1>4 DEF IInv, Types, ProcTypes, CtxTypes, ParkerTypes, SeqTypes, bcVars, cbVars
<1>p2. Owned'
  BY <1>3 DEF IInv, Owned, Owning, InWait
<1>p3. Pooled'
  BY <1>1, <1>6 DEF IInv, Pooled, Types, ParkerTypes
<1>p4. Once'
  BY <1>1, <1>4 DEF IInv, Once, bcVars
<1>p5. NotYet'
  BY <1>1, <1>3, <1>5 DEF IInv, NotYet, cbVars
<1>p6. Armed'
  BY <1>1, <1>3 DEF IInv, Armed
<1>p7. Reasons'
  BY <1>1, <1>5, <1>7 DEF IInv, Reasons, cbVars
<1>p8. Late'
  BY <1>1, <1>3 DEF IInv, Late
<1>p9. Clean'
  BY <1>1, <1>3, <1>5 DEF IInv, Clean, cbVars
<1>p10. ParkedOwner'
  BY <1>1, <1>8 DEF IInv, ParkedOwner
<1>p11. Readied'
  BY <1>1, <1>8 DEF IInv, Readied, Types, ParkerTypes, ProcTypes, bcVars, cbVars
<1>p12. Locked'
  BY <1>1, <1>3 DEF IInv, Locked
<1>p13. WaitersExact'
  BY <1>1, <1>3, CountKept DEF InWait
<1>p14. NoLostSignal'
  BY <1>1, <1>3, <1>4, <1>7 DEF IInv, NoLostSignal
<1> QED BY <1>p1, <1>p2, <1>p3, <1>p4, <1>p5, <1>p6, <1>p7, <1>p8, <1>p9, <1>p10, <1>p11, <1>p12,
           <1>p13, <1>p14
        DEF IInv

\* The Parker goes back to the pool.
LEMMA PutStep ==
    ASSUME IInv, NEW p \in Procs, Put(p)
    PROVE  IInv'
<1>0. pc[p] = "put"
  BY DEF Put
<1>k. PICK k \in Parkers : k = par[p]
  BY <1>0 DEF IInv, Types, ProcTypes, Owned, Owning, InWait
<1>1. /\ k = par[p] /\ k # None /\ None \notin Parkers
      /\ UNCHANGED <<lk, cond, armed, done, list, waiters, bcVars, cbVars>>
      /\ pool' = pool \cup {k}
  BY <1>k, NoneAssumption DEF Put
<1>2. /\ state' = [state EXCEPT ![k] = "init"] /\ g' = [g EXCEPT ![k] = None]
      /\ par' = [par EXCEPT ![p] = None] /\ pc' = [pc EXCEPT ![p] = "leave"]
  BY <1>k DEF Put, Goto
<1>3. /\ pc' \in [Procs -> Labels] /\ par' \in [Procs -> Parkers \cup {None}]
      /\ pc'[p] = "leave" /\ par'[p] = None
      /\ \A q \in Procs : q # p => pc'[q] = pc[q] /\ par'[q] = par[q] /\ par[q] # k
  BY <1>1, <1>2 DEF IInv, Types, ProcTypes, Labels, InWait, Owned
<1>4. /\ state' \in [Parkers -> {"init", "parked", "woken"}] /\ g' \in [Parkers -> Procs \cup {None}]
      /\ state'[k] = "init"
      /\ \A x \in Parkers : x # k => state'[x] = state[x] /\ g'[x] = g[x]
  BY <1>2 DEF IInv, Types, ParkerTypes
<1>5. ~ParkedOn(k)
  BY <1>0, <1>1 DEF IInv, ParkedOn, Owned
<1>6. ~On(k) /\ k \notin firing \cup cbReady /\ \A q \in Procs : ready[q] # k
  BY <1>0, <1>1, <1>5 DEF IInv, Clean, Readied
<1>7. \A x : On(x)' <=> On(x)
  BY <1>1 DEF On, bcVars
<1>8. /\ ~Referenced(k)'
      /\ \A x \in Parkers : Referenced(x)' => Referenced(x)
  <2>1. ~Referenced(k)'
    BY <1>1, <1>3, <1>6 DEF Referenced, On, bcVars, cbVars
  <2>2. \A x \in Parkers : Referenced(x)' => Referenced(x)
    BY <1>1, <1>3 DEF Referenced, bcVars, cbVars
  <2> QED BY <2>1, <2>2
<1>9. \A x \in Parkers : ParkedOn(x) => x # k /\ ParkedOn(x)'
  BY <1>0, <1>3, <1>4, <1>5 DEF ParkedOn
<1>10. \A q \in Procs : pc'[q] \in Owning => pc[q] \in Owning /\ par'[q] = par[q] /\ par[q] \in Parkers /\ par[q] # k
  BY <1>1, <1>3 DEF IInv, Types, ProcTypes, Owned, Owning, InWait
<1>11. \A q \in Procs : par'[q] # None => par'[q] = par[q] /\ par[q] \in Parkers /\ par[q] # k
  BY <1>3 DEF IInv, Types, ProcTypes
<1>p1. Types'
  BY <1>1, <1>3, <1>4 DEF IInv, Types, ProcTypes, CtxTypes, ParkerTypes, SeqTypes, bcVars, cbVars
<1>p2. Owned'
  BY <1>3 DEF IInv, Owned, Owning, InWait
<1>p3. Pooled'
  BY <1>1, <1>4, <1>8 DEF IInv, Pooled, Types, ParkerTypes
<1>p4. Once'
  BY <1>1 DEF IInv, Once, bcVars
<1>p5. NotYet'
  BY <1>1, <1>3, <1>4, <1>7, <1>10 DEF IInv, NotYet, Owning, InWait, cbVars
<1>p6. Armed'
  BY <1>0, <1>1, <1>3 DEF IInv, Armed
<1>p7. Reasons'
  BY <1>1, <1>4, <1>7, <1>11 DEF IInv, Reasons, cbVars
<1>p8. Late'
  BY <1>3, <1>4, <1>10 DEF IInv, Late, Owning, InWait
<1>p9. Clean'
  BY <1>1, <1>3, <1>7 DEF IInv, Clean, cbVars
<1>p10. ParkedOwner'
  BY <1>4, <1>9 DEF IInv, ParkedOwner
<1>p11. Readied'
  BY <1>1, <1>4, <1>9 DEF IInv, Readied, Types, ParkerTypes, ProcTypes, bcVars, cbVars
<1>p12. Locked'
  BY <1>1, <1>3 DEF IInv, Locked
<1>p13. WaitersExact'
  BY <1>0, <1>1, <1>3, CountKept DEF InWait
<1>p14. NoLostSignal'
  BY <1>0, <1>1, <1>3, <1>4, <1>11 DEF IInv, NoLostSignal
<1> QED BY <1>p1, <1>p2, <1>p3, <1>p4, <1>p5, <1>p6, <1>p7, <1>p8, <1>p9, <1>p10, <1>p11, <1>p12,
           <1>p13, <1>p14
        DEF IInv

\* Wait returns.
LEMMA LeaveStep ==
    ASSUME IInv, NEW p \in Procs, Leave(p)
    PROVE  IInv'
<1>1. /\ pc[p] = "leave" /\ waiters' = waiters - 1 /\ done' = [done EXCEPT ![p] = FALSE]
      /\ UNCHANGED <<lk, cond, par, armed, state, g, pool, list, bcVars, cbVars>>
  BY DEF Leave
<1>2. /\ pc' \in [Procs -> Labels] /\ pc'[p] = "out"
      /\ \A q \in Procs : q # p => pc'[q] = pc[q]
  BY DEF Leave, Goto, IInv, Types, ProcTypes, Labels, InWait
<1>3. CtxTypes' /\ \A q \in Procs : armed'[q] = armed[q] /\ (q # p => done'[q] = done[q])
  BY <1>1 DEF IInv, Types, CtxTypes
<1>4. WaitersExact'
  BY <1>1, <1>2, CountDown DEF InWait
<1>5. NoLostSignal'
  BY <1>1, <1>2 DEF IInv, NoLostSignal
<1>6. /\ par[p] = None /\ ~armed[p]
      /\ \A q \in Procs : pc[q] = "registered" => lk = q
  BY <1>1 DEF IInv, Owned, Armed, Locked, Owning, InWait
<1> QED BY <1>1, <1>2, <1>3, <1>4, <1>5, <1>6, CallerStep DEF Owning, InWait

-----------------------------------------------------------------------------
(***************************************************************************)
(* The context and its callback.                                           *)
(***************************************************************************)

\* The ctx of a Wait is done.
LEMMA CtxDoneStep ==
    ASSUME IInv, NEW p \in Procs, CtxDone(p)
    PROVE  IInv'
<1>1. /\ done' = [done EXCEPT ![p] = TRUE]
      /\ UNCHANGED <<lk, cond, pc, par, armed, sigVars, bcVars, cbVars>>
  BY DEF CtxDone
<1>2. /\ pc' \in [Procs -> Labels] /\ pc' = pc
  BY <1>1 DEF IInv, Types, ProcTypes
<1>3. CtxTypes' /\ done'[p] /\ \A q \in Procs : armed'[q] = armed[q] /\ (q # p => done'[q] = done[q])
  BY <1>1 DEF IInv, Types, CtxTypes
<1>4. WaitersExact'
  BY <1>1, <1>2, CountKept DEF sigVars
<1>5. NoLostSignal'
  BY <1>1 DEF IInv, NoLostSignal, sigVars
<1>6. /\ par[p] # None /\ ((state[par[p]] = "woken" /\ On(par[p])) \/ par[p] \in firing) => ~armed[p]
      /\ armed[p] => pc[p] \in {"park", "parked", "unparked"}
      /\ pc[p] \in {"release", "put"} => ~On(par[p]) /\ par[p] \notin firing
      /\ \A q \in Procs : pc[q] = "registered" => lk = q
  BY DEF IInv, Reasons, Armed, Clean, Locked
<1>7. UNCHANGED <<par, state, g, pool, list, bcVars, cbVars>>
  BY <1>1 DEF sigVars
<1> QED BY <1>1, <1>2, <1>3, <1>4, <1>5, <1>6, <1>7, CallerStep

\* The callback of p starts.
LEMMA FireStep ==
    ASSUME IInv, NEW p \in Procs, Fire(p)
    PROVE  IInv'
<1>1. /\ armed[p] /\ done[p] /\ armed' = [armed EXCEPT ![p] = FALSE]
      /\ firing' = firing \cup {par[p]}
      /\ UNCHANGED <<lk, cond, pc, par, done, sigVars, bcVars, cbReady>>
  BY DEF Fire
<1>2. pc[p] \in {"park", "parked", "unparked"} /\ par[p] \in Parkers /\ par[p] # None
  BY <1>1 DEF IInv, Armed, Types, ProcTypes, Owned, Owning, InWait
<1>3. CtxTypes' /\ ~armed'[p] /\ \A q \in Procs : (q # p => armed'[q] = armed[q]) /\ done'[q] = done[q]
  BY <1>1 DEF IInv, Types, CtxTypes
<1>4. \A x : On(x)' <=> On(x)
  BY <1>1 DEF On, bcVars, sigVars
<1>5. \A x : Referenced(x)' => Referenced(x)
  BY <1>1 DEF Referenced, bcVars, sigVars
<1>6. \A x : ParkedOn(x)' <=> ParkedOn(x)
  BY <1>1 DEF ParkedOn, sigVars
<1>7. \A q \in Procs : par[q] # None /\ q # p => par[q] # par[p]
  BY <1>2 DEF IInv, Owned
<1>p1. Types'
  BY <1>1, <1>2, <1>3 DEF IInv, Types, ProcTypes, CtxTypes, ParkerTypes, SeqTypes, bcVars, sigVars
<1>p2. Owned'
  BY <1>1 DEF IInv, Owned
<1>p3. Pooled'
  BY <1>1, <1>5 DEF IInv, Pooled, sigVars
<1>p4. Once'
  BY <1>1 DEF IInv, Once, bcVars, sigVars
<1>p5. NotYet'
  BY <1>1, <1>2, <1>4, <1>7 DEF IInv, NotYet, Owned, Owning, InWait, sigVars
<1>p6. Armed'
  BY <1>1, <1>3 DEF IInv, Armed
<1>p7. Reasons'
  BY <1>1, <1>3, <1>4, <1>7 DEF IInv, Reasons, sigVars
<1>p8. Late'
  BY <1>1 DEF IInv, Late, sigVars
<1>p9. Clean'
  BY <1>1, <1>2, <1>4, <1>7 DEF IInv, Clean, Owned, Owning, InWait
<1>p10. ParkedOwner'
  BY <1>1, <1>6 DEF IInv, ParkedOwner, sigVars
<1>p11. Readied'
  BY <1>1, <1>6 DEF IInv, Readied, bcVars, sigVars
<1>p12. Locked'
  BY <1>1 DEF IInv, Locked
<1>p13. WaitersExact'
  BY <1>1, CountKept DEF sigVars
<1>p14. NoLostSignal'
  BY <1>1 DEF IInv, NoLostSignal, sigVars
<1> QED BY <1>p1, <1>p2, <1>p3, <1>p4, <1>p5, <1>p6, <1>p7, <1>p8, <1>p9, <1>p10, <1>p11, <1>p12,
           <1>p13, <1>p14
        DEF IInv

\* The callback swaps the state.
LEMMA WakeStep ==
    ASSUME IInv, NEW k \in Parkers, Wake(k)
    PROVE  IInv'
<1>1. /\ k \in firing /\ Swap(k) /\ firing' = firing \ {k}
      /\ cbReady' = IF state[k] = "parked" THEN cbReady \cup {k} ELSE cbReady
      /\ UNCHANGED <<lk, cond, pc, par, armed, done, g, pool, list, waiters, bcVars>>
  BY DEF Wake
<1>2. ProcTypes' /\ ParkerTypes' /\ SeqTypes' /\ Once'
  BY <1>1 DEF IInv, Types, ProcTypes, ParkerTypes, SeqTypes, Once, Swap, bcVars
<1>3. /\ Referenced(k)
      /\ \A x \in Parkers : (On(x)' => On(x)) /\ (Referenced(x)' => Referenced(x))
  BY <1>1 DEF On, Referenced, bcVars
<1>4. \A p \in Procs : par[p] = k => done[p] /\ ~armed[p] /\ pc[p] \notin {"registered", "unlocked"}
  BY <1>1, NoneAssumption DEF IInv, Reasons, NotYet
<1>5. Readied'
  <2>1. \A x : ParkedOn(x)' <=> ParkedOn(x)
    BY <1>1 DEF ParkedOn
  <2>2. \A x \in Parkers : state'[x] = IF x = k THEN "woken" ELSE state[x]
    BY <1>1 DEF IInv, Types, ParkerTypes, Swap
  <2>3. state[k] = "parked" => ParkedOn(k) /\ \A q \in Procs : ready[q] # k
    BY NoneAssumption DEF IInv, ParkedOwner, Readied
  <2> QED BY <1>1, <2>1, <2>2, <2>3 DEF IInv, Readied, Types, ParkerTypes, ProcTypes, bcVars
<1> QED BY <1>1, <1>2, <1>3, <1>4, <1>5, SwapStep

-----------------------------------------------------------------------------
(***************************************************************************)
(* Broadcast and the callers of Signal.                                    *)
(***************************************************************************)

\* Mutate, Close and Take: whoever is on the list has been counted, so a
\* mutator that finds no waiters leaves nobody behind.
LEMMA CondStep ==
    ASSUME IInv, NEW p \in Procs, Mutate(p) \/ Close(p) \/ Take(p)
    PROVE  IInv'
<1>1. /\ pc[p] = "out" /\ lk = None
      /\ UNCHANGED <<par, armed, done, sigVars, bcVars, cbVars>>
      /\ \/ waiters > 0 /\ pc' = [pc EXCEPT ![p] = "steal"]
         \/ waiters = 0 /\ UNCHANGED pc
         \/ ~cond' /\ UNCHANGED pc
         \/ pc' = [pc EXCEPT ![p] = "steal"]
  <2>1. waiters \in Nat
    <3>1. IsFiniteSet(Counted)
      BY ProcsAssumption, FS_Subset DEF Counted
    <3> QED BY <3>1, FS_CardinalityType DEF IInv, WaitersExact
  <2> QED BY <2>1 DEF Mutate, Close, Take, Goto
<1>2. /\ pc' \in [Procs -> Labels] /\ pc'[p] \in {"out", "steal"}
      /\ \A q \in Procs : q # p => pc'[q] = pc[q]
  BY <1>1 DEF IInv, Types, ProcTypes, Labels, InWait
<1>3. \A q \in Procs : pc[q] # "registered"
  BY <1>1, NoneAssumption DEF IInv, Locked
<1>4. waiters = 0 => \A q \in Procs : par[q] = None
  <2>1. IsFiniteSet(Counted) /\ waiters = Cardinality(Counted)
    BY ProcsAssumption, FS_Subset DEF Counted, IInv, WaitersExact
  <2>2. waiters = 0 => Counted = {}
    BY <2>1, FS_EmptySet
  <2> QED BY <1>3, <2>2 DEF Counted, IInv, Owned, Owning
<1>5. NoLostSignal'
  <2>1. CASE pc' = [pc EXCEPT ![p] = "steal"]
    <3>1. pc'[p] = "steal"
      BY <2>1 DEF IInv, Types, ProcTypes
    <3> QED BY <3>1 DEF NoLostSignal
  <2>2. CASE waiters = 0
    BY <1>1, <1>4, <2>2 DEF NoLostSignal
  <2>3. CASE ~cond'
    BY <2>3 DEF NoLostSignal
  <2> QED BY <1>1, <2>1, <2>2, <2>3
<1>6. WaitersExact'
  BY <1>1, <1>2, CountKept DEF InWait, sigVars
<1>7. CtxTypes' /\ \A q \in Procs : armed'[q] = armed[q] /\ done'[q] = done[q]
  BY <1>1 DEF IInv, Types, CtxTypes
<1>8. par[p] = None /\ ~armed[p]
  BY <1>1 DEF IInv, Owned, Armed, Owning, InWait
<1>9. UNCHANGED <<par, state, g, pool, list, bcVars, cbVars>>
  BY <1>1 DEF sigVars
<1>10. \A q \in Procs : pc'[q] # "registered"
  BY <1>2, <1>3
<1> QED BY <1>1, <1>2, <1>5, <1>6, <1>7, <1>8, <1>9, <1>10, CallerStep DEF Owning, InWait

\* Broadcast takes the list.
LEMMA StealStep ==
    ASSUME IInv, NEW p \in Procs, Steal(p)
    PROVE  IInv'
<1>1. /\ pc[p] = "steal" /\ stolen' = [stolen EXCEPT ![p] = list] /\ list' = <<>>
      /\ UNCHANGED <<lk, cond, par, armed, done, state, g, pool, waiters, ready, cbVars>>
  BY DEF Steal
<1>2. /\ pc' \in [Procs -> Labels] /\ pc'[p] = "swap"
      /\ \A q \in Procs : q # p => pc'[q] = pc[q]
  BY DEF Steal, Goto, IInv, Types, ProcTypes, Labels, InWait
<1>3. /\ list' \in Seq(Parkers) /\ stolen' \in [Procs -> Seq(Parkers)]
      /\ stolen'[p] = list /\ \A q \in Procs : q # p => stolen'[q] = stolen[q]
      /\ Distinct(list') /\ \A x : ~Contains(list', x)
  BY <1>1, EmptyList DEF IInv, Types, SeqTypes
<1>4. \A x : On(x)' => On(x)
  BY <1>3 DEF On
<1>5. \A x : Referenced(x)' => Referenced(x)
  BY <1>1, <1>3 DEF Referenced, cbVars
<1>6. \A x : ParkedOn(x) => ParkedOn(x)'
  BY <1>1, <1>2 DEF ParkedOn
<1>p1. Types'
  BY <1>1, <1>2, <1>3 DEF IInv, Types, ProcTypes, CtxTypes, ParkerTypes, SeqTypes, cbVars
<1>p2. Owned'
  BY <1>1, <1>2 DEF IInv, Owned, Owning, InWait
<1>p3. Pooled'
  BY <1>1, <1>5 DEF IInv, Pooled
<1>p4. Once'
  BY <1>3 DEF IInv, Once
<1>p5. NotYet'
  BY <1>1, <1>2, <1>4 DEF IInv, NotYet, cbVars
<1>p6. Armed'
  BY <1>1, <1>2 DEF IInv, Armed
<1>p7. Reasons'
  BY <1>1, <1>4 DEF IInv, Reasons, cbVars
<1>p8. Late'
  BY <1>1, <1>2 DEF IInv, Late
<1>p9. Clean'
  BY <1>1, <1>2, <1>4 DEF IInv, Clean, cbVars
<1>p10. ParkedOwner'
  BY <1>1, <1>6 DEF IInv, ParkedOwner
<1>p11. Readied'
  BY <1>1, <1>6 DEF IInv, Readied, cbVars
<1>p12. Locked'
  BY <1>1, <1>2 DEF IInv, Locked
<1>p13. WaitersExact'
  BY <1>1, <1>2, CountKept DEF InWait
<1>p14. NoLostSignal'
  BY <1>3 DEF NoLostSignal
<1> QED BY <1>p1, <1>p2, <1>p3, <1>p4, <1>p5, <1>p6, <1>p7, <1>p8, <1>p9, <1>p10, <1>p11, <1>p12,
           <1>p13, <1>p14
        DEF IInv

\* Broadcast swaps the state of the next Parker.
LEMMA BroadcastSwapStep ==
    ASSUME IInv, NEW p \in Procs, BroadcastSwap(p)
    PROVE  IInv'
<1>1. /\ stolen[p] # <<>> /\ ready[p] = None
      /\ UNCHANGED <<lk, cond, pc, par, armed, done, g, pool, list, waiters, cbVars>>
  BY DEF BroadcastSwap
<1>2. /\ Tail(stolen[p]) \in Seq(Parkers) /\ Head(stolen[p]) \in Parkers
      /\ Contains(stolen[p], Head(stolen[p]))
      /\ \A x : Contains(Tail(stolen[p]), x) => Contains(stolen[p], x)
      /\ Distinct(Tail(stolen[p])) /\ ~Contains(Tail(stolen[p]), Head(stolen[p]))
  BY <1>1, TailEffect DEF IInv, Types, SeqTypes, Once
<1>3. PICK k \in Parkers : k = Head(stolen[p])
  BY <1>2
<1>4. /\ Swap(k) /\ ready' = [ready EXCEPT ![p] = IF state[k] = "parked" THEN k ELSE None]
      /\ stolen' = [stolen EXCEPT ![p] = Tail(@)]
  BY <1>3 DEF BroadcastSwap
<1>5. /\ stolen' \in [Procs -> Seq(Parkers)] /\ stolen'[p] = Tail(stolen[p])
      /\ \A q \in Procs : q # p => stolen'[q] = stolen[q]
  BY <1>2, <1>4 DEF IInv, Types, SeqTypes
<1>6. /\ ready' \in [Procs -> Parkers \cup {None}]
      /\ ready'[p] = IF state[k] = "parked" THEN k ELSE None
      /\ \A q \in Procs : q # p => ready'[q] = ready[q]
  BY <1>4 DEF IInv, Types, ProcTypes
<1>7. ProcTypes' /\ ParkerTypes' /\ SeqTypes'
  BY <1>1, <1>4, <1>5, <1>6 DEF IInv, Types, ProcTypes, ParkerTypes, SeqTypes, Swap, cbVars
<1>8. \A q \in Procs : Distinct(stolen'[q]) /\ \A x : Contains(stolen'[q], x) => Contains(stolen[q], x)
  BY <1>2, <1>5 DEF IInv, Once
<1>9. Once'
  BY <1>1, <1>8 DEF IInv, Once
<1>10. /\ Referenced(k) /\ ~On(k)'
       /\ \A x \in Parkers : (On(x)' => On(x)) /\ (Referenced(x)' => Referenced(x))
  <2>1. Referenced(k)
    BY <1>2, <1>3 DEF Referenced
  <2>2. ~On(k)'
    BY <1>1, <1>2, <1>3, <1>5 DEF On, IInv, Once
  <2>3. \A x \in Parkers : On(x)' => On(x)
    BY <1>1, <1>8 DEF On
  <2>4. \A x \in Parkers : Referenced(x)' => Referenced(x)
    BY <1>1, <1>6, <1>8, <2>1, NoneAssumption DEF Referenced, cbVars
  <2> QED BY <2>1, <2>2, <2>3, <2>4
<1>11. Readied'
  <2>1. \A x : ParkedOn(x)' <=> ParkedOn(x)
    BY <1>1 DEF ParkedOn
  <2>2. \A x \in Parkers : state'[x] = IF x = k THEN "woken" ELSE state[x]
    BY <1>4 DEF IInv, Types, ParkerTypes, Swap
  <2>3. state[k] = "parked" => ParkedOn(k) /\ k \notin cbReady /\ \A q \in Procs : ready[q] # k
    BY NoneAssumption DEF IInv, ParkedOwner, Readied
  <2>4. None \notin Parkers /\ cbReady \subseteq Parkers /\ cbReady' = cbReady
    BY <1>1, NoneAssumption DEF IInv, Types, ParkerTypes, cbVars
  <2> QED BY <1>6, <2>1, <2>2, <2>3, <2>4 DEF IInv, Readied, Types, ProcTypes
<1>12. firing' \subseteq firing
  BY <1>1 DEF cbVars
<1> QED BY <1>1, <1>4, <1>7, <1>9, <1>10, <1>11, <1>12, SwapStep

\* The two calls of goready.
LEMMA GoreadySteps ==
    ASSUME IInv,
           (\E k \in Parkers : WakeGoready(k)) \/ (\E p \in Procs : BroadcastGoready(p))
    PROVE  IInv'
<1>0. /\ ready \in [Procs -> Parkers \cup {None}] /\ None \notin Parkers
      /\ cbReady \subseteq Parkers
  BY NoneAssumption DEF IInv, Types, ProcTypes, ParkerTypes
<1>1. ASSUME NEW k \in Parkers, WakeGoready(k)
      PROVE  IInv'
  <2>1. /\ k \in cbReady /\ Goready(k) /\ cbReady' = cbReady \ {k}
        /\ UNCHANGED <<lk, cond, par, armed, done, sigVars, bcVars, firing>>
    BY <1>1 DEF WakeGoready
  <2>2. state[k] = "woken" /\ ParkedOn(k) /\ \A q \in Procs : ready[q] # k
    BY <2>1 DEF IInv, Readied
  <2>3. UNCHANGED <<stolen, ready>>
    BY <2>1 DEF bcVars
  <2> QED BY <1>0, <2>1, <2>2, <2>3, GoreadyStep
<1>2. ASSUME NEW p \in Procs, BroadcastGoready(p)
      PROVE  IInv'
  <2>1. PICK k \in Parkers : k = ready[p]
    BY <1>0, <1>2 DEF BroadcastGoready
  <2>2. /\ Goready(k) /\ ready' = [ready EXCEPT ![p] = None]
        /\ UNCHANGED <<lk, cond, par, armed, done, sigVars, stolen, cbVars>>
    BY <1>2, <2>1 DEF BroadcastGoready
  <2>3. state[k] = "woken" /\ ParkedOn(k) /\ k \notin cbReady /\ \A q \in Procs : q # p => ready[q] # k
    BY <1>0, <2>1 DEF IInv, Readied
  <2>4. /\ ready' \in [Procs -> Parkers \cup {None}] /\ ready'[p] = None
        /\ \A q \in Procs : q # p => ready'[q] = ready[q]
    BY <1>0, <2>2
  <2>5. UNCHANGED <<firing, cbReady>>
    BY <2>2 DEF cbVars
  <2> QED BY <2>2, <2>3, <2>4, <2>5, GoreadyStep
<1> QED BY <1>1, <1>2

\* Broadcast is done.
LEMMA BroadcastEndStep ==
    ASSUME IInv, NEW p \in Procs, BroadcastEnd(p)
    PROVE  IInv'
<1>1. /\ pc[p] = "swap" /\ lk' = IF lk = p THEN None ELSE lk
      /\ UNCHANGED <<cond, par, armed, done, sigVars, bcVars, cbVars>>
  BY DEF BroadcastEnd
<1>2. /\ pc' \in [Procs -> Labels] /\ pc'[p] = "out"
      /\ \A q \in Procs : q # p => pc'[q] = pc[q]
  BY DEF BroadcastEnd, Goto, IInv, Types, ProcTypes, Labels, InWait
<1>3. CtxTypes' /\ \A q \in Procs : armed'[q] = armed[q] /\ done'[q] = done[q]
  BY <1>1 DEF IInv, Types, CtxTypes
<1>4. WaitersExact'
  BY <1>1, <1>2, CountKept DEF InWait, sigVars
<1>5. NoLostSignal'
  BY <1>1, <1>2 DEF IInv, NoLostSignal, sigVars
<1>6. /\ par[p] = None /\ ~armed[p]
      /\ \A q \in Procs : pc'[q] = "registered" => lk' = q
  BY <1>1, <1>2 DEF IInv, Owned, Armed, Locked, Owning, InWait
<1>7. UNCHANGED <<par, state, g, pool, list, bcVars, cbVars>>
  BY <1>1 DEF sigVars
<1> QED BY <1>1, <1>2, <1>3, <1>4, <1>5, <1>6, <1>7, CallerStep DEF Owning, InWait

-----------------------------------------------------------------------------
(***************************************************************************)
(* The theorems.                                                           *)
(***************************************************************************)

\* Nobody waits at first.
LEMMA InitInvariant == Init => IInv
<1> SUFFICES ASSUME Init PROVE IInv
  OBVIOUS
<1>1. /\ \A p \in Procs : pc[p] = "out" /\ par[p] = None /\ ~armed[p] /\ ready[p] = None
      /\ \A k \in Parkers : state[k] = "init"
      /\ pool = {} /\ firing = {} /\ cbReady = {} /\ waiters = 0
      /\ list = <<>> /\ \A p \in Procs : stolen[p] = <<>>
  BY DEF Init
<1>2. ProcTypes /\ ParkerTypes
  BY DEF Init, ProcTypes, ParkerTypes, Labels
<1>3. CtxTypes /\ SeqTypes
  <2>1. armed \in [Procs -> BOOLEAN] /\ done \in [Procs -> BOOLEAN]
    BY DEF Init
  <2>2. list \in Seq(Parkers) /\ stolen \in [Procs -> Seq(Parkers)]
    BY EmptySeq DEF Init
  <2> QED BY <2>1, <2>2 DEF CtxTypes, SeqTypes
<1>4. Owned /\ NotYet /\ Armed /\ Reasons /\ Late /\ Clean /\ Locked /\ NoLostSignal
  BY <1>1 DEF Owned, NotYet, Armed, Reasons, Late, Clean, Locked, NoLostSignal, Owning, InWait
<1>5. Pooled /\ ParkedOwner /\ Readied
  BY <1>1 DEF Pooled, ParkedOwner, Readied
<1>6. Once
  BY <1>1, EmptyList DEF Once
<1>7. WaitersExact
  <2>1. Counted = {}
    BY <1>1 DEF Counted, InWait
  <2> QED BY <1>1, <2>1, FS_EmptySet DEF WaitersExact
<1> QED BY <1>2, <1>3, <1>4, <1>5, <1>6, <1>7 DEF IInv, Types

\* Every step keeps the invariant.
LEMMA NextInvariant == IInv /\ [Next]_vars => IInv'
<1> SUFFICES ASSUME IInv, [Next]_vars PROVE IInv'
  OBVIOUS
<1>1. ASSUME NEW p \in Procs, Register(p) \/ Unlock(p) \/ AfterFunc(p) \/ Park(p) \/ Cancel(p)
      PROVE  IInv'
  BY <1>1, RegisterStep, UnlockStep, AfterFuncStep, ParkStep, CancelStep
<1>2. ASSUME NEW p \in Procs, Release(p) \/ Detach(p) \/ Put(p) \/ Leave(p) \/ CtxDone(p) \/ Fire(p)
      PROVE  IInv'
  BY <1>2, UnlistStep, PutStep, LeaveStep, CtxDoneStep, FireStep
<1>3. ASSUME NEW p \in Procs,
             \/ Mutate(p) \/ Close(p) \/ Take(p)
             \/ Steal(p) \/ BroadcastSwap(p) \/ BroadcastGoready(p) \/ BroadcastEnd(p)
      PROVE  IInv'
  BY <1>3, CondStep, StealStep, BroadcastSwapStep, GoreadySteps, BroadcastEndStep
<1>4. ASSUME NEW k \in Parkers, Callback(k)
      PROVE  IInv'
  BY <1>4, WakeStep, GoreadySteps DEF Callback
<1>5. CASE UNCHANGED vars
  <2>1. /\ UNCHANGED <<lk, cond, pc, par, armed, done, state, g, pool, list, waiters>>
        /\ UNCHANGED <<stolen, ready, firing, cbReady>>
    BY <1>5 DEF vars, sigVars, bcVars, cbVars
  <2>2. \A k : (On(k)' <=> On(k)) /\ (Referenced(k)' <=> Referenced(k)) /\ (ParkedOn(k)' <=> ParkedOn(k))
    BY <2>1 DEF On, Referenced, ParkedOn
  <2>3. WaitersExact'
    BY <2>1, CountKept
  <2>4. Types' /\ Owned' /\ Pooled' /\ Once' /\ NotYet'
    BY <2>1, <2>2 DEF IInv, Types, ProcTypes, CtxTypes, ParkerTypes, SeqTypes, Owned, Pooled, Once, NotYet
  <2>5. Armed' /\ Reasons' /\ Late' /\ Clean' /\ ParkedOwner' /\ Readied' /\ Locked' /\ NoLostSignal'
    BY <2>1, <2>2 DEF IInv, Armed, Reasons, Late, Clean, ParkedOwner, Readied, Locked, NoLostSignal
  <2> QED BY <2>3, <2>4, <2>5 DEF IInv
<1> QED BY <1>1, <1>2, <1>3, <1>4, <1>5 DEF Next, Progress

\* The invariant holds throughout every behaviour of the Signal, whatever the
\* number of goroutines and Parkers.
THEOREM SignalInvariance == Spec => []IInv
<1>1. Init => IInv
  BY InitInvariant
<1>2. IInv /\ [Next]_vars => IInv'
  BY NextInvariant
<1> QED BY <1>1, <1>2, PTL DEF Spec

\* Every goready of Wake and Broadcast is for a goroutine parked on that very
\* Parker, and a Parker in use is woken only for its owner's sake, although
\* Parkers are pooled and callbacks outlive the Wait that armed them.
THEOREM ParkersWokenRightly == Spec => []WokenRightly
<1>1. IInv => WokenRightly
  <2> SUFFICES ASSUME IInv PROVE WokenRightly
    OBVIOUS
  <2>1. GoreadyOnParked
    <3>1. \A k \in cbReady \cup ({ready[p] : p \in Procs} \ {None}) : ParkedOn(k)
      BY DEF IInv, Readied
    <3>2. \A k : ParkedOn(k) => g[k] # None /\ pc[g[k]] = "parked" /\ par[g[k]] = k
      BY NoneAssumption DEF ParkedOn
    <3>3. /\ \A p \in Procs : ready[p] \notin cbReady
          /\ \A p, q \in Procs : ready[p] = ready[q] /\ ready[p] # None => p = q
      BY DEF IInv, Readied
    <3> QED BY <3>1, <3>2, <3>3 DEF GoreadyOnParked
  <2>2. NoStaleWake
    BY DEF IInv, Reasons, NoStaleWake, On
  <2> QED BY <2>1, <2>2 DEF WokenRightly
<1> QED BY <1>1, SignalInvariance, PTL

\* While the condition holds, a goroutine on the list that nobody has woken
\* has a Broadcast coming: neither the gap between the unlock and the park nor
\* the HasWaiters gate of Signal's callers loses a wakeup.
THEOREM SignalsNotLost == Spec => []NoLostSignal
<1>1. IInv => NoLostSignal
  BY DEF IInv
<1> QED BY <1>1, SignalInvariance, PTL

-----------------------------------------------------------------------------
(***************************************************************************)
(* The contract of a Signal, step by step.  A Wait is released at the      *)
(* moment its Parker leaves the list or is woken on it, which is a single  *)
(* step for all of them in a Broadcast, the Steal.                         *)
(***************************************************************************)

Unwoken(p) == par[p] # None /\ Contains(list, par[p]) /\ state[par[p]] # "woken"

\* Waiter in terms of pc and Unwoken.
LEMMA WaiterIs ==
    /\ Waiter \in [Procs -> {"out", "waiting", "released"}]
    /\ \A p \in Procs :
        Waiter[p] = IF pc[p] \notin InWait THEN "out" ELSE IF Unwoken(p) THEN "waiting" ELSE "released"
  BY DEF Waiter, Unwoken

\* A step after which everybody is in the same position is a stutter.
LEMMA SameWaiter ==
    ASSUME \A p \in Procs : (pc'[p] \in InWait <=> pc[p] \in InWait) /\ (Unwoken(p)' <=> Unwoken(p))
    PROVE  Waiter' = Waiter
  BY DEF Waiter, Unwoken

\* p alone changes its position.
LEMMA OneWaiter ==
    ASSUME NEW p \in Procs,
           \A q \in Procs : q # p => (pc'[q] \in InWait <=> pc[q] \in InWait) /\ (Unwoken(q)' <=> Unwoken(q))
    PROVE  Waiter' = [Waiter EXCEPT ![p] = IF pc'[p] \notin InWait THEN "out"
                                           ELSE IF Unwoken(p)' THEN "waiting" ELSE "released"]
  BY DEF Waiter, Unwoken

\* Register is Wait, and Leave is Return.
LEMMA EnterLeave ==
    ASSUME IInv, IInv', NEW p \in Procs, Register(p) \/ Leave(p)
    PROVE  Contract!Wait(p) \/ Contract!Return(p)
<1>1. CASE Register(p)
  <2>1. PICK k \in Parkers :
          /\ ~Referenced(k) /\ par' = [par EXCEPT ![p] = k] /\ list' = Append(list, k)
          /\ state'[k] = "init" /\ \A x \in Parkers : x # k => state'[x] = state[x]
    BY <1>1 DEF Register, IInv, Pooled, Types, ParkerTypes
  <2>2. /\ pc[p] = "out" /\ pc'[p] = "registered"
        /\ \A q \in Procs : q # p => pc'[q] = pc[q]
    BY <1>1 DEF Register, Goto, IInv, Types, ProcTypes
  <2>3. \A x : Contains(list', x) <=> Contains(list, x) \/ x = k
    BY <2>1, AppendEffect DEF IInv, Types, SeqTypes
  <2>4. /\ par'[p] = k
        /\ \A q \in Procs : q # p => par'[q] = par[q] /\ par[q] # k /\ (par[q] # None => par[q] \in Parkers)
    BY <2>1 DEF IInv, Types, ProcTypes, Referenced
  <2>5. Unwoken(p)' /\ \A q \in Procs : q # p => (Unwoken(q)' <=> Unwoken(q))
    BY <2>1, <2>3, <2>4, NoneAssumption DEF Unwoken
  <2>6. Waiter' = [Waiter EXCEPT ![p] = "waiting"]
    BY <2>2, <2>5, OneWaiter DEF InWait
  <2>7. Waiter[p] = "out"
    BY <2>2, WaiterIs DEF InWait
  <2> QED BY <2>6, <2>7 DEF Contract!Wait
<1>2. CASE Leave(p)
  <2>1. /\ pc[p] = "leave" /\ pc'[p] = "out" /\ par[p] = None
        /\ \A q \in Procs : q # p => pc'[q] = pc[q]
        /\ UNCHANGED <<par, list, state>>
    BY <1>2 DEF Leave, Goto, IInv, Types, ProcTypes, Owned, Owning, InWait
  <2>2. \A q \in Procs : Unwoken(q)' <=> Unwoken(q)
    BY <2>1 DEF Unwoken
  <2>3. Waiter' = [Waiter EXCEPT ![p] = "out"]
    BY <2>1, <2>2, OneWaiter DEF InWait
  <2>4. Waiter[p] = "released"
    BY <2>1, WaiterIs DEF InWait, Unwoken
  <2> QED BY <2>3, <2>4 DEF Contract!Return
<1> QED BY <1>1, <1>2

\* The steps inside Wait and those of the callers of Signal are invisible.
LEMMA InvisibleSteps ==
    ASSUME IInv, NEW p \in Procs,
           \/ Unlock(p) \/ AfterFunc(p) \/ Park(p) \/ Cancel(p) \/ CtxDone(p) \/ Fire(p)
           \/ Mutate(p) \/ Close(p) \/ Take(p) \/ BroadcastEnd(p)
    PROVE  Waiter' = Waiter
<1>1. \A q \in Procs : pc'[q] \in InWait <=> pc[q] \in InWait
  BY DEF IInv, Types, ProcTypes, InWait, Goto, Unlock, AfterFunc, Park, Cancel, CtxDone, Fire, Mutate,
     Close, Take, BroadcastEnd
<1>2. UNCHANGED <<par, list>>
  BY DEF Unlock, AfterFunc, Park, Cancel, CtxDone, Fire, Mutate, Close, Take, BroadcastEnd, sigVars
<1>3. \A q \in Procs : par[q] # None => (state'[par[q]] = "woken" <=> state[par[q]] = "woken")
  <2>1. CASE Park(p)
    BY <2>1 DEF Park, IInv, Types, ProcTypes, ParkerTypes
  <2>2. CASE ~Park(p)
    <3>1. UNCHANGED state
      BY <2>2 DEF Unlock, AfterFunc, Cancel, CtxDone, Fire, Mutate, Close, Take, BroadcastEnd, sigVars
    <3> QED BY <3>1
  <2> QED BY <2>1, <2>2
<1> QED BY <1>1, <1>2, <1>3, SameWaiter DEF Unwoken

\* So are the return of the Parker and the goready.
LEMMA InvisibleReturn ==
    ASSUME IInv, NEW p \in Procs, Release(p) \/ Detach(p) \/ Put(p) \/ BroadcastGoready(p)
    PROVE  Waiter' = Waiter
<1>1. CASE Release(p) \/ Detach(p)
  <2>1. /\ pc[p] \in {"release", "detach"} /\ pc'[p] \in {"put", "leave"}
        /\ \A q \in Procs : q # p => pc'[q] = pc[q] /\ par'[q] = par[q]
        /\ UNCHANGED state
    BY <1>1 DEF Release, Detach, Unlist, Goto, IInv, Types, ProcTypes
  <2>2. par'[p] \in {par[p], None} /\ par[p] # None /\ state[par[p]] = "woken"
    BY <1>1, <2>1 DEF Release, Detach, IInv, Types, ProcTypes, Late, Owned, Owning, InWait
  <2>3. \A x : x # par[p] => (Contains(list', x) <=> Contains(list, x))
    <3>1. list \in Seq(Parkers) /\ Distinct(list)
      BY DEF IInv, Types, SeqTypes, Once
    <3>2. \/ UNCHANGED list
          \/ \E i \in 1..Len(list) : list[i] = par[p] /\ list' = RemoveAt(list, i)
      BY <1>1 DEF Release, Detach, Unlist
    <3> QED BY <3>1, <3>2, RemoveAtEffect
  <2>4. \A q \in Procs : q # p => (Unwoken(q)' <=> Unwoken(q))
    BY <2>1, <2>2, <2>3 DEF Unwoken, IInv, Owned
  <2>5. ~Unwoken(p) /\ ~Unwoken(p)'
    BY <2>1, <2>2 DEF Unwoken
  <2> QED BY <2>1, <2>4, <2>5, SameWaiter DEF InWait
<1>2. CASE Put(p)
  <2>1. /\ pc[p] = "put" /\ pc'[p] = "leave" /\ par'[p] = None
        /\ \A q \in Procs : q # p => pc'[q] = pc[q] /\ par'[q] = par[q]
        /\ UNCHANGED list /\ state' = [state EXCEPT ![par[p]] = "init"]
    BY <1>2 DEF Put, Goto, IInv, Types, ProcTypes
  <2>2. /\ par[p] # None /\ state[par[p]] = "woken"
        /\ \A q \in Procs : q # p /\ par[q] # None => par[q] # par[p] /\ par[q] \in Parkers
    BY <2>1 DEF IInv, Types, ProcTypes, Late, Owned, Owning, InWait
  <2>3. \A q \in Procs : q # p /\ par[q] # None => state'[par[q]] = state[par[q]]
    BY <2>1, <2>2 DEF IInv, Types, ParkerTypes
  <2>4. \A q \in Procs : Unwoken(q)' <=> Unwoken(q)
    BY <2>1, <2>2, <2>3 DEF Unwoken
  <2> QED BY <2>1, <2>4, SameWaiter DEF InWait
<1>3. CASE BroadcastGoready(p)
  <2>1. ParkedOn(ready[p]) /\ Goready(ready[p]) /\ UNCHANGED <<par, list, state>>
    BY <1>3 DEF BroadcastGoready, IInv, Readied, sigVars
  <2>2. \A q \in Procs : pc'[q] \in InWait <=> pc[q] \in InWait
    BY <2>1 DEF Goready, ParkedOn, IInv, Types, ProcTypes, InWait
  <2> QED BY <2>1, <2>2, SameWaiter DEF Unwoken
<1> QED BY <1>1, <1>2, <1>3

\* A Broadcast releases them all when it steals the list; the swaps that
\* follow are invisible.
LEMMA BroadcastIsSignal ==
    ASSUME IInv, NEW p \in Procs, Steal(p) \/ BroadcastSwap(p)
    PROVE  Contract!Signal \/ Waiter' = Waiter
<1>1. CASE Steal(p)
  <2>1. list' = <<>> /\ \A q \in Procs : pc'[q] \in InWait <=> pc[q] \in InWait
    BY <1>1 DEF Steal, Goto, IInv, Types, ProcTypes, InWait
  <2>2. \A q \in Procs : ~Unwoken(q)'
    BY <2>1, EmptyList DEF Unwoken
  <2>3. \A q \in Procs : Waiter'[q] = IF pc[q] \notin InWait THEN "out" ELSE "released"
    BY <2>1, <2>2 DEF Waiter, Unwoken
  <2>4. Waiter' = [q \in Procs |-> IF pc[q] \notin InWait THEN "out" ELSE "released"]
    BY <2>1, <2>2 DEF Waiter, Unwoken
  <2>5. \A q \in Procs : (IF Waiter[q] = "waiting" THEN "released" ELSE Waiter[q])
                            = IF pc[q] \notin InWait THEN "out" ELSE "released"
    BY WaiterIs
  <2>6. Waiter' = [q \in Procs |-> IF Waiter[q] = "waiting" THEN "released" ELSE Waiter[q]]
    BY <2>4, <2>5
  <2> QED BY <2>6 DEF Contract!Signal
<1>2. CASE BroadcastSwap(p)
  <2>1. /\ UNCHANGED <<pc, par, list>> /\ Swap(Head(stolen[p])) /\ stolen[p] # <<>>
    BY <1>2 DEF BroadcastSwap
  <2>2. Head(stolen[p]) \in Parkers /\ Contains(stolen[p], Head(stolen[p]))
    BY <2>1, TailEffect DEF IInv, Types, SeqTypes
  <2>3. ~Contains(list, Head(stolen[p]))
    BY <2>2 DEF IInv, Once
  <2>4. \A x \in Parkers : Contains(list, x) => state'[x] = state[x]
    BY <2>1, <2>3 DEF Swap, IInv, Types, ParkerTypes
  <2>5. \A q \in Procs : Unwoken(q)' <=> Unwoken(q)
    BY <2>1, <2>4 DEF Unwoken, IInv, Types, ProcTypes
  <2> QED BY <2>1, <2>5, SameWaiter
<1> QED BY <1>1, <1>2

\* A callback releases its own Wait, if anybody.
LEMMA CallbackIsCancel ==
    ASSUME IInv, NEW k \in Parkers, Callback(k)
    PROVE  (\E p \in Procs : Contract!Cancel(p)) \/ Waiter' = Waiter
<1>1. CASE Wake(k)
  <2>1. /\ UNCHANGED <<pc, par, list>>
        /\ state'[k] = "woken" /\ \A x \in Parkers : x # k => state'[x] = state[x]
    BY <1>1 DEF Wake, Swap, IInv, Types, ParkerTypes
  <2>2. \A q \in Procs : par[q] # k => (Unwoken(q)' <=> Unwoken(q))
    BY <2>1 DEF Unwoken, IInv, Types, ProcTypes
  <2>3. CASE \E p \in Procs : par[p] = k /\ Unwoken(p)
    <3>1. PICK p \in Procs : par[p] = k /\ Unwoken(p)
      BY <2>3
    <3>2. \A q \in Procs : q # p => par[q] # k
      BY <3>1 DEF IInv, Owned, Unwoken
    <3>3. ~Unwoken(p)' /\ pc[p] \in InWait
      BY <2>1, <3>1 DEF Unwoken, IInv, Owned, Owning
    <3>4. Waiter[p] = "waiting"
      BY <3>1, <3>3, WaiterIs
    <3>5. Waiter' = [Waiter EXCEPT ![p] = "released"]
      BY <2>1, <2>2, <3>2, <3>3, OneWaiter
    <3> QED BY <3>4, <3>5 DEF Contract!Cancel
  <2>4. CASE ~\E p \in Procs : par[p] = k /\ Unwoken(p)
    <3>1. \A q \in Procs : par[q] = k => ~Unwoken(q) /\ ~Unwoken(q)'
      BY <2>1, <2>4 DEF Unwoken
    <3> QED BY <2>1, <2>2, <3>1, SameWaiter
  <2> QED BY <2>3, <2>4
<1>2. CASE WakeGoready(k)
  <2>1. ParkedOn(k) /\ Goready(k) /\ UNCHANGED <<par, list, state>>
    BY <1>2 DEF WakeGoready, IInv, Readied, sigVars
  <2>2. \A q \in Procs : pc'[q] \in InWait <=> pc[q] \in InWait
    BY <2>1 DEF Goready, ParkedOn, IInv, Types, ProcTypes, InWait
  <2> QED BY <2>1, <2>2, SameWaiter DEF Unwoken
<1> QED BY <1>1, <1>2 DEF Callback

\* Wait, Signal and the parkers implement the contract SignalSpec step by
\* step: one Broadcast releases every registered Wait at once, a ctx releases
\* its own Wait only, and nothing else releases or ends one.
THEOREM SignalKeepsContract == Spec => Contract!Init /\ [][Contract!Next]_Waiter
<1>1. Init => Contract!Init
  BY DEF Init, Contract!Init, Waiter, InWait
<1>2. IInv /\ IInv' /\ [Next]_vars => [Contract!Next]_Waiter
  <2> SUFFICES ASSUME IInv, IInv', [Next]_vars PROVE [Contract!Next]_Waiter
    OBVIOUS
  <2>1. ASSUME NEW p \in Procs, Register(p) \/ Leave(p)
        PROVE  [Contract!Next]_Waiter
    BY <2>1, EnterLeave DEF Contract!Next
  <2>2. ASSUME NEW p \in Procs,
               \/ Unlock(p) \/ AfterFunc(p) \/ Park(p) \/ Cancel(p) \/ CtxDone(p) \/ Fire(p)
               \/ Mutate(p) \/ Close(p) \/ Take(p) \/ BroadcastEnd(p)
        PROVE  [Contract!Next]_Waiter
    BY <2>2, InvisibleSteps
  <2>3. ASSUME NEW p \in Procs, Release(p) \/ Detach(p) \/ Put(p) \/ BroadcastGoready(p)
        PROVE  [Contract!Next]_Waiter
    BY <2>3, InvisibleReturn
  <2>4. ASSUME NEW p \in Procs, Steal(p) \/ BroadcastSwap(p)
        PROVE  [Contract!Next]_Waiter
    BY <2>4, BroadcastIsSignal DEF Contract!Next
  <2>5. ASSUME NEW k \in Parkers, Callback(k)
        PROVE  [Contract!Next]_Waiter
    BY <2>5, CallbackIsCancel DEF Contract!Next
  <2>6. CASE UNCHANGED vars
    BY <2>6 DEF vars, sigVars, Waiter
  <2> QED BY <2>1, <2>2, <2>3, <2>4, <2>5, <2>6 DEF Next, Progress
<1> QED BY <1>1, <1>2, SignalInvariance, PTL DEF Spec
=============================================================================
