--------------------------- MODULE RestartProofs ---------------------------
(***************************************************************************)
(* What Restart guarantees for every size of batch, removal and restored   *)
(* contents and every number of lives, proved from an inductive invariant. *)
(***************************************************************************)
EXTENDS Restart, FiniteSetTheorems, FunctionTheorems, SequenceTheorems, TLAPS

Types ==
    /\ store \in Seq(Nat) /\ backup \in Seq(Nat) /\ toLoad \in Seq(Nat) /\ batch \in Seq(Nat)
    /\ life \in {"down", "hydrating", "up"}
    /\ flush \in {"none", "mirror", "land", "count"}
    /\ remove \in {"none", "pop", "del", "clear"}
    /\ created \in Nat

-----------------------------------------------------------------------------
(***************************************************************************)
(* The inductive invariant.  The store must never take in what was removed *)
(* or what it holds already.  It is fed by commits and by Hydrate, so the  *)
(* batch in commit is tracked from its numbers to the store (InCommit),    *)
(* the Backup never holds what is gone (Mirrored), and while a removal is  *)
(* under way, not its victims (InRemoval).  What the Backup held at first  *)
(* is somewhere at every point of a Hydrate (Restoring).                   *)
(***************************************************************************)

\* Nothing is under way unless the queue is up, and nothing is left to load
\* unless it hydrates.
Idle ==
    /\ life # "up" => flush = "none" /\ remove = "none"
    /\ life # "hydrating" => toLoad = <<>>
    /\ life = "hydrating" => toLoad # <<>>
    /\ flush = "none" => batch = <<>>
    /\ remove = "none" => victims = {}

\* Every item has its number.
Numbered ==
    /\ Items(store) \subseteq 1..created /\ Items(backup) \subseteq 1..created
    /\ Items(batch) \subseteq 1..created /\ gone \subseteq 1..created

InCommit ==
    /\ IsInjective(batch)
    /\ flush = "mirror" => Items(batch) \cap Items(backup) = {}
    /\ flush \in {"mirror", "land"} => Items(batch) \cap (Items(store) \cup gone) = {}
    /\ flush = "count" => Items(batch) \subseteq Items(store) \cup gone

Mirrored == IsInjective(backup) /\ Items(backup) \cap gone = {}

InRemoval == victims \subseteq Items(store) /\ victims \cap Items(backup) = {}

InHydrate ==
    /\ IsInjective(toLoad)
    /\ Items(toLoad) \cap (Items(store) \cup gone) = {}
    /\ life = "hydrating" /\ store = <<>> => Items(toLoad) = Items(backup)
    /\ Items(toLoad) \subseteq Items(backup)

Restoring ==
    LET due == held \ (gone \cup missed) IN
    /\ life = "hydrating" => due \subseteq Items(store) \cup Items(toLoad)
    /\ life = "down" /\ store = <<>> => due \subseteq Items(backup)
    /\ life = "down" /\ store # <<>> => due \subseteq Items(store)

IInv ==
    /\ Types /\ Idle /\ Numbered
    /\ InCommit /\ Mirrored /\ InRemoval /\ InHydrate /\ Restoring
    /\ AckedDurable /\ GoneForGood /\ RestoreComplete

-----------------------------------------------------------------------------
(***************************************************************************)
(* Sequences without repetition, and what they hold.                       *)
(***************************************************************************)

\* An empty sequence holds nothing, and a sequence that holds nothing is empty.
LEMMA ItemsEmpty ==
    /\ Items(<<>>) = {} /\ IsInjective(<<>>) /\ <<>> \in Seq(Nat)
    /\ \A s \in Seq(Nat) : Items(s) = {} => s = <<>>
<1>1. Items(<<>>) = {} /\ IsInjective(<<>>) /\ <<>> \in Seq(Nat)
  BY DEF Items, ToSet, IsInjective
<1>2. ASSUME NEW s \in Seq(Nat), s # <<>> PROVE Items(s) # {}
  <2>1. 1 \in DOMAIN s
    BY <1>2
  <2> QED BY <2>1 DEF Items, ToSet
<1> QED BY <1>1, <1>2

\* A concatenation holds what its parts hold, each once if they share nothing.
LEMMA ItemsConcat ==
    ASSUME NEW s \in Seq(Nat), NEW t \in Seq(Nat)
    PROVE  /\ s \o t \in Seq(Nat)
           /\ Items(s \o t) = Items(s) \cup Items(t)
           /\ IsInjective(s) /\ IsInjective(t) /\ Items(s) \cap Items(t) = {} => IsInjective(s \o t)
<1> DEFINE u == s \o t
<1>1. /\ u \in Seq(Nat) /\ Len(u) = Len(s) + Len(t) /\ DOMAIN u = 1..(Len(s) + Len(t))
      /\ \A i \in 1..Len(s) : u[i] = s[i]
      /\ \A i \in 1..Len(t) : u[Len(s) + i] = t[i]
      /\ \A i \in (Len(s) + 1)..(Len(s) + Len(t)) : i - Len(s) \in 1..Len(t) /\ u[i] = t[i - Len(s)]
      /\ Len(s) \in Nat /\ Len(t) \in Nat /\ DOMAIN s = 1..Len(s) /\ DOMAIN t = 1..Len(t)
  OBVIOUS
<1> HIDE DEF u
<1>2. \A i \in 1..(Len(s) + Len(t)) :
        i \in 1..Len(s) \/ i \in (Len(s) + 1)..(Len(s) + Len(t))
  BY <1>1
<1>3. Items(u) \subseteq Items(s) \cup Items(t)
  BY <1>1, <1>2 DEF Items, ToSet
<1>4. Items(s) \subseteq Items(u)
  <2>1. \A i \in 1..Len(s) : i \in 1..(Len(s) + Len(t))
    BY <1>1
  <2> QED BY <1>1, <2>1 DEF Items, ToSet
<1>5. Items(t) \subseteq Items(u)
  <2> SUFFICES ASSUME NEW i \in 1..Len(t) PROVE t[i] \in Items(u)
    BY <1>1 DEF Items, ToSet
  <2>1. Len(s) + i \in 1..(Len(s) + Len(t)) /\ u[Len(s) + i] = t[i]
    BY <1>1
  <2> QED BY <1>1, <2>1 DEF Items, ToSet
<1>6. ASSUME IsInjective(s), IsInjective(t), Items(s) \cap Items(t) = {}
      PROVE  IsInjective(u)
  <2> SUFFICES ASSUME NEW i \in 1..(Len(s) + Len(t)), NEW j \in 1..(Len(s) + Len(t)), u[i] = u[j]
               PROVE  i = j
    BY <1>1 DEF IsInjective
  <2>1. CASE i \in 1..Len(s) /\ j \in 1..Len(s)
    BY <1>1, <1>6, <2>1 DEF IsInjective
  <2>2. CASE i \in (Len(s) + 1)..(Len(s) + Len(t)) /\ j \in (Len(s) + 1)..(Len(s) + Len(t))
    <3>1. /\ i - Len(s) \in DOMAIN t /\ j - Len(s) \in DOMAIN t
          /\ t[i - Len(s)] = t[j - Len(s)]
      BY <1>1, <2>2
    <3>2. i - Len(s) = j - Len(s)
      BY <1>6, <3>1, Zenon DEF IsInjective
    <3> QED BY <1>1, <3>2
  <2>3. \A k \in 1..Len(s), l \in (Len(s) + 1)..(Len(s) + Len(t)) : u[k] # u[l]
    <3> SUFFICES ASSUME NEW k \in 1..Len(s), NEW l \in (Len(s) + 1)..(Len(s) + Len(t))
                 PROVE  u[k] # u[l]
      OBVIOUS
    <3>1. u[k] \in Items(s) /\ u[l] \in Items(t)
      BY <1>1 DEF Items, ToSet
    <3> QED BY <1>6, <3>1
  <2> QED BY <1>2, <2>1, <2>2, <2>3
<1>7. u \in Seq(Nat)
  BY <1>1
<1> QED BY <1>3, <1>4, <1>5, <1>6, <1>7 DEF u

\* Cutting a sequence without repetition in two.
LEMMA ItemsCut ==
    ASSUME NEW s \in Seq(Nat), IsInjective(s), NEW k \in 0..Len(s)
    PROVE  LET h == SubSeq(s, 1, k)
               t == SubSeq(s, k + 1, Len(s)) IN
           /\ h \in Seq(Nat) /\ t \in Seq(Nat) /\ Len(h) = k
           /\ IsInjective(h) /\ IsInjective(t)
           /\ Items(h) \cap Items(t) = {} /\ Items(h) \cup Items(t) = Items(s)
<1> DEFINE h == SubSeq(s, 1, k)
           t == SubSeq(s, k + 1, Len(s))
<1>0. Len(s) \in Nat /\ k \in Nat /\ k <= Len(s) /\ DOMAIN s = 1..Len(s)
  OBVIOUS
<1>1. /\ h \in Seq(Nat) /\ Len(h) = k /\ DOMAIN h = 1..k
      /\ \A i \in 1..k : h[i] = s[i] /\ i \in 1..Len(s)
  BY <1>0
<1>2. /\ t \in Seq(Nat) /\ DOMAIN t = 1..(Len(s) - k)
      /\ \A i \in 1..(Len(s) - k) : t[i] = s[k + i] /\ k + i \in 1..Len(s)
  BY <1>0
<1> HIDE DEF h, t
<1>3. IsInjective(h)
  BY <1>0, <1>1 DEF IsInjective
<1>4. IsInjective(t)
  <2> SUFFICES ASSUME NEW i \in 1..(Len(s) - k), NEW j \in 1..(Len(s) - k), t[i] = t[j] PROVE i = j
    BY <1>2 DEF IsInjective
  <2>1. k + i = k + j
    BY <1>0, <1>2 DEF IsInjective
  <2> QED BY <1>0, <2>1
<1>5. Items(h) \cap Items(t) = {}
  <2> SUFFICES ASSUME NEW i \in 1..k, NEW j \in 1..(Len(s) - k), h[i] = t[j] PROVE FALSE
    BY <1>1, <1>2 DEF Items, ToSet
  <2>1. i \in DOMAIN s /\ k + j \in DOMAIN s /\ s[i] = s[k + j]
    BY <1>0, <1>1, <1>2
  <2>2. i = k + j
    BY <2>1, Zenon DEF IsInjective
  <2> QED BY <1>0, <2>2
<1>6. Items(h) \cup Items(t) \subseteq Items(s)
  <2>1. Items(h) \subseteq Items(s)
    BY <1>0, <1>1 DEF Items, ToSet
  <2>2. Items(t) \subseteq Items(s)
    BY <1>0, <1>2 DEF Items, ToSet
  <2> QED BY <2>1, <2>2
<1>7. Items(s) \subseteq Items(h) \cup Items(t)
  <2> SUFFICES ASSUME NEW i \in 1..Len(s) PROVE s[i] \in Items(h) \cup Items(t)
    BY <1>0 DEF Items, ToSet
  <2>1. CASE i <= k
    BY <1>0, <1>1, <2>1 DEF Items, ToSet
  <2>2. CASE i > k
    <3>1. i - k \in 1..(Len(s) - k) /\ k + (i - k) = i
      BY <1>0, <2>2
    <3>2. t[i - k] = s[i]
      BY <1>2, <3>1
    <3> QED BY <1>2, <3>1, <3>2 DEF Items, ToSet
  <2> QED BY <1>0, <2>1, <2>2
<1> QED BY <1>1, <1>2, <1>3, <1>4, <1>5, <1>6, <1>7 DEF h, t

\* The ranks of n positions are 1..n, each taken once.
LEMMA RankOnto ==
    ASSUME NEW L \in Nat, NEW S \in SUBSET (1..L)
    PROVE  /\ IsFiniteSet(S) /\ Cardinality(S) \in Nat
           /\ \A k \in S : Rank(S, k) \in 1..Cardinality(S)
           /\ \A k, l \in S : Rank(S, k) = Rank(S, l) => k = l
           /\ \A i \in 1..Cardinality(S) : \E k \in S : Rank(S, k) = i
<1> DEFINE N == Cardinality(S)
           below(k) == {j \in S : j <= k}
           R == [k \in S |-> Rank(S, k)]
<1>1. IsFiniteSet(S)
  <2>1. IsFiniteSet(1..L)
    BY FS_Interval
  <2> QED BY <2>1, FS_Subset
<1>2. N \in Nat
  BY <1>1, FS_CardinalityType
<1>3. \A k \in S : IsFiniteSet(below(k)) /\ Rank(S, k) = Cardinality(below(k)) /\ Rank(S, k) <= N
  <2> SUFFICES ASSUME NEW k \in S
               PROVE  IsFiniteSet(below(k)) /\ Rank(S, k) = Cardinality(below(k)) /\ Rank(S, k) <= N
    OBVIOUS
  <2>1. below(k) \in SUBSET S
    OBVIOUS
  <2> QED BY <1>1, <2>1, FS_Subset DEF Rank
<1>4. \A k \in S : Rank(S, k) \in Nat /\ Rank(S, k) # 0
  <2> SUFFICES ASSUME NEW k \in S PROVE Rank(S, k) \in Nat /\ Rank(S, k) # 0
    OBVIOUS
  <2>1. k \in below(k)
    OBVIOUS
  <2> HIDE DEF below
  <2>2. Cardinality(below(k)) \in Nat /\ (Cardinality(below(k)) = 0 => below(k) = {})
    BY <1>3, FS_CardinalityType, FS_EmptySet
  <2> QED BY <1>3, <2>1, <2>2
<1>5. \A k, l \in S : k < l => Rank(S, k) # Rank(S, l)
  <2> SUFFICES ASSUME NEW k \in S, NEW l \in S, k < l, Rank(S, k) = Rank(S, l) PROVE FALSE
    OBVIOUS
  <2>0. \A j \in S : j \in Int
    OBVIOUS
  <2>a. below(k) \subseteq below(l)
    <3> SUFFICES ASSUME NEW j \in S, j <= k PROVE j <= l
      OBVIOUS
    <3> QED BY <2>0
  <2>b. l \in below(l) /\ l \notin below(k)
    BY <2>0
  <2>1. below(k) \in SUBSET below(l) /\ l \in below(l) /\ l \notin below(k)
    BY <2>a, <2>b, Zenon
  <2> HIDE DEF below
  <2>2. below(l) = below(k)
    BY <1>3, <2>1, FS_Subset
  <2> QED BY <2>1, <2>2
<1>6. \A k, l \in S : Rank(S, k) = Rank(S, l) => k = l
  <2> SUFFICES ASSUME NEW k \in S, NEW l \in S, Rank(S, k) = Rank(S, l) PROVE k = l
    OBVIOUS
  <2>1. k \in Int /\ l \in Int
    OBVIOUS
  <2>2. ~(k < l) /\ ~(l < k)
    BY <1>5
  <2> QED BY <2>1, <2>2
<1>7. \A k \in S : Rank(S, k) \in 1..N
  <2> SUFFICES ASSUME NEW k \in S PROVE Rank(S, k) \in 1..N
    OBVIOUS
  <2>1. Rank(S, k) \in Nat /\ Rank(S, k) # 0 /\ Rank(S, k) <= N
    BY <1>3, <1>4
  <2> HIDE DEF N
  <2> QED BY <1>2, <2>1
<1>8. R \in [S -> 1..N] /\ \A k, l \in S : R[k] = R[l] => k = l
  BY <1>6, <1>7
<1>9. IsFiniteSet(1..N) /\ Cardinality(1..N) = N
  <2>1. IsFiniteSet(1..N) /\ Cardinality(1..N) = IF 1 > N THEN 0 ELSE N - 1 + 1
    BY <1>2, FS_Interval
  <2> QED BY <1>2, <2>1
<1>10. R \in Surjection(S, 1..N)
  <2> HIDE DEF R
  <2>1. R \in Injection(S, 1..N)
    BY <1>8, Fun_IsInj
  <2> QED BY <1>9, <2>1, FS_Injection
<1>11. \A i \in 1..N : \E k \in S : Rank(S, k) = i
  <2>1. \A k \in S : R[k] = Rank(S, k)
    OBVIOUS
  <2> HIDE DEF R
  <2>2. \A i \in 1..N : \E k \in S : R[k] = i
    BY <1>10, Fun_SurjectionProperties, Zenon
  <2> QED BY <2>1, <2>2, Zenon
<1> QED BY <1>1, <1>2, <1>6, <1>7, <1>11

\* Selecting items of a sequence keeps exactly those items, and adds no
\* repetition.
LEMMA ItemsOnly ==
    ASSUME NEW s \in Seq(Nat), NEW X
    PROVE  /\ Only(s, X) \in Seq(Nat)
           /\ Items(Only(s, X)) = Items(s) \cap X
           /\ IsInjective(s) => IsInjective(Only(s, X))
<1> DEFINE S == {j \in 1..Len(s) : s[j] \in X}
           at(i) == CHOOSE k \in S : Rank(S, k) = i
           o == Only(s, X)
<1>1. Len(s) \in Nat /\ DOMAIN s = 1..Len(s) /\ S \in SUBSET (1..Len(s))
  OBVIOUS
<1>2. /\ IsFiniteSet(S) /\ Cardinality(S) \in Nat
      /\ \A k \in S : Rank(S, k) \in 1..Cardinality(S)
      /\ \A k, l \in S : Rank(S, k) = Rank(S, l) => k = l
      /\ \A i \in 1..Cardinality(S) : \E k \in S : Rank(S, k) = i
  <2> HIDE DEF S
  <2> QED BY <1>1, RankOnto
<1>3. o = [i \in 1..Cardinality(S) |-> s[at(i)]]
  BY DEF Only
<1>4. \A j \in S : j \in 1..Len(s) /\ s[j] \in X
  OBVIOUS
<1>5. \A i \in Items(s) \cap X : \E j \in S : s[j] = i
  BY <1>1 DEF Items, ToSet
<1> HIDE DEF S, o
<1>6. \A i \in 1..Cardinality(S) : at(i) \in S /\ Rank(S, at(i)) = i
  BY <1>2
<1>7. \A k \in S : at(Rank(S, k)) = k
  BY <1>2, <1>6
<1> HIDE DEF at
<1>8. DOMAIN o = 1..Cardinality(S) /\ \A i \in 1..Cardinality(S) : o[i] = s[at(i)]
  BY <1>3
<1>9. o \in Seq(Nat)
  <2>0. \A j \in 1..Len(s) : s[j] \in Nat
    OBVIOUS
  <2>1. \A i \in 1..Cardinality(S) : s[at(i)] \in Nat
    BY <2>0, <1>4, <1>6, Zenon
  <2> QED BY <1>2, <1>3, <2>1
<1>10. Items(o) \subseteq Items(s) \cap X
  BY <1>1, <1>4, <1>6, <1>8 DEF Items, ToSet
<1>11. Items(s) \cap X \subseteq Items(o)
  <2> SUFFICES ASSUME NEW x \in Items(s) \cap X PROVE x \in Items(o)
    OBVIOUS
  <2>1. PICK j \in S : s[j] = x
    BY <1>5
  <2>2. Rank(S, j) \in DOMAIN o /\ o[Rank(S, j)] = x
    BY <1>2, <1>7, <1>8, <2>1
  <2> QED BY <2>2 DEF Items, ToSet
<1>12. ASSUME IsInjective(s) PROVE IsInjective(o)
  <2> SUFFICES ASSUME NEW i \in 1..Cardinality(S), NEW j \in 1..Cardinality(S), o[i] = o[j]
               PROVE  i = j
    BY <1>8 DEF IsInjective
  <2>1. at(i) \in DOMAIN s /\ at(j) \in DOMAIN s /\ s[at(i)] = s[at(j)]
    BY <1>1, <1>4, <1>6, <1>8
  <2>2. at(i) = at(j)
    BY <1>12, <2>1, Zenon DEF IsInjective
  <2> QED BY <1>6, <2>2
<1> QED BY <1>9, <1>10, <1>11, <1>12 DEF o

\* What is left without X.
LEMMA ItemsWithout ==
    ASSUME NEW s \in Seq(Nat), NEW X
    PROVE  /\ Without(s, X) \in Seq(Nat)
           /\ Items(Without(s, X)) = Items(s) \ X
           /\ IsInjective(s) => IsInjective(Without(s, X))
<1>1. /\ Only(s, Items(s) \ X) \in Seq(Nat)
      /\ Items(Only(s, Items(s) \ X)) = Items(s) \cap (Items(s) \ X)
      /\ IsInjective(s) => IsInjective(Only(s, Items(s) \ X))
  BY ItemsOnly
<1> QED BY <1>1 DEF Without

\* Fresh numbers.
LEMMA ItemsNumbers ==
    ASSUME NEW a \in Nat, NEW n \in Nat
    PROVE  /\ Numbers(a, n) \in Seq(Nat) /\ IsInjective(Numbers(a, n))
           /\ Items(Numbers(a, n)) = (a + 1)..(a + n)
<1>1. Numbers(a, n) \in Seq(Nat) /\ IsInjective(Numbers(a, n))
  BY DEF Numbers, IsInjective
<1>2. Items(Numbers(a, n)) \subseteq (a + 1)..(a + n)
  BY DEF Numbers, Items, ToSet
<1>3. ASSUME NEW x \in (a + 1)..(a + n) PROVE x \in Items(Numbers(a, n))
  <2>1. x - a \in 1..n /\ a + (x - a) = x
    OBVIOUS
  <2>2. Numbers(a, n)[x - a] = x /\ DOMAIN Numbers(a, n) = 1..n
    BY <2>1 DEF Numbers
  <2> QED BY <2>1, <2>2 DEF Items, ToSet
<1> QED BY <1>1, <1>2, <1>3

-----------------------------------------------------------------------------
(***************************************************************************)
(* The invariant holds at first, and every action keeps it.                *)
(***************************************************************************)

\* The first life starts from an empty store and what the Backup holds.
LEMMA InitInvariant == Init => IInv
<1> SUFFICES ASSUME Init PROVE IInv
  OBVIOUS
<1>1. PICK m \in Restores :
        /\ store = <<>> /\ backup = Numbers(0, m)
        /\ life = "down" /\ lives = 0 /\ created = m
        /\ toLoad = <<>> /\ flush = "none" /\ batch = <<>> /\ remove = "none" /\ victims = {}
        /\ held = 1..m /\ acked = {} /\ gone = {} /\ missed = {}
  BY DEF Init
<1>2. m \in Nat
  BY BoundsAssumption
<1>3. backup \in Seq(Nat) /\ IsInjective(backup) /\ Items(backup) = 1..m
  BY <1>1, <1>2, ItemsNumbers
<1>4. Items(<<>>) = {} /\ IsInjective(<<>>) /\ <<>> \in Seq(Nat)
  BY ItemsEmpty
<1> QED BY <1>1, <1>2, <1>3, <1>4
        DEF IInv, Types, Idle, Numbered, InCommit, Mirrored, InRemoval, InHydrate, Restoring,
            AckedDurable, GoneForGood, RestoreComplete

\* newBacking decides from the store whether the Backup is loaded.
LEMMA NewInvariant ==
    ASSUME IInv, New
    PROVE  IInv'
<1>1. Items(<<>>) = {} /\ IsInjective(<<>>) /\ <<>> \in Seq(Nat)
  BY ItemsEmpty
<1>p1. Types'
  BY DEF IInv, Types, New, Open, durableVars, histVars
<1>p2. Idle'
  BY DEF IInv, Idle, New, Open, durableVars, histVars
<1>p3. Numbered'
  BY DEF IInv, Numbered, New, Open, durableVars, histVars
<1>p4. InCommit'
  BY DEF IInv, InCommit, New, Open, durableVars, histVars
<1>p5. Mirrored'
  BY DEF IInv, Mirrored, New, Open, durableVars, histVars
<1>p6. InRemoval'
  BY DEF IInv, InRemoval, New, Open, durableVars, histVars
<1>p7. InHydrate'
  BY DEF IInv, Types, Idle, Mirrored, InHydrate, New, Open, durableVars, histVars
<1>p8. Restoring'
  BY DEF IInv, Restoring, New, Open, durableVars, histVars
<1>p9. AckedDurable'
  BY DEF IInv, AckedDurable, New, Open, durableVars, histVars
<1>p10. GoneForGood'
  BY DEF IInv, GoneForGood, New, Open, durableVars, histVars
<1>p11. RestoreComplete'
  BY DEF IInv, Restoring, RestoreComplete, New, Open, durableVars, histVars
<1> QED BY <1>p1, <1>p2, <1>p3, <1>p4, <1>p5, <1>p6, <1>p7, <1>p8, <1>p9, <1>p10, <1>p11 DEF IInv

\* Hydrate moves the first items still to load into the store.
LEMMA FlushInvariant ==
    ASSUME IInv, HydrateFlush
    PROVE  IInv'
<1> DEFINE part == FirstOf(toLoad, HydrateBatch)
           k == IF HydrateBatch < Len(toLoad) THEN HydrateBatch ELSE Len(toLoad)
<1>1. toLoad \in Seq(Nat) /\ toLoad # <<>> /\ IsInjective(toLoad) /\ Len(toLoad) \in Nat /\ Len(toLoad) # 0
  BY DEF HydrateFlush, IInv, Types, Idle, InHydrate
<1>2. k \in 0..Len(toLoad) /\ k # 0
  BY <1>1, SizesAssumption
<1>3. part = SubSeq(toLoad, 1, k)
  BY DEF FirstOf
<1>4. /\ part \in Seq(Nat) /\ Len(part) = k /\ IsInjective(part) /\ part # <<>>
      /\ SubSeq(toLoad, Len(part) + 1, Len(toLoad)) \in Seq(Nat)
      /\ IsInjective(SubSeq(toLoad, Len(part) + 1, Len(toLoad)))
      /\ Items(part) \cap Items(SubSeq(toLoad, Len(part) + 1, Len(toLoad))) = {}
      /\ Items(part) \cup Items(SubSeq(toLoad, Len(part) + 1, Len(toLoad))) = Items(toLoad)
  <2> HIDE DEF k, part
  <2> QED BY <1>1, <1>2, <1>3, ItemsCut
<1>5. /\ store' = store \o part
      /\ toLoad' = SubSeq(toLoad, Len(part) + 1, Len(toLoad))
      /\ life' = IF toLoad' = <<>> THEN "up" ELSE "hydrating"
      /\ life = "hydrating"
      /\ UNCHANGED <<backup, lives, flush, batch, remove, victims, created, histVars>>
  BY <1>2, <1>4 DEF HydrateFlush, FlushAny
<1> HIDE DEF part, k
<1>6. /\ toLoad' \in Seq(Nat) /\ IsInjective(toLoad')
      /\ Items(part) \cap Items(toLoad') = {} /\ Items(part) \cup Items(toLoad') = Items(toLoad)
  BY <1>4, <1>5
<1>7. /\ store' \in Seq(Nat) /\ Items(store') = Items(store) \cup Items(part)
      /\ IsInjective(store')
  <2>1. store \in Seq(Nat) /\ IsInjective(store) /\ Items(toLoad) \cap Items(store) = {}
    BY DEF IInv, Types, GoneForGood, InHydrate
  <2>2. Items(store) \cap Items(part) = {}
    BY <1>6, <2>1
  <2> QED BY <1>4, <1>5, <2>1, <2>2, ItemsConcat
<1>8. store' # <<>>
  <2>1. Items(part) # {}
    BY <1>4, ItemsEmpty
  <2> QED BY <1>7, <2>1, ItemsEmpty
<1>9. Items(<<>>) = {}
  BY ItemsEmpty
<1>p1. Types'
  BY <1>1, <1>5, <1>6, <1>7, <1>8, <1>9 DEF IInv, Types, histVars
<1>p2. Idle'
  BY <1>1, <1>5, <1>6, <1>7, <1>8, <1>9 DEF IInv, Idle, histVars
<1>p3. Numbered'
  BY <1>1, <1>5, <1>6, <1>7, <1>8, <1>9 DEF IInv, Types, Idle, Numbered, InRemoval, InHydrate, histVars
<1>p4. InCommit'
  BY <1>1, <1>5, <1>6, <1>7, <1>8, <1>9 DEF IInv, Types, Idle, InCommit, histVars
<1>p5. Mirrored'
  BY <1>1, <1>5, <1>6, <1>7, <1>8, <1>9 DEF IInv, Mirrored, histVars
<1>p6. InRemoval'
  BY <1>1, <1>5, <1>6, <1>7, <1>8, <1>9 DEF IInv, InRemoval, histVars
<1>p7. InHydrate'
  BY <1>1, <1>5, <1>6, <1>7, <1>8, <1>9 DEF IInv, InHydrate, histVars
<1>p8. Restoring'
  BY <1>1, <1>5, <1>6, <1>7, <1>8, <1>9 DEF IInv, Restoring, histVars
<1>p9. AckedDurable'
  BY <1>1, <1>5, <1>6, <1>7, <1>8, <1>9 DEF IInv, AckedDurable, histVars
<1>p10. GoneForGood'
  BY <1>1, <1>5, <1>6, <1>7, <1>8, <1>9 DEF IInv, Types, Idle, InRemoval, InHydrate, GoneForGood, histVars
<1>p11. RestoreComplete'
  BY <1>1, <1>5, <1>6, <1>7, <1>8, <1>9 DEF IInv, RestoreComplete, histVars
<1> QED BY <1>p1, <1>p2, <1>p3, <1>p4, <1>p5, <1>p6, <1>p7, <1>p8, <1>p9, <1>p10, <1>p11 DEF IInv

\* A new batch has numbers nothing else has.
LEMMA StagedInvariant ==
    ASSUME IInv, NEW n \in BatchSizes, Staged(n)
    PROVE  IInv'
<1>1. n \in Nat /\ created \in Nat
  BY SizesAssumption DEF IInv, Types
<1>2. batch' = Numbers(created, n) /\ created' = created + n /\ flush' = "mirror" /\ life = "up"
  BY DEF Staged
<1>3. batch' \in Seq(Nat) /\ IsInjective(batch') /\ Items(batch') = (created + 1)..(created + n)
  BY <1>1, <1>2, ItemsNumbers
<1>4. Items(batch') \cap 1..created = {} /\ 1..created \subseteq 1..created' /\ Items(batch') \subseteq 1..created'
  BY <1>1, <1>2, <1>3
<1>p1. Types'
  BY <1>1, <1>2, <1>3, <1>4 DEF IInv, Types, Staged, durableVars, histVars
<1>p2. Idle'
  BY DEF IInv, Idle, Staged, durableVars, histVars
<1>p3. Numbered'
  BY <1>1, <1>2, <1>3, <1>4 DEF IInv, Numbered, Staged, durableVars, histVars
<1>p4. InCommit'
  BY <1>3, <1>4 DEF IInv, Numbered, InCommit, Staged, durableVars, histVars
<1>p5. Mirrored'
  BY DEF IInv, Mirrored, Staged, durableVars, histVars
<1>p6. InRemoval'
  BY DEF IInv, InRemoval, Staged, durableVars, histVars
<1>p7. InHydrate'
  BY DEF IInv, InHydrate, Staged, durableVars, histVars
<1>p8. Restoring'
  BY DEF IInv, Restoring, Staged, durableVars, histVars
<1>p9. AckedDurable'
  BY DEF IInv, AckedDurable, Staged, durableVars, histVars
<1>p10. GoneForGood'
  BY DEF IInv, GoneForGood, Staged, durableVars, histVars
<1>p11. RestoreComplete'
  BY DEF IInv, RestoreComplete, Staged, durableVars, histVars
<1> QED BY <1>p1, <1>p2, <1>p3, <1>p4, <1>p5, <1>p6, <1>p7, <1>p8, <1>p9, <1>p10, <1>p11 DEF IInv

\* A commit that fails leaves its batch in the Backup, or nowhere.
LEMMA CommitFailsInvariant ==
    ASSUME IInv, CommitFails
    PROVE  IInv'
<1>1. Items(<<>>) = {} /\ IsInjective(<<>>) /\ <<>> \in Seq(Nat)
  BY ItemsEmpty
<1>p1. Types'
  BY DEF IInv, Types, CommitFails, durableVars, histVars
<1>p2. Idle'
  BY DEF IInv, Idle, CommitFails, durableVars, histVars
<1>p3. Numbered'
  BY <1>1 DEF IInv, Numbered, CommitFails, durableVars, histVars
<1>p4. InCommit'
  BY <1>1 DEF IInv, InCommit, CommitFails, durableVars, histVars
<1>p5. Mirrored'
  BY DEF IInv, Mirrored, CommitFails, durableVars, histVars
<1>p6. InRemoval'
  BY DEF IInv, InRemoval, CommitFails, durableVars, histVars
<1>p7. InHydrate'
  BY DEF IInv, InHydrate, CommitFails, durableVars, histVars
<1>p8. Restoring'
  BY DEF IInv, Restoring, CommitFails, durableVars, histVars
<1>p9. AckedDurable'
  BY DEF IInv, AckedDurable, CommitFails, durableVars, histVars
<1>p10. GoneForGood'
  BY DEF IInv, GoneForGood, CommitFails, durableVars, histVars
<1>p11. RestoreComplete'
  BY DEF IInv, RestoreComplete, CommitFails, durableVars, histVars
<1> QED BY <1>p1, <1>p2, <1>p3, <1>p4, <1>p5, <1>p6, <1>p7, <1>p8, <1>p9, <1>p10, <1>p11 DEF IInv

\* The Backup takes a batch it does not hold.
LEMMA MirrorInvariant ==
    ASSUME IInv, CommitMirror
    PROVE  IInv'
<1>1. /\ backup \in Seq(Nat) /\ batch \in Seq(Nat) /\ IsInjective(backup) /\ IsInjective(batch)
      /\ Items(backup) \cap Items(batch) = {} /\ backup' = backup \o batch
  BY DEF CommitMirror, IInv, Types, Mirrored, InCommit
<1>2. backup' \in Seq(Nat) /\ IsInjective(backup') /\ Items(backup') = Items(backup) \cup Items(batch)
  BY <1>1, ItemsConcat
<1>3. life = "up" /\ toLoad = <<>> /\ Items(<<>>) = {}
  BY ItemsEmpty DEF CommitMirror, IInv, Types, Idle
<1>p1. Types'
  BY DEF IInv, Types, CommitMirror, histVars
<1>p2. Idle'
  BY DEF IInv, Idle, CommitMirror, histVars
<1>p3. Numbered'
  BY <1>2, <1>3 DEF IInv, Numbered, CommitMirror, histVars
<1>p4. InCommit'
  BY DEF IInv, InCommit, CommitMirror, histVars
<1>p5. Mirrored'
  BY <1>2 DEF IInv, InCommit, Mirrored, CommitMirror, histVars
<1>p6. InRemoval'
  BY <1>2 DEF IInv, InCommit, InRemoval, CommitMirror
<1>p7. InHydrate'
  BY <1>2, <1>3 DEF IInv, InHydrate, CommitMirror, histVars
<1>p8. Restoring'
  BY <1>2, <1>3 DEF IInv, Restoring, CommitMirror, histVars
<1>p9. AckedDurable'
  BY DEF IInv, AckedDurable, CommitMirror, histVars
<1>p10. GoneForGood'
  BY DEF IInv, GoneForGood, CommitMirror, histVars
<1>p11. RestoreComplete'
  BY DEF IInv, RestoreComplete, CommitMirror, histVars
<1> QED BY <1>p1, <1>p2, <1>p3, <1>p4, <1>p5, <1>p6, <1>p7, <1>p8, <1>p9, <1>p10, <1>p11 DEF IInv

\* The store takes a batch it never held.
LEMMA LandInvariant ==
    ASSUME IInv, CommitLand
    PROVE  IInv'
<1>1. /\ store \in Seq(Nat) /\ batch \in Seq(Nat) /\ IsInjective(store) /\ IsInjective(batch)
      /\ Items(store) \cap Items(batch) = {} /\ store' = store \o batch
  BY DEF CommitLand, IInv, Types, GoneForGood, InCommit
<1>2. store' \in Seq(Nat) /\ IsInjective(store') /\ Items(store') = Items(store) \cup Items(batch)
  BY <1>1, ItemsConcat
<1>3. life = "up" /\ toLoad = <<>> /\ Items(<<>>) = {}
  BY ItemsEmpty DEF CommitLand, IInv, Types, Idle
<1>p1. Types'
  BY DEF IInv, Types, CommitLand, histVars
<1>p2. Idle'
  BY DEF IInv, Idle, CommitLand, histVars
<1>p3. Numbered'
  BY <1>2, <1>3 DEF IInv, Numbered, CommitLand, histVars
<1>p4. InCommit'
  BY <1>2, <1>3 DEF IInv, InCommit, CommitLand, histVars
<1>p5. Mirrored'
  BY DEF IInv, Mirrored, CommitLand, histVars
<1>p6. InRemoval'
  BY <1>2, <1>3 DEF IInv, InRemoval, CommitLand, histVars
<1>p7. InHydrate'
  BY <1>2, <1>3 DEF IInv, InHydrate, CommitLand, histVars
<1>p8. Restoring'
  BY <1>2, <1>3 DEF IInv, Restoring, CommitLand, histVars
<1>p9. AckedDurable'
  BY <1>2, <1>3 DEF IInv, AckedDurable, CommitLand, histVars
<1>p10. GoneForGood'
  BY <1>2 DEF IInv, InCommit, GoneForGood, CommitLand, histVars
<1>p11. RestoreComplete'
  BY <1>2, <1>3 DEF IInv, RestoreComplete, CommitLand, histVars
<1> QED BY <1>p1, <1>p2, <1>p3, <1>p4, <1>p5, <1>p6, <1>p7, <1>p8, <1>p9, <1>p10, <1>p11 DEF IInv

\* The batch that is answered has reached the store.
LEMMA AnswerInvariant ==
    ASSUME IInv, CommitAnswer
    PROVE  IInv'
<1>1. Items(<<>>) = {} /\ IsInjective(<<>>) /\ <<>> \in Seq(Nat)
  BY ItemsEmpty
<1>p1. Types'
  BY DEF IInv, Types, CommitAnswer, Settles, durableVars, histVars
<1>p2. Idle'
  BY DEF IInv, Idle, CommitAnswer, Settles, durableVars, histVars
<1>p3. Numbered'
  BY <1>1 DEF IInv, Numbered, CommitAnswer, Settles, durableVars, histVars
<1>p4. InCommit'
  BY <1>1 DEF IInv, InCommit, CommitAnswer, Settles, durableVars, histVars
<1>p5. Mirrored'
  BY DEF IInv, Mirrored, CommitAnswer, Settles, durableVars, histVars
<1>p6. InRemoval'
  BY DEF IInv, InRemoval, CommitAnswer, Settles, durableVars, histVars
<1>p7. InHydrate'
  BY DEF IInv, InHydrate, CommitAnswer, Settles, durableVars, histVars
<1>p8. Restoring'
  BY DEF IInv, Restoring, CommitAnswer, Settles, durableVars, histVars
<1>p9. AckedDurable'
  BY DEF IInv, InCommit, AckedDurable, CommitAnswer, Settles, durableVars
<1>p10. GoneForGood'
  BY DEF IInv, GoneForGood, CommitAnswer, Settles, durableVars, histVars
<1>p11. RestoreComplete'
  BY DEF IInv, RestoreComplete, CommitAnswer, Settles, durableVars, histVars
<1> QED BY <1>p1, <1>p2, <1>p3, <1>p4, <1>p5, <1>p6, <1>p7, <1>p8, <1>p9, <1>p10, <1>p11 DEF IInv

\* The Backup gives up the victims of a removal, or everything.
LEMMA BackupFirstInvariant ==
    ASSUME IInv, NEW op \in {"pop", "del", "clear"}, NEW X \in SUBSET Items(store), BackupFirst(op, X), LockFree,
           UNCHANGED <<store, life, lives, toLoad, flush, batch, created, histVars>>
    PROVE  IInv'
<1>1. /\ backup' \in Seq(Nat) /\ IsInjective(backup')
      /\ Items(backup') \subseteq Items(backup) /\ Items(backup') \cap X = {}
  <2>1. CASE op = "clear"
    BY <2>1, ItemsEmpty DEF BackupFirst
  <2>2. CASE op # "clear"
    <3>1. backup \in Seq(Nat) /\ IsInjective(backup) /\ backup' = Without(backup, X)
      BY <2>2 DEF BackupFirst, IInv, Types, Mirrored
    <3> QED BY <3>1, ItemsWithout
  <2> QED BY <2>1, <2>2
<1>2. life = "up" /\ toLoad = <<>> /\ Items(<<>>) = {} /\ victims' = X /\ remove' = op
  BY ItemsEmpty DEF LockFree, BackupFirst, IInv, Idle
<1>p1. Types'
  BY <1>1, <1>2 DEF IInv, Types, histVars
<1>p2. Idle'
  BY <1>1, <1>2 DEF IInv, Idle, histVars
<1>p3. Numbered'
  BY <1>1, <1>2 DEF IInv, Numbered, histVars
<1>p4. InCommit'
  BY <1>1, <1>2 DEF IInv, InCommit, histVars
<1>p5. Mirrored'
  BY <1>1, <1>2 DEF IInv, Mirrored, histVars
<1>p6. InRemoval'
  BY <1>1, <1>2 DEF IInv, InRemoval, histVars
<1>p7. InHydrate'
  BY <1>1, <1>2 DEF IInv, InHydrate, histVars
<1>p8. Restoring'
  BY <1>1, <1>2 DEF IInv, Restoring, histVars
<1>p9. AckedDurable'
  BY DEF IInv, AckedDurable, histVars
<1>p10. GoneForGood'
  BY DEF IInv, GoneForGood, histVars
<1>p11. RestoreComplete'
  BY DEF IInv, RestoreComplete, histVars
<1> QED BY <1>p1, <1>p2, <1>p3, <1>p4, <1>p5, <1>p6, <1>p7, <1>p8, <1>p9, <1>p10, <1>p11 DEF IInv

\* The victims leave the store for good.
LEMMA RemoveLandInvariant ==
    ASSUME IInv, RemoveLand
    PROVE  IInv'
<1>1. store \in Seq(Nat) /\ IsInjective(store) /\ store' = Without(store, victims)
  BY DEF RemoveLand, IInv, Types, GoneForGood
<1>2. store' \in Seq(Nat) /\ IsInjective(store') /\ Items(store') = Items(store) \ victims
  BY <1>1, ItemsWithout
<1>3. life = "up" /\ toLoad = <<>> /\ Items(<<>>) = {}
  BY ItemsEmpty DEF RemoveLand, IInv, Types, Idle
<1>p1. Types'
  BY <1>2, <1>3 DEF IInv, Types, RemoveLand, RemoveOver
<1>p2. Idle'
  BY DEF IInv, Idle, RemoveLand, RemoveOver
<1>p3. Numbered'
  BY <1>2, <1>3 DEF IInv, Numbered, InRemoval, RemoveLand, RemoveOver
<1>p4. InCommit'
  BY <1>2, <1>3 DEF IInv, InCommit, InRemoval, RemoveLand, RemoveOver
<1>p5. Mirrored'
  BY DEF IInv, Mirrored, InRemoval, RemoveLand, RemoveOver
<1>p6. InRemoval'
  BY DEF IInv, InRemoval, RemoveLand, RemoveOver
<1>p7. InHydrate'
  BY <1>2, <1>3 DEF IInv, InHydrate, RemoveLand, RemoveOver
<1>p8. Restoring'
  BY <1>2, <1>3 DEF IInv, Restoring, RemoveLand, RemoveOver
<1>p9. AckedDurable'
  BY <1>2, <1>3 DEF IInv, AckedDurable, RemoveLand, RemoveOver
<1>p10. GoneForGood'
  BY <1>2, <1>3 DEF IInv, GoneForGood, RemoveLand, RemoveOver
<1>p11. RestoreComplete'
  BY <1>2, <1>3 DEF IInv, RestoreComplete, RemoveLand, RemoveOver
<1> QED BY <1>p1, <1>p2, <1>p3, <1>p4, <1>p5, <1>p6, <1>p7, <1>p8, <1>p9, <1>p10, <1>p11 DEF IInv

\* A removal that fails leaves the store alone; the victims may return to the Backup.
LEMMA RemoveFailsInvariant ==
    ASSUME IInv, RemoveFails
    PROVE  IInv'
<1>1. /\ backup' \in Seq(Nat) /\ IsInjective(backup')
      /\ Items(backup) \subseteq Items(backup') /\ Items(backup') \subseteq Items(backup) \cup victims
  <2>1. CASE backup' = backup
    BY <2>1 DEF IInv, Types, Mirrored
  <2>2. CASE backup' = Only(store, victims) \o backup
    <3>1. /\ store \in Seq(Nat) /\ IsInjective(store) /\ backup \in Seq(Nat) /\ IsInjective(backup)
          /\ victims \cap Items(backup) = {}
      BY DEF IInv, Types, GoneForGood, Mirrored, InRemoval
    <3>2. /\ Only(store, victims) \in Seq(Nat) /\ IsInjective(Only(store, victims))
          /\ Items(Only(store, victims)) \subseteq victims
      BY <3>1, ItemsOnly
    <3>3. Items(Only(store, victims)) \cap Items(backup) = {}
      BY <3>1, <3>2
    <3> QED BY <2>2, <3>1, <3>2, <3>3, ItemsConcat
  <2> QED BY <2>1, <2>2 DEF RemoveFails
<1>2. life = "up" /\ toLoad = <<>> /\ Items(<<>>) = {}
  BY ItemsEmpty DEF RemoveFails, IInv, Types, Idle
<1>p1. Types'
  BY <1>1, <1>2 DEF IInv, Types, RemoveFails, RemoveOver, histVars
<1>p2. Idle'
  BY DEF IInv, Idle, RemoveFails, RemoveOver, histVars
<1>p3. Numbered'
  BY <1>1, <1>2 DEF IInv, Numbered, InRemoval, RemoveFails, RemoveOver, histVars
<1>p4. InCommit'
  BY <1>1, <1>2 DEF IInv, InCommit, InRemoval, RemoveFails, RemoveOver, histVars
<1>p5. Mirrored'
  BY <1>1 DEF IInv, Mirrored, InRemoval, GoneForGood, RemoveFails, histVars
<1>p6. InRemoval'
  BY DEF IInv, InRemoval, RemoveFails, RemoveOver, histVars
<1>p7. InHydrate'
  BY <1>1, <1>2 DEF IInv, InHydrate, RemoveFails, RemoveOver, histVars
<1>p8. Restoring'
  BY <1>1, <1>2 DEF IInv, Restoring, RemoveFails, RemoveOver, histVars
<1>p9. AckedDurable'
  BY DEF IInv, AckedDurable, RemoveFails, RemoveOver, histVars
<1>p10. GoneForGood'
  BY DEF IInv, GoneForGood, RemoveFails, RemoveOver, histVars
<1>p11. RestoreComplete'
  BY DEF IInv, RestoreComplete, RemoveFails, RemoveOver, histVars
<1> QED BY <1>p1, <1>p2, <1>p3, <1>p4, <1>p5, <1>p6, <1>p7, <1>p8, <1>p9, <1>p10, <1>p11 DEF IInv

\* When the process ends, the store and the Backup are what is left.
LEMMA EndInvariant ==
    ASSUME IInv, End
    PROVE  IInv'
<1>1. Items(<<>>) = {} /\ IsInjective(<<>>) /\ <<>> \in Seq(Nat)
  BY ItemsEmpty
<1>2. store \in Seq(Nat) /\ (store = <<>> => Items(store) = {})
  BY ItemsEmpty DEF IInv, Types
<1>p1. Types'
  BY DEF IInv, Types, End, durableVars
<1>p2. Idle'
  BY DEF IInv, Idle, End, durableVars
<1>p3. Numbered'
  BY <1>1, <1>2 DEF IInv, Numbered, End, durableVars
<1>p4. InCommit'
  BY <1>1, <1>2 DEF IInv, InCommit, End, durableVars
<1>p5. Mirrored'
  BY DEF IInv, Mirrored, End, durableVars
<1>p6. InRemoval'
  BY DEF IInv, InRemoval, End, durableVars
<1>p7. InHydrate'
  BY <1>1, <1>2 DEF IInv, InHydrate, End, durableVars
<1>p8. Restoring'
  BY <1>2 DEF IInv, Types, InHydrate, Restoring, RestoreComplete, End, durableVars
<1>p9. AckedDurable'
  BY DEF IInv, AckedDurable, End, durableVars
<1>p10. GoneForGood'
  BY DEF IInv, GoneForGood, End, durableVars
<1>p11. RestoreComplete'
  BY DEF IInv, RestoreComplete, End, durableVars
<1> QED BY <1>p1, <1>p2, <1>p3, <1>p4, <1>p5, <1>p6, <1>p7, <1>p8, <1>p9, <1>p10, <1>p11 DEF IInv

\* A step that changes nothing.
LEMMA StutterInvariant ==
    ASSUME IInv, UNCHANGED vars
    PROVE  IInv'
<1> QED BY DEF vars, durableVars, localVars, histVars, IInv, Types, Idle, Numbered, InCommit,
           Mirrored, InRemoval, InHydrate, Restoring, AckedDurable, GoneForGood, RestoreComplete

\* Every step keeps the invariant.
LEMMA NextInvariant == IInv /\ [Next]_vars => IInv'
<1> SUFFICES ASSUME IInv, [Next]_vars PROVE IInv'
  OBVIOUS
<1>1. CASE \E n \in RemoveSizes : Pop(n)
  <2>1. PICK n \in RemoveSizes : Pop(n)
    BY <1>1
  <2> DEFINE m == IF n < Count THEN n ELSE Count
             X == Items(FirstOf(store, m))
  <2>2. /\ store \in Seq(Nat) /\ batch \in Seq(Nat) /\ IsInjective(store) /\ n \in Nat
        /\ Count \in Int /\ Count > 0
    BY <2>1, SizesAssumption DEF Pop, Count, IInv, Types, GoneForGood
  <2>3. m \in Nat
    BY <2>2
  <2>4. X \in SUBSET Items(store)
    <3> DEFINE k == IF m < Len(store) THEN m ELSE Len(store)
    <3>1. k \in 0..Len(store) /\ FirstOf(store, m) = SubSeq(store, 1, k)
      BY <2>2, <2>3 DEF FirstOf
    <3> HIDE DEF k, m
    <3>2. Items(SubSeq(store, 1, k)) \subseteq Items(store)
      BY <2>2, <3>1, ItemsCut
    <3> QED BY <3>1, <3>2
  <2>5. /\ BackupFirst("pop", X) /\ LockFree
        /\ UNCHANGED <<store, life, lives, toLoad, flush, batch, created, histVars>>
    BY <2>1 DEF Pop
  <2> HIDE DEF X
  <2> QED BY <2>4, <2>5, BackupFirstInvariant
<1>2. CASE \E X \in {Y \in SUBSET Items(store) : Cardinality(Y) \in RemoveSizes} : Del(X)
  BY <1>2, BackupFirstInvariant DEF Del
<1>3. CASE Clear
  BY <1>3, BackupFirstInvariant DEF Clear
<1>4. CASE \E n \in BatchSizes : Staged(n)
  BY <1>4, StagedInvariant
<1>5. CASE New \/ HydrateFlush
  BY <1>5, NewInvariant, FlushInvariant
<1>6. CASE CommitFails \/ CommitMirror \/ CommitLand \/ CommitAnswer
  BY <1>6, CommitFailsInvariant, MirrorInvariant, LandInvariant, AnswerInvariant
<1>7. CASE RemoveLand \/ RemoveFails \/ End
  BY <1>7, RemoveLandInvariant, RemoveFailsInvariant, EndInvariant
<1>8. CASE Finished \/ UNCHANGED vars
  BY <1>8, StutterInvariant DEF Finished
<1> QED BY <1>1, <1>2, <1>3, <1>4, <1>5, <1>6, <1>7, <1>8 DEF Next

\* The invariant holds in every life and between lives.
THEOREM RestartInvariance == Spec => []IInv
<1>1. Init => IInv
  BY InitInvariant
<1>2. IInv /\ [Next]_vars => IInv'
  BY NextInvariant
<1> QED BY <1>1, <1>2, PTL DEF Spec

\* An item whose Push returned nil is in the store from then on, through every
\* crash, until its removal is committed (bbolt.go: a Push is answered after
\* its batch's db.Update).
THEOREM NothingAckedIsLost == Spec => []AckedDurable
<1>1. IInv => AckedDurable
  BY DEF IInv
<1> QED BY <1>1, RestartInvariance, PTL

\* No restart brings back what was popped, deleted or cleared, and none queues
\* an item twice: every removal deletes from the Backup before its transaction
\* commits, and Hydrate runs only into an empty store.
THEOREM RemovedForGood == Spec => []GoneForGood
<1>1. IInv => GoneForGood
  BY DEF IInv
<1> QED BY <1>1, RestartInvariance, PTL

\* Once New has returned, the queue holds everything the Backup held before
\* the first life, apart from what was removed and what a Hydrate cut short
\* had not loaded.
THEOREM RestoredInFull == Spec => []RestoreComplete
<1>1. IInv => RestoreComplete
  BY DEF IInv
<1> QED BY <1>1, RestartInvariance, PTL
=============================================================================
