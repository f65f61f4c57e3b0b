---------------------------- MODULE BtreeProofs ----------------------------
(***************************************************************************)
(* What Btree guarantees for every kind of queue, every bound, every batch *)
(* and every restored contents, proved from an inductive invariant.        *)
(***************************************************************************)
EXTENDS Btree, FiniteSetTheorems, FunctionTheorems, SequenceTheorems, TLAPS

EntrySet == [val : Prios, seq : Nat]

Types ==
    /\ kind \in Kinds
    /\ tree \in SUBSET EntrySet /\ IsFiniteSet(tree)
    /\ idx \in SUBSET EntrySet /\ IsFiniteSet(idx)
    /\ ghosts \in SUBSET EntrySet
    /\ nextSeq \in Nat /\ hydrated \in Nat /\ hydrateEnd \in Nat /\ inflight \in Int
    /\ mirror \in [Prios -> Nat]
    /\ hooks \in SUBSET Batches /\ parkedFull \in SUBSET Nat
    /\ closed \in BOOLEAN /\ parkedEmpty \in BOOLEAN
    /\ halfPushed \in BOOLEAN /\ halfDeleted \in BOOLEAN

-----------------------------------------------------------------------------
(***************************************************************************)
(* The inductive invariant.  An insert adds entries that no ghost can be   *)
(* taken for and that the exemption does not count, because sequence       *)
(* numbers are never given out twice and restored entries have the first   *)
(* ones (Numbering).  A Del of an indexed queue deletes what the index     *)
(* holds: while no Del has unwound that is what the tree holds             *)
(* (GhostsMade), and the counts of the Backup and of the exemption go down *)
(* together.                                                               *)
(***************************************************************************)
Numbering ==
    /\ \A e \in tree \cup idx \cup ghosts : e.seq < nextSeq
    /\ hydrateEnd <= nextSeq

GhostsMade == ~halfDeleted => ghosts = {}

IInv ==
    /\ Types /\ Numbering /\ GhostsMade
    /\ IndexFindsAll /\ RestartLosesNothing /\ BoundExact

-----------------------------------------------------------------------------
(***************************************************************************)
(* Counting entries.                                                       *)
(***************************************************************************)

\* What an entry's value is: a batch loaded from a sequence number on.
LEMMA EntriesAre ==
    ASSUME NEW vs \in Seq(Prios), NEW s \in Nat, NEW k \in 0..Len(vs)
    PROVE  /\ Entries(SubSeq(vs, 1, k), s) = {Entry(vs[i], s + i - 1) : i \in 1..k}
           /\ Entries(SubSeq(vs, 1, k), s) \subseteq EntrySet
           /\ \A e \in Entries(SubSeq(vs, 1, k), s) : s <= e.seq /\ e.seq < s + k
<1>1. Len(SubSeq(vs, 1, k)) = k /\ \A i \in 1..k : SubSeq(vs, 1, k)[i] = vs[i]
  OBVIOUS
<1>2. Entries(SubSeq(vs, 1, k), s) = {Entry(vs[i], s + i - 1) : i \in 1..k}
  BY <1>1 DEF Entries
<1>3. \A i \in 1..k : vs[i] \in Prios /\ s + i - 1 \in Nat /\ s <= s + i - 1 /\ s + i - 1 < s + k
  OBVIOUS
<1> QED BY <1>2, <1>3 DEF Entry, EntrySet

\* Loading k items makes k entries: their sequence numbers differ.
LEMMA EntriesCount ==
    ASSUME NEW vs \in Seq(Prios), NEW s \in Nat, NEW k \in 0..Len(vs)
    PROVE  /\ IsFiniteSet(Entries(SubSeq(vs, 1, k), s))
           /\ Cardinality(Entries(SubSeq(vs, 1, k), s)) = k
<1> DEFINE es == Entries(SubSeq(vs, 1, k), s)
           f == [i \in 1..k |-> Entry(vs[i], s + i - 1)]
<1>0. es = {Entry(vs[i], s + i - 1) : i \in 1..k}
  BY EntriesAre
<1>1. f \in [1..k -> es] /\ \A e \in es : \E i \in 1..k : f[i] = e
  BY <1>0
<1>2. \A i, j \in 1..k : f[i] = f[j] => i = j
  <2> SUFFICES ASSUME NEW i \in 1..k, NEW j \in 1..k, f[i] = f[j] PROVE i = j
    OBVIOUS
  <2>1. f[i].seq = s + i - 1 /\ f[j].seq = s + j - 1
    BY DEF Entry
  <2> QED BY <2>1
<1>3. IsFiniteSet(1..k) /\ Cardinality(1..k) = k
  <2>1. IsFiniteSet(1..k) /\ Cardinality(1..k) = IF 1 > k THEN 0 ELSE k - 1 + 1
    BY FS_Interval
  <2> QED BY <2>1
<1> HIDE DEF es, f
<1>4. ExistsBijection(1..k, es)
  BY <1>1, <1>2, Fun_IsBij DEF ExistsBijection
<1>5. IsFiniteSet(es) /\ Cardinality(es) = k
  BY <1>3, <1>4, FS_Bijection
<1> QED BY <1>5 DEF es

\* No more entries of a value are loaded than the batch has of it.
LEMMA EntriesHeld ==
    ASSUME NEW vs \in Seq(Prios), NEW s \in Nat, NEW k \in 0..Len(vs), NEW v
    PROVE  /\ Held(Entries(SubSeq(vs, 1, k), s), v) <= CountOf(vs, v)
           /\ CountOf(vs, v) \in Nat
<1> DEFINE es == {e \in Entries(SubSeq(vs, 1, k), s) : e.val = v}
           is == {i \in 1..Len(vs) : vs[i] = v}
           f == [e \in es |-> e.seq - s + 1]
<1>1. f \in Injection(es, is)
  <2>1. ASSUME NEW e \in es
        PROVE  \E i \in 1..k : e = Entry(vs[i], s + i - 1) /\ f[e] = i /\ vs[i] = v
    <3>1. PICK i \in 1..k : e = Entry(vs[i], s + i - 1)
      BY EntriesAre
    <3>2. e.seq = s + i - 1 /\ e.val = vs[i] /\ e.val = v
      BY <3>1 DEF Entry
    <3>3. f[e] = i
      BY <3>2
    <3> QED BY <3>1, <3>2, <3>3
  <2>2. f = [e \in es |-> f[e]]
    OBVIOUS
  <2> HIDE DEF f, es
  <2>3. f \in [es -> is]
    BY <2>1, <2>2
  <2>4. \A d, e \in es : f[d] = f[e] => d = e
    BY <2>1
  <2> QED BY <2>3, <2>4, Fun_IsInj
<1>2. IsFiniteSet(1..Len(vs))
  BY FS_Interval
<1>3. IsFiniteSet(is) /\ Cardinality(is) \in Nat
  <2>1. IsFiniteSet(is)
    BY <1>2, FS_Subset
  <2> QED BY <2>1, FS_CardinalityType
<1> HIDE DEF es, is, f
<1>4. Cardinality(es) <= Cardinality(is)
  BY <1>1, <1>3, FS_Injection
<1> QED BY <1>3, <1>4 DEF es, is, Held, CountOf

\* Counting the entries of a value: what is added adds at most its own count.
LEMMA HeldSplit ==
    ASSUME NEW A, NEW B, IsFiniteSet(A), IsFiniteSet(B), NEW v
    PROVE  /\ Held(A, v) \in Nat
           /\ Held(A \cup B, v) <= Held(A, v) + Held(B, v)
<1> DEFINE a == {e \in A : e.val = v}
           b == {e \in B : e.val = v}
<1>1. IsFiniteSet(a) /\ IsFiniteSet(b)
  BY FS_Subset
<1>2. {e \in A \cup B : e.val = v} = a \cup b
  OBVIOUS
<1>h. /\ Held(A, v) = Cardinality(a) /\ Held(B, v) = Cardinality(b)
      /\ Held(A \cup B, v) = Cardinality(a \cup b)
  BY <1>2 DEF Held
<1> HIDE DEF a, b
<1>4. Cardinality(a) \in Nat /\ Cardinality(b) \in Nat
  BY <1>1, FS_CardinalityType
<1>5. Cardinality(a \cup b) = Cardinality(a) + Cardinality(b) - Cardinality(a \cap b)
  BY <1>1, FS_Union
<1>6. Cardinality(a \cap b) \in Nat
  BY <1>1, FS_Intersection, FS_CardinalityType
<1> QED BY <1>h, <1>4, <1>5, <1>6

\* What is taken away takes exactly its own count.
LEMMA HeldRemoved ==
    ASSUME NEW A, NEW B, IsFiniteSet(A), B \subseteq A, NEW v
    PROVE  Held(A \ B, v) = Held(A, v) - Held(B, v)
<1> DEFINE a == {e \in A : e.val = v}
           b == {e \in B : e.val = v}
<1>1. IsFiniteSet(a)
  BY FS_Subset
<1>2. {e \in A \ B : e.val = v} = a \ b /\ a \cap b = b
  OBVIOUS
<1>h. Held(A, v) = Cardinality(a) /\ Held(B, v) = Cardinality(b) /\ Held(A \ B, v) = Cardinality(a \ b)
  BY <1>2 DEF Held
<1> HIDE DEF a, b
<1>3. Cardinality(a \ b) = Cardinality(a) - Cardinality(a \cap b)
  BY <1>1, FS_Difference
<1>4. Cardinality(a \cap b) = Cardinality(b)
  BY <1>2, Zenon
<1> QED BY <1>h, <1>3, <1>4

\* The same for restored entries, and what is left of the others.
LEMMA RestoredSplit ==
    ASSUME NEW A, NEW B, IsFiniteSet(A), B \subseteq A
    PROVE  /\ Restored(A) \in Nat /\ Restored(B) \in Nat /\ Restored(B) <= Restored(A)
           /\ Cardinality(A) \in Nat /\ Cardinality(A \ B) \in Nat
           /\ Restored(A \ B) = Restored(A) - Restored(B)
           /\ Cardinality(A \ B) - Restored(A \ B) <= Cardinality(A) - Restored(A)
<1> DEFINE a == {e \in A : e.seq < hydrateEnd}
           b == {e \in B : e.seq < hydrateEnd}
<1>1. IsFiniteSet(a) /\ IsFiniteSet(b) /\ IsFiniteSet(B)
  BY FS_Subset
<1>2. {e \in A \ B : e.seq < hydrateEnd} = a \ b /\ a \cap b = b /\ A \cap B = B
  OBVIOUS
<1>3. b \subseteq B /\ b \subseteq a
  OBVIOUS
<1>r. /\ Restored(A) = Cardinality(a) /\ Restored(B) = Cardinality(b)
      /\ Restored(A \ B) = Cardinality(a \ b)
  BY <1>2 DEF Restored
<1> HIDE DEF a, b
<1>4. Cardinality(a) \in Nat /\ Cardinality(b) \in Nat /\ Cardinality(A) \in Nat
  BY <1>1, FS_CardinalityType
<1>5. Cardinality(b) <= Cardinality(B) /\ Cardinality(b) <= Cardinality(a)
  BY <1>1, <1>3, FS_Subset
<1>6. Cardinality(a \ b) = Cardinality(a) - Cardinality(a \cap b)
  BY <1>1, FS_Difference
<1>i. Cardinality(a \cap b) = Cardinality(b) /\ Cardinality(A \cap B) = Cardinality(B)
  BY <1>2, Zenon
<1>7. /\ IsFiniteSet(A \ B)
      /\ Cardinality(A \ B) = Cardinality(A) - Cardinality(A \cap B)
  BY FS_Difference
<1>n. Cardinality(A \ B) \in Nat
  BY <1>7, FS_CardinalityType
<1>8. Cardinality(B) \in Nat
  BY <1>1, FS_CardinalityType
<1> QED BY <1>r, <1>i, <1>4, <1>5, <1>6, <1>7, <1>n, <1>8

-----------------------------------------------------------------------------
(***************************************************************************)
(* Init.                                                                   *)
(***************************************************************************)

\* Hydrate numbers the restored entries from zero: all of them are exempt, all
\* of them are indexed, and the Backup still holds them.
LEMMA InitInvariant == Init => IInv
<1> SUFFICES ASSUME Init PROVE IInv
  OBVIOUS
<1>0. PICK m \in Restores : Hydrate(m)
  BY DEF Init
<1> DEFINE es == Entries(m, 0)
<1>1. m \in Seq(Prios) /\ Len(m) \in Nat /\ SubSeq(m, 1, Len(m)) = m
  BY BatchesAssumption
<1>2. /\ es \subseteq EntrySet /\ \A e \in es : e.seq < Len(m)
      /\ IsFiniteSet(es) /\ Cardinality(es) = Len(m)
      /\ \A v : Held(es, v) <= CountOf(m, v) /\ CountOf(m, v) \in Nat
  <2>1. 0 \in Nat /\ Len(m) \in 0..Len(m)
    BY <1>1
  <2>2. /\ Entries(SubSeq(m, 1, Len(m)), 0) \subseteq EntrySet
        /\ \A e \in Entries(SubSeq(m, 1, Len(m)), 0) : e.seq < 0 + Len(m)
    BY <1>1, <2>1, EntriesAre
  <2>3. /\ IsFiniteSet(Entries(SubSeq(m, 1, Len(m)), 0))
        /\ Cardinality(Entries(SubSeq(m, 1, Len(m)), 0)) = Len(m)
    BY <1>1, <2>1, EntriesCount
  <2>4. \A v : Held(Entries(SubSeq(m, 1, Len(m)), 0), v) <= CountOf(m, v) /\ CountOf(m, v) \in Nat
    BY <1>1, <2>1, EntriesHeld
  <2>5. Entries(SubSeq(m, 1, Len(m)), 0) = es
    BY <1>1
  <2> HIDE DEF es
  <2> QED BY <1>1, <2>2, <2>3, <2>4, <2>5
<1> HIDE DEF es
<1>3. /\ tree = es /\ (Indexed => idx = es) /\ (idx = es \/ idx = {})
      /\ nextSeq = Len(m) /\ hydrated = Len(m) /\ hydrateEnd = Len(m)
      /\ mirror = [v \in Prios |-> CountOf(m, v)]
  BY <1>0 DEF Hydrate, es
<1>4. Types
  <2>1. IsFiniteSet(idx)
    BY <1>2, <1>3, FS_EmptySet
  <2>2. mirror \in [Prios -> Nat]
    BY <1>2, <1>3
  <2>3. idx \in SUBSET EntrySet
    BY <1>2, <1>3
  <2>4. tree \in SUBSET EntrySet /\ IsFiniteSet(tree)
    BY <1>2, <1>3
  <2>5. nextSeq \in Nat /\ hydrated \in Nat /\ hydrateEnd \in Nat
    BY <1>1, <1>3
  <2>6. /\ kind \in Kinds /\ ghosts \in SUBSET EntrySet /\ inflight \in Int
        /\ hooks \in SUBSET Batches /\ parkedFull \in SUBSET Nat
    BY DEF Init
  <2>7. /\ closed \in BOOLEAN /\ parkedEmpty \in BOOLEAN
        /\ halfPushed \in BOOLEAN /\ halfDeleted \in BOOLEAN
    BY DEF Init
  <2> QED BY <2>1, <2>2, <2>3, <2>4, <2>5, <2>6, <2>7, Zenon DEF Types
<1>5. Numbering /\ GhostsMade /\ IndexFindsAll /\ RestartLosesNothing
  BY <1>1, <1>2, <1>3
  DEF Init, Numbering, GhostsMade, IndexFindsAll, RestartLosesNothing
<1>6. Restored(tree) = Len(m)
  <2>1. {e \in tree : e.seq < hydrateEnd} = es
    BY <1>2, <1>3
  <2> QED BY <2>1, <1>2 DEF Restored
<1>7. BoundExact
  BY <1>1, <1>2, <1>3, <1>6, SizesAssumption DEF Init, BoundExact
<1> QED BY <1>4, <1>5, <1>7 DEF IInv

-----------------------------------------------------------------------------
(***************************************************************************)
(* Push.                                                                   *)
(***************************************************************************)

\* The invariant of everything but the bound, after k items of a batch have
\* been loaded and the Backup has the batch.
LEMMA LoadEffect ==
    ASSUME IInv, NEW vs \in Seq(Prios), NEW k \in 0..Len(vs), Load(vs, k), BackupPush(vs),
           UNCHANGED <<kind, hydrated, hydrateEnd, halfDeleted, ghosts>>
    PROVE  /\ tree' \in SUBSET EntrySet /\ IsFiniteSet(tree')
           /\ idx' \in SUBSET EntrySet /\ IsFiniteSet(idx')
           /\ nextSeq' \in Nat /\ mirror' \in [Prios -> Nat]
           /\ Numbering' /\ GhostsMade' /\ IndexFindsAll' /\ RestartLosesNothing'
           /\ Cardinality(tree) \in Nat
           /\ Cardinality(tree') = Cardinality(tree) + k
           /\ Restored(tree)' = Restored(tree)
           /\ k = 0 => tree' = tree
<1> DEFINE es == Entries(SubSeq(vs, 1, k), nextSeq)
<1> USE DEF IInv
<1>0. nextSeq \in Nat /\ k \in Nat /\ Len(vs) \in Nat
  BY DEF Types
<1>1. /\ es \subseteq EntrySet /\ \A e \in es : nextSeq <= e.seq /\ e.seq < nextSeq + k
      /\ IsFiniteSet(es) /\ Cardinality(es) = k
      /\ \A v : Held(es, v) <= CountOf(vs, v) /\ CountOf(vs, v) \in Nat
  BY <1>0, EntriesAre, EntriesCount, EntriesHeld
<1>2. /\ tree' = tree \cup es /\ (Indexed => idx' = idx \cup es) /\ (~Indexed => idx' = idx)
      /\ nextSeq' = nextSeq + k
  BY DEF Load
<1> HIDE DEF es
<1>3. \A e \in EntrySet : e.seq \in Nat
  BY DEF EntrySet
<1>4. /\ tree' \in SUBSET EntrySet /\ idx' \in SUBSET EntrySet /\ nextSeq' \in Nat
      /\ IsFiniteSet(tree') /\ IsFiniteSet(idx')
  <2>1. IsFiniteSet(tree \cup es) /\ IsFiniteSet(idx \cup es)
    BY <1>1, FS_Union DEF Types
  <2>2. nextSeq' \in Nat
    BY <1>0, <1>2
  <2>3. IsFiniteSet(tree') /\ IsFiniteSet(idx')
    BY <1>2, <2>1, Zenon DEF Types
  <2>4. tree' \in SUBSET EntrySet /\ idx' \in SUBSET EntrySet
    BY <1>1, <1>2 DEF Types
  <2> QED BY <2>2, <2>3, <2>4
<1>5. mirror' \in [Prios -> Nat] /\ \A v \in Prios : mirror'[v] = mirror[v] + CountOf(vs, v)
  BY <1>1 DEF BackupPush, Types
<1>6. Numbering' /\ GhostsMade'
  BY <1>0, <1>1, <1>2, <1>3 DEF Numbering, GhostsMade, Types
<1>7. es \cap tree = {} /\ es \cap ghosts = {}
  BY <1>0, <1>1, <1>3 DEF Numbering, Types
<1>8. IndexFindsAll'
  BY <1>2, <1>7 DEF IndexFindsAll, Indexed
<1>9. RestartLosesNothing'
  <2> SUFFICES ASSUME ~halfDeleted, NEW v \in Prios PROVE Held(tree \cup es, v) <= mirror'[v]
    BY <1>2 DEF RestartLosesNothing, Held
  <2>1. Held(tree, v) <= mirror[v] /\ mirror[v] \in Nat
    BY DEF RestartLosesNothing, Types
  <2>2. Held(tree, v) \in Nat /\ Held(es, v) \in Nat
    BY <1>1, HeldSplit DEF Types
  <2>3. Held(tree \cup es, v) <= Held(tree, v) + Held(es, v)
    BY <1>1, HeldSplit DEF Types
  <2>4. Held(tree \cup es, v) \in Nat
    BY <1>2, <1>4, HeldSplit
  <2> QED BY <1>1, <1>5, <2>1, <2>2, <2>3, <2>4
<1>10. Cardinality(tree) \in Nat /\ Cardinality(tree') = Cardinality(tree) + k
  <2>1. Cardinality(tree) \in Nat
    BY FS_CardinalityType DEF Types
  <2>2. Cardinality(tree \cup es) = Cardinality(tree) + Cardinality(es) - Cardinality(tree \cap es)
    BY <1>1, FS_Union DEF Types
  <2>3. tree \cap es = {}
    BY <1>7
  <2>4. Cardinality(tree \cap es) = 0
    BY <2>3, FS_EmptySet, Zenon
  <2> QED BY <1>0, <1>1, <1>2, <2>1, <2>2, <2>4
<1>11. Restored(tree)' = Restored(tree)
  <2>1. \A e \in es : ~(e.seq < hydrateEnd)
    BY <1>0, <1>1, <1>3 DEF Numbering, Types
  <2>2. {e \in tree \cup es : e.seq < hydrateEnd} = {e \in tree : e.seq < hydrateEnd}
    BY <2>1
  <2>3. Restored(tree)' = Cardinality({e \in tree \cup es : e.seq < hydrateEnd})
    BY <1>2 DEF Restored
  <2> QED BY <2>2, <2>3 DEF Restored
<1>12. k = 0 => tree' = tree
  BY <1>1, <1>2, FS_EmptySet
<1> QED BY <1>4, <1>5, <1>6, <1>8, <1>9, <1>10, <1>11, <1>12

\* An insert, complete or unwound.  What it charges to the bound was admitted,
\* either by its own gate or by the reservation it gives back.
LEMMA InsertInvariant ==
    ASSUME IInv, ~closed, NEW vs \in Batches, NEW hooked \in BOOLEAN, Insert(vs, hooked),
           hooks' \in SUBSET Batches,
           IF hooked THEN inflight' = inflight - Len(vs) ELSE inflight' = inflight /\ Gate(Len(vs))
    PROVE  IInv'
<1> USE DEF IInv
<1>1. vs \in Seq(Prios) /\ Len(vs) \in Nat
  BY BatchesAssumption
<1>2. PICK k \in 0..Len(vs) :
        /\ Load(vs, k)
        /\ halfPushed' \in BOOLEAN /\ parkedEmpty' \in BOOLEAN /\ parkedFull' \subseteq parkedFull
        /\ hooked /\ parkedFull' # {} => k = Len(vs)
        /\ parkedEmpty' /\ ~halfPushed' => parkedEmpty /\ ~halfPushed /\ (k = 0 \/ tree # {})
  <2>1. CASE /\ Load(vs, Len(vs)) /\ UNCHANGED <<halfPushed, parkedFull>>
             /\ IF tree = {} THEN SignalNotEmpty ELSE UNCHANGED parkedEmpty
    <3>1. Len(vs) \in 0..Len(vs)
      BY <1>1
    <3> QED BY <2>1, <3>1 DEF SignalNotEmpty, Types
  <2>2. CASE /\ HashUnwinds(vs) /\ UNCHANGED parkedEmpty
             /\ IF hooked THEN SignalNotFull ELSE UNCHANGED parkedFull
    <3>1. 0 \in 0..Len(vs)
      BY <1>1
    <3> QED BY <2>2, <3>1 DEF HashUnwinds, SignalNotFull, Types
  <2>3. CASE /\ LessUnwinds(vs) /\ UNCHANGED parkedEmpty
             /\ IF hooked THEN SignalNotFull ELSE UNCHANGED parkedFull
    <3>1. PICK j \in 0..(Len(vs) - 1) : Load(vs, j) /\ halfPushed' = (halfPushed \/ j > 0)
      BY <2>3 DEF LessUnwinds
    <3>2. j \in 0..Len(vs) /\ (j > 0 \/ j = 0)
      BY <1>1
    <3> QED BY <2>3, <3>1, <3>2 DEF SignalNotFull, Types
  <2> QED BY <2>1, <2>2, <2>3 DEF Insert
<1>3. UNCHANGED <<kind, hydrated, hydrateEnd, closed, halfDeleted, ghosts>> /\ BackupPush(vs)
  BY DEF Insert, MirrorFirst
<1>4. /\ tree' \in SUBSET EntrySet /\ IsFiniteSet(tree')
      /\ idx' \in SUBSET EntrySet /\ IsFiniteSet(idx')
      /\ nextSeq' \in Nat /\ mirror' \in [Prios -> Nat]
      /\ Numbering' /\ GhostsMade' /\ IndexFindsAll' /\ RestartLosesNothing'
      /\ Cardinality(tree) \in Nat
      /\ Cardinality(tree') = Cardinality(tree) + k
      /\ Restored(tree)' = Restored(tree)
      /\ k = 0 => tree' = tree
  BY <1>1, <1>2, <1>3, LoadEffect
<1>6. parkedFull' \in SUBSET Nat /\ parkedFull' \subseteq parkedFull /\ inflight' \in Int
  BY <1>1, <1>2 DEF Types
<1>7. Types'
  BY <1>2, <1>3, <1>4, <1>6 DEF Types
<1>8. hydrated \in Nat /\ inflight \in Int /\ k \in Nat /\ k <= Len(vs) /\ MaxSize \in Nat
  BY <1>1, SizesAssumption DEF Types
<1>9. ASSUME ~halfDeleted
      PROVE  /\ (hydrated = Restored(tree))'
             /\ \A n \in parkedFull' : ~Gate(n)'
             /\ MaxSize > 0 => (Cardinality(tree) - hydrated + inflight <= MaxSize)'
  <2>1. hydrated = Restored(tree) /\ \A n \in parkedFull : ~Gate(n) /\ n \in Nat
    BY <1>9 DEF BoundExact, Types
  <2>2. MaxSize > 0 => Cardinality(tree) - hydrated + inflight <= MaxSize
    BY <1>9 DEF BoundExact
  <2>3. ASSUME NEW n \in parkedFull' PROVE ~Gate(n)'
    <3>1. n \in Nat /\ MaxSize # 0 /\ Cardinality(tree) - hydrated + inflight + n > MaxSize
      BY <1>4, <1>6, <1>8, <2>1, <2>3 DEF Gate
    <3>2. Cardinality(tree) + inflight <= Cardinality(tree') + inflight'
      BY <1>1, <1>2, <1>4, <1>8, <2>3
    <3>3. Cardinality(tree') - hydrated' + inflight' + n > MaxSize
      <4>1. hydrated' = hydrated /\ Cardinality(tree) \in Int /\ Cardinality(tree') \in Int
        BY <1>3, <1>4, <1>8
      <4> QED BY <1>6, <1>8, <3>1, <3>2, <4>1
    <3> QED BY <1>3, <1>4, <1>6, <1>8, <3>1, <3>3 DEF Gate
  <2>4. MaxSize > 0 => Cardinality(tree') - hydrated' + inflight' <= MaxSize
    BY <1>1, <1>3, <1>4, <1>8, <2>2 DEF Gate
  <2> QED BY <1>3, <1>4, <2>1, <2>3, <2>4
<1>10. parkedEmpty' /\ ~halfPushed' => tree' = {}
  BY <1>2, <1>4, <1>8 DEF BoundExact
<1>11. ~closed'
  BY <1>3
<1>12. BoundExact'
  BY <1>3, <1>9, <1>10, <1>11 DEF BoundExact
<1> QED BY <1>4, <1>7, <1>12

-----------------------------------------------------------------------------
(***************************************************************************)
(* Pop, Del and the rest.                                                  *)
(***************************************************************************)

\* What BackupDel leaves of the counts.
LEMMA BackupDelEffect ==
    ASSUME mirror \in [Prios -> Nat], NEW es, IsFiniteSet(es), BackupDel(es)
    PROVE  /\ mirror' \in [Prios -> Nat]
           /\ \A v \in Prios : mirror'[v] >= mirror[v] - Held(es, v)
<1>1. \A v \in Prios : Held(es, v) \in Nat
  BY HeldSplit
<1> QED BY <1>1 DEF BackupDel

\* A removal: entries leave the tree, the index, the Backup and the exemption
\* together, and every producer is woken.
LEMMA RemovalInvariant ==
    ASSUME IInv, ~closed, NEW es, es \subseteq tree \cup idx, ~halfDeleted => es \subseteq tree,
           tree' = tree \ es, idx' = idx \ es, ghosts' \subseteq ghosts,
           Indexed => ghosts' = ghosts \ es,
           BackupDel(es), DropHydrated(es), SignalNotFull,
           UNCHANGED <<kind, nextSeq, hydrateEnd, inflight, closed, hooks, parkedEmpty,
                       halfPushed, halfDeleted>>
    PROVE  IInv'
<1> USE DEF IInv
<1>1. IsFiniteSet(es) /\ IsFiniteSet(tree') /\ IsFiniteSet(idx')
  <2>1. IsFiniteSet(tree \cup idx)
    BY FS_Union DEF Types
  <2>2. IsFiniteSet(es)
    BY <2>1, FS_Subset
  <2> QED BY <2>2, FS_Difference DEF Types
<1>2. mirror' \in [Prios -> Nat] /\ \A v \in Prios : mirror'[v] >= mirror[v] - Held(es, v)
  BY <1>1, BackupDelEffect DEF Types
<1>3. Restored(es) \in Nat
  BY <1>1, RestoredSplit
<1>4. hydrated' = (IF Restored(es) > hydrated THEN 0 ELSE hydrated - Restored(es)) /\ hydrated' \in Nat
  BY <1>3 DEF DropHydrated, Types
<1>5. Types'
  BY <1>1, <1>2, <1>4 DEF Types, SignalNotFull
<1>6. Numbering' /\ GhostsMade'
  BY DEF Numbering, GhostsMade
<1>7. IndexFindsAll'
  BY DEF IndexFindsAll, Indexed
<1>8. RestartLosesNothing'
  <2> SUFFICES ASSUME ~halfDeleted, NEW v \in Prios PROVE Held(tree \ es, v) <= mirror'[v]
    BY DEF RestartLosesNothing, Held
  <2>1. Held(tree, v) <= mirror[v] /\ mirror[v] \in Nat /\ mirror'[v] \in Nat
    BY <1>2 DEF RestartLosesNothing, Types
  <2>2. Held(tree, v) \in Nat /\ Held(es, v) \in Nat
    BY <1>1, HeldSplit, Zenon DEF Types
  <2>3. Held(tree \ es, v) = Held(tree, v) - Held(es, v)
    <3>1. es \subseteq tree /\ IsFiniteSet(tree)
      BY DEF Types
    <3> QED BY <1>1, <3>1, HeldRemoved
  <2> QED BY <1>2, <2>1, <2>2, <2>3
<1>9. ASSUME ~halfDeleted
      PROVE  /\ (hydrated = Restored(tree))'
             /\ MaxSize > 0 => (Cardinality(tree) - hydrated + inflight <= MaxSize)'
  <2>1. hydrated = Restored(tree) /\ hydrated \in Nat /\ inflight \in Int
    BY <1>9 DEF BoundExact, Types
  <2>2. MaxSize > 0 => Cardinality(tree) - hydrated + inflight <= MaxSize
    BY <1>9 DEF BoundExact
  <2>3. /\ Restored(tree) \in Nat /\ Restored(es) \in Nat /\ Restored(es) <= Restored(tree)
        /\ Cardinality(tree) \in Nat /\ Cardinality(tree \ es) \in Nat
        /\ Restored(tree \ es) = Restored(tree) - Restored(es)
        /\ Cardinality(tree \ es) - Restored(tree \ es) <= Cardinality(tree) - Restored(tree)
    BY <1>9, RestoredSplit DEF Types
  <2>4. Restored(tree)' = Restored(tree \ es)
    BY DEF Restored
  <2>5. hydrated' = Restored(tree \ es)
    BY <1>4, <2>1, <2>3
  <2>6. MaxSize > 0 => Cardinality(tree \ es) - hydrated' + inflight <= MaxSize
    BY <2>1, <2>2, <2>3, <2>5, SizesAssumption
  <2> QED BY <2>4, <2>5, <2>6
<1>10. BoundExact'
  BY <1>9 DEF BoundExact, SignalNotFull
<1> QED BY <1>5, <1>6, <1>7, <1>8, <1>10

\* Pop takes the front of the tree; ghosts are not in the tree.
LEMMA PopInvariant ==
    ASSUME IInv, NEW n \in PopSizes, Pop(n)
    PROVE  IInv'
<1> DEFINE es == First(n)
<1>1. es \subseteq tree
  BY DEF First
<1>2. /\ ~closed /\ BackupDel(es) /\ tree' = tree \ es /\ idx' = idx \ es /\ DropHydrated(es)
      /\ SignalNotFull /\ ghosts' = ghosts
      /\ UNCHANGED <<kind, nextSeq, hydrateEnd, inflight, closed, hooks, parkedEmpty,
                     halfPushed, halfDeleted>>
  BY DEF Pop, histVars
<1> HIDE DEF es
<1>3. Indexed => ghosts' = ghosts \ es
  BY <1>1, <1>2 DEF IInv, IndexFindsAll
<1> QED BY <1>1, <1>2, <1>3, RemovalInvariant

\* Del takes what the index holds of the named values, or what a scan finds;
\* without an unwound Del both are in the tree.
LEMMA DelInvariant ==
    ASSUME IInv, NEW vs \in DelArgs, Del(vs)
    PROVE  IInv'
<1> DEFINE es == Matched(vs)
<1>1. es \subseteq tree \cup idx /\ (~Indexed => es \subseteq tree) /\ (Indexed => es \subseteq idx)
  BY DEF Matched
<1>2. /\ ~closed /\ BackupDel(es) /\ tree' = tree \ es /\ idx' = idx \ es /\ DropHydrated(es)
      /\ SignalNotFull /\ ghosts' = ghosts \ es
      /\ UNCHANGED <<kind, nextSeq, hydrateEnd, inflight, closed, hooks, parkedEmpty,
                     halfPushed, halfDeleted>>
  BY DEF Del
<1> HIDE DEF es
<1>3. ~halfDeleted => es \subseteq tree
  BY <1>1 DEF IInv, GhostsMade, IndexFindsAll
<1> QED BY <1>1, <1>2, <1>3, RemovalInvariant

\* A Del that unwinds ends what is promised of the counts, and leaves in the
\* index at most the one entry it had just deleted from the tree.
LEMMA DelUnwindsInvariant ==
    ASSUME IInv, NEW vs \in DelArgs, DelUnwinds(vs)
    PROVE  IInv'
<1> USE DEF IInv
<1> DEFINE es == Matched(vs)
<1>0. PICK e \in es : \E done \in Done(es, e) :
        /\ idx' = idx \ done
        /\ \/ tree' = tree \ done /\ ghosts' = ghosts \ done
           \/ /\ Indexed
              /\ tree' = tree \ (done \cup {e}) /\ ghosts' = (ghosts \ done) \cup {e}
  BY DEF DelUnwinds
<1>1. PICK done \in Done(es, e) :
        /\ idx' = idx \ done
        /\ \/ tree' = tree \ done /\ ghosts' = ghosts \ done
           \/ /\ Indexed
              /\ tree' = tree \ (done \cup {e}) /\ ghosts' = (ghosts \ done) \cup {e}
  BY <1>0
<1>2. es \subseteq tree \cup idx /\ (Indexed => es \subseteq idx)
  BY DEF Matched
<1>3. done \subseteq es /\ (Indexed => e \notin done)
  BY DEF Done
<1>4. /\ ~closed /\ BackupDel(es) /\ halfDeleted' = TRUE
      /\ UNCHANGED <<kind, bookVars, inflight, closed, hooks, parkVars, halfPushed>>
  BY DEF DelUnwinds
<1> HIDE DEF es
<1>5. IsFiniteSet(es)
  <2>1. IsFiniteSet(tree \cup idx)
    BY FS_Union DEF Types
  <2> QED BY <1>2, <2>1, FS_Subset
<1>6. mirror' \in [Prios -> Nat]
  BY <1>4, <1>5, BackupDelEffect DEF Types
<1>7. tree' \subseteq tree /\ idx' \subseteq idx /\ ghosts' \subseteq ghosts \cup es
  BY <1>1
<1>8. IsFiniteSet(tree') /\ IsFiniteSet(idx')
  BY <1>7, FS_Subset DEF Types
<1>9. es \subseteq EntrySet
  BY <1>2 DEF Types
<1>10. Types'
  BY <1>4, <1>6, <1>7, <1>8, <1>9 DEF Types, bookVars, parkVars
<1>11. Numbering' /\ GhostsMade'
  BY <1>2, <1>4, <1>7 DEF Numbering, GhostsMade, bookVars
<1>12. IndexFindsAll'
  BY <1>1, <1>2, <1>3, <1>4 DEF IndexFindsAll, Indexed
<1>13. RestartLosesNothing' /\ BoundExact'
  BY <1>4, <1>7 DEF RestartLosesNothing, BoundExact, parkVars
<1> QED BY <1>10, <1>11, <1>12, <1>13

\* Clear empties everything at once.
LEMMA ClearInvariant ==
    ASSUME IInv, Clear
    PROVE  IInv'
<1> USE DEF IInv, Clear
<1>1. Types'
  <2>1. IsFiniteSet({})
    BY FS_EmptySet
  <2> QED BY <2>1 DEF Types, SignalNotFull
<1>2. Numbering' /\ GhostsMade' /\ IndexFindsAll'
  BY DEF Numbering, GhostsMade, IndexFindsAll
<1>3. \A es : es = {} => Cardinality(es) = 0
  BY FS_EmptySet
<1>4. \A v \in Prios : Held({}, v) = 0
  BY <1>3 DEF Held
<1>5. RestartLosesNothing'
  BY <1>4 DEF RestartLosesNothing, Held
<1>6. Restored({}) = 0 /\ Cardinality({}) = 0
  BY <1>3 DEF Restored
<1>7. Restored(tree)' = 0 /\ Cardinality(tree') = 0
  BY <1>6 DEF Restored
<1>8. ~halfDeleted /\ MaxSize > 0 => inflight <= MaxSize
  <2> SUFFICES ASSUME ~halfDeleted, MaxSize > 0 PROVE inflight <= MaxSize
    OBVIOUS
  <2>1. hydrated = Restored(tree) /\ Cardinality(tree) - hydrated + inflight <= MaxSize
    BY DEF BoundExact
  <2>2. Restored(tree) \in Nat /\ Cardinality(tree) \in Nat /\ Restored(tree) <= Cardinality(tree)
    <3>1. {e \in tree : e.seq < hydrateEnd} \subseteq tree
      OBVIOUS
    <3> QED BY <3>1, FS_Subset, FS_CardinalityType DEF Restored, Types
  <2> QED BY <2>1, <2>2, SizesAssumption DEF Types
<1>9. BoundExact'
  BY <1>7, <1>8, SizesAssumption DEF BoundExact, SignalNotFull, Types
<1> QED BY <1>1, <1>2, <1>5, <1>9

\* A step that leaves the contents alone keeps what is said of them.
LEMMA SameContents ==
    ASSUME IInv,
           UNCHANGED <<kind, tree, idx, nextSeq, hydrated, hydrateEnd, mirror, halfPushed,
                       halfDeleted, ghosts>>
    PROVE  /\ Numbering' /\ GhostsMade' /\ IndexFindsAll' /\ RestartLosesNothing'
           /\ Restored(tree)' = Restored(tree)
BY DEF IInv, Numbering, GhostsMade, IndexFindsAll, Indexed, RestartLosesNothing, Held, Restored

\* Reserving takes no more than the gate admits and wakes nobody.
LEMMA ReserveInvariant ==
    ASSUME IInv, NEW vs \in Batches, Reserve(vs)
    PROVE  IInv'
<1> USE DEF IInv, Reserve, bookVars, parkVars, histVars
<1>1. Len(vs) \in Nat /\ inflight \in Int /\ hydrated \in Nat /\ MaxSize \in Nat
  BY BatchesAssumption, SizesAssumption DEF Types
<1>2. Cardinality(tree) \in Nat
  BY FS_CardinalityType DEF Types
<1>3. Types'
  BY <1>1 DEF Types
<1>4. \A n \in parkedFull : n \in Nat /\ (~Gate(n) => ~Gate(n)')
  BY <1>1, <1>2 DEF Gate, Types
<1>5. MaxSize > 0 => Cardinality(tree) - hydrated + inflight' <= MaxSize
  BY <1>1, <1>2 DEF Gate
<1>6. Restored(tree)' = Restored(tree)
  BY SameContents
<1>7. BoundExact'
  BY <1>4, <1>5, <1>6 DEF BoundExact
<1> QED BY <1>3, <1>7, SameContents

\* A hook that fails gives its reservation back and wakes every producer.
LEMMA HookFailsInvariant ==
    ASSUME IInv, NEW vs \in hooks, hooks' = hooks \ {vs}, inflight' = inflight - Len(vs),
           SignalNotFull,
           UNCHANGED <<kind, tree, idx, bookVars, closed, mirror, parkedEmpty, histVars>>
    PROVE  IInv'
<1> USE DEF IInv, bookVars, histVars, SignalNotFull
<1>1. Len(vs) \in Nat /\ inflight \in Int /\ hydrated \in Nat /\ MaxSize \in Nat
  BY BatchesAssumption, SizesAssumption DEF Types
<1>2. Cardinality(tree) \in Nat
  BY FS_CardinalityType DEF Types
<1>3. Types'
  BY <1>1 DEF Types
<1>4. Restored(tree)' = Restored(tree)
  BY SameContents
<1>5. BoundExact'
  BY <1>1, <1>2, <1>4 DEF BoundExact
<1> QED BY <1>3, <1>5, SameContents

\* A producer parks only where the gate refused it.
LEMMA WaitNotFullInvariant ==
    ASSUME IInv, NEW n \in {Len(vs) : vs \in Batches} \cup {1}, WaitNotFull(n)
    PROVE  IInv'
<1> USE DEF IInv, WaitNotFull, bookVars, histVars
<1>1. n \in Nat
  BY BatchesAssumption
<1>2. Types'
  BY <1>1 DEF Types
<1>3. Restored(tree)' = Restored(tree)
  BY SameContents
<1>4. \A m : Gate(m)' <=> Gate(m)
  BY DEF Gate
<1>5. BoundExact'
  BY <1>3, <1>4 DEF BoundExact
<1> QED BY <1>2, <1>5, SameContents

\* A consumer parks only on an empty queue.
LEMMA WaitNotEmptyInvariant ==
    ASSUME IInv, WaitNotEmpty
    PROVE  IInv'
<1> USE DEF IInv, WaitNotEmpty, bookVars, histVars
<1>1. Types'
  BY DEF Types
<1>2. Restored(tree)' = Restored(tree)
  BY SameContents
<1>3. BoundExact'
  BY <1>2 DEF BoundExact, Gate
<1> QED BY <1>1, <1>3, SameContents

\* Close wakes everybody.
LEMMA CloseInvariant ==
    ASSUME IInv, Close
    PROVE  IInv'
<1> USE DEF IInv, Close, bookVars, histVars, SignalNotFull, SignalNotEmpty
<1>1. Types'
  BY DEF Types
<1>2. Restored(tree)' = Restored(tree)
  BY SameContents
<1>3. BoundExact'
  BY <1>2 DEF BoundExact
<1> QED BY <1>1, <1>3, SameContents

\* A call that moves nothing.
LEMMA UntouchedInvariant ==
    ASSUME IInv, UNCHANGED vars
    PROVE  IInv'
<1> USE DEF IInv, vars, bookVars, parkVars, histVars
<1>1. Types'
  BY DEF Types
<1>2. Restored(tree)' = Restored(tree)
  BY SameContents
<1>3. BoundExact'
  BY <1>2 DEF BoundExact, Gate
<1> QED BY <1>1, <1>3, SameContents

-----------------------------------------------------------------------------
\* Every operation of the keyed B-tree keeps the invariant.
THEOREM BtreeInvariance == Spec => []IInv
<1>1. ASSUME IInv, [Next]_vars PROVE IInv'
  <2>1. ASSUME NEW vs \in Batches, Push(vs) PROVE IInv'
    BY <1>1, <2>1, InsertInvariant DEF Push, IInv, Types
  <2>2. ASSUME NEW vs \in Batches, Reserve(vs) PROVE IInv'
    BY <1>1, <2>2, ReserveInvariant
  <2>3. ASSUME NEW vs \in Batches, HookReturn(vs) PROVE IInv'
    <3>1. vs \in hooks /\ hooks' = hooks \ {vs} /\ inflight' = inflight - Len(vs)
      BY <2>3 DEF HookReturn
    <3>2. hooks' \in SUBSET Batches
      BY <1>1, <3>1 DEF IInv, Types
    <3>3. CASE /\ SignalNotFull
               /\ UNCHANGED <<kind, tree, idx, bookVars, closed, mirror, parkedEmpty, histVars>>
      BY <1>1, <3>1, <3>3, HookFailsInvariant
    <3>4. CASE ~closed /\ Insert(vs, TRUE)
      BY <1>1, <3>1, <3>2, <3>4, InsertInvariant
    <3> QED BY <2>3, <3>3, <3>4 DEF HookReturn
  <2>4. ASSUME NEW n \in {Len(vs) : vs \in Batches} \cup {1}, WaitNotFull(n) PROVE IInv'
    BY <1>1, <2>4, WaitNotFullInvariant
  <2>5. ASSUME NEW n \in PopSizes, Pop(n) PROVE IInv'
    BY <1>1, <2>5, PopInvariant
  <2>6. ASSUME NEW vs \in DelArgs, Del(vs) \/ DelUnwinds(vs) PROVE IInv'
    BY <1>1, <2>6, DelInvariant, DelUnwindsInvariant
  <2>7. CASE WaitNotEmpty \/ Clear \/ Close
    BY <1>1, <2>7, WaitNotEmptyInvariant, ClearInvariant, CloseInvariant
  <2>8. CASE UNCHANGED vars
    BY <1>1, <2>8, UntouchedInvariant
  <2> QED BY <1>1, <2>1, <2>2, <2>3, <2>4, <2>5, <2>6, <2>7, <2>8 DEF Next, Untouched
<1> QED BY InitInvariant, <1>1, PTL DEF Spec

\* Exists and Del, which look in the index alone, miss no entry of the tree,
\* whatever Hash or Less unwound out of a Push or a Del before.
THEOREM IndexComplete == Spec => []IndexFindsAll
<1>1. IInv => IndexFindsAll
  BY DEF IInv
<1> QED BY BtreeInvariance, <1>1, PTL

\* Until a Del unwinds, the Backup holds every queued entry: a Push mirrors the
\* whole batch before the first insert, and a removal tells the Backup of no
\* more than it removes.
THEOREM QueuedIsMirrored == Spec => []RestartLosesNothing
<1>1. IInv => RestartLosesNothing
  BY DEF IInv
<1> QED BY BtreeInvariance, <1>1, PTL

\* Until a Del unwinds, the exemption counts exactly the restored entries still
\* queued, the rest fits the bound together with the reservations, and nobody
\* is parked for what is there.
THEOREM BoundAndWakeups == Spec => []BoundExact
<1>1. IInv => BoundExact
  BY DEF IInv
<1> QED BY BtreeInvariance, <1>1, PTL
=============================================================================
