----------------------------- MODULE BboltProofs -----------------------------
(***************************************************************************)
(* What Bbolt guarantees for every set of goroutines, every item type,     *)
(* every size and every batch, proved from an inductive invariant.         *)
(***************************************************************************)
EXTENDS Bbolt, FiniteSetTheorems, TLAPS

Row == [seq : Nat, val : Items]

Call == [op : {"push", "pop", "notEmpty", "notFull", "other"}, vs : Seq(Items), n : Nat]

Labels == {"idle", "wait", "retry", "staged", "room", "clearSend", "clearWait",
           "bcast1", "bcast2", "cancel"}

FlusherLabels == {"loop", "flush", "commit", "land", "count", "signal", "release", "wake",
                  "settle", "clear", "reply", "close", "writeOff", "bcastFull", "bcastEmpty",
                  "exit", "dead"}

Types ==
    /\ db \subseteq Row /\ IsFiniteSet(db)
    /\ nextSeq \in Nat /\ count \in Int /\ inflight \in Int
    /\ idx \subseteq Row /\ landed \subseteq Row
    /\ mirror \in [Items -> Nat]
    /\ closed \in BOOLEAN
    /\ notFull \subseteq Procs /\ notEmpty \subseteq Procs
    /\ buf \in Seq(Items) /\ snap \in Seq(Items)
    /\ result \in [Procs -> {None, "cur", "snap", "ok", "err"}]
    /\ reply \in {None, "ok", "err"}
    /\ fpc \in FlusherLabels /\ after \in {"loop", "clear", "close"}
    /\ pc \in [Procs -> Labels] /\ call \in [Procs -> Call]

-----------------------------------------------------------------------------
(***************************************************************************)
(* The inductive invariant.  The books speak of sizes of sets of rows, so  *)
(* it says that rows are told apart by their sequence number, that no      *)
(* number is ahead of the bucket's counter, and that a landed batch is as  *)
(* large as it was staged (Distinct, Window).  On a FIFO a Pop takes every *)
(* counted row before a landed one, so what is counted is never less than  *)
(* the rows a Del may find (HeadCovered): p.count stays out of the         *)
(* negative numbers, in which a commit would see no reason to signal.      *)
(***************************************************************************)

\* A row is known by its sequence number, which the counter has passed.
Known == db \cup idx \cup landed

Distinct ==
    /\ \A e \in Known : e.seq <= nextSeq
    /\ \A e, f \in Known : e.seq = f.seq => e = f

\* Between "land" and "count" the batch is in landed, new to the index and
\* behind every counted row; at any other time landed is empty.
Window ==
    IF fpc = "count"
    THEN /\ IsFiniteSet(landed) /\ Cardinality(landed) = Len(snap)
         /\ idx \cap landed = {}
         /\ \A e \in db \ landed, f \in landed : e.seq < f.seq
    ELSE landed = {}

\* All items are of one priority, as on a FIFO.
FifoOrder == \A v, w \in Items : Priority[v] = Priority[w]

HeadCovered == Indexed /\ FifoOrder => Cardinality(db \ landed) <= count

\* CountExact or CountNeverShort, InflightExact and MirrorAgrees, case by case.
Counted ==
    /\ fpc = "count" => count + Len(snap) >= Cardinality(db)
    /\ fpc # "count" => count >= Cardinality(db)
    /\ ~HashUnwinds /\ fpc = "count" => count + Len(snap) = Cardinality(db)
    /\ ~HashUnwinds /\ fpc # "count" => count = Cardinality(db)

Committing == fpc \in {"commit", "land", "count", "release"}

Reserved ==
    /\ Committing => inflight = Len(buf) + Len(snap)
    /\ ~Committing => inflight = Len(buf)

Mirrored ==
    ~StoreFails =>
        /\ fpc = "land" => \A v \in Items : mirror[v] = RowsOf(db, v) + CountOf(snap, v)
        /\ fpc # "land" => \A v \in Items : mirror[v] = RowsOf(db, v)

\* Only a goroutine in Signal.Wait is registered.
Parked == \A p \in notFull \cup notEmpty : pc[p] = "wait"

EmptyWoken == Indexed /\ FifoOrder => NoLostWakeupEmpty

\* A flusher on its way out has closed the backing, and after writeOff nobody
\* holds an open flushResult.
Answered ==
    /\ fpc \in {"writeOff", "bcastFull", "bcastEmpty", "exit", "dead"} =>
          closed /\ \A p \in Procs : result[p] # "cur"
    /\ fpc \in {"bcastFull", "bcastEmpty", "exit", "dead"} => \A p \in Procs : result[p] # "snap"

IInv ==
    /\ Types /\ Distinct /\ Window /\ HeadCovered
    /\ Counted /\ Reserved /\ IndexCovers /\ Mirrored
    /\ Parked /\ EmptyWoken /\ NoLostWakeupFull /\ Answered
-----------------------------------------------------------------------------
(***************************************************************************)
(* Sets of rows and their sizes.                                           *)
(***************************************************************************)

\* What is left of a finite set.
LEMMA Remainder ==
    ASSUME NEW D, IsFiniteSet(D), NEW S \in SUBSET D
    PROVE  /\ IsFiniteSet(S) /\ IsFiniteSet(D \ S)
           /\ Cardinality(S) \in Nat /\ Cardinality(D) \in Nat /\ Cardinality(D \ S) \in Nat
           /\ Cardinality(D \ S) = Cardinality(D) - Cardinality(S)
<1>1. IsFiniteSet(S) /\ IsFiniteSet(D \ S)
  BY FS_Subset, FS_Difference
<1>2. Cardinality(D \ S) = Cardinality(D) - Cardinality(D \cap S)
  BY FS_Difference
<1>3. D \cap S = S
  OBVIOUS
<1>4. Cardinality(D \ S) = Cardinality(D) - Cardinality(S)
  BY <1>2, <1>3, Zenon
<1> QED BY <1>1, <1>4, FS_CardinalityType

\* Two disjoint finite sets.
LEMMA DisjointUnion ==
    ASSUME NEW D, IsFiniteSet(D), NEW L, IsFiniteSet(L), D \cap L = {}
    PROVE  /\ IsFiniteSet(D \cup L)
           /\ Cardinality(D \cup L) = Cardinality(D) + Cardinality(L)
<1>1. /\ IsFiniteSet(D \cup L)
      /\ Cardinality(D \cup L) = Cardinality(D) + Cardinality(L) - Cardinality(D \cap L)
  BY FS_Union
<1>2. Cardinality(D \cap L) = 0
  BY FS_EmptySet, Zenon
<1>3. Cardinality(D) \in Nat /\ Cardinality(L) \in Nat
  BY FS_CardinalityType
<1> QED BY <1>1, <1>2, <1>3

\* Deleted rows, counted by value.
LEMMA RowsOfDeleted ==
    ASSUME NEW D, IsFiniteSet(D), NEW S \in SUBSET D, NEW v
    PROVE  /\ RowsOf(D, v) \in Nat /\ RowsOf(S, v) \in Nat /\ RowsOf(S, v) <= RowsOf(D, v)
           /\ RowsOf(D \ S, v) = RowsOf(D, v) - RowsOf(S, v)
<1> DEFINE Of(X) == {e \in X : e.val = v}
<1>1. IsFiniteSet(Of(D)) /\ Of(S) \in SUBSET Of(D)
  <2>1. Of(D) \in SUBSET D OBVIOUS
  <2>2. IsFiniteSet(Of(D))
    BY <2>1, FS_Subset
  <2> QED BY <2>2
<1>2. Of(D \ S) = Of(D) \ Of(S)
  OBVIOUS
<1>3. /\ Cardinality(Of(D)) \in Nat /\ Cardinality(Of(S)) \in Nat
      /\ Cardinality(Of(D) \ Of(S)) \in Nat
      /\ Cardinality(Of(D) \ Of(S)) = Cardinality(Of(D)) - Cardinality(Of(S))
  BY <1>1, Remainder
<1>4. Cardinality(Of(D \ S)) = Cardinality(Of(D)) - Cardinality(Of(S))
  BY <1>2, <1>3, Zenon
<1>5. RowsOf(D, v) = Cardinality(Of(D)) /\ RowsOf(S, v) = Cardinality(Of(S))
      /\ RowsOf(D \ S, v) = Cardinality(Of(D \ S))
  BY DEF RowsOf
<1> HIDE DEF Of
<1>6. Cardinality(Of(S)) <= Cardinality(Of(D))
  BY <1>3
<1> QED BY <1>3, <1>4, <1>5, <1>6

\* Added rows, counted by value.
LEMMA RowsOfAdded ==
    ASSUME NEW D, IsFiniteSet(D), NEW L, IsFiniteSet(L), D \cap L = {}, NEW v
    PROVE  RowsOf(D \cup L, v) = RowsOf(D, v) + RowsOf(L, v)
<1> DEFINE Of(X) == {e \in X : e.val = v}
<1>1. IsFiniteSet(Of(D)) /\ IsFiniteSet(Of(L)) /\ Of(D) \cap Of(L) = {}
  <2>1. Of(D) \in SUBSET D /\ Of(L) \in SUBSET L OBVIOUS
  <2>2. IsFiniteSet(Of(D)) /\ IsFiniteSet(Of(L))
    BY <2>1, FS_Subset
  <2> QED BY <2>2
<1>2. Of(D \cup L) = Of(D) \cup Of(L)
  OBVIOUS
<1>3. Cardinality(Of(D) \cup Of(L)) = Cardinality(Of(D)) + Cardinality(Of(L))
  BY <1>1, DisjointUnion
<1>4. Cardinality(Of(D \cup L)) = Cardinality(Of(D)) + Cardinality(Of(L))
  BY <1>2, <1>3, Zenon
<1> QED BY <1>4 DEF RowsOf

\* A batch is stored as as many rows as it has items, in all and of each value,
\* under the numbers that follow the counter.
LEMMA RowsOfBatch ==
    ASSUME NEW from \in Nat, NEW vs \in Seq(Items)
    PROVE  /\ Rows(from, vs) \subseteq Row
           /\ IsFiniteSet(Rows(from, vs)) /\ Cardinality(Rows(from, vs)) = Len(vs)
           /\ \A e \in Rows(from, vs) : from < e.seq /\ e.seq <= from + Len(vs)
           /\ \A e, f \in Rows(from, vs) : e.seq = f.seq => e = f
           /\ \A v : RowsOf(Rows(from, vs), v) = CountOf(vs, v)
<1> DEFINE RowAt == [i \in 1..Len(vs) |-> [seq |-> from + i, val |-> vs[i]]]
<1>0. Len(vs) \in Nat /\ \A i \in 1..Len(vs) : vs[i] \in Items
  OBVIOUS
<1>1. /\ Rows(from, vs) \subseteq Row
      /\ \A e \in Rows(from, vs) : from < e.seq /\ e.seq <= from + Len(vs)
  BY <1>0 DEF Rows, Row
<1>2. \A e, f \in Rows(from, vs) : e.seq = f.seq => e = f
  <2> SUFFICES ASSUME NEW i \in 1..Len(vs), NEW j \in 1..Len(vs), from + i = from + j
               PROVE  i = j
    BY DEF Rows
  <2> QED BY <1>0
<1>3. IsFiniteSet(Rows(from, vs)) /\ Cardinality(Rows(from, vs)) = Len(vs)
  <2>1. RowAt \in Bijection(1..Len(vs), Rows(from, vs))
    <3>1. RowAt \in [1..Len(vs) -> Rows(from, vs)]
      BY DEF Rows
    <3>2. \A i, j \in 1..Len(vs) : RowAt[i] = RowAt[j] => i = j
      <4> SUFFICES ASSUME NEW i \in 1..Len(vs), NEW j \in 1..Len(vs), RowAt[i].seq = RowAt[j].seq
                   PROVE  i = j
        BY Zenon
      <4> QED BY <1>0
    <3>3. \A e \in Rows(from, vs) : \E i \in 1..Len(vs) : RowAt[i] = e
      BY DEF Rows
    <3> HIDE DEF RowAt
    <3> QED BY <3>1, <3>2, <3>3, Zenon DEF Bijection, Injection, Surjection, IsInjective
  <2>2. IsFiniteSet(1..Len(vs)) /\ Cardinality(1..Len(vs)) = Len(vs)
    <3>1. 1 \in Int /\ Len(vs) \in Int
      BY <1>0
    <3>2. /\ IsFiniteSet(1..Len(vs))
          /\ Cardinality(1..Len(vs)) = IF 1 > Len(vs) THEN 0 ELSE Len(vs) - 1 + 1
      BY <3>1, FS_Interval, Zenon
    <3> QED BY <3>2, <1>0
  <2>3. ExistsBijection(1..Len(vs), Rows(from, vs))
    BY <2>1, Zenon DEF ExistsBijection
  <2>4. IsFiniteSet(Rows(from, vs)) /\ Cardinality(Rows(from, vs)) = Cardinality(1..Len(vs))
    BY <2>2, <2>3, FS_Bijection, Zenon
  <2> QED BY <2>2, <2>4
<1>4. ASSUME NEW v PROVE RowsOf(Rows(from, vs), v) = CountOf(vs, v)
  <2> DEFINE At == {i \in 1..Len(vs) : vs[i] = v}
             Of == {e \in Rows(from, vs) : e.val = v}
             RowOf == [i \in At |-> [seq |-> from + i, val |-> vs[i]]]
  <2>1. RowOf \in Bijection(At, Of)
    <3>1. RowOf \in [At -> Of]
      BY DEF Rows
    <3>2. \A i, j \in At : RowOf[i] = RowOf[j] => i = j
      <4> SUFFICES ASSUME NEW i \in At, NEW j \in At, RowOf[i].seq = RowOf[j].seq
                   PROVE  i = j
        BY Zenon
      <4> QED BY <1>0
    <3>3. \A e \in Of : \E i \in At : RowOf[i] = e
      BY DEF Rows
    <3> HIDE DEF RowOf, At, Of
    <3> QED BY <3>1, <3>2, <3>3, Zenon DEF Bijection, Injection, Surjection, IsInjective
  <2>2. IsFiniteSet(At)
    <3>1. At \in SUBSET Nat /\ \A i \in At : i <= Len(vs)
      BY <1>0
    <3> QED BY <3>1, <1>0, FS_BoundedSetOfNaturals, Zenon
  <2>3. ExistsBijection(At, Of)
    BY <2>1, Zenon DEF ExistsBijection
  <2>4. Cardinality(Of) = Cardinality(At)
    BY <2>2, <2>3, FS_Bijection, Zenon
  <2> QED BY <2>4 DEF RowsOf, CountOf
<1> QED BY <1>1, <1>2, <1>3, <1>4

-----------------------------------------------------------------------------
(***************************************************************************)
(* The head of the queue.                                                  *)
(***************************************************************************)

\* The rows below a row, in key order.
Below(e) == {f \in db : KeyLess(f, e)}

Keyed ==
    /\ db \subseteq Row /\ IsFiniteSet(db)
    /\ \A e, f \in db : e.seq = f.seq => e = f

\* Keys are totally ordered.
LEMMA KeyOrder ==
    ASSUME Keyed
    PROVE  /\ \A e \in db : ~KeyLess(e, e)
           /\ \A e, f, g \in db : KeyLess(e, f) /\ KeyLess(f, g) => KeyLess(e, g)
           /\ \A e, f \in db : e # f => KeyLess(e, f) \/ KeyLess(f, e)
<1>1. \A e \in db : e.seq \in Nat /\ Priority[e.val] \in Nat
  BY PriorityAssumption DEF Keyed, Row
<1> QED BY <1>1 DEF KeyLess, Keyed

\* A row further back has more rows before it, and never all of them.
LEMMA Ranks ==
    ASSUME Keyed
    PROVE  /\ \A e \in db : /\ Cardinality(Below(e)) \in Nat
                            /\ Cardinality(Below(e)) < Cardinality(db)
           /\ \A e, f \in db : KeyLess(e, f) => Cardinality(Below(e)) < Cardinality(Below(f))
           /\ \A e, f \in db : Cardinality(Below(e)) = Cardinality(Below(f)) => e = f
<1>1. ASSUME NEW S, IsFiniteSet(S), NEW T \in SUBSET S, T # S
      PROVE  /\ Cardinality(T) \in Nat /\ Cardinality(S) \in Nat
             /\ Cardinality(T) < Cardinality(S)
  <2>1. IsFiniteSet(T) /\ Cardinality(T) <= Cardinality(S) /\ Cardinality(T) # Cardinality(S)
    BY <1>1, FS_Subset
  <2>2. Cardinality(T) \in Nat /\ Cardinality(S) \in Nat
    BY <1>1, <2>1, FS_CardinalityType
  <2> QED BY <2>1, <2>2
<1>2. \A e \in db : /\ IsFiniteSet(Below(e)) /\ Cardinality(Below(e)) \in Nat
                    /\ Cardinality(Below(e)) < Cardinality(db)
  <2> SUFFICES ASSUME NEW e \in db
               PROVE  /\ IsFiniteSet(Below(e)) /\ Cardinality(Below(e)) \in Nat
                      /\ Cardinality(Below(e)) < Cardinality(db)
    OBVIOUS
  <2>1. Below(e) \in SUBSET db /\ Below(e) # db
    BY KeyOrder, Zenon DEF Below
  <2>2. IsFiniteSet(db) /\ IsFiniteSet(Below(e))
    BY <2>1, FS_Subset DEF Keyed
  <2> QED BY <1>1, <2>1, <2>2
<1>3. \A e, f \in db : KeyLess(e, f) => Cardinality(Below(e)) < Cardinality(Below(f))
  <2> SUFFICES ASSUME NEW e \in db, NEW f \in db, KeyLess(e, f)
               PROVE  Cardinality(Below(e)) < Cardinality(Below(f))
    OBVIOUS
  <2>1. Below(e) \in SUBSET Below(f) /\ Below(e) # Below(f)
    <3>1. e \in Below(f) /\ e \notin Below(e)
      BY KeyOrder, Zenon DEF Below
    <3>2. \A g \in Below(e) : g \in Below(f)
      BY KeyOrder, Zenon DEF Below
    <3> QED BY <3>1, <3>2, Zenon
  <2> QED BY <1>1, <1>2, <2>1
<1>4. \A e, f \in db : Cardinality(Below(e)) = Cardinality(Below(f)) => e = f
  <2> SUFFICES ASSUME NEW e \in db, NEW f \in db, e # f
               PROVE  Cardinality(Below(e)) # Cardinality(Below(f))
    OBVIOUS
  <2>1. KeyLess(e, f) \/ KeyLess(f, e)
    BY KeyOrder, Zenon
  <2> QED BY <1>2, <1>3, <2>1
<1> QED BY <1>2, <1>3, <1>4

\* What Pop deletes: a prefix of the cursor, of exactly k rows when there are so
\* many, so that p.count -= int64(k) is what it did to the store.
LEMMA FirstRowsTaken ==
    ASSUME Keyed, NEW k \in Nat
    PROVE  /\ FirstRows(k) \in SUBSET db
           /\ \A e \in FirstRows(k), f \in db : KeyLess(f, e) => f \in FirstRows(k)
           /\ Cardinality(FirstRows(k)) <= k
           /\ k <= Cardinality(db) => Cardinality(FirstRows(k)) = k
<1> DEFINE S == FirstRows(k)
           Rank == [e \in db |-> Cardinality(Below(e))]
           RankIn == [e \in S |-> Cardinality(Below(e))]
           n == Cardinality(db)
<1>0. n \in Nat /\ IsFiniteSet(db)
  BY FS_CardinalityType DEF Keyed
<1>1. S \in SUBSET db /\ \A e \in db : e \in S <=> Cardinality(Below(e)) < k
  BY DEF FirstRows, Below
<1>2. \A e \in S, f \in db : KeyLess(f, e) => f \in S
  BY <1>1, Ranks
<1>3. \A m \in Nat : IsFiniteSet(0..(m-1)) /\ Cardinality(0..(m-1)) = m
  <2> SUFFICES ASSUME NEW m \in Nat
               PROVE  IsFiniteSet(0..(m-1)) /\ Cardinality(0..(m-1)) = m
    OBVIOUS
  <2>1. 0 \in Int /\ m - 1 \in Int
    OBVIOUS
  <2>2. /\ IsFiniteSet(0..(m-1))
        /\ Cardinality(0..(m-1)) = IF 0 > m - 1 THEN 0 ELSE (m - 1) - 0 + 1
    BY <2>1, FS_Interval, Zenon
  <2> QED BY <2>2
<1>4. RankIn \in Injection(S, 0..(k-1))
  <2>1. RankIn \in [S -> 0..(k-1)]
    BY <1>1, Ranks
  <2>2. \A e, f \in S : RankIn[e] = RankIn[f] => e = f
    BY <1>1, Ranks, Zenon
  <2> HIDE DEF RankIn, S
  <2> QED BY <2>1, <2>2, Zenon DEF Injection, IsInjective
<1>5. Cardinality(S) <= k
  <2>1. IsFiniteSet(0..(k-1)) /\ Cardinality(0..(k-1)) = k
    BY <1>3
  <2> HIDE DEF RankIn, S
  <2>2. Cardinality(S) <= Cardinality(0..(k-1))
    BY <1>4, <2>1, FS_Injection, Zenon
  <2> QED BY <2>1, <2>2
<1>6. ASSUME k <= n PROVE Cardinality(S) = k
  <2>1. IsFiniteSet(0..(n-1)) /\ Cardinality(0..(n-1)) = n
    BY <1>0, <1>3
  <2>2. Rank \in Injection(db, 0..(n-1))
    <3>1. Rank \in [db -> 0..(n-1)]
      BY <1>0, Ranks
    <3>2. \A e, f \in db : Rank[e] = Rank[f] => e = f
      BY Ranks, Zenon
    <3> HIDE DEF Rank, n
    <3> QED BY <3>1, <3>2, Zenon DEF Injection, IsInjective
  <2>3. Rank \in Surjection(db, 0..(n-1))
    <3> HIDE DEF Rank
    <3> QED BY <2>1, <2>2, FS_Injection, Zenon
  <2>4. \A r \in 0..(n-1) : \E e \in db : Rank[e] = r
    <3> HIDE DEF Rank, n
    <3> QED BY <2>3, Zenon DEF Surjection
  <2>5. \A r \in 0..(k-1) : \E e \in S : RankIn[e] = r
    <3> SUFFICES ASSUME NEW r \in 0..(k-1)
                 PROVE  \E e \in S : RankIn[e] = r
      OBVIOUS
    <3>1. r \in 0..(n-1) /\ r < k
      BY <1>0, <1>6
    <3>2. PICK e \in db : Rank[e] = r
      BY <2>4, <3>1
    <3>3. e \in S
      BY <1>1, <3>1, <3>2
    <3> QED BY <3>2, <3>3
  <2>6. RankIn \in Surjection(S, 0..(k-1))
    <3>1. RankIn \in [S -> 0..(k-1)]
      BY <1>4, Zenon DEF Injection
    <3> HIDE DEF RankIn, S
    <3> QED BY <3>1, <2>5, Zenon DEF Surjection
  <2>7. IsFiniteSet(0..(k-1)) /\ Cardinality(0..(k-1)) = k
    BY <1>3
  <2> HIDE DEF RankIn, S
  <2>8. Cardinality(S) = Cardinality(0..(k-1))
    BY <1>4, <2>6, <2>7, FS_Injection, Zenon
  <2> QED BY <2>7, <2>8
<1> QED BY <1>1, <1>2, <1>5, <1>6

-----------------------------------------------------------------------------
(***************************************************************************)
(* What steps that leave a part alone do to it.                            *)
(***************************************************************************)
Books ==
    /\ Distinct /\ Window /\ HeadCovered
    /\ Counted /\ Reserved /\ IndexCovers /\ Mirrored

Waits == Parked /\ EmptyWoken /\ NoLostWakeupFull

\* The books do not notice a step of the flusher outside a commit, nor a caller
\* that stages and removes nothing.
LEMMA BooksKept ==
    ASSUME IInv,
           UNCHANGED <<db, nextSeq, count, inflight, idx, mirror, landed, snap, buf>>,
           fpc' = "count" <=> fpc = "count", fpc' = "land" <=> fpc = "land",
           fpc' \in {"commit", "release"} <=> fpc \in {"commit", "release"}
    PROVE  Books'
<1> USE DEF IInv
<1>1. Distinct' /\ Window'
  BY DEF Distinct, Known, Window
<1>2. HeadCovered' /\ Counted'
  BY DEF HeadCovered, Counted
<1>3. Reserved'
  BY DEF Reserved, Committing
<1>4. IndexCovers' /\ Mirrored'
  BY DEF IndexCovers, Mirrored
<1> QED BY <1>1, <1>2, <1>3, <1>4 DEF Books

\* A goroutine that is neither parked nor broadcasting moves on.
LEMMA WaitsKept ==
    ASSUME IInv, NEW p \in Procs, pc[p] \notin {"wait", "bcast1", "bcast2"},
           NEW l \in Labels, NEW c \in Call,
           pc' = [pc EXCEPT ![p] = l], call' = [call EXCEPT ![p] = c],
           UNCHANGED <<count, inflight, fpc, closed, notFull, notEmpty>>
    PROVE  Waits'
<1> USE DEF IInv, Types
<1>1. p \notin notFull \cup notEmpty
  BY DEF Parked
<1>2. Parked'
  BY <1>1 DEF Parked
<1>3. EmptyWoken'
  BY DEF EmptyWoken, NoLostWakeupEmpty
<1>4. NoLostWakeupFull'
  <2> SUFFICES ASSUME NEW q \in notFull
               PROVE  /\ Fits(q)' => fpc = "wake" \/ closed
                      /\ closed => \/ fpc \in {"writeOff", "bcastFull"}
                                   \/ \E r \in Procs : pc'[r] \in {"bcast1", "bcast2"}
    BY DEF NoLostWakeupFull
  <2>1. Fits(q)' <=> Fits(q)
    BY <1>1 DEF Fits, Gate, Room
  <2> QED BY <2>1 DEF NoLostWakeupFull
<1> QED BY <1>2, <1>3, <1>4 DEF Waits

\* A step of the flusher that reaches no goroutine.
LEMMA WaitsOfFlusher ==
    ASSUME IInv, UNCHANGED <<count, inflight, closed, notFull, notEmpty, pc, call>>,
           fpc \notin {"signal", "wake", "writeOff", "bcastFull", "bcastEmpty"}
    PROVE  Waits'
<1> USE DEF IInv, Types
<1>1. Parked' /\ EmptyWoken'
  BY DEF Parked, EmptyWoken, NoLostWakeupEmpty
<1>2. NoLostWakeupFull'
  BY DEF NoLostWakeupFull, Fits, Gate, Room
<1> QED BY <1>1, <1>2 DEF Waits

\* A goroutine gives its result back, or holds none, and the flusher stays.
LEMMA AnsweredKept ==
    ASSUME IInv, NEW p \in Procs, NEW r \in {None, "ok", "err"},
           UNCHANGED <<fpc, closed>>,
           \/ UNCHANGED result
           \/ result' = [result EXCEPT ![p] = r]
    PROVE  Answered'
BY DEF IInv, Types, Answered, None

\* A call that takes hold of p.cur or stages finds the backing open, hence a
\* flusher that is not on its way out.
LEMMA OpenFlusher ==
    ASSUME IInv, ~closed
    PROVE  fpc \notin {"writeOff", "bcastFull", "bcastEmpty", "exit", "dead"}
BY DEF IInv, Answered

LEMMA NoCallTyped == NoCall \in Call
BY DEF NoCall, MkCall, Call

LEMMA LabelsTyped ==
    {"idle", "wait", "retry", "staged", "room", "clearSend", "clearWait",
     "bcast1", "bcast2", "cancel"} = Labels
BY DEF Labels

-----------------------------------------------------------------------------
(***************************************************************************)
(* Callers.                                                                *)
(***************************************************************************)

\* A pass of Push: staging adds as much to inflight as to the buffer; parking
\* happens only while the batch does not fit and the backing is open.
LEMMA PushPassInvariant ==
    ASSUME IInv, NEW p \in Procs, NEW c \in Call, c.op = "push", pc[p] \in {"idle", "retry"},
           PushPass(p, c), UNCHANGED <<db, mirror, notEmpty, nextSeq, gone, clearReq, flusherVars>>
    PROVE  IInv'
<1> USE DEF IInv, Types, flusherVars, lockVars, Continue, Return
<1> DEFINE n == Len(c.vs)
<1>0. n \in Nat /\ c.vs \in Seq(Items) /\ NoCall \in Call
  BY NoCallTyped DEF Call
<1>1. CASE Return(p) /\ UNCHANGED <<lockVars, notFull, result>>
  <2>1. Types'
    BY <1>0, <1>1 DEF Labels
  <2>2. Books'
    BY <1>1, BooksKept
  <2>3. Waits'
    BY <1>0, <1>1, WaitsKept DEF Labels
  <2>4. Answered'
    BY <1>1, AnsweredKept
  <2> QED BY <2>1, <2>2, <2>3, <2>4 DEF Books, Waits
<1>2. CASE /\ ~closed /\ ~Gate(n)
           /\ notFull' = notFull \cup {p}
           /\ Continue(p, c, "wait")
           /\ UNCHANGED <<lockVars, result>>
  <2>1. Types'
    BY <1>0, <1>2 DEF Labels
  <2>2. Books'
    BY <1>2, BooksKept
  <2>3. Parked' /\ EmptyWoken'
    BY <1>2 DEF Parked, EmptyWoken, NoLostWakeupEmpty
  <2>4. NoLostWakeupFull'
    <3> SUFFICES ASSUME NEW q \in notFull'
                 PROVE  Fits(q)' => fpc = "wake"
      BY <1>2 DEF NoLostWakeupFull
    <3>1. CASE q = p
      BY <1>2, <3>1 DEF Fits, Gate
    <3>2. CASE q # p
      <4>1. Fits(q)' <=> Fits(q)
        BY <1>2, <3>2 DEF Fits, Gate, Room
      <4> QED BY <1>2, <3>2, <4>1 DEF NoLostWakeupFull
    <3> QED BY <3>1, <3>2
  <2>5. Answered'
    BY <1>2, AnsweredKept
  <2> QED BY <2>1, <2>2, <2>3, <2>4, <2>5 DEF Books, Waits
<1>3. CASE /\ ~closed
           /\ buf' = buf \o c.vs
           /\ inflight' = inflight + n
           /\ result' = [result EXCEPT ![p] = "cur"]
           /\ Continue(p, c, "staged")
           /\ UNCHANGED <<count, idx, closed, notFull>>
  <2>0. buf' \in Seq(Items) /\ Len(buf') = Len(buf) + n
    BY <1>0, <1>3
  <2>1. Types'
    BY <1>0, <1>3, <2>0 DEF Labels
  <2>2. Distinct' /\ Window' /\ HeadCovered' /\ Counted' /\ IndexCovers' /\ Mirrored'
    BY <1>3 DEF Distinct, Known, Window, HeadCovered, Counted,
                IndexCovers, Mirrored
  <2>3. Reserved'
    <3>1. Len(buf) \in Nat /\ Len(snap) \in Nat
      OBVIOUS
    <3>2. inflight' = inflight + n /\ snap' = snap /\ fpc' = fpc
      BY <1>3
    <3>3. n \in Nat /\ inflight \in Int /\ Reserved
      BY <1>0
    <3> HIDE DEF n, IInv, Types, Continue, Return, lockVars, flusherVars
    <3> QED BY <2>0, <3>1, <3>2, <3>3 DEF Reserved, Committing
  <2>4. Parked' /\ EmptyWoken'
    BY <1>3 DEF Parked, EmptyWoken, NoLostWakeupEmpty
  <2>5. NoLostWakeupFull'
    <3> SUFFICES ASSUME NEW q \in notFull
                 PROVE  Fits(q)' => fpc = "wake"
      BY <1>3 DEF NoLostWakeupFull
    <3>1. q # p
      BY DEF Parked
    <3>2. call'[q] = call[q] /\ Len(call[q].vs) \in Nat
      BY <1>3, <3>1 DEF Call
    <3>3. inflight' = inflight + n /\ count' = count
      BY <1>3
    <3>4. Fits(q)' => Fits(q)
      <4>1. n \in Nat /\ inflight \in Int /\ count \in Int
        BY <1>0
      <4> HIDE DEF n, IInv, Types, Continue, Return, lockVars, flusherVars
      <4>2. CASE call[q].op = "push"
        BY <3>2, <3>3, <4>1, <4>2, SizesAssumption DEF Fits, Gate
      <4>3. CASE call[q].op # "push"
        BY <3>2, <3>3, <4>1, <4>3, SizesAssumption DEF Fits, Room
      <4> QED BY <4>2, <4>3
    <3> QED BY <1>3, <3>4 DEF NoLostWakeupFull
  <2>6. Answered'
    BY <1>3, OpenFlusher DEF Answered
  <2> QED BY <2>1, <2>2, <2>3, <2>4, <2>5, <2>6
<1>4. CASE /\ ~closed
           /\ result' = [result EXCEPT ![p] = "cur"]
           /\ Continue(p, c, "room")
           /\ UNCHANGED <<lockVars, notFull>>
  <2>1. Types'
    BY <1>0, <1>4 DEF Labels
  <2>2. Books'
    BY <1>4, BooksKept
  <2>3. Waits'
    BY <1>0, <1>4, WaitsKept DEF Labels
  <2>4. Answered'
    BY <1>4, OpenFlusher DEF Answered
  <2> QED BY <2>1, <2>2, <2>3, <2>4 DEF Books, Waits
<1> HIDE DEF lockVars, Continue, Return
<1> QED BY <1>1, <1>2, <1>3, <1>4 DEF PushPass

-----------------------------------------------------------------------------
(***************************************************************************)
(* Rows leave the store.                                                   *)
(***************************************************************************)

\* The deletes in the Backup of rows that the store holds.
LEMMA BackupDelExact ==
    ASSUME IInv, NEW S \in SUBSET db, BackupDel(S)
    PROVE  /\ mirror' \in [Items -> Nat]
           /\ \A v \in Items : RowsOf(S, v) <= mirror[v] => mirror'[v] = mirror[v] - RowsOf(S, v)
<1>1. \A v : RowsOf(S, v) \in Nat
  BY RowsOfDeleted DEF IInv, Types
<1>2. mirror \in [Items -> Nat]
  BY DEF IInv, Types
<1>3. \A v \in Items :
        mirror'[v] = IF RowsOf(S, v) > mirror[v] THEN 0 ELSE mirror[v] - RowsOf(S, v)
  BY Zenon DEF BackupDel
<1>4. ASSUME NEW v \in Items
      PROVE  /\ mirror'[v] \in Nat
             /\ RowsOf(S, v) <= mirror[v] => mirror'[v] = mirror[v] - RowsOf(S, v)
  <2>1. RowsOf(S, v) \in Nat /\ mirror[v] \in Nat
    BY <1>1, <1>2
  <2>2. CASE RowsOf(S, v) > mirror[v]
    BY <1>3, <2>1, <2>2
  <2>3. CASE ~(RowsOf(S, v) > mirror[v])
    BY <1>3, <2>1, <2>3
  <2> QED BY <2>2, <2>3
<1>5. mirror' \in [Items -> Nat]
  <2>1. mirror' = [v \in Items |-> mirror'[v]]
    BY Zenon DEF BackupDel
  <2> QED BY <2>1, <1>4, Zenon
<1> QED BY <1>4, <1>5

\* The Backup follows the store when both delete the same rows.
LEMMA MirroredDel ==
    ASSUME IInv, NEW S \in SUBSET db, db' = db \ S, BackupDel(S), UNCHANGED <<fpc, snap>>
    PROVE  Mirrored'
<1> SUFFICES ASSUME ~StoreFails, NEW v \in Items
             PROVE  /\ fpc = "land" => mirror'[v] = RowsOf(db', v) + CountOf(snap, v)
                    /\ fpc # "land" => mirror'[v] = RowsOf(db', v)
  BY DEF Mirrored
<1>1. /\ RowsOf(db, v) \in Nat /\ RowsOf(S, v) \in Nat /\ RowsOf(S, v) <= RowsOf(db, v)
      /\ RowsOf(db \ S, v) = RowsOf(db, v) - RowsOf(S, v)
  <2>1. IsFiniteSet(db)
    BY DEF IInv, Types
  <2> QED BY <2>1, RowsOfDeleted, Zenon
<1>2. RowsOf(db', v) = RowsOf(db, v) - RowsOf(S, v)
  BY <1>1, Zenon
<1>3. RowsOf(S, v) <= mirror[v] => mirror'[v] = mirror[v] - RowsOf(S, v)
  BY BackupDelExact
<1>4. mirror[v] \in Nat
  BY DEF IInv, Types
<1>5. CASE fpc = "land"
  <2>1. mirror[v] = RowsOf(db, v) + CountOf(snap, v)
    BY <1>5 DEF IInv, Mirrored
  <2>2. CountOf(snap, v) \in Nat
    <3> DEFINE At == {i \in 1..Len(snap) : snap[i] = v}
    <3>1. Len(snap) \in Nat
      BY DEF IInv, Types
    <3>2. At \in SUBSET Nat /\ \A i \in At : i <= Len(snap)
      BY <3>1
    <3>3. IsFiniteSet(At)
      BY <3>1, <3>2, FS_BoundedSetOfNaturals, Zenon
    <3>4. Cardinality(At) \in Nat
      BY <3>3, FS_CardinalityType
    <3> QED BY <3>4 DEF CountOf
  <2> QED BY <1>1, <1>2, <1>3, <1>4, <1>5, <2>1, <2>2
<1>6. CASE fpc # "land"
  <2>1. mirror[v] = RowsOf(db, v)
    BY <1>6 DEF IInv, Mirrored
  <2> QED BY <1>1, <1>2, <1>3, <1>6, <2>1
<1> QED BY <1>5, <1>6

\* A removal that reaches the landed batch has taken all counted rows first.
Orderly(S) ==
    Indexed /\ FifoOrder => \/ S \cap landed = {}
                            \/ db \ landed \subseteq S /\ Cardinality(S) <= count

\* Removed takes the same rows from the four books.
LEMMA RemovedBooks ==
    ASSUME IInv, NEW S \in SUBSET db, Removed(S), Orderly(S),
           UNCHANGED <<nextSeq, fpc, snap, landed, inflight, buf>>
    PROVE  /\ Books'
           /\ db' \subseteq Row /\ IsFiniteSet(db') /\ idx' \subseteq Row /\ count' \in Int
           /\ mirror' \in [Items -> Nat]
<1> USE DEF IInv, Removed
<1>1. /\ IsFiniteSet(db) /\ IsFiniteSet(db \ S)
      /\ Cardinality(S) \in Nat /\ Cardinality(db) \in Nat
      /\ Cardinality(db \ S) = Cardinality(db) - Cardinality(S)
  BY Remainder DEF Types
<1>2. Cardinality(db') = Cardinality(db) - Cardinality(S)
  BY <1>1, Zenon
<1>3. db' \subseteq Row /\ IsFiniteSet(db') /\ idx' \subseteq Row /\ count' \in Int
  BY <1>1 DEF Types
<1>4. mirror' \in [Items -> Nat]
  BY BackupDelExact
<1>5. Distinct' /\ Window'
  BY DEF Distinct, Known, Window
<1>6. HeadCovered'
  <2> SUFFICES ASSUME Indexed, FifoOrder
               PROVE  Cardinality(db' \ landed) <= count - Cardinality(S)
    BY DEF HeadCovered
  <2>1. CASE S \cap landed = {}
    <3>1. db' \ landed = (db \ landed) \ S /\ S \in SUBSET (db \ landed)
      BY <2>1
    <3>2. IsFiniteSet(db \ landed)
      BY <1>1, FS_Difference
    <3>3. /\ Cardinality(db \ landed) \in Nat
          /\ Cardinality((db \ landed) \ S) = Cardinality(db \ landed) - Cardinality(S)
      BY <3>1, <3>2, Remainder
    <3>4. Cardinality(db' \ landed) = Cardinality(db \ landed) - Cardinality(S)
      BY <3>1, <3>3, Zenon
    <3>5. Cardinality(db \ landed) <= count /\ count \in Int
      BY DEF HeadCovered, Types
    <3> QED BY <1>1, <3>3, <3>4, <3>5
  <2>2. CASE db \ landed \subseteq S /\ Cardinality(S) <= count
    <3>1. db' \ landed = {}
      BY <2>2
    <3>2. Cardinality(db' \ landed) = 0
      BY <3>1, FS_EmptySet, Zenon
    <3> QED BY <1>1, <2>2, <3>2 DEF Types
  <2> QED BY <2>1, <2>2 DEF Orderly
<1>7. Counted'
  <2>1. count' = count - Cardinality(S) /\ fpc' = fpc /\ snap' = snap
    OBVIOUS
  <2>2. count \in Int /\ Len(snap) \in Nat
    BY DEF Types
  <2>3. CASE fpc = "count"
    BY <1>1, <1>2, <2>1, <2>2, <2>3 DEF Counted
  <2>4. CASE fpc # "count"
    BY <1>1, <1>2, <2>1, <2>2, <2>4 DEF Counted
  <2> QED BY <2>3, <2>4
<1>8. Reserved'
  BY DEF Reserved, Committing
<1>9. IndexCovers'
  BY DEF IndexCovers
<1>10. Mirrored'
  BY MirroredDel
<1> QED BY <1>3, <1>4, <1>5, <1>6, <1>7, <1>8, <1>9, <1>10 DEF Books

\* An unwind out of Item.Hash leaves the counter and the index behind the store.
LEMMA UnwindsBooks ==
    ASSUME IInv, NEW S \in SUBSET db, RemoveUnwinds(S),
           UNCHANGED <<nextSeq, fpc, snap, landed, inflight, buf>>
    PROVE  /\ Books'
           /\ db' \subseteq Row /\ IsFiniteSet(db') /\ idx' \subseteq Row /\ count' \in Int
           /\ mirror' \in [Items -> Nat]
<1> USE DEF IInv, RemoveUnwinds
<1>1. /\ IsFiniteSet(db) /\ IsFiniteSet(db \ S)
      /\ Cardinality(S) \in Nat /\ Cardinality(db) \in Nat
      /\ Cardinality(db \ S) = Cardinality(db) - Cardinality(S)
  BY Remainder DEF Types
<1>2. Cardinality(db') = Cardinality(db) - Cardinality(S)
  BY <1>1, Zenon
<1>3. db' \subseteq Row /\ IsFiniteSet(db') /\ idx' \subseteq Row /\ count' \in Int
  BY <1>1 DEF Types
<1>4. mirror' \in [Items -> Nat]
  BY BackupDelExact
<1>5. Distinct' /\ Window'
  BY DEF Distinct, Known, Window
<1>6. HeadCovered'
  <2> SUFFICES ASSUME Indexed, FifoOrder
               PROVE  Cardinality(db' \ landed) <= count
    BY DEF HeadCovered
  <2>1. IsFiniteSet(db \ landed) /\ db' \ landed \in SUBSET (db \ landed)
    BY <1>1, FS_Difference
  <2>2. /\ IsFiniteSet(db' \ landed)
        /\ Cardinality(db' \ landed) <= Cardinality(db \ landed)
    BY <2>1, FS_Subset
  <2>3. Cardinality(db \ landed) \in Nat /\ Cardinality(db' \ landed) \in Nat
    BY <2>1, <2>2, FS_CardinalityType
  <2> QED BY <2>2, <2>3 DEF HeadCovered, Types
<1>7. Counted'
  <2>1. count' = count /\ fpc' = fpc /\ snap' = snap /\ HashUnwinds
    OBVIOUS
  <2>2. count \in Int /\ Len(snap) \in Nat
    BY DEF Types
  <2> QED BY <1>1, <1>2, <2>1, <2>2 DEF Counted
<1>8. Reserved'
  BY DEF Reserved, Committing
<1>9. IndexCovers'
  BY DEF IndexCovers
<1>10. Mirrored'
  BY MirroredDel
<1> QED BY <1>3, <1>4, <1>5, <1>6, <1>7, <1>8, <1>9, <1>10 DEF Books

\* A removal that fails leaves everything but, at worst, the Backup.
LEMMA FailsBooks ==
    ASSUME IInv, NEW S \in SUBSET db, RemoveFails(S),
           UNCHANGED <<nextSeq, fpc, snap, landed, inflight, buf>>
    PROVE  Books' /\ mirror' \in [Items -> Nat]
<1> USE DEF IInv, RemoveFails
<1>1. mirror' \in [Items -> Nat]
  BY BackupDelExact DEF Types
<1>2. Distinct' /\ Window' /\ HeadCovered' /\ Counted' /\ Reserved' /\ IndexCovers'
  BY DEF Distinct, Known, Window, HeadCovered, Counted, Reserved, Committing, IndexCovers
<1>3. Mirrored'
  BY DEF Mirrored
<1> QED BY <1>1, <1>2, <1>3 DEF Books

\* The head of a FIFO comes before the landed batch, and a Del cannot find it.
LEMMA OrderlyPop ==
    ASSUME IInv, NEW k \in Nat, k <= count
    PROVE  FirstRows(k) \in SUBSET db /\ Orderly(FirstRows(k))
<1> DEFINE S == FirstRows(k)
<1>1. Keyed
  BY DEF IInv, Types, Distinct, Known, Keyed
<1>2. /\ S \in SUBSET db /\ Cardinality(S) <= k
      /\ \A e \in S, f \in db : KeyLess(f, e) => f \in S
  BY <1>1, FirstRowsTaken
<1>3. ASSUME Indexed, FifoOrder, S \cap landed # {}
      PROVE  db \ landed \subseteq S
  <2>1. PICK e \in S : e \in landed
    BY <1>3
  <2>2. fpc = "count"
    BY <2>1 DEF IInv, Window
  <2>3. ASSUME NEW f \in db \ landed PROVE KeyLess(f, e)
    <3>1. f.seq < e.seq
      BY <2>1, <2>2 DEF IInv, Window
    <3>2. e.val \in Items /\ f.val \in Items
      BY <2>1 DEF IInv, Types, Row
    <3> QED BY <1>3, <3>1, <3>2 DEF KeyLess, FifoOrder
  <2> QED BY <1>2, <2>1, <2>3
<1>4. Cardinality(S) <= count
  <2>1. IsFiniteSet(S)
    BY <1>2, FS_Subset DEF IInv, Types
  <2>2. Cardinality(S) \in Nat
    BY <2>1, FS_CardinalityType
  <2> QED BY <1>2, <2>2 DEF IInv, Types
<1> HIDE DEF S
<1>5. Orderly(S)
  BY <1>3, <1>4 DEF Orderly
<1> QED BY <1>2, <1>5 DEF S

LEMMA OrderlyDel ==
    ASSUME IInv, NEW vs
    PROVE  Matched(vs) \in SUBSET db /\ Orderly(Matched(vs))
<1>1. Matched(vs) \in SUBSET db
  BY DEF Matched
<1>2. Indexed => Matched(vs) \subseteq idx
  BY DEF Matched
<1>3. idx \cap landed = {}
  BY DEF IInv, Window
<1> QED BY <1>1, <1>2, <1>3 DEF Orderly

\* A pass of Pop: the deletes land and are counted, or they fail, or Hash
\* unwinds; it parks only on a counter that is not positive.
LEMMA PopPassInvariant ==
    ASSUME IInv, NEW p \in Procs, NEW c \in Call, pc[p] \in {"idle", "retry"},
           PopPass(p, c), UNCHANGED <<result, nextSeq, gone, clearReq, flusherVars>>
    PROVE  IInv'
<1> USE DEF IInv, Types, flusherVars, lockVars, Continue, Return
<1> DEFINE k == IF c.n > count THEN count ELSE c.n
<1>0. c.n \in Nat /\ NoCall \in Call
  BY NoCallTyped DEF Call
<1>a. Answered'
  <2>1. UNCHANGED <<fpc, closed, result>>
    BY DEF PopPass
  <2> QED BY <2>1, AnsweredKept
<1>1. CASE /\ Return(p)
           /\ UNCHANGED <<db, mirror, lockVars, notFull, notEmpty>>
  <2>1. Types'
    BY <1>0, <1>1 DEF Labels
  <2>2. Books'
    BY <1>1, BooksKept
  <2>3. Waits'
    BY <1>0, <1>1, WaitsKept DEF Labels
  <2> QED BY <2>1, <2>2, <2>3, <1>a DEF Books, Waits
<1>2. CASE /\ ~closed /\ count > 0
           /\ \/ Removed(FirstRows(k)) \/ RemoveUnwinds(FirstRows(k))
              \/ RemoveFails(FirstRows(k))
           /\ Return(p)
           /\ UNCHANGED <<inflight, closed, buf, notEmpty>>
  <2>1. k \in Nat /\ k <= count
    BY <1>0, <1>2
  <2>2. FirstRows(k) \in SUBSET db /\ Orderly(FirstRows(k))
    BY <2>1, OrderlyPop
  <2>3. PICK S \in SUBSET db : S = FirstRows(k)
    BY <2>2
  <2>4. Orderly(S) /\ (Removed(S) \/ RemoveUnwinds(S) \/ RemoveFails(S))
    BY <1>2, <2>2, <2>3
  <2>5. CASE Removed(S)
    <3>1. /\ Books'
          /\ db' \subseteq Row /\ IsFiniteSet(db') /\ idx' \subseteq Row /\ count' \in Int
          /\ mirror' \in [Items -> Nat]
      BY <1>2, <2>4, <2>5, RemovedBooks
    <3>2. notFull' = {} /\ count' = count - Cardinality(S)
      BY <2>5 DEF Removed, SignalNotFull
    <3>3. Types'
      BY <1>0, <1>2, <3>1, <3>2 DEF Labels
    <3>4. Parked'
      BY <1>2, <3>2 DEF Parked
    <3>5. EmptyWoken'
      <4>1. Cardinality(S) \in Nat
        BY Remainder
      <4>2. count' <= count
        BY <3>2, <4>1
      <4>3. count' > 0 => count > 0
        BY <1>2
      <4> QED BY <1>2, <4>3 DEF EmptyWoken, NoLostWakeupEmpty
    <3>6. NoLostWakeupFull'
      BY <3>2 DEF NoLostWakeupFull
    <3> QED BY <3>1, <3>3, <3>4, <3>5, <3>6, <1>a DEF Books
  <2>6. CASE RemoveUnwinds(S)
    <3>1. /\ Books'
          /\ db' \subseteq Row /\ IsFiniteSet(db') /\ idx' \subseteq Row /\ count' \in Int
          /\ mirror' \in [Items -> Nat]
      BY <1>2, <2>6, UnwindsBooks
    <3>2. UNCHANGED <<notFull, count>>
      BY <2>6 DEF RemoveUnwinds
    <3>3. Types'
      BY <1>0, <1>2, <3>1, <3>2 DEF Labels
    <3>4. Waits'
      BY <1>0, <1>2, <3>2, WaitsKept DEF Labels
    <3> QED BY <3>1, <3>3, <3>4, <1>a DEF Books, Waits
  <2>7. CASE RemoveFails(S)
    <3>1. Books' /\ mirror' \in [Items -> Nat]
      BY <1>2, <2>7, FailsBooks
    <3>2. UNCHANGED <<db, idx, count, notFull>>
      BY <2>7 DEF RemoveFails
    <3>3. Types'
      BY <1>0, <1>2, <3>1, <3>2 DEF Labels
    <3>4. Waits'
      BY <1>0, <1>2, <3>2, WaitsKept DEF Labels
    <3> QED BY <3>1, <3>3, <3>4, <1>a DEF Books, Waits
  <2> QED BY <2>4, <2>5, <2>6, <2>7
<1>3. CASE /\ ~closed /\ count <= 0
           /\ notEmpty' = notEmpty \cup {p}
           /\ Continue(p, c, "wait")
           /\ UNCHANGED <<db, mirror, lockVars, notFull>>
  <2>1. Types'
    BY <1>0, <1>3 DEF Labels
  <2>2. Books'
    BY <1>3, BooksKept
  <2>3. Parked'
    BY <1>3 DEF Parked
  <2>4. EmptyWoken'
    BY <1>3 DEF EmptyWoken, NoLostWakeupEmpty
  <2>5. NoLostWakeupFull'
    <3> SUFFICES ASSUME NEW q \in notFull
                 PROVE  Fits(q)' => fpc = "wake"
      BY <1>3 DEF NoLostWakeupFull
    <3>1. q # p
      BY DEF Parked
    <3>2. Fits(q)' <=> Fits(q)
      BY <1>3, <3>1 DEF Fits, Gate, Room
    <3> QED BY <1>3, <3>2 DEF NoLostWakeupFull
  <2> QED BY <2>1, <2>2, <2>3, <2>4, <2>5, <1>a DEF Books, Waits
<1> HIDE DEF lockVars, Continue, Return
<1> QED BY <1>1, <1>2, <1>3 DEF PopPass

\* NotEmpty parks as Pop does.
LEMMA NotEmptyPassInvariant ==
    ASSUME IInv, NEW p \in Procs, NEW c \in Call, pc[p] \in {"idle", "retry"},
           NotEmptyPass(p, c),
           UNCHANGED <<db, mirror, lockVars, result, notFull, nextSeq, gone, clearReq, flusherVars>>
    PROVE  IInv'
<1> USE DEF IInv, Types, flusherVars, lockVars, Continue, Return
<1>0. NoCall \in Call
  BY NoCallTyped
<1>1. Types' /\ Books' /\ Answered'
  <2>1. Types'
    BY <1>0 DEF Labels, NotEmptyPass
  <2>2. Books'
    BY BooksKept
  <2>3. Answered'
    BY AnsweredKept
  <2> QED BY <2>1, <2>2, <2>3
<1>2. CASE Return(p) /\ UNCHANGED notEmpty
  <2>1. Waits'
    BY <1>0, <1>2, WaitsKept DEF Labels
  <2> QED BY <1>1, <2>1 DEF Books, Waits
<1>3. CASE /\ ~closed /\ count <= 0
           /\ notEmpty' = notEmpty \cup {p}
           /\ Continue(p, c, "wait")
  <2>1. Parked'
    BY <1>3 DEF Parked
  <2>2. EmptyWoken'
    BY <1>3 DEF EmptyWoken, NoLostWakeupEmpty
  <2>3. NoLostWakeupFull'
    <3> SUFFICES ASSUME NEW q \in notFull
                 PROVE  Fits(q)' => fpc = "wake"
      BY <1>3 DEF NoLostWakeupFull
    <3>1. q # p
      BY DEF Parked
    <3>2. Fits(q)' <=> Fits(q)
      BY <1>3, <3>1 DEF Fits, Gate, Room
    <3> QED BY <1>3, <3>2 DEF NoLostWakeupFull
  <2> QED BY <1>1, <2>1, <2>2, <2>3 DEF Books
<1> HIDE DEF lockVars, Continue, Return
<1> QED BY <1>2, <1>3 DEF NotEmptyPass

\* NotFull parks only while there is no room.
LEMMA NotFullPassInvariant ==
    ASSUME IInv, NEW p \in Procs, NEW c \in Call, c.op = "notFull", pc[p] \in {"idle", "retry"},
           NotFullPass(p, c),
           UNCHANGED <<db, mirror, lockVars, result, notEmpty, nextSeq, gone, clearReq, flusherVars>>
    PROVE  IInv'
<1> USE DEF IInv, Types, flusherVars, lockVars, Continue, Return
<1>0. NoCall \in Call
  BY NoCallTyped
<1>1. Types' /\ Books' /\ Answered'
  <2>1. Types'
    BY <1>0 DEF Labels, NotFullPass
  <2>2. Books'
    BY BooksKept
  <2>3. Answered'
    BY AnsweredKept
  <2> QED BY <2>1, <2>2, <2>3
<1>2. CASE Return(p) /\ UNCHANGED notFull
  <2>1. Waits'
    BY <1>0, <1>2, WaitsKept DEF Labels
  <2> QED BY <1>1, <2>1 DEF Books, Waits
<1>3. CASE /\ ~closed /\ ~Room
           /\ notFull' = notFull \cup {p}
           /\ Continue(p, c, "wait")
  <2>1. Parked' /\ EmptyWoken'
    BY <1>3 DEF Parked, EmptyWoken, NoLostWakeupEmpty
  <2>2. NoLostWakeupFull'
    <3> SUFFICES ASSUME NEW q \in notFull'
                 PROVE  Fits(q)' => fpc = "wake"
      BY <1>3 DEF NoLostWakeupFull
    <3>1. CASE q = p
      BY <1>3, <3>1 DEF Fits, Room
    <3>2. CASE q # p
      <4>1. Fits(q)' <=> Fits(q)
        BY <1>3, <3>2 DEF Fits, Gate, Room
      <4> QED BY <1>3, <3>2, <4>1 DEF NoLostWakeupFull
    <3> QED BY <3>1, <3>2
  <2> QED BY <1>1, <2>1, <2>2 DEF Books
<1> HIDE DEF lockVars, Continue, Return
<1> QED BY <1>2, <1>3 DEF NotFullPass

\* One pass of a call, new or woken.
LEMMA PassInvariant ==
    ASSUME IInv, NEW p \in Procs, NEW c \in Call, pc[p] \in {"idle", "retry"}, Pass(p, c)
    PROVE  IInv'
<1>1. CASE c.op = "push" /\ PushPass(p, c) /\ UNCHANGED <<db, mirror, notEmpty>>
  BY <1>1, PushPassInvariant DEF Pass
<1>2. CASE c.op = "pop" /\ PopPass(p, c) /\ UNCHANGED result
  BY <1>2, PopPassInvariant DEF Pass
<1>3. CASE /\ c.op = "notEmpty" /\ NotEmptyPass(p, c)
           /\ UNCHANGED <<db, mirror, lockVars, result, notFull>>
  BY <1>3, NotEmptyPassInvariant DEF Pass
<1>4. CASE /\ c.op = "notFull" /\ NotFullPass(p, c)
           /\ UNCHANGED <<db, mirror, lockVars, result, notEmpty>>
  BY <1>4, NotFullPassInvariant DEF Pass
<1> QED BY <1>1, <1>2, <1>3, <1>4 DEF Pass

\* Del removes rows of values it names from all books, or fails.
LEMMA DelInvariant ==
    ASSUME IInv, NEW p \in Procs, NEW vs, Del(p, vs)
    PROVE  IInv'
<1> USE DEF IInv, Types, flusherVars, procVars
<1>a. Answered'
  <2>1. UNCHANGED <<fpc, closed, result>>
    BY DEF Del
  <2> QED BY <2>1, AnsweredKept
<1>1. Matched(vs) \in SUBSET db /\ Orderly(Matched(vs))
  BY OrderlyDel
<1>2. PICK S \in SUBSET db : S = Matched(vs)
  BY <1>1
<1>3. /\ Orderly(S)
      /\ UNCHANGED <<db, mirror, idx, count, notFull>> \/ Removed(S) \/ RemoveFails(S)
      /\ UNCHANGED <<nextSeq, inflight, closed, buf, notEmpty, result, gone, clearReq,
                     flusherVars, procVars>>
  BY <1>1, <1>2 DEF Del
<1>4. CASE UNCHANGED <<db, mirror, idx, count, notFull>>
  <2>1. Types'
    BY <1>3, <1>4
  <2>2. Books'
    BY <1>3, <1>4, BooksKept
  <2>3. Parked' /\ EmptyWoken' /\ NoLostWakeupFull'
    BY <1>3, <1>4 DEF Parked, EmptyWoken, NoLostWakeupEmpty, NoLostWakeupFull, Fits, Gate, Room
  <2> QED BY <2>1, <2>2, <2>3, <1>a DEF Books
<1>5. CASE Removed(S)
  <2>1. /\ Books'
        /\ db' \subseteq Row /\ IsFiniteSet(db') /\ idx' \subseteq Row /\ count' \in Int
        /\ mirror' \in [Items -> Nat]
    BY <1>3, <1>5, RemovedBooks
  <2>2. notFull' = {} /\ count' = count - Cardinality(S)
    BY <1>5 DEF Removed, SignalNotFull
  <2>3. Types'
    BY <1>3, <2>1, <2>2
  <2>4. EmptyWoken'
    <3>1. Cardinality(S) \in Nat
      BY Remainder
    <3>2. count' > 0 => count > 0
      BY <2>2, <3>1
    <3> QED BY <1>3, <3>2 DEF EmptyWoken, NoLostWakeupEmpty
  <2>5. Parked' /\ NoLostWakeupFull'
    BY <1>3, <2>2 DEF Parked, NoLostWakeupFull
  <2> QED BY <2>1, <2>3, <2>4, <2>5, <1>a DEF Books
<1>6. CASE RemoveFails(S)
  <2>1. Books' /\ mirror' \in [Items -> Nat]
    BY <1>3, <1>6, FailsBooks
  <2>2. UNCHANGED <<db, idx, count, notFull>>
    BY <1>6 DEF RemoveFails
  <2>3. Types'
    BY <1>3, <2>1, <2>2
  <2>4. Parked' /\ EmptyWoken' /\ NoLostWakeupFull'
    BY <1>3, <2>2 DEF Parked, EmptyWoken, NoLostWakeupEmpty, NoLostWakeupFull, Fits, Gate, Room
  <2> QED BY <2>1, <2>3, <2>4, <1>a DEF Books
<1> QED BY <1>3, <1>4, <1>5, <1>6

\* Nothing the invariant speaks of changes.
LEMMA FrameInvariant ==
    ASSUME IInv,
           UNCHANGED <<storeVars, lockVars, signalVars, mirror, result, fpc, after, snap, landed,
                       reply, pc, call>>
    PROVE  IInv'
<1> USE DEF IInv, storeVars, lockVars, signalVars
<1>1. Types'
  BY DEF Types
<1>2. Books'
  BY BooksKept
<1>3. Parked' /\ EmptyWoken' /\ NoLostWakeupFull' /\ Answered'
  BY DEF Parked, EmptyWoken, NoLostWakeupEmpty, NoLostWakeupFull, Fits, Gate, Room, Answered
<1> QED BY <1>1, <1>2, <1>3 DEF Books

\* A goroutine that is neither parked nor broadcasting moves on, at most giving
\* its flushResult back.
LEMMA MoveInvariant ==
    ASSUME IInv, NEW p \in Procs, pc[p] \notin {"wait", "bcast1", "bcast2"},
           NEW l \in Labels, NEW c \in Call,
           pc' = [pc EXCEPT ![p] = l], call' = [call EXCEPT ![p] = c],
           result' = result \/ result' = [result EXCEPT ![p] = None],
           UNCHANGED <<storeVars, lockVars, signalVars, mirror, fpc, after, snap, landed, reply>>
    PROVE  IInv'
<1> USE DEF IInv, storeVars, lockVars, signalVars
<1>1. Types'
  BY DEF Types
<1>2. Books'
  BY BooksKept
<1>3. Waits'
  BY WaitsKept
<1>4. Answered'
  BY AnsweredKept
<1> QED BY <1>1, <1>2, <1>3, <1>4 DEF Books, Waits

\* The answered, the answered and retrying, and Clear as its caller sees it.
LEMMA AnswerInvariant ==
    ASSUME IInv, NEW p \in Procs,
           PushDone(p) \/ RoomDone(p) \/ Clear(p) \/ ClearSend(p) \/ ClearDone(p)
    PROVE  IInv'
<1> USE NoCallTyped DEF IInv, Types, Continue, Return, flusherVars
<1>0. {"idle", "retry", "clearSend", "clearWait"} \subseteq Labels
  BY DEF Labels
<1>1. CASE PushDone(p)
  BY <1>0, <1>1, MoveInvariant DEF PushDone
<1>2. CASE RoomDone(p)
  <2>1. call[p] \in Call /\ call = [call EXCEPT ![p] = call[p]]
    OBVIOUS
  <2>2. CASE Return(p)
    BY <1>0, <1>2, <2>2, MoveInvariant DEF RoomDone
  <2>3. CASE Continue(p, call[p], "retry")
    <3>1. PICK c \in Call : c = call[p]
      BY <2>1
    <3>2. pc' = [pc EXCEPT ![p] = "retry"] /\ call' = [call EXCEPT ![p] = c]
      BY <2>3, <3>1
    <3> QED BY <1>0, <1>2, <3>2, MoveInvariant DEF RoomDone
  <2> QED BY <1>2, <2>2, <2>3 DEF RoomDone
<1>3. CASE Clear(p)
  BY <1>0, <1>3, MoveInvariant DEF Clear, InCall
<1>4. CASE ClearSend(p)
  BY <1>0, <1>4, MoveInvariant DEF ClearSend
<1>5. CASE ClearDone(p)
  BY <1>0, <1>5, MoveInvariant DEF ClearDone
<1> QED BY <1>1, <1>2, <1>3, <1>4, <1>5

\* A closer owes two broadcasts from the moment it sets closed.
LEMMA CloseInvariant ==
    ASSUME IInv, NEW p \in Procs, Close(p)
    PROVE  IInv'
<1> USE DEF Close, InCall, Continue, storeVars, signalVars, lockVars, flusherVars, procVars
<1>1. CASE UNCHANGED <<closed, procVars>>
  BY <1>1, FrameInvariant
<1>2. CASE closed' = TRUE /\ Continue(p, NoCall, "bcast1")
  <2> USE DEF IInv, Types
  <2>1. Types'
    BY <1>2, NoCallTyped DEF Labels
  <2>2. Books'
    BY BooksKept
  <2>3. p \notin notFull \cup notEmpty /\ pc'[p] = "bcast1"
    BY <1>2 DEF Parked
  <2>4. Parked'
    BY <1>2, <2>3 DEF Parked
  <2>5. EmptyWoken'
    BY <1>2, <2>3 DEF EmptyWoken, NoLostWakeupEmpty
  <2>6. NoLostWakeupFull'
    BY <1>2, <2>3 DEF NoLostWakeupFull
  <2>7. Answered'
    BY <1>2 DEF Answered
  <2> QED BY <2>1, <2>2, <2>4, <2>5, <2>6, <2>7 DEF Books
<1> QED BY <1>1, <1>2

\* The broadcasts empty the signals; the last step only cancels.
LEMMA CloseStepInvariant ==
    ASSUME IInv, NEW p \in Procs, CloseStep(p)
    PROVE  IInv'
<1> USE NoCallTyped DEF IInv, Types, CloseStep, Continue, Return, storeVars, signalVars, lockVars,
                        flusherVars
<1>1. CASE pc[p] = "cancel"
  <2>1. "idle" \in Labels
    BY DEF Labels
  <2> QED BY <1>1, <2>1, MoveInvariant
<1>2. CASE pc[p] # "cancel"
  <2>1. Types'
    BY <1>2 DEF Labels, SignalNotEmpty, SignalNotFull
  <2>2. Books'
    BY BooksKept
  <2>3. p \notin notFull \cup notEmpty
    BY <1>2 DEF Parked
  <2>4. Parked'
    BY <1>2, <2>3 DEF Parked, SignalNotEmpty, SignalNotFull
  <2>5. EmptyWoken'
    BY <1>2 DEF EmptyWoken, NoLostWakeupEmpty, SignalNotEmpty, SignalNotFull
  <2>6. NoLostWakeupFull'
    <3> SUFFICES ASSUME NEW q \in notFull'
                 PROVE  /\ Fits(q)' => fpc = "wake" \/ closed
                        /\ closed => \/ fpc \in {"writeOff", "bcastFull"}
                                     \/ \E r \in Procs : pc'[r] \in {"bcast1", "bcast2"}
      BY DEF NoLostWakeupFull
    <3>1. pc[p] = "bcast1" /\ pc'[p] = "bcast2" /\ notFull' = notFull /\ q # p
      BY <1>2, <2>3 DEF SignalNotFull
    <3>2. Fits(q)' <=> Fits(q)
      BY <3>1 DEF Fits, Gate, Room
    <3> QED BY <3>1, <3>2 DEF NoLostWakeupFull
  <2>7. Answered'
    BY AnsweredKept
  <2> QED BY <2>1, <2>2, <2>4, <2>5, <2>6, <2>7 DEF Books
<1> QED BY <1>1, <1>2

\* A waiter leaves the signals with its ctx.
LEMMA CtxWakeInvariant ==
    ASSUME IInv, NEW p \in Procs, CtxWake(p)
    PROVE  IInv'
<1> USE DEF IInv, Types, CtxWake, storeVars, lockVars, flusherVars, procVars
<1>1. Types'
  OBVIOUS
<1>2. Books'
  BY BooksKept
<1>3. Parked' /\ EmptyWoken'
  BY DEF Parked, EmptyWoken, NoLostWakeupEmpty
<1>4. NoLostWakeupFull'
  BY DEF NoLostWakeupFull, Fits, Gate, Room
<1>5. Answered'
  BY AnsweredKept
<1> QED BY <1>1, <1>2, <1>3, <1>4, <1>5 DEF Books

\* A woken waiter moves on.
LEMMA WaitReturnInvariant ==
    ASSUME IInv, NEW p \in Procs, WaitReturn(p)
    PROVE  IInv'
<1> USE NoCallTyped DEF IInv, Types, WaitReturn, Waiting, Continue, Return, storeVars, signalVars,
                        lockVars, flusherVars
<1>0. PICK l \in Labels, c \in Call :
        pc' = [pc EXCEPT ![p] = l] /\ call' = [call EXCEPT ![p] = c] /\ l \in {"idle", "retry"}
  <2>1. {"idle", "retry"} \subseteq Labels /\ call[p] \in Call
    BY DEF Labels
  <2> QED BY <2>1
<1>1. Types'
  BY <1>0
<1>2. Books'
  BY BooksKept
<1>3. p \notin notFull \cup notEmpty
  OBVIOUS
<1>4. Parked' /\ EmptyWoken'
  BY <1>0, <1>3 DEF Parked, EmptyWoken, NoLostWakeupEmpty
<1>5. NoLostWakeupFull'
  <2> SUFFICES ASSUME NEW q \in notFull
               PROVE  /\ Fits(q)' => fpc = "wake" \/ closed
                      /\ closed => \/ fpc \in {"writeOff", "bcastFull"}
                                   \/ \E r \in Procs : pc'[r] \in {"bcast1", "bcast2"}
    BY DEF NoLostWakeupFull
  <2>1. Fits(q)' <=> Fits(q)
    BY <1>0, <1>3 DEF Fits, Gate, Room
  <2>2. \A r \in Procs : pc[r] \in {"bcast1", "bcast2"} => pc'[r] = pc[r]
    BY <1>0
  <2> QED BY <2>1, <2>2 DEF NoLostWakeupFull
<1>6. Answered'
  BY AnsweredKept
<1> QED BY <1>1, <1>2, <1>4, <1>5, <1>6 DEF Books

\* The calls of one goroutine, and the steps that take it through them.
LEMMA CallerInvariant ==
    ASSUME IInv, NEW p \in Procs, Calls(p) \/ CtxDone(p) \/ Progress(p)
    PROVE  IInv'
<1>0. /\ \A vs \in Batches : MkCall("push", vs, 0) \in Call
      /\ \A n \in PopSizes : MkCall("pop", <<>>, n) \in Call
      /\ MkCall("notEmpty", <<>>, 0) \in Call /\ MkCall("notFull", <<>>, 0) \in Call
  BY BatchesAssumption, ArgsAssumption DEF MkCall, Call
<1>1. CASE Push(p)
  <2>1. PICK vs \in Batches : ~InCall(p) /\ Pass(p, MkCall("push", vs, 0))
    BY <1>1 DEF Push
  <2> QED BY <1>0, <2>1, PassInvariant DEF InCall
<1>2. CASE Pop(p)
  <2>1. PICK n \in PopSizes : ~InCall(p) /\ Pass(p, MkCall("pop", <<>>, n))
    BY <1>2 DEF Pop
  <2> QED BY <1>0, <2>1, PassInvariant DEF InCall
<1>3. CASE NotEmpty(p) \/ NotFull(p)
  BY <1>0, <1>3, PassInvariant DEF NotEmpty, NotFull, InCall
<1>4. CASE Retry(p)
  <2>1. PICK c \in Call : c = call[p]
    BY DEF IInv, Types
  <2>2. pc[p] = "retry" /\ Pass(p, c)
    BY <1>4, <2>1 DEF Retry
  <2> QED BY <2>2, PassInvariant
<1>5. CASE \E vs \in DelArgs : Del(p, vs)
  BY <1>5, DelInvariant
<1>6. CASE PushDone(p) \/ RoomDone(p) \/ Clear(p) \/ ClearSend(p) \/ ClearDone(p)
  BY <1>6, AnswerInvariant
<1>7. CASE Close(p) \/ CloseStep(p)
  BY <1>7, CloseInvariant, CloseStepInvariant
<1>8. CASE CtxWake(p) \/ WaitReturn(p)
  BY <1>8, CtxWakeInvariant, WaitReturnInvariant
<1>9. CASE CtxDone(p)
  BY <1>9, FrameInvariant DEF CtxDone, storeVars, lockVars, signalVars, flusherVars
<1> QED BY <1>1, <1>2, <1>3, <1>4, <1>5, <1>6, <1>7, <1>8, <1>9 DEF Calls, Progress

-----------------------------------------------------------------------------
(***************************************************************************)
(* The flusher.                                                            *)
(***************************************************************************)

\* The select only chooses what doFlush returns to.
LEMMA SelectInvariant ==
    ASSUME IInv, SelectFlush \/ SelectClear \/ SelectDone
    PROVE  IInv'
<1> USE DEF IInv, SelectFlush, SelectClear, SelectDone, storeVars, signalVars, lockVars, procVars
<1>0. fpc = "loop" /\ fpc' = "flush"
  OBVIOUS
<1>1. Types'
  BY DEF Types, FlusherLabels
<1>2. Books'
  BY <1>0, BooksKept
<1>3. Waits'
  BY <1>0, WaitsOfFlusher
<1>4. Answered'
  BY <1>0 DEF Answered
<1> QED BY <1>1, <1>2, <1>3, <1>4 DEF Books, Waits

\* doFlush takes the buffer and its flushResult together.
LEMMA DoFlushInvariant ==
    ASSUME IInv, DoFlush
    PROVE  IInv'
<1> USE DEF IInv, DoFlush, storeVars, signalVars, procVars
<1>0. fpc = "flush" /\ fpc' \in {"loop", "clear", "close", "commit"}
  BY DEF Types
<1>1. Waits'
  BY <1>0, WaitsOfFlusher
<1>2. Answered'
  BY <1>0 DEF Answered
<1>3. CASE buf = <<>>
  <2>1. Types'
    BY <1>3 DEF Types, FlusherLabels
  <2>2. Books'
    BY <1>0, <1>3, BooksKept DEF Types
  <2> QED BY <1>1, <1>2, <2>1, <2>2 DEF Books, Waits
<1>4. CASE buf # <<>>
  <2>0. fpc' = "commit" /\ snap' = buf /\ buf' = <<>> /\ Rotate
    BY <1>4
  <2>1. Types'
    BY <2>0 DEF Types, FlusherLabels, Rotate
  <2>2. Distinct' /\ Window' /\ HeadCovered' /\ Counted' /\ IndexCovers' /\ Mirrored'
    BY <1>0, <2>0 DEF Distinct, Known, Window, HeadCovered, Counted, IndexCovers, Mirrored
  <2>3. Reserved'
    <3>1. inflight = Len(buf) /\ inflight' = inflight /\ Len(buf) \in Nat
      BY <1>0 DEF Reserved, Committing, Types
    <3>2. Len(buf') = 0 /\ Len(snap') = Len(buf)
      BY <2>0
    <3>3. inflight' = Len(buf') + Len(snap')
      BY <3>1, <3>2
    <3> QED BY <2>0, <3>3 DEF Reserved, Committing
  <2> QED BY <1>1, <1>2, <2>1, <2>2, <2>3 DEF Waits
<1> QED BY <1>3, <1>4

\* The Backup is given the batch before the store is.
LEMMA CommitBackupInvariant ==
    ASSUME IInv, CommitBackup
    PROVE  IInv'
<1> USE DEF IInv, CommitBackup, storeVars, signalVars, lockVars, procVars
<1>0. fpc = "commit" /\ fpc' \in {"land", "release"}
  BY DEF Fail
<1>1. Waits' /\ Answered'
  <2>1. Waits'
    BY <1>0, WaitsOfFlusher
  <2> QED BY <1>0, <2>1 DEF Answered
<1>2. Distinct' /\ Window' /\ HeadCovered' /\ Counted' /\ IndexCovers' /\ Reserved'
  BY <1>0 DEF Distinct, Known, Window, HeadCovered, Counted, IndexCovers, Reserved, Committing
<1>3. CASE BackupPush(snap) /\ fpc' = "land"
  <2>1. \A v \in Items : mirror'[v] = mirror[v] + CountOf(snap, v) /\ CountOf(snap, v) \in Nat
    <3> SUFFICES ASSUME NEW v \in Items
                 PROVE  mirror'[v] = mirror[v] + CountOf(snap, v) /\ CountOf(snap, v) \in Nat
      OBVIOUS
    <3>1. mirror'[v] = mirror[v] + CountOf(snap, v)
      BY <1>3 DEF BackupPush
    <3>2. 0 \in Nat /\ snap \in Seq(Items)
      BY DEF Types
    <3>3. IsFiniteSet(Rows(0, snap)) /\ RowsOf(Rows(0, snap), v) = CountOf(snap, v)
      BY <3>2, RowsOfBatch, Zenon
    <3>4. RowsOf(Rows(0, snap), v) \in Nat
      BY <3>3, RowsOfDeleted
    <3> QED BY <3>1, <3>3, <3>4
  <2>2. mirror' \in [Items -> Nat]
    <3>1. mirror' = [v \in Items |-> mirror'[v]]
      BY <1>3, Zenon DEF BackupPush
    <3>2. \A v \in Items : mirror'[v] \in Nat
      BY <2>1 DEF Types
    <3> QED BY <3>1, <3>2, Zenon
  <2>3. Types'
    BY <1>0, <2>2 DEF Types, FlusherLabels
  <2>4. Mirrored'
    BY <1>0, <1>3, <2>1 DEF Mirrored
  <2> QED BY <1>1, <1>2, <2>3, <2>4 DEF Waits
<1>4. CASE fpc' = "release" /\ UNCHANGED mirror
  <2>1. Types'
    BY <1>0, <1>4 DEF Types, FlusherLabels
  <2>2. Mirrored'
    BY <1>0, <1>4 DEF Mirrored
  <2> QED BY <1>1, <1>2, <2>1, <2>2 DEF Waits
<1> QED BY <1>3, <1>4 DEF Fail

\* The batch lands under numbers nobody has used, while the counters wait.
LEMMA CommitStoreInvariant ==
    ASSUME IInv, CommitStore
    PROVE  IInv'
<1> USE DEF IInv, CommitStore, storeVars, signalVars, lockVars, procVars
<1>0. fpc = "land" /\ fpc' \in {"count", "release"}
  BY DEF Fail
<1>1. Waits' /\ Answered'
  <2>1. Waits'
    BY <1>0, WaitsOfFlusher
  <2> QED BY <1>0, <2>1 DEF Answered
<1>2. Reserved'
  BY <1>0 DEF Reserved, Committing
<1>3. CASE /\ landed' = Rows(nextSeq, snap)
           /\ db' = db \cup landed'
           /\ nextSeq' = nextSeq + Len(snap)
           /\ fpc' = "count"
  <2>1. PICK L : L = Rows(nextSeq, snap)
    OBVIOUS
  <2>2. /\ L \subseteq Row /\ IsFiniteSet(L) /\ Cardinality(L) = Len(snap)
        /\ \A e \in L : nextSeq < e.seq /\ e.seq <= nextSeq + Len(snap)
        /\ \A e, f \in L : e.seq = f.seq => e = f
        /\ \A v : RowsOf(L, v) = CountOf(snap, v)
    <3>1. nextSeq \in Nat /\ snap \in Seq(Items)
      BY DEF Types
    <3> QED BY <2>1, <3>1, RowsOfBatch, Zenon
  <2>3. /\ landed' = L /\ db' = db \cup L /\ nextSeq' = nextSeq + Len(snap) /\ fpc' = "count"
        /\ snap' = snap /\ idx' = idx /\ count' = count /\ mirror' = mirror
    BY <1>3, <2>1
  <2>4. landed = {} /\ nextSeq \in Nat /\ Len(snap) \in Nat /\ IsFiniteSet(db)
    BY <1>0 DEF Window, Types
  <2>5. \A e \in db \cup idx : e.seq <= nextSeq /\ e.seq \in Nat
    BY DEF Distinct, Known, Types, Row
  <2>6. (db \cup idx) \cap L = {}
    BY <2>2, <2>4, <2>5 DEF Row
  <2>7. /\ IsFiniteSet(db \cup L)
        /\ Cardinality(db \cup L) = Cardinality(db) + Cardinality(L)
    BY <2>2, <2>4, <2>6, DisjointUnion
  <2>8. Types'
    BY <2>2, <2>3, <2>4, <2>7 DEF Types, FlusherLabels
  <2>9. Distinct'
    <3>1. Known' = db \cup idx \cup L
      BY <2>3 DEF Known
    <3>2. \A e \in L : e.seq \in Nat
      BY <2>2 DEF Row
    <3>3. \A e \in db \cup idx \cup L : e.seq <= nextSeq + Len(snap)
      BY <2>2, <2>4, <2>5, <3>2
    <3>4. \A e, f \in db \cup idx \cup L : e.seq = f.seq => e = f
      <4> SUFFICES ASSUME NEW e \in db \cup idx \cup L, NEW f \in db \cup idx \cup L, e.seq = f.seq
                   PROVE  e = f
        OBVIOUS
      <4>1. CASE e \in L /\ f \in L
        BY <2>2, <4>1
      <4>2. CASE e \in db \cup idx /\ f \in db \cup idx
        BY <4>2 DEF Distinct, Known
      <4>3. CASE e \in L /\ f \in db \cup idx
        BY <2>2, <2>4, <2>5, <3>2, <4>3
      <4>4. CASE f \in L /\ e \in db \cup idx
        BY <2>2, <2>4, <2>5, <3>2, <4>4
      <4> QED BY <4>1, <4>2, <4>3, <4>4
    <3> QED BY <2>3, <3>1, <3>3, <3>4 DEF Distinct
  <2>10. Window'
    <3>1. \A e \in db, f \in L : e.seq < f.seq
      BY <2>2, <2>4, <2>5 DEF Row
    <3> QED BY <2>2, <2>3, <2>6, <3>1 DEF Window
  <2>11. HeadCovered'
    <3>1. db' \ landed' = db \ landed
      BY <2>3, <2>4, <2>6
    <3>2. Cardinality(db' \ landed') = Cardinality(db \ landed)
      BY <3>1, Zenon
    <3> QED BY <2>3, <3>2 DEF HeadCovered
  <2>12. Counted'
    <3>1. Cardinality(db') = Cardinality(db) + Len(snap)
      BY <2>2, <2>3, <2>7, Zenon
    <3>2. Cardinality(db) \in Nat /\ count \in Int
      BY <2>4, FS_CardinalityType DEF Types
    <3> QED BY <1>0, <2>3, <2>4, <3>1, <3>2 DEF Counted
  <2>13. IndexCovers'
    <3> SUFFICES ASSUME Indexed
                 PROVE  /\ db' \subseteq idx \cup L
                        /\ \A e \in idx, f \in db' : e.seq = f.seq => e = f
      BY <2>3 DEF IndexCovers
    <3>1. db' \subseteq idx \cup L
      BY <2>3, <2>4 DEF IndexCovers
    <3>2. \A e \in idx, f \in db' : e.seq = f.seq => e = f
      BY <2>3, <2>9 DEF Distinct, Known
    <3> QED BY <3>1, <3>2
  <2>14. Mirrored'
    <3> SUFFICES ASSUME ~StoreFails, NEW v \in Items
                 PROVE  mirror[v] = RowsOf(db', v)
      BY <2>3 DEF Mirrored
    <3>1. RowsOf(db \cup L, v) = RowsOf(db, v) + RowsOf(L, v)
      <4>1. db \cap L = {} /\ IsFiniteSet(db) /\ IsFiniteSet(L)
        BY <2>2, <2>4, <2>6
      <4> QED BY <4>1, RowsOfAdded
    <3>2. RowsOf(db', v) = RowsOf(db, v) + CountOf(snap, v)
      BY <2>2, <2>3, <3>1, Zenon
    <3> QED BY <1>0, <3>2 DEF Mirrored
  <2> QED BY <1>1, <1>2, <2>8, <2>9, <2>10, <2>11, <2>12, <2>13, <2>14 DEF Waits
<1>4. CASE StoreFails /\ fpc' = "release" /\ UNCHANGED <<storeVars, landed>>
  <2>1. Types'
    BY <1>4 DEF Types, FlusherLabels
  <2>2. Distinct' /\ Window' /\ HeadCovered' /\ Counted' /\ IndexCovers' /\ Mirrored'
    BY <1>0, <1>4 DEF Distinct, Known, Window, HeadCovered, Counted, IndexCovers, Mirrored
  <2> QED BY <1>1, <1>2, <2>1, <2>2 DEF Waits
<1> QED BY <1>3, <1>4 DEF Fail

\* The counters catch up: what leaves inflight enters count, and waiters can
\* only be parked where the counter was 0.
LEMMA CommitCountInvariant ==
    ASSUME IInv, CommitCount
    PROVE  IInv'
<1> USE DEF IInv, CommitCount, Counts, storeVars, signalVars, procVars
<1>0. /\ fpc = "count" /\ fpc' = IF count = 0 THEN "signal" ELSE "settle"
      /\ count' = count + Len(snap) /\ inflight' = inflight - Len(snap)
      /\ idx' = (IF Indexed THEN idx \cup landed ELSE idx) /\ landed' = {}
      /\ UNCHANGED <<db, nextSeq, closed, buf, notFull, notEmpty, mirror, snap, pc, call, result>>
  OBVIOUS
<1>1. count \in Int /\ inflight \in Int /\ Len(snap) \in Nat /\ Len(buf) \in Nat
  BY DEF Types
<1>2. IsFiniteSet(db) /\ Cardinality(db) \in Nat
  BY FS_CardinalityType DEF Types
<1>3. Types'
  BY <1>0, <1>1 DEF Types, FlusherLabels
<1>4. Distinct'
  <2>1. Known' \subseteq Known
    BY <1>0 DEF Known
  <2> QED BY <1>0, <2>1 DEF Distinct
<1>5. Window' /\ Mirrored'
  BY <1>0 DEF Window, Mirrored
<1>6. count + Len(snap) >= Cardinality(db)
  BY <1>0 DEF Counted
<1>7. HeadCovered'
  <2>1. db' \ landed' = db
    BY <1>0
  <2>2. Cardinality(db' \ landed') = Cardinality(db)
    BY <2>1, Zenon
  <2> QED BY <1>0, <1>1, <1>2, <1>6, <2>2 DEF HeadCovered
<1>8. Counted'
  BY <1>0, <1>1, <1>2, <1>6 DEF Counted
<1>9. Reserved'
  <2>1. inflight = Len(buf) + Len(snap)
    BY <1>0 DEF Reserved, Committing
  <2>2. inflight' = Len(buf)
    BY <1>0, <1>1, <2>1
  <2> QED BY <1>0, <2>2 DEF Reserved, Committing
<1>10. IndexCovers'
  <2> SUFFICES ASSUME Indexed
               PROVE  /\ db \subseteq idx'
                      /\ \A e \in idx', f \in db : e.seq = f.seq => e = f
    BY <1>0 DEF IndexCovers
  <2>1. db \subseteq idx'
    BY <1>0 DEF IndexCovers
  <2>2. idx' \subseteq Known /\ db \subseteq Known
    BY <1>0 DEF Known
  <2> QED BY <2>1, <2>2 DEF Distinct
<1>11. Parked'
  BY <1>0 DEF Parked
<1>12. EmptyWoken'
  <2> SUFFICES ASSUME Indexed, FifoOrder, notEmpty # {}
               PROVE  /\ count' > 0 => fpc' = "signal" \/ closed
                      /\ closed => \E q \in Procs : pc[q] = "bcast1"
    BY <1>0 DEF EmptyWoken, NoLostWakeupEmpty
  <2>1. count >= 0
    <3>1. IsFiniteSet(db \ landed)
      BY <1>2, FS_Difference
    <3>2. Cardinality(db \ landed) \in Nat
      BY <3>1, FS_CardinalityType
    <3> QED BY <1>1, <3>2 DEF HeadCovered
  <2>2. count > 0 => closed
    BY <1>0 DEF EmptyWoken, NoLostWakeupEmpty
  <2>3. count' > 0 => fpc' = "signal" \/ closed
    BY <1>0, <1>1, <2>1, <2>2
  <2>4. closed => \E q \in Procs : pc[q] = "bcast1"
    BY <1>0 DEF EmptyWoken, NoLostWakeupEmpty
  <2> QED BY <2>3, <2>4
<1>13. NoLostWakeupFull'
  <2> SUFFICES ASSUME NEW q \in notFull
               PROVE  /\ Fits(q)' => closed
                      /\ closed => \E r \in Procs : pc[r] \in {"bcast1", "bcast2"}
    BY <1>0 DEF NoLostWakeupFull
  <2>1. count' + inflight' = count + inflight
    BY <1>0, <1>1
  <2>2. Fits(q)' <=> Fits(q)
    BY <1>0, <2>1 DEF Fits, Gate, Room
  <2> QED BY <1>0, <2>2 DEF NoLostWakeupFull
<1>14. Answered'
  BY <1>0 DEF Answered
<1> QED BY <1>3, <1>4, <1>5, <1>7, <1>8, <1>9, <1>10, <1>11, <1>12, <1>13, <1>14

\* The signal of a commit, and the wakeup after releaseInflight.
LEMMA CommitWakeInvariant ==
    ASSUME IInv, CommitSignal \/ ReleaseWake
    PROVE  IInv'
<1> USE DEF IInv, CommitSignal, ReleaseWake, SignalNotEmpty, SignalNotFull,
            storeVars, signalVars, lockVars, procVars
<1>0. fpc \in {"signal", "wake"} /\ fpc' = "settle"
  OBVIOUS
<1>1. Types'
  BY DEF Types, FlusherLabels
<1>2. Books'
  BY <1>0, BooksKept
<1>3. Parked' /\ EmptyWoken'
  BY DEF Parked, EmptyWoken, NoLostWakeupEmpty
<1>4. NoLostWakeupFull'
  BY DEF NoLostWakeupFull, Fits, Gate, Room
<1>5. Answered'
  BY <1>0 DEF Answered
<1> QED BY <1>1, <1>2, <1>3, <1>4, <1>5 DEF Books

\* A failed batch gives its reservation back, and the wakeup is on its way.
LEMMA ReleaseInflightInvariant ==
    ASSUME IInv, ReleaseInflight
    PROVE  IInv'
<1> USE DEF IInv, ReleaseInflight, storeVars, signalVars, procVars
<1>0. fpc = "release" /\ fpc' = "wake" /\ inflight' = inflight - Len(snap)
  OBVIOUS
<1>1. inflight \in Int /\ Len(snap) \in Nat /\ Len(buf) \in Nat
  BY DEF Types
<1>2. Types'
  BY <1>0, <1>1 DEF Types, FlusherLabels
<1>3. Distinct' /\ Window' /\ HeadCovered' /\ Counted' /\ IndexCovers' /\ Mirrored'
  BY <1>0 DEF Distinct, Known, Window, HeadCovered, Counted, IndexCovers, Mirrored
<1>4. Reserved'
  <2>1. inflight = Len(buf) + Len(snap)
    BY <1>0 DEF Reserved, Committing
  <2>2. inflight' = Len(buf)
    BY <1>0, <1>1, <2>1
  <2> QED BY <1>0, <2>2 DEF Reserved, Committing
<1>5. Parked' /\ EmptyWoken' /\ NoLostWakeupFull' /\ Answered'
  BY <1>0 DEF Parked, EmptyWoken, NoLostWakeupEmpty, NoLostWakeupFull, Answered
<1> QED BY <1>2, <1>3, <1>4, <1>5

\* doFlush closes done and returns to where the select sent it.
LEMMA SettleInvariant ==
    ASSUME IInv, Settle
    PROVE  IInv'
<1> USE DEF IInv, Settle, storeVars, signalVars, lockVars, procVars
<1>0. fpc = "settle" /\ fpc' \in {"loop", "clear", "close"}
  BY DEF Types
<1>1. Types'
  BY <1>0 DEF Types, FlusherLabels, Answer
<1>2. Distinct' /\ Window' /\ HeadCovered' /\ Counted' /\ IndexCovers' /\ Mirrored' /\ Reserved'
  BY <1>0 DEF Distinct, Known, Window, HeadCovered, Counted, IndexCovers, Mirrored, Reserved,
              Committing
<1>3. Waits'
  BY <1>0, WaitsOfFlusher
<1>4. Answered'
  BY <1>0 DEF Answered
<1> QED BY <1>1, <1>2, <1>3, <1>4 DEF Waits

\* Clear restarts the sequence only with an empty index and no batch landed.
LEMMA DoClearInvariant ==
    ASSUME IInv, DoClear
    PROVE  IInv'
<1> USE DEF IInv, DoClear, storeVars, procVars
<1>0. fpc = "clear" /\ fpc' = "reply" /\ landed = {} /\ landed' = {}
  BY DEF Window
<1>1. Answered'
  BY <1>0 DEF Answered
<1>2. CASE Emptied /\ reply' = "ok"
  <2>1. /\ db' = {} /\ nextSeq' = 0 /\ mirror' = [v \in Items |-> 0] /\ count' = 0 /\ idx' = {}
        /\ notFull' = {}
        /\ UNCHANGED <<inflight, closed, buf, notEmpty, result, after, snap, pc, call>>
    BY <1>2 DEF Emptied, EmptiedTo, NoItems, SignalNotFull
  <2>2. IsFiniteSet(db') /\ Cardinality(db') = 0 /\ Cardinality(db' \ landed') = 0
    <3>1. db' \ landed' = {}
      BY <2>1
    <3> QED BY <2>1, <3>1, FS_EmptySet, Zenon
  <2>3. Types'
    BY <1>0, <1>2, <2>1, <2>2 DEF Types, FlusherLabels
  <2>4. Distinct' /\ Window' /\ IndexCovers'
    BY <1>0, <2>1 DEF Distinct, Known, Window, IndexCovers
  <2>5. HeadCovered' /\ Counted'
    BY <1>0, <2>1, <2>2 DEF HeadCovered, Counted
  <2>6. Reserved'
    BY <1>0, <2>1 DEF Reserved, Committing
  <2>7. Mirrored'
    <3>1. ASSUME NEW v \in Items PROVE mirror'[v] = RowsOf(db', v)
      <4>1. {e \in db' : e.val = v} = {}
        BY <2>1
      <4>2. RowsOf(db', v) = 0
        BY <4>1, FS_EmptySet, Zenon DEF RowsOf
      <4> QED BY <2>1, <4>2
    <3> QED BY <1>0, <3>1 DEF Mirrored
  <2>8. Parked' /\ EmptyWoken' /\ NoLostWakeupFull'
    BY <1>0, <2>1 DEF Parked, EmptyWoken, NoLostWakeupEmpty, NoLostWakeupFull
  <2> QED BY <1>1, <2>3, <2>4, <2>5, <2>6, <2>7, <2>8
<1>3. CASE /\ reply' \in {"ok", "err"}
           /\ UNCHANGED <<storeVars, count, idx, notFull>>
           /\ mirror' = mirror \/ (StoreFails /\ mirror' = NoItems)
  <2>1. Types'
    BY <1>0, <1>3 DEF Types, FlusherLabels, NoItems
  <2>2. Distinct' /\ Window' /\ HeadCovered' /\ Counted' /\ IndexCovers' /\ Reserved'
    BY <1>0, <1>3 DEF Distinct, Known, Window, HeadCovered, Counted, IndexCovers, Reserved,
                      Committing
  <2>3. Mirrored'
    BY <1>0, <1>3 DEF Mirrored
  <2>4. Waits'
    BY <1>0, <1>3, WaitsOfFlusher
  <2> QED BY <1>1, <2>1, <2>2, <2>3, <2>4 DEF Waits
<1>4. QED
  <2>1. mirror' \in (IF ~closed /\ count # 0 /\ StoreFails THEN {mirror, NoItems} ELSE {mirror})
          => mirror' = mirror \/ (StoreFails /\ mirror' = NoItems)
    BY Zenon
  <2> QED BY <1>2, <1>3, <2>1

\* The reply to a Clear is not a flushResult.
LEMMA ReplyInvariant ==
    ASSUME IInv, Reply
    PROVE  IInv'
<1> USE DEF IInv, Reply, storeVars, signalVars, lockVars, procVars
<1>0. fpc = "reply" /\ fpc' \in {"loop", "close"}
  OBVIOUS
<1>1. Types'
  BY <1>0 DEF Types, FlusherLabels
<1>2. Books'
  BY <1>0, BooksKept
<1>3. Waits'
  BY <1>0, WaitsOfFlusher
<1>4. Answered'
  BY <1>0 DEF Answered
<1> QED BY <1>1, <1>2, <1>3, <1>4 DEF Books, Waits

\* The flusher closes: what is staged is given back, and its pushers wait for
\* the write-off that follows.
LEMMA CloseFromFlusherInvariant ==
    ASSUME IInv, CloseFromFlusher
    PROVE  IInv'
<1> USE DEF IInv, CloseFromFlusher, storeVars, signalVars, procVars
<1>0. fpc = "close" /\ fpc' = "writeOff" /\ closed' = TRUE /\ buf' = <<>>
  OBVIOUS
<1>1. inflight = Len(buf) /\ inflight' = inflight - Len(buf) /\ Len(buf) \in Nat
  BY <1>0 DEF Reserved, Committing, Types
<1>2. inflight' = 0
  BY <1>1
<1>3. Types'
  BY <1>0, <1>2 DEF Types, FlusherLabels, Rotate
<1>4. Distinct' /\ Window' /\ HeadCovered' /\ Counted' /\ IndexCovers' /\ Mirrored'
  BY <1>0 DEF Distinct, Known, Window, HeadCovered, Counted, IndexCovers, Mirrored
<1>5. Reserved'
  BY <1>0, <1>2 DEF Reserved, Committing
<1>6. Parked' /\ EmptyWoken' /\ NoLostWakeupFull'
  BY <1>0 DEF Parked, EmptyWoken, NoLostWakeupEmpty, NoLostWakeupFull
<1>7. Answered'
  BY <1>0 DEF Answered, Rotate, Types
<1> QED BY <1>3, <1>4, <1>5, <1>6, <1>7

\* The write-off, the broadcasts and the end of the loop.
LEMMA FlusherLeavesInvariant ==
    ASSUME IInv, WriteOff \/ FlusherBroadcast \/ FlusherExit
    PROVE  IInv'
<1> USE DEF IInv, WriteOff, FlusherBroadcast, FlusherExit, SignalNotEmpty, SignalNotFull,
            storeVars, signalVars, lockVars, procVars
<1>0. /\ fpc \in {"writeOff", "bcastFull", "bcastEmpty", "exit"}
      /\ fpc' \in {"bcastFull", "bcastEmpty", "exit", "reply", "dead"}
  OBVIOUS
<1>1. Types'
  BY DEF Types, FlusherLabels, Answer
<1>2. Books'
  BY <1>0, BooksKept
<1>3. Parked' /\ EmptyWoken'
  BY DEF Parked, EmptyWoken, NoLostWakeupEmpty
<1>4. NoLostWakeupFull'
  BY DEF NoLostWakeupFull, Fits, Gate, Room
<1>5. Answered'
  BY DEF Answered, Answer, Types
<1> QED BY <1>1, <1>2, <1>3, <1>4, <1>5 DEF Books

-----------------------------------------------------------------------------
(***************************************************************************)
(* The specification.                                                      *)
(***************************************************************************)

\* A reopened or hydrated store starts with books that agree.
LEMMA InitInvariant == Init => IInv
<1> SUFFICES ASSUME Init PROVE IInv OBVIOUS
<1> USE DEF Init
<1>1. PICK m \in Stored : Hydrate(m)
  OBVIOUS
<1>2. m \in Seq(Items) /\ Len(m) \in Nat /\ 0 \in Nat
  BY StoredAssumption
<1>3. /\ Rows(0, m) \subseteq Row /\ IsFiniteSet(Rows(0, m)) /\ Cardinality(Rows(0, m)) = Len(m)
      /\ \A e \in Rows(0, m) : 0 < e.seq /\ e.seq <= 0 + Len(m)
      /\ \A e, f \in Rows(0, m) : e.seq = f.seq => e = f
      /\ \A v : RowsOf(Rows(0, m), v) = CountOf(m, v)
  BY <1>2, RowsOfBatch, Zenon
<1>4. PICK R : R = Rows(0, m)
  OBVIOUS
<1>5. /\ db = R /\ nextSeq = Len(m) /\ count = Len(m)
      /\ idx = (IF Indexed THEN R ELSE {}) /\ mirror = [v \in Items |-> CountOf(m, v)]
  BY <1>1, <1>4 DEF Hydrate
<1>6. /\ R \subseteq Row /\ IsFiniteSet(R) /\ Cardinality(R) = Len(m)
      /\ \A e \in R : e.seq <= Len(m)
      /\ \A e, f \in R : e.seq = f.seq => e = f
      /\ \A v : RowsOf(R, v) = CountOf(m, v)
  BY <1>2, <1>3, <1>4
<1>7. \A v \in Items : mirror[v] = RowsOf(R, v) /\ mirror[v] \in Nat
  <2> SUFFICES ASSUME NEW v \in Items
               PROVE  mirror[v] = RowsOf(R, v) /\ mirror[v] \in Nat
    OBVIOUS
  <2>1. mirror[v] = RowsOf(R, v)
    BY <1>5, <1>6
  <2>2. RowsOf(R, v) \in Nat
    BY <1>6, RowsOfDeleted
  <2> QED BY <2>1, <2>2
<1>8. Types
  <2>1. mirror \in [Items -> Nat]
    <3>1. mirror = [v \in Items |-> mirror[v]]
      BY <1>5, Zenon
    <3> QED BY <1>7, <3>1, Zenon
  <2>2. call \in [Procs -> Call]
    BY NoCallTyped
  <2>3. /\ db \subseteq Row /\ IsFiniteSet(db) /\ idx \subseteq Row
        /\ nextSeq \in Nat /\ count \in Int
    BY <1>2, <1>5, <1>6
  <2>4. pc \in [Procs -> Labels] /\ fpc \in FlusherLabels
    BY DEF Labels, FlusherLabels
  <2>5. result \in [Procs -> {None, "cur", "snap", "ok", "err"}] /\ closed \in BOOLEAN
    OBVIOUS
  <2>6. buf \in Seq(Items) /\ snap \in Seq(Items) /\ inflight \in Int
    OBVIOUS
  <2>7. /\ landed \subseteq Row /\ notFull \subseteq Procs /\ notEmpty \subseteq Procs
        /\ reply \in {None, "ok", "err"} /\ after \in {"loop", "clear", "close"}
    OBVIOUS
  <2> QED BY <2>1, <2>2, <2>3, <2>4, <2>5, <2>6, <2>7, Zenon DEF Types
<1>9. Distinct /\ Window /\ IndexCovers
  BY <1>5, <1>6 DEF Distinct, Known, Window, IndexCovers
<1>10. HeadCovered
  <2>1. db \ landed = R
    BY <1>5
  <2>2. Cardinality(db \ landed) = Len(m)
    BY <1>6, <2>1, Zenon
  <2> QED BY <1>2, <1>5, <2>2 DEF HeadCovered
<1>11. Counted /\ Reserved
  BY <1>2, <1>5, <1>6 DEF Counted, Reserved, Committing
<1>12. Mirrored
  BY <1>5, <1>7 DEF Mirrored
<1>13. Parked /\ EmptyWoken /\ NoLostWakeupFull /\ Answered
  BY DEF Parked, EmptyWoken, NoLostWakeupEmpty, NoLostWakeupFull, Answered
<1> QED BY <1>8, <1>9, <1>10, <1>11, <1>12, <1>13 DEF IInv

\* Every step of the flusher.
LEMMA FlusherInvariant ==
    ASSUME IInv, Flusher
    PROVE  IInv'
BY SelectInvariant, DoFlushInvariant, CommitBackupInvariant, CommitStoreInvariant,
   CommitCountInvariant, CommitWakeInvariant, ReleaseInflightInvariant, SettleInvariant,
   DoClearInvariant, ReplyInvariant, CloseFromFlusherInvariant, FlusherLeavesInvariant
   DEF Flusher

LEMMA NextInvariant == IInv /\ [Next]_vars => IInv'
<1> SUFFICES ASSUME IInv, [Next]_vars PROVE IInv' OBVIOUS
<1>1. CASE Flusher
  BY <1>1, FlusherInvariant
<1>2. CASE OwnerCancels
  BY <1>2, FrameInvariant DEF OwnerCancels, storeVars, lockVars, signalVars, flusherVars, procVars
<1>3. CASE \E p \in Procs : Calls(p) \/ CtxDone(p) \/ Progress(p)
  BY <1>3, CallerInvariant
<1>4. CASE UNCHANGED vars
  BY <1>4, FrameInvariant DEF vars, storeVars, lockVars, signalVars, flusherVars, procVars
<1> QED BY <1>1, <1>2, <1>3, <1>4 DEF Next

\* The inductive invariant holds in every reachable state, whatever fails.
THEOREM Invariance == Spec => []IInv
BY InitInvariant, NextInvariant, PTL DEF Spec

\* The books, as Bbolt states them, from the case by case form.
LEMMA BooksStated ==
    ASSUME IInv
    PROVE  CountNeverShort /\ InflightExact /\ IndexCovers /\ MirrorAgrees
<1> USE DEF IInv
<1>0. count \in Int /\ Len(buf) \in Nat /\ Len(snap) \in Nat /\ IsFiniteSet(db)
  BY DEF Types
<1>1. CountNeverShort
  <2>1. CASE fpc = "count"
    BY <2>1 DEF CountNeverShort, Lag, Counted
  <2>2. CASE fpc # "count"
    <3>1. Lag = 0 /\ count >= Cardinality(db)
      BY <2>2 DEF Lag, Counted
    <3> QED BY <1>0, <3>1 DEF CountNeverShort
  <2> QED BY <2>1, <2>2
<1>2. InflightExact
  <2>1. CASE Committing
    BY <2>1 DEF InflightExact, Committing, Reserved
  <2>2. CASE ~Committing
    <3>1. inflight = Len(buf)
      BY <2>2 DEF Reserved
    <3> QED BY <1>0, <2>2, <3>1 DEF InflightExact, Committing
  <2> QED BY <2>1, <2>2
<1>3. MirrorAgrees
  <2> SUFFICES ASSUME ~StoreFails, NEW v \in Items
               PROVE  mirror[v] = RowsOf(db, v) + IF fpc = "land" THEN CountOf(snap, v) ELSE 0
    BY DEF MirrorAgrees
  <2>1. CASE fpc = "land"
    BY <2>1 DEF Mirrored
  <2>2. CASE fpc # "land"
    <3>1. mirror[v] = RowsOf(db, v) /\ mirror[v] \in Nat
      BY <2>2 DEF Mirrored, Types
    <3> QED BY <2>2, <3>1
  <2> QED BY <2>1, <2>2
<1> QED BY <1>1, <1>2, <1>3

\* However commits, removals and Clears interleave, and whatever fails or
\* unwinds, p.count is never below the number of stored rows, p.inflight is
\* what is staged or being committed, the index covers what is counted and the
\* Backup has what the store has as long as transactions do not fail.
THEOREM BooksNeverShort == Spec => []BooksSurvive
<1>1. IInv => BooksSurvive
  BY BooksStated DEF BooksSurvive
<1> QED BY Invariance, <1>1, PTL

\* As long as Item.Hash does not unwind out of a Pop, p.count is exact too: the
\* deletes of Pop and Del and the counting half of commit never miss a row or
\* count one twice, also with rows landed that no counter knows yet.
THEOREM BooksCorrect ==
    ASSUME ~HashUnwinds
    PROVE  Spec => []BooksAgree
<1>1. IInv => BooksAgree
  <2> SUFFICES ASSUME IInv PROVE BooksAgree OBVIOUS
  <2>1. InflightExact /\ IndexCovers /\ MirrorAgrees
    BY BooksStated
  <2>2. CountExact
    <3>1. CASE fpc = "count"
      BY <3>1 DEF CountExact, Lag, Counted, IInv
    <3>2. CASE fpc # "count"
      <4>1. Lag = 0 /\ count = Cardinality(db) /\ count \in Int
        BY <3>2 DEF Lag, Counted, IInv, Types
      <4> QED BY <4>1 DEF CountExact
    <3> QED BY <3>1, <3>2
  <2> QED BY <2>1, <2>2 DEF BooksAgree
<1> QED BY Invariance, <1>1, PTL

\* Whoever pushes is not left behind: a producer parked on notFull does not fit
\* or its wakeup is on its way, and a flusher that has ended, however it ended,
\* has answered every staged batch.  On every backing, whatever fails.
THEOREM PushersNotStranded == Spec => [](NoLostWakeupFull /\ NoStrandedPush)
<1>1. IInv => NoLostWakeupFull /\ NoStrandedPush
  BY DEF IInv, Answered, NoStrandedPush
<1> QED BY Invariance, <1>1, PTL

\* On an indexed FIFO nobody is stranded, whatever fails or unwinds: p.count
\* stays non-negative, so a commit that makes it positive sees 0 and signals.
\* Without the index, or with two priorities, a Del between the two halves of a
\* commit can make it negative, and the signal is lost.
THEOREM NobodyStrandedOnFifo ==
    ASSUME Indexed, FifoOrder
    PROVE  Spec => []NobodyStranded
<1>1. IInv => NobodyStranded
  BY DEF IInv, EmptyWoken, Answered, NoStrandedPush, NobodyStranded
<1> QED BY Invariance, <1>1, PTL

\* A cursor that reads k rows of a store that has them reads exactly k: what Pop
\* subtracts from p.count is what it has deleted.
HeadExact == \A k \in Nat : k <= Cardinality(db) => Cardinality(FirstRows(k)) = k

\* Pop's k rows are k rows in every reachable state.
THEOREM PopTakesWhatItCounts == Spec => []HeadExact
<1>1. IInv => HeadExact
  <2> SUFFICES ASSUME IInv PROVE HeadExact OBVIOUS
  <2>1. Keyed
    BY DEF IInv, Types, Distinct, Known, Keyed
  <2> QED BY <2>1, FirstRowsTaken DEF HeadExact
<1> QED BY Invariance, <1>1, PTL
=============================================================================
