------------------------------- MODULE Btree -------------------------------
(***************************************************************************)
(* The keyed B-tree backing (queue/internal/backings/btree/btree.go): the  *)
(* FIFO that NewBTreeFIFO builds with WithIndex, and both priority queues  *)
(* of NewBTreePriority.                                                    *)
(*                                                                         *)
(* The tree is tidwall/btree, external: a set of entries in the order of   *)
(* its comparator.  A comparison is caller code on the priority kinds      *)
(* (Item.Less) and Item.Hash is on the indexed ones; either may unwind out *)
(* of a mutation that is half done.  Nobody sees a mutation while it holds *)
(* the lock, so a call is one step, and how far it came when it unwound is *)
(* a choice.  Load and Delete compare before they change anything, compare *)
(* nothing in an empty tree, and Scan and PopMin never compare.  Hooks run *)
(* without the lock.  Callers that wait are seen as what they wait for, as *)
(* in module Heap; the walk of AllCOW is module CowRange.  A Backup is     *)
(* attached.                                                               *)
(***************************************************************************)
EXTENDS Integers, FiniteSets, SequencesExt

CONSTANTS
    Prios,              \* item values
    Kinds,              \* the kinds of queue, among "fifo", "priority" and "indexed"
    MaxSize,            \* b.maxSize, 0 when unbounded
    Batches,            \* the batches a Push may carry
    PopSizes,           \* the n a Pop may carry
    DelArgs,            \* the sets of values a Del may name
    Restores,           \* the contents a Backup may hold when the queue is created
    MaxSeq              \* bound on the insert sequence and on the Backup

ASSUME KindsAssumption == Kinds \subseteq {"fifo", "priority", "indexed"}
ASSUME SizesAssumption == Prios \subseteq Int /\ MaxSize \in Nat /\ MaxSeq \in Nat
ASSUME BatchesAssumption == Batches \subseteq Seq(Prios) \ {<<>>} /\ Restores \subseteq Seq(Prios)
ASSUME ArgsAssumption == PopSizes \subseteq Nat \ {0} /\ DelArgs \subseteq SUBSET Prios

VARIABLES
    kind,
    tree,               \* b.tree: entries [val, seq]
    idx,                \* b.idx: the entries its buckets hold, {} when there is none
    nextSeq, hydrated, hydrateEnd, inflight, closed,
    mirror,             \* how many of each value the Backup holds
    hooks,              \* admitted batches whose hook is running
    parkedFull,         \* how much room the callers parked on notFull need
    parkedEmpty,        \* a caller is parked on notEmpty
    halfPushed,         \* history: a Push unwound with some of its batch inserted
    halfDeleted,        \* history: a Del unwound with some of its entries deleted
    ghosts              \* history: entries such a Del left in the index alone

bookVars  == <<nextSeq, hydrated, hydrateEnd>>
parkVars  == <<parkedFull, parkedEmpty>>
histVars  == <<halfPushed, halfDeleted, ghosts>>
vars == <<kind, tree, idx, bookVars, inflight, closed, mirror, hooks, parkVars, histVars>>

Indexed == kind # "priority"
LessIsCallers == kind # "fifo"

Entry(v, s)    == [val |-> v, seq |-> s]
Entries(vs, s) == {Entry(vs[i], s + i - 1) : i \in 1..Len(vs)}
CountOf(vs, v) == Cardinality({i \in 1..Len(vs) : vs[i] = v})
Held(es, v)    == Cardinality({e \in es : e.val = v})

\* FifoSeqLess and PrioritySeqLess.
Less(a, b) ==
    IF kind = "fifo" THEN a.seq < b.seq
    ELSE a.val < b.val \/ (a.val = b.val /\ a.seq < b.seq)

\* The first n entries in the order of the tree.
First(n) == {e \in tree : Cardinality({f \in tree : Less(f, e)}) < n}

\* The gate of Push; NotFull waits for Gate(1).
Gate(n) == MaxSize = 0 \/ Cardinality(tree) - hydrated + inflight + n <= MaxSize

SignalNotFull  == parkedFull' = {}
SignalNotEmpty == parkedEmpty' = FALSE

BackupPush(vs) == mirror' = [v \in Prios |-> mirror[v] + CountOf(vs, v)]
BackupDel(es) ==
    mirror' = [v \in Prios |-> IF Held(es, v) > mirror[v] THEN 0 ELSE mirror[v] - Held(es, v)]

Restored(es) == Cardinality({e \in es : e.seq < hydrateEnd})

\* Mutation: every entry that leaves is charged to the exemption.
DropsEvery(es) == hydrated' = IF Cardinality(es) > hydrated THEN 0 ELSE hydrated - Cardinality(es)
\* dropHydrated counts the entries whose sequence lies below the boundary.
DropHydrated(es) == hydrated' = IF Restored(es) > hydrated THEN 0 ELSE hydrated - Restored(es)

-----------------------------------------------------------------------------
(***************************************************************************)
(* Push.                                                                   *)
(***************************************************************************)

\* What MaxSeq bounds: the sequence numbers given out or asked for, and what
\* abandoned Pushes have left in the Backup.
Numbered(n) == Max({nextSeq} \cup {mirror[v] : v \in Prios}) + inflight + n <= MaxSeq

\* The first k items of the batch are loaded, and indexed by the hashes that
\* were taken before.
Load(vs, k) ==
    LET es == Entries(SubSeq(vs, 1, k), nextSeq) IN
    /\ tree' = tree \cup es
    /\ idx' = IF Indexed THEN idx \cup es ELSE idx
    /\ nextSeq' = nextSeq + k

\* Mutation: each hash is taken beside its own Load, so that one that unwinds
\* leaves its entry out of the index.
HashBesideLoad(vs) ==
    \E k \in 1..Len(vs) :
      /\ Indexed
      /\ tree' = tree \cup Entries(SubSeq(vs, 1, k), nextSeq)
      /\ idx' = idx \cup Entries(SubSeq(vs, 1, k - 1), nextSeq)
      /\ nextSeq' = nextSeq + k
      /\ halfPushed' = TRUE

\* Every Hash comes before the first insert: an unwind inserts nothing.
HashUnwinds(vs) ==
    /\ Indexed
    /\ Load(vs, 0) /\ UNCHANGED halfPushed

\* Less unwinds out of the Load of item k + 1: what was loaded stays.
LessUnwinds(vs) ==
    \E k \in 0..(Len(vs) - 1) :
      /\ LessIsCallers /\ Cardinality(tree) + k > 0
      /\ Load(vs, k)
      /\ halfPushed' = (halfPushed \/ k > 0)

\* Mutation: the Backup comes after the insert, and an unwind never reaches it.
MirrorLast(vs) == BackupPush(vs) \/ UNCHANGED mirror
\* The Backup has the whole batch before the first insert.
MirrorFirst(vs) == BackupPush(vs)

\* The side effect succeeded and the Backup has the batch.  The hook's
\* reservation is given back when the insert unwinds, and notEmpty is signalled
\* when it does not.
Insert(vs, hooked) ==
    /\ MirrorFirst(vs)
    /\ \/ /\ Load(vs, Len(vs)) /\ UNCHANGED <<halfPushed, parkedFull>>
          /\ IF tree = {} THEN SignalNotEmpty ELSE UNCHANGED parkedEmpty
       \/ /\ HashUnwinds(vs) \/ LessUnwinds(vs)
          /\ IF hooked THEN SignalNotFull ELSE UNCHANGED parkedFull
          /\ UNCHANGED parkedEmpty
    /\ UNCHANGED <<kind, hydrated, hydrateEnd, closed, halfDeleted, ghosts>>

Push(vs) ==
    /\ ~closed /\ Gate(Len(vs)) /\ Numbered(Len(vs))
    /\ Insert(vs, FALSE)
    /\ UNCHANGED <<inflight, hooks>>

\* Push and NotFull park when the gate refuses.
WaitNotFull(n) ==
    /\ ~closed /\ ~Gate(n) /\ n <= MaxSize
    /\ parkedFull' = parkedFull \cup {n}
    /\ UNCHANGED <<kind, tree, idx, bookVars, inflight, closed, mirror, hooks, parkedEmpty,
                   histVars>>

\* RunOnAdmit reserves and drops the lock.  Bound: one running hook per batch.
Reserve(vs) ==
    /\ ~closed /\ Gate(Len(vs)) /\ vs \notin hooks /\ Numbered(Len(vs))
    /\ hooks' = hooks \cup {vs} /\ inflight' = inflight + Len(vs)
    /\ UNCHANGED <<kind, tree, idx, bookVars, closed, mirror, parkVars, histVars>>

\* The hook is over: it failed, the queue was closed meanwhile, the side effect
\* or the Backup failed, or the insert follows.
HookReturn(vs) ==
    /\ vs \in hooks
    /\ hooks' = hooks \ {vs} /\ inflight' = inflight - Len(vs)
    /\ \/ /\ SignalNotFull
          /\ UNCHANGED <<kind, tree, idx, bookVars, closed, mirror, parkedEmpty, histVars>>
       \/ ~closed /\ Insert(vs, TRUE)

-----------------------------------------------------------------------------
(***************************************************************************)
(* Pop.                                                                    *)
(***************************************************************************)

\* The Backup deletes what a Scan found at the front.  After that no caller
\* code runs: the entries leave the tree, the index and the exemption.
Pop(n) ==
    /\ ~closed /\ tree # {}
    /\ LET es == First(n) IN
       /\ BackupDel(es)
       /\ tree' = tree \ es /\ idx' = idx \ es
       /\ DropHydrated(es)
    /\ SignalNotFull
    /\ UNCHANGED <<kind, nextSeq, hydrateEnd, inflight, closed, hooks, parkedEmpty, histVars>>

\* Pop and NotEmpty park on an empty queue.
WaitNotEmpty ==
    /\ ~closed /\ tree = {}
    /\ parkedEmpty' = TRUE
    /\ UNCHANGED <<kind, tree, idx, bookVars, inflight, closed, mirror, hooks, parkedFull,
                   histVars>>

-----------------------------------------------------------------------------
(***************************************************************************)
(* Del, Clear and Close.                                                   *)
(***************************************************************************)

\* Del collects from the buckets of the index, or by a scan.
Matched(vs) == {e \in (IF Indexed THEN idx ELSE tree) : e.val \in vs}

Del(vs) ==
    /\ ~closed /\ Matched(vs) # {}
    /\ LET es == Matched(vs) IN
       /\ BackupDel(es)
       /\ tree' = tree \ es /\ idx' = idx \ es /\ ghosts' = ghosts \ es
       /\ DropHydrated(es)
    /\ SignalNotFull
    /\ UNCHANGED <<kind, nextSeq, hydrateEnd, inflight, closed, hooks, parkedEmpty, halfPushed,
                   halfDeleted>>

\* The entries a Del can have dealt with when the next one unwinds: the scan
\* goes in the order of the tree, the buckets are in none.
Done(es, e) ==
    IF Indexed THEN SUBSET (es \ {e}) ELSE {{f \in es : Less(f, e)}}

\* Less unwinds out of tree.Delete(e), or Hash after it: the Backup has deleted
\* everything, and neither the exemption nor the waiters are told.
DelUnwinds(vs) ==
    /\ ~closed
    /\ LET es == Matched(vs) IN
       \E e \in es : \E done \in Done(es, e) :
         /\ BackupDel(es)
         /\ idx' = idx \ done
         /\ \/ /\ LessIsCallers /\ tree \ done # {}
               /\ tree' = tree \ done /\ ghosts' = ghosts \ done
            \/ /\ Indexed
               /\ tree' = tree \ (done \cup {e}) /\ ghosts' = (ghosts \ done) \cup {e}
    /\ halfDeleted' = TRUE
    /\ UNCHANGED <<kind, bookVars, inflight, closed, hooks, parkVars, halfPushed>>

Clear ==
    /\ ~closed /\ tree # {}
    /\ mirror' = [v \in Prios |-> 0]
    /\ tree' = {} /\ idx' = {} /\ ghosts' = {}
    /\ hydrated' = 0
    /\ SignalNotFull
    /\ UNCHANGED <<kind, nextSeq, hydrateEnd, inflight, closed, hooks, parkedEmpty, halfPushed,
                   halfDeleted>>

\* Close and its two broadcasts.
Close ==
    /\ ~closed
    /\ closed' = TRUE
    /\ SignalNotFull /\ SignalNotEmpty
    /\ UNCHANGED <<kind, tree, idx, bookVars, inflight, mirror, hooks, histVars>>

\* A call that ends before it has moved anything: ErrClosed, an oversized batch,
\* a side effect or a Backup that fails, a Hash or an Equal that unwinds while
\* Pop and Del only look.  What Peek and Exists answer is not modelled.
Untouched == UNCHANGED vars

-----------------------------------------------------------------------------
\* Hydrate loads in the Backup's order; one that fails leaves no queue.
Hydrate(m) ==
    /\ tree = Entries(m, 0)
    /\ idx = IF Indexed THEN Entries(m, 0) ELSE {}
    /\ nextSeq = Len(m) /\ hydrated = Len(m) /\ hydrateEnd = Len(m)
    /\ mirror = [v \in Prios |-> CountOf(m, v)]

Init ==
    /\ kind \in Kinds
    /\ \E m \in Restores : Hydrate(m)
    /\ inflight = 0 /\ closed = FALSE
    /\ hooks = {} /\ parkedFull = {} /\ parkedEmpty = FALSE
    /\ halfPushed = FALSE /\ halfDeleted = FALSE /\ ghosts = {}

Next ==
    \/ \E vs \in Batches : Push(vs) \/ Reserve(vs) \/ HookReturn(vs)
    \/ \E n \in {Len(vs) : vs \in Batches} \cup {1} : WaitNotFull(n)
    \/ \E n \in PopSizes : Pop(n)
    \/ \E vs \in DelArgs : Del(vs) \/ DelUnwinds(vs)
    \/ WaitNotEmpty \/ Clear \/ Close \/ Untouched

Spec == Init /\ [][Next]_vars

-----------------------------------------------------------------------------
(***************************************************************************)
(* Properties.                                                             *)
(***************************************************************************)

\* Whatever unwinds, an indexed queue finds every entry it holds: Exists and
\* Del look in the index alone, and an entry missing there could never be
\* deleted.  The index holds more only by what an unwinding Del left behind.
IndexFindsAll == Indexed => idx = tree \cup ghosts /\ ghosts \cap tree = {}

\* While no Del has unwound, every entry is in the Backup, so a restart brings
\* it back: a batch that unwinds half way was mirrored whole.
RestartLosesNothing ==
    ~halfDeleted => \A v \in Prios : Held(tree, v) <= mirror[v]

\* While no Del has unwound, the exemption is the number of restored entries
\* still queued, what is charged to the bound fits it, and no producer stays
\* parked for room that is there.
BoundExact ==
    /\ ~halfDeleted => /\ hydrated = Restored(tree)
                       /\ \A n \in parkedFull : ~Gate(n)
                       /\ MaxSize > 0 => Cardinality(tree) - hydrated + inflight <= MaxSize
    /\ parkedFull # {} \/ parkedEmpty => ~closed
    /\ parkedEmpty /\ ~halfPushed => tree = {}
=============================================================================
