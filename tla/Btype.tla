------------------------------- MODULE Btype -------------------------------
(***************************************************************************)
(* The FIFO backing over the positional tree (btype/btype_fifo.go), the    *)
(* one NewBTreeFIFO uses without WithIndex: Fifo's admission, exemption    *)
(* and mirror, with the contents in module CowTree and AllCOW on its       *)
(* snapshots.                                                              *)
(*                                                                         *)
(* job is non-empty while the queue's lock is held.  Callers that wait are *)
(* seen as what they wait for; how they park and return is module Fifo,    *)
(* whose code this backing repeats.  Items are numbered as they come, so   *)
(* that no two are equal.  A Backup is attached.                           *)
(***************************************************************************)
EXTENDS CowTree

CONSTANTS
    MaxSize,            \* f.maxSize, 0 when unbounded
    PushSizes, PopSizes,                \* how much one call may carry
    DelSets,            \* the sets of positions a Del may match
    Restores,           \* how many items a Backup may hold at New
    MaxCalls            \* bound on the calls that are made, by what was restored

ASSUME SizesAssumption == MaxSize \in Nat /\ Restores \subseteq Nat /\ MaxCalls \in [Restores -> Nat]
ASSUME CallsAssumption == PushSizes \cup PopSizes \subseteq Nat \ {0} /\ DelSets \subseteq SUBSET Nat

VARIABLES
    hydrated, inflight, closed,
    restored, pushed,   \* how many items the Backup held at New, and were pushed since
    mirror,             \* what the Backup holds, in order
    hooks,              \* sizes of the admitted batches whose hook is running
    parkedFull,         \* how much room the callers parked on notFull need
    parkedEmpty,        \* a caller is parked on notEmpty
    calls               \* how many calls were made

queueVars == <<hydrated, inflight, closed, restored, pushed, mirror, hooks, parkedFull,
               parkedEmpty, calls>>
vars == <<cowVars, queueVars>>

LockFree == job = <<>>

\* A call takes the lock and finds the queue open.
Call == LockFree /\ ~closed /\ calls < MaxCalls[restored] /\ calls' = calls + 1

\* The gate of Push; NotFull waits for Gate(1).
Gate(n) == MaxSize = 0 \/ count - hydrated + inflight + n <= MaxSize

SignalNotFull  == parkedFull' = {}
SignalNotEmpty == parkedEmpty' = FALSE

BackupDel(vs) == mirror' = SelectSeq(mirror, LAMBDA v : v \notin vs)

\* dropHydrated
DropHydrated(n) == hydrated' = IF n >= hydrated THEN 0 ELSE hydrated - n

Op(op, arg) == [op |-> op, arg |-> arg]
Pushes(vs)  == [i \in 1..Len(vs) |-> Op("push", vs[i])]
Fronts(k)   == [i \in 1..k |-> Op("front", 0)]

\* Del deletes from the highest index down, so that the others stay valid.
HighestFirst(ix) == SetToSortSeq(ix, >)

\* Positions below hydrated hold restored entries.
Charged(ix) == Cardinality({i \in ix : i < hydrated})

-----------------------------------------------------------------------------
\* The side effect succeeded and the Backup has the batch: it is pushed.
Insert(n) ==
    LET vs == [i \in 1..n |-> restored + pushed + i] IN
    /\ mirror' = mirror \o vs
    /\ pushed' = pushed + n
    /\ job' = Pushes(vs) \o <<Op("pushed", IF count = 0 THEN 1 ELSE 0)>>

\* Push without a hook.
Push(n) ==
    /\ Call /\ Gate(n)
    /\ Insert(n)
    /\ UNCHANGED <<treeVars, snap, todo, frameVars, hydrated, inflight, closed, restored, hooks,
                   parkedFull, parkedEmpty>>

\* Push and NotFull park when the gate refuses.
WaitNotFull(n) ==
    /\ Call /\ ~Gate(n) /\ n <= MaxSize
    /\ parkedFull' = parkedFull \cup {n}
    /\ UNCHANGED <<cowVars, hydrated, inflight, closed, restored, pushed, mirror, hooks,
                   parkedEmpty>>

\* RunOnAdmit reserves and drops the lock.  Bound: one running hook per size.
Reserve(n) ==
    /\ Call /\ Gate(n) /\ n \notin hooks
    /\ hooks' = hooks \cup {n} /\ inflight' = inflight + n
    /\ UNCHANGED <<cowVars, hydrated, closed, restored, pushed, mirror, parkedFull, parkedEmpty>>

\* Mutation: a batch that is given up wakes nobody.
GiveUpSilently == UNCHANGED parkedFull
\* ReleaseReservation, on every exit that inserts nothing.
GiveUp == SignalNotFull

\* The hook is over: it failed, the queue was closed meanwhile, the side effect
\* or the Backup failed, or the batch is pushed.
HookReturn(n) ==
    /\ LockFree /\ n \in hooks
    /\ hooks' = hooks \ {n} /\ inflight' = inflight - n
    /\ \/ GiveUp /\ UNCHANGED <<job, pushed, mirror>>
       \/ ~closed /\ Insert(n) /\ UNCHANGED parkedFull
    /\ UNCHANGED <<treeVars, snap, todo, frameVars, hydrated, closed, restored, parkedEmpty,
                   calls>>

\* Pop mirrors what a walk finds at the front, then pops it.
Pop(n) ==
    /\ Call /\ count > 0
    /\ LET k == IF n > count THEN count ELSE n IN
       /\ BackupDel(ToSet(UpTo(Contents, k)))
       /\ job' = Fronts(k) \o <<Op("taken", IF k < hydrated THEN k ELSE hydrated)>>
    /\ UNCHANGED <<treeVars, snap, todo, frameVars, hydrated, inflight, closed, restored, pushed,
                   hooks, parkedFull, parkedEmpty>>

\* Pop and NotEmpty park on an empty queue.
WaitNotEmpty ==
    /\ Call /\ count = 0
    /\ parkedEmpty' = TRUE
    /\ UNCHANGED <<cowVars, hydrated, inflight, closed, restored, pushed, mirror, hooks,
                   parkedFull>>

\* Del of the items at the indices ix.
Del(ix) ==
    /\ Call /\ ix # {}
    /\ BackupDel({Contents[i + 1] : i \in ix})
    /\ job' = [i \in 1..Cardinality(ix) |-> Op("at", HighestFirst(ix)[i])]
              \o <<Op("taken", Charged(ix))>>
    /\ UNCHANGED <<treeVars, snap, todo, frameVars, hydrated, inflight, closed, restored, pushed,
                   hooks, parkedFull, parkedEmpty>>

\* What follows the last tree operation, before the lock is released.
Settle ==
    /\ job # <<>> /\ step = "idle" /\ Ready
    /\ \/ /\ Head(job).op = "pushed"
          /\ IF Head(job).arg = 1 THEN SignalNotEmpty ELSE UNCHANGED parkedEmpty
          /\ UNCHANGED <<hydrated, parkedFull>>
       \/ /\ Head(job).op = "taken"
          /\ DropHydrated(Head(job).arg)
          /\ SignalNotFull
          /\ UNCHANGED parkedEmpty
    /\ job' = <<>>
    /\ UNCHANGED <<treeVars, snap, todo, frameVars, inflight, closed, restored, pushed, mirror,
                   hooks, calls>>

Clear ==
    /\ Call /\ count > 0
    /\ mirror' = <<>> /\ hydrated' = 0
    /\ TreeClear
    /\ SignalNotFull
    /\ UNCHANGED <<job, frameVars, inflight, closed, restored, pushed, hooks, parkedEmpty>>

\* Close and its two broadcasts.
Close ==
    /\ Call
    /\ closed' = TRUE
    /\ SignalNotFull /\ SignalNotEmpty
    /\ UNCHANGED <<cowVars, hydrated, inflight, restored, pushed, mirror, hooks>>

\* AllCOW takes its snapshot under the lock, and walks it under none.
AllCOW(s) ==
    /\ Call
    /\ CopyInto(s)
    /\ UNCHANGED <<job, frameVars, hydrated, inflight, closed, restored, pushed, mirror, hooks,
                   parkedFull, parkedEmpty>>

\* A call that ends before it has moved anything: ErrClosed, an oversized batch,
\* a side effect or a Backup that fails, an Equal that unwinds.  What Peek and
\* Exists answer is not modelled.
Untouched == LockFree /\ UNCHANGED vars

\* New: Hydrate pushes what the Backup holds and exempts it from the bound.
Init ==
    \E m \in Restores :
      /\ InitTree(Pushes([i \in 1..m |-> i]))
      /\ hydrated = m /\ inflight = 0 /\ closed = FALSE
      /\ restored = m /\ pushed = 0
      /\ mirror = [i \in 1..m |-> i]
      /\ hooks = {} /\ parkedFull = {} /\ parkedEmpty = FALSE /\ calls = 0

Next ==
    \/ \E n \in PushSizes : Push(n) \/ Reserve(n) \/ HookReturn(n)
    \/ \E n \in PushSizes \cup {1} : WaitNotFull(n)
    \/ \E n \in PopSizes : Pop(n)
    \/ \E ix \in {d \cap 0..(count - 1) : d \in DelSets} : Del(ix)
    \/ WaitNotEmpty \/ Settle \/ Clear \/ Close \/ Untouched
    \/ TreeStep /\ UNCHANGED queueVars
    \/ \E s \in Snaps : AllCOW(s) \/ (SnapshotStep(s) /\ UNCHANGED queueVars)

Spec == Init /\ [][Next]_vars

-----------------------------------------------------------------------------
(***************************************************************************)
(* Properties.                                                             *)
(***************************************************************************)

\* A snapshot that has not been released yields, at any moment of any mutation
\* and of any other snapshot's release, what the queue held when AllCOW took it.
SnapshotStable ==
    \A s \in Snaps : snap[s].live => All(heap, snap[s].root) = snap[s].seen

Tops == [c \in Snaps \cup {Writer} |-> IF c = Writer THEN root ELSE snap[c].root]
InUse == Reach(heap, {Tops[c] : c \in DOMAIN Tops} \ {Nil})
References(p, used) ==
    Cardinality({c \in DOMAIN Tops : Tops[c] = p})
    + Cardinality({q \in used : p \in ToSet(heap[q].kids)})

\* The reference count of a node that the tree or a snapshot reaches is never
\* below the number of other nodes and trees that point to it, so cowRoot and
\* cowChild never take a shared node for the writer's own, whatever releases
\* are under way.
RefsNeverShort ==
    LET used == InUse IN \A p \in used : heap[p].rc + 1 >= References(p, used)

Depths(h, p) ==
    LET f[q \in DOMAIN h] == IF Leaf(h[q]) THEN {0}
                         ELSE {d + 1 : d \in UNION {f[k] : k \in ToSet(h[q].kids)}}
    IN f[p]

\* A node below the root is neither too small nor too large, all leaves are
\* equally deep, and every child's count is the number of items below it.
Balanced ==
    count > 0 =>
      /\ Cardinality(Depths(heap, root)) = 1
      /\ \A p \in Reach(heap, {root}) :
           LET n == heap[p] IN
           /\ Len(n.items) \in (IF p = root THEN 1 ELSE MinItems)..MaxItems
           /\ ~Leaf(n) => /\ Len(n.kids) = Len(n.items) + 1
                          /\ \A i \in 1..Len(n.kids) : n.counts[i] = Len(All(heap, n.kids[i]))

\* When the lock is free the tree is balanced and a walk over it yields what
\* the Backup holds, in the same order: splits, rotations, merges, positional
\* deletes and the spare leaf lose, duplicate and reorder nothing.
TreeIsQueue ==
    LockFree => Balanced /\ Len(Contents) = count /\ Contents = mirror

\* The exemption is the number of restored items still queued, the items
\* charged to the bound fit it, and no caller stays parked for room or for an
\* item that is there.
ExactAndAwake ==
    LockFree =>
      /\ hydrated = Len(SelectSeq(Contents, LAMBDA v : v <= restored))
      /\ MaxSize > 0 => count - hydrated + inflight <= MaxSize
      /\ \A n \in parkedFull : ~closed /\ ~Gate(n)
      /\ parkedEmpty => ~closed /\ count = 0
=============================================================================
