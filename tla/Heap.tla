-------------------------------- MODULE Heap --------------------------------
(***************************************************************************)
(* The in-memory priority backing (queue/internal/backings/heap/heap.go):  *)
(* a binary heap kept by container/heap, with a journal of its moves.      *)
(*                                                                         *)
(* Every comparison is caller code (Item.Less) and may unwind, so one turn *)
(* of a sift is one action and an unwind may come instead of it.  All of   *)
(* it runs under the write lock: pc is where the one mutation in progress  *)
(* stands, "idle" when the lock is free.  Callers that wait hold no lock   *)
(* and are seen here as what they wait for; how they park, are cancelled   *)
(* and return is modules Fifo and ParkerSignal, whose code this backing    *)
(* repeats.  A hook runs without the lock, so admitted batches wait in     *)
(* hooks.  container/heap and sort.SliceStable are external; indices start *)
(* at 1 here.  An item is its priority: Less is <, Equal is =.  A Backup   *)
(* is attached.                                                            *)
(***************************************************************************)
EXTENDS Integers, FiniteSets, SequencesExt

CONSTANTS
    Prios,              \* item values
    MaxSize,            \* p.maxSize, 0 when unbounded
    Batches,            \* the batches a Push may carry
    PopSizes,           \* the n a Pop may carry
    DelArgs,            \* the sets of values a Del may name
    Restores,           \* the contents a Backup may hold when the queue is created
    MaxSeq              \* bound on the insert sequence and on the Backup

ASSUME PriosAssumption == Prios \subseteq Int
ASSUME SizesAssumption == MaxSize \in Nat /\ MaxSeq \in Nat
ASSUME BatchesAssumption == Batches \subseteq Seq(Prios) \ {<<>>}
ASSUME ArgsAssumption == PopSizes \subseteq Nat \ {0} /\ DelArgs \subseteq SUBSET Prios
ASSUME RestoresAssumption == Restores \subseteq Seq(Prios)

VARIABLES
    items,              \* p.h.items: entries [val, seq]
    swaps, journal,     \* p.h.swaps, as pairs, and p.h.journal
    nextSeq, hydrated, hydrateEnd, inflight, closed,
    mirror,             \* how many of each value the Backup holds
    hooks,              \* admitted batches whose hook is running
    parkedFull,         \* how much room the callers parked on notFull need
    parkedEmpty,        \* a caller is parked on notEmpty
    pc,                 \* where the mutation in progress stands
    batch, hooked,      \* Push: items still to insert; it carried a hook
    want, taken,        \* Pop: items still to take; Pop and Del: entries out
    at, root,           \* the index of a sift, and of the loop around it
    before,             \* startLen and startSeq, as the state they describe
    hurt                \* history: Less has unwound out of Del's heapify or All's sort

heapVars  == <<items, swaps, journal>>
boundVars == <<hydrated, hydrateEnd, inflight, closed>>
parkVars  == <<parkedFull, parkedEmpty>>
localVars == <<batch, hooked, want, taken, at, root, before>>
vars == <<heapVars, nextSeq, boundVars, mirror, hooks, parkVars, pc, localVars, hurt>>

Entry(v, s) == [val |-> v, seq |-> s]
Entries(vs) == [i \in 1..Len(vs) |-> Entry(vs[i], i - 1)]
Values(es)  == [i \in 1..Len(es) |-> es[i].val]
CountOf(vs, v) == Cardinality({i \in 1..Len(vs) : vs[i] = v})

\* Mutation: equal priorities are not told apart.
LessByPriority(a, b) == a.val < b.val

\* Item.Less, ties broken by the insert sequence.
PrioritySeqLess(a, b) == a.val < b.val \/ (a.val = b.val /\ a.seq < b.seq)

-----------------------------------------------------------------------------
(***************************************************************************)
(* The journaled array.                                                    *)
(***************************************************************************)
Exchange(es, i, j) == [es EXCEPT ![i] = es[j], ![j] = es[i]]

Swap(i, j) ==
    /\ items' = Exchange(items, i, j)
    /\ swaps' = IF journal THEN Append(swaps, <<i, j>>) ELSE swaps

JournalOn  == journal' = TRUE /\ swaps' = <<>>
JournalOff == journal' = FALSE /\ swaps' = <<>>

\* The array with the popped entries back in the slots they left.
Refilled ==
    LET n == Len(before.items)
        work == IF n > Len(items) THEN n ELSE Len(items)
    IN [i \in 1..work |-> IF n - i + 1 \in 1..Len(taken) THEN taken[n - i + 1] ELSE items[i]]

\* Mutation: the journal is replayed in the order it was written.
RollbackForward ==
    /\ items' = SubSeq(FoldLeft(LAMBDA es, s : Exchange(es, s[1], s[2]), Refilled, swaps),
                       1, Len(before.items))
    /\ JournalOff

\* rollback: the moves are replayed backwards and the rest is cut off.
Rollback ==
    /\ items' = SubSeq(FoldRight(LAMBDA s, es : Exchange(es, s[1], s[2]), swaps, Refilled),
                       1, Len(before.items))
    /\ JournalOff

\* The child of i that a sift down in the first n entries compares with i.
Child(i, n) ==
    IF 2 * i + 1 <= n /\ PrioritySeqLess(items[2 * i + 1], items[2 * i])
    THEN 2 * i + 1 ELSE 2 * i

\* A turn of down compares when i has a child, and moves when that is less.
Compares(i, n) == 2 * i <= n
Sinks(i, n) == Compares(i, n) /\ PrioritySeqLess(items[Child(i, n)], items[i])
SiftDown(n) == Swap(at, Child(at, n)) /\ at' = Child(at, n)

-----------------------------------------------------------------------------
(***************************************************************************)
(* Capacity, wakeups and the Backup.                                       *)
(***************************************************************************)

\* The gate of Push; NotFull waits for Gate(1).
Gate(n) == MaxSize = 0 \/ Len(items) - hydrated + inflight + n <= MaxSize

SignalNotFull  == parkedFull' = {}
SignalNotEmpty == parkedEmpty' = FALSE
ReleaseReservation(h) == IF h THEN SignalNotFull ELSE UNCHANGED parkedFull

Restored(es) == Cardinality({i \in 1..Len(es) : es[i].seq < hydrateEnd})

\* dropHydrated: only restored entries shrink the exemption.
DropHydrated ==
    hydrated' = IF Restored(taken) > hydrated THEN 0 ELSE hydrated - Restored(taken)

BackupPush(vs) == mirror' = [v \in Prios |-> mirror[v] + CountOf(vs, v)]
BackupDel(vs) ==
    mirror' = [v \in Prios |-> IF CountOf(vs, v) > mirror[v] THEN 0
                               ELSE mirror[v] - CountOf(vs, v)]

\* The mutation is over, and the lock is free.
Unlock ==
    /\ pc' = "idle"
    /\ batch' = <<>> /\ hooked' = FALSE /\ want' = 0 /\ taken' = <<>>
    /\ at' = 0 /\ root' = 0
    /\ before' = [items |-> <<>>, seq |-> 0]

-----------------------------------------------------------------------------
(***************************************************************************)
(* New: Hydrate appends in the Backup's order and heapifies once.  A Less  *)
(* that unwinds there leaves no queue behind.                              *)
(***************************************************************************)
Hydrate ==
    /\ pc = "unborn"
    /\ \E m \in Restores :
        /\ items' = Entries(m)
        /\ nextSeq' = Len(m) /\ hydrated' = Len(m) /\ hydrateEnd' = Len(m)
        /\ mirror' = [v \in Prios |-> CountOf(m, v)]
        /\ root' = Len(m) \div 2 /\ at' = Len(m) \div 2
    /\ pc' = "heapify"
    /\ UNCHANGED <<swaps, journal, inflight, closed, hooks, parkVars, batch, hooked, want,
                   taken, before>>

\* heap.Init: a sift down from every inner node, the last one first.
Heapify ==
    /\ pc = "heapify" /\ root > 0
    /\ \/ Sinks(at, Len(items)) /\ SiftDown(Len(items)) /\ UNCHANGED root
       \/ /\ ~Sinks(at, Len(items))
          /\ root' = root - 1 /\ at' = root - 1
          /\ UNCHANGED <<items, swaps>>
    /\ UNCHANGED <<journal, nextSeq, boundVars, mirror, hooks, parkVars, pc, batch, hooked,
                   want, taken, before>>

\* What follows heap.Init: nothing for Hydrate, whose taken is empty; for Del
\* the exemption and the wakeup.
HeapifyEnd ==
    /\ pc = "heapify" /\ root = 0
    /\ DropHydrated
    /\ IF taken # <<>> THEN SignalNotFull ELSE UNCHANGED parkedFull
    /\ Unlock
    /\ UNCHANGED <<heapVars, nextSeq, hydrateEnd, inflight, closed, mirror, hooks, parkedEmpty>>

-----------------------------------------------------------------------------
(***************************************************************************)
(* Push.                                                                   *)
(***************************************************************************)

\* The gate refused the call, which parks.
PushWait(vs) ==
    /\ pc = "idle" /\ ~closed /\ ~Gate(Len(vs)) /\ Len(vs) <= MaxSize
    /\ parkedFull' = parkedFull \cup {Len(vs)}
    /\ UNCHANGED <<heapVars, nextSeq, boundVars, mirror, hooks, parkedEmpty, pc, localVars>>

\* What MaxSeq bounds: the sequence numbers given out or asked for, and what
\* abandoned Pushes have left in the Backup.
Numbered(n) == Max({nextSeq} \cup {mirror[v] : v \in Prios}) + inflight + n <= MaxSeq

\* RunOnAdmit reserves and drops the lock for the hook.  Bound: one running
\* hook per batch.
Reserve(vs) ==
    /\ pc = "idle" /\ ~closed /\ Gate(Len(vs)) /\ vs \notin hooks
    /\ Numbered(Len(vs))
    /\ hooks' = hooks \cup {vs}
    /\ inflight' = inflight + Len(vs)
    /\ UNCHANGED <<heapVars, nextSeq, hydrated, hydrateEnd, closed, mirror, parkVars, pc,
                   localVars>>

Begins(vs, h) ==
    /\ pc' = "grow" /\ batch' = vs /\ hooked' = h
    /\ before' = [items |-> items, seq |-> nextSeq]
    /\ JournalOn
    /\ UNCHANGED <<items, want, taken, at, root>>

\* Mutation: the Backup is not given the batch.
BeginUnmirrored(vs, h) == Begins(vs, h) /\ UNCHANGED mirror

\* The side effect succeeded and the Backup has the batch.
Begin(vs, h) == Begins(vs, h) /\ BackupPush(vs)

Push(vs) ==
    /\ pc = "idle" /\ ~closed /\ Gate(Len(vs))
    /\ Numbered(Len(vs))
    /\ Begin(vs, FALSE)
    /\ UNCHANGED <<nextSeq, boundVars, hooks, parkVars>>

\* The hook is over: it failed, the queue was closed meanwhile, the side
\* effect or the Backup failed, or the insert begins.
HookReturn(vs) ==
    /\ pc = "idle" /\ vs \in hooks
    /\ hooks' = hooks \ {vs}
    /\ inflight' = inflight - Len(vs)
    /\ \/ SignalNotFull /\ UNCHANGED <<heapVars, mirror, pc, localVars>>
       \/ ~closed /\ Begin(vs, TRUE) /\ UNCHANGED parkedFull
    /\ UNCHANGED <<nextSeq, hydrated, hydrateEnd, closed, parkedEmpty>>

\* heap.Push appends one item and sifts it up.
Grow ==
    /\ pc = "grow" /\ batch # <<>>
    /\ items' = Append(items, Entry(Head(batch), nextSeq))
    /\ batch' = Tail(batch)
    /\ at' = Len(items) + 1
    /\ pc' = "up"
    /\ UNCHANGED <<swaps, journal, nextSeq, boundVars, mirror, hooks, parkVars, hooked, want,
                   taken, root, before>>

Rises == at > 1 /\ PrioritySeqLess(items[at], items[at \div 2])

SiftUp ==
    /\ pc = "up"
    /\ \/ /\ Rises
          /\ Swap(at \div 2, at)
          /\ at' = at \div 2
          /\ UNCHANGED <<nextSeq, pc>>
       \/ /\ ~Rises
          /\ nextSeq' = nextSeq + 1
          /\ pc' = "grow"
          /\ UNCHANGED <<items, swaps, at>>
    /\ UNCHANGED <<journal, boundVars, mirror, hooks, parkVars, batch, hooked, want, taken,
                   root, before>>

PushUnwound(wakes) ==
    /\ pc = "up" /\ at > 1
    /\ Rollback
    /\ nextSeq' = before.seq
    /\ wakes
    /\ Unlock
    /\ UNCHANGED <<boundVars, mirror, hooks, parkedEmpty>>

\* Mutation: the reservation that was given back wakes nobody.
PushUnwindsSilently == PushUnwound(UNCHANGED parkedFull)

\* Less unwinds out of the sift: the whole batch is rolled back.
PushUnwinds == PushUnwound(ReleaseReservation(hooked))

PushEnd ==
    /\ pc = "grow" /\ batch = <<>>
    /\ JournalOff
    /\ IF before.items = <<>> THEN SignalNotEmpty ELSE UNCHANGED parkedEmpty
    /\ Unlock
    /\ UNCHANGED <<items, nextSeq, boundVars, mirror, hooks, parkedFull>>

-----------------------------------------------------------------------------
(***************************************************************************)
(* Pop.                                                                    *)
(***************************************************************************)
Pop(n) ==
    /\ pc = "idle" /\ ~closed /\ items # <<>>
    /\ want' = IF n > Len(items) THEN Len(items) ELSE n
    /\ pc' = "shrink"
    /\ before' = [items |-> items, seq |-> nextSeq]
    /\ JournalOn
    /\ UNCHANGED <<items, nextSeq, boundVars, mirror, hooks, parkVars, batch, hooked, taken,
                   at, root>>

\* Pop and NotEmpty park on an empty queue.
PopWait ==
    /\ pc = "idle" /\ ~closed /\ items = <<>>
    /\ parkedEmpty' = TRUE
    /\ UNCHANGED <<heapVars, nextSeq, boundVars, mirror, hooks, parkedFull, pc, localVars>>

\* heap.Pop exchanges the first entry with the last and sifts down.
Shrink ==
    /\ pc = "shrink"
    /\ Swap(1, Len(items))
    /\ at' = 1
    /\ pc' = "down"
    /\ UNCHANGED <<journal, nextSeq, boundVars, mirror, hooks, parkVars, batch, hooked, want,
                   taken, root, before>>

PopSift ==
    /\ pc = "down"
    /\ \/ Sinks(at, Len(items) - 1) /\ SiftDown(Len(items) - 1) /\ UNCHANGED <<want, taken, pc>>
       \/ /\ ~Sinks(at, Len(items) - 1)
          /\ items' = Front(items)
          /\ taken' = Append(taken, Last(items))
          /\ want' = want - 1
          /\ pc' = IF want = 1 THEN "mirror" ELSE "shrink"
          /\ UNCHANGED <<swaps, at>>
    /\ UNCHANGED <<journal, nextSeq, boundVars, mirror, hooks, parkVars, batch, hooked, root,
                   before>>

\* Both ways a Pop is abandoned share one undo: Less unwinds out of a sift, or
\* the Backup refuses the delete, by an error or by unwinding.
PopUndone ==
    /\ \/ pc = "down" /\ Compares(at, Len(items) - 1)
       \/ pc = "mirror"
    /\ Rollback
    /\ Unlock
    /\ UNCHANGED <<nextSeq, boundVars, mirror, hooks, parkVars>>

\* The Backup deletes what was popped; only then the exemption shrinks.
PopEnd ==
    /\ pc = "mirror"
    /\ BackupDel(Values(taken))
    /\ JournalOff
    /\ DropHydrated
    /\ SignalNotFull
    /\ Unlock
    /\ UNCHANGED <<items, nextSeq, hydrateEnd, inflight, closed, hooks, parkedEmpty>>

-----------------------------------------------------------------------------
(***************************************************************************)
(* Del, All, Clear, Close and NotFull.                                     *)
(***************************************************************************)
Matches(vs) == SelectSeq(items, LAMBDA e : e.val \in vs)

\* The side effect and the Backup come first; the rest is heapified anew.
Del(vs) ==
    /\ pc = "idle" /\ ~closed /\ Matches(vs) # <<>>
    /\ BackupDel(Values(Matches(vs)))
    /\ taken' = Matches(vs)
    /\ items' = SelectSeq(items, LAMBDA e : e.val \notin vs)
    /\ root' = Len(items') \div 2 /\ at' = Len(items') \div 2
    /\ pc' = "heapify"
    /\ UNCHANGED <<swaps, journal, nextSeq, boundVars, hooks, parkVars, batch, hooked, want,
                   before>>

\* Less unwinds out of Del's heap.Init: only the lock is released.
DelUnwinds ==
    /\ pc = "heapify" /\ taken # <<>> /\ root > 0 /\ Compares(at, Len(items))
    /\ Unlock
    /\ UNCHANGED <<heapVars, nextSeq, boundVars, mirror, hooks, parkVars>>

\* All sorts the array in place before its first yield; up to 20 entries
\* sort.SliceStable is an insertion sort.
All ==
    /\ pc = "idle" /\ ~closed /\ items # <<>>
    /\ root' = 2 /\ at' = 2
    /\ pc' = "sort"
    /\ UNCHANGED <<heapVars, nextSeq, boundVars, mirror, hooks, parkVars, batch, hooked, want,
                   taken, before>>

SortMoves == at > 1 /\ PrioritySeqLess(items[at], items[at - 1])

Sort ==
    /\ pc = "sort" /\ root <= Len(items)
    /\ \/ SortMoves /\ items' = Exchange(items, at, at - 1) /\ at' = at - 1 /\ UNCHANGED root
       \/ ~SortMoves /\ root' = root + 1 /\ at' = root + 1 /\ UNCHANGED items
    /\ UNCHANGED <<swaps, journal, nextSeq, boundVars, mirror, hooks, parkVars, pc, batch,
                   hooked, want, taken, before>>

\* The items are yielded with the lock held, until the caller stops.
SortEnd ==
    /\ pc = "sort" /\ root > Len(items)
    /\ Unlock
    /\ UNCHANGED <<heapVars, nextSeq, boundVars, mirror, hooks, parkVars>>

SortUnwinds ==
    /\ pc = "sort" /\ root <= Len(items) /\ at > 1
    /\ Unlock
    /\ UNCHANGED <<heapVars, nextSeq, boundVars, mirror, hooks, parkVars>>

Clear ==
    /\ pc = "idle" /\ ~closed /\ items # <<>>
    /\ mirror' = [v \in Prios |-> 0]
    /\ items' = <<>>
    /\ hydrated' = 0
    /\ SignalNotFull
    /\ UNCHANGED <<swaps, journal, nextSeq, hydrateEnd, inflight, closed, hooks, parkedEmpty,
                   pc, localVars>>

\* Close and its two broadcasts.
Close ==
    /\ pc = "idle" /\ ~closed
    /\ closed' = TRUE
    /\ SignalNotFull /\ SignalNotEmpty
    /\ UNCHANGED <<heapVars, nextSeq, hydrated, hydrateEnd, inflight, mirror, hooks, pc,
                   localVars>>

NotFull ==
    /\ pc = "idle" /\ ~closed /\ ~Gate(1)
    /\ parkedFull' = parkedFull \cup {1}
    /\ UNCHANGED <<heapVars, nextSeq, boundVars, mirror, hooks, parkedEmpty, pc, localVars>>

\* A call that ends before it has moved anything: ErrClosed, an oversized batch,
\* a side effect or a Backup that fails.  What Peek and Exists answer is not
\* modelled.
Untouched ==
    /\ pc = "idle"
    /\ UNCHANGED <<heapVars, nextSeq, boundVars, mirror, hooks, parkVars, pc, localVars>>

-----------------------------------------------------------------------------
Init ==
    /\ items = <<>> /\ swaps = <<>> /\ journal = FALSE
    /\ nextSeq = 0 /\ hydrated = 0 /\ hydrateEnd = 0 /\ inflight = 0 /\ closed = FALSE
    /\ mirror = [v \in Prios |-> 0]
    /\ hooks = {} /\ parkedFull = {} /\ parkedEmpty = FALSE
    /\ pc = "unborn"
    /\ batch = <<>> /\ hooked = FALSE /\ want = 0 /\ taken = <<>> /\ at = 0 /\ root = 0
    /\ before = [items |-> <<>>, seq |-> 0]
    /\ hurt = FALSE

Guarded ==
    \/ Hydrate \/ Heapify \/ HeapifyEnd
    \/ \E vs \in Batches : PushWait(vs) \/ Reserve(vs) \/ Push(vs) \/ HookReturn(vs)
    \/ Grow \/ SiftUp \/ PushUnwinds \/ PushEnd
    \/ \E n \in PopSizes : Pop(n)
    \/ PopWait \/ Shrink \/ PopSift \/ PopUndone \/ PopEnd
    \/ \E vs \in DelArgs : Del(vs)
    \/ All \/ Sort \/ SortEnd \/ Clear \/ Close \/ NotFull \/ Untouched

\* Del and All reach Less with nothing recorded to undo.
Unguarded == DelUnwinds \/ SortUnwinds

Next == (Guarded /\ UNCHANGED hurt) \/ (Unguarded /\ hurt' = TRUE)

Spec == Init /\ [][Next]_vars

-----------------------------------------------------------------------------
(***************************************************************************)
(* Properties.                                                             *)
(***************************************************************************)

\* A Push or a Pop that is abandoned at any comparison, or by its Backup,
\* leaves the array, the sequence and the exemption exactly as it found them.
AbandonedUntouched ==
    [][(pc \in {"up", "down", "mirror"} /\ pc' = "idle" /\ mirror' = mirror)
        => (items' = before.items /\ nextSeq' = before.seq /\ hydrated' = hydrated)]_vars

\* A Pop of k items has taken the k least of the queue in priority order,
\* equal ones in the order they were inserted, whatever pushes and pops Less
\* has unwound before.
PopsInOrder ==
    LET Precedes(a, b) == a.val < b.val \/ (a.val = b.val /\ a.seq < b.seq) IN
    pc = "mirror" /\ ~hurt =>
        /\ \A i, j \in 1..Len(taken) : i < j => Precedes(taken[i], taken[j])
        /\ \A e \in Range(taken), f \in Range(items) : Precedes(e, f)
        /\ Range(taken) \cup Range(items) = Range(before.items)

\* The exemption from maxSize is the number of restored entries still queued,
\* although priority order takes them out in any order.
HydratedExact == pc = "idle" /\ ~hurt => hydrated = Restored(items)

\* Whenever the lock is free nobody is parked on a queue that could serve it.
NobodyForgotten ==
    pc = "idle" /\ ~hurt =>
        /\ \A n \in parkedFull : ~closed /\ ~Gate(n)
        /\ parkedEmpty => ~closed /\ items = <<>>

\* The two together: whenever the lock is free the bound is exact, and nobody
\* waits for room or items that are there.
ExactAndAwake == HydratedExact /\ NobodyForgotten

\* A restart from the Backup loses no item that is queued.
RestartLosesNothing ==
    pc = "idle" => \A v \in Prios : mirror[v] >= CountOf(Values(items), v)
=============================================================================
