# A verification project for `gostdlib/datastructures`

TLA+ modules for the queue library in `src/queue`: a generic, blocking,
optionally bounded queue with interchangeable backings, a goroutine-parking
layer under it and a weighted-fair scheduler above it. TLC checks the modules
on small instances, TLAPS proves the safety properties of eight of the
components for every instance, and `PROJECT.json` lists the runs, the source lines behind each
definition, the hazards and the theorems.

1. [Inventory](#1-inventory)
2. [Modules](#2-modules)
3. [Runs](#3-runs)
4. [Fairness](#4-fairness)
5. [Proofs](#5-proofs)
6. [Where the code and its documents disagree](#6-where-the-code-and-its-documents-disagree)
7. [What is not modelled](#7-what-is-not-modelled)
8. [Plan](#8-plan)

## 1. Inventory

| Component (source) | State it keeps | Operations | What makes it correct |
|---|---|---|---|
| Queue wrapper (`queue.go`) | the backing, its limits | `New`, `Push`, `Pop`, `Peek`, `Exists`, `Del`, `Clear`, `Len`, `NotEmpty`, `NotFull`, `RangeAll`, `RangeAllCOW`, `Close` | validates, then delegates; attaches the Backup before anybody can call |
| FIFO backing (`fifo/fifo.go`) | ring of items, `hydrated`, `inflight`, `closed`, two Signals | all of the above | the bound, reservations, FIFO order, Backup in step, nobody forgotten |
| heap backing (`heap/heap.go`, `core/seq.go`) | binary heap, move journal, the same counters | the same | priority order with FIFO ties; an operation abandoned inside `Item.Less` leaves no trace |
| bbolt backing (`bbolt/bbolt.go`) | the store, staged buffer, in-memory count and index, a flusher goroutine | the same, asynchronously committed | count, index, Backup and reservations agree with the store; every staged caller is answered |
| bbolt shutdown (`bbolt/bbolt.go`) | performer token, done channel, published errors | `Close` from several goroutines, retries | released once, never under a live flusher, one answer |
| Signal (`core/signal.go`) | waiter list, waiter count | `Wait`, `HasWaiters`, `Signal` | no lost wakeup, every released Wait returns |
| parker (`internal/parker`) | pooled parkers: a state word and a goroutine | `Register`, `Park`, `Wake`, `Broadcast`, `Release`, `Detach`, `Reset` | `goready` only on a parked goroutine; no wake reaches the next owner |
| QLock (`core/qlock.go`) | `cowActive`, `pending`, an `RWMutex` | `Lock`, `RLock`, `CowEnter`, `WriteWanted` | copy-on-write iterations give way, writers get the lock |
| run guards (`core/run.go`, `core/opoptions.go`) | none | `RunLocked`, `RunSideEffect`, `RunBackup`, `RunOnAdmit`, `ReleaseReservation` | what caller code leaves half done is undone |
| CBWFQ (`cbwfq/cbwfq.go`, `cbwfq/signal.go`) | classes, deficits, cursor, `pending` | `Push`, `Pull`, `Close`, `Len` | never blocks under its lock, weighted fairness, no lost Pull |
| keyed tree backing (`btree/btree.go`) | ordered tree (tidwall/btree), hash index, the FIFO's counters | the same | as the FIFO; every entry of the tree is in the index, also when `Less` or `Hash` unwinds |
| positional tree (`btype/btype_btree.go`) | nodes with items, children, per-child counts and atomic reference counts; a spare leaf | `PushBack`, `PopFront`, `DeleteAt`, `Clear`, `CopyInto`, `Release` | balanced, counts exact, a snapshot never changes |
| btype FIFO backing (`btype/btype_fifo.go`) | such a tree, `hydrated`, `inflight`, `closed`, two Signals | the same as the FIFO, `AllCOW` on a snapshot | as the FIFO |
| bbolt restart (`bbolt/bbolt.go`) | the store and the Backup, which outlive the process | `New`, `Hydrate`, and what each operation makes durable, in order | what was answered is there, what was removed is not |
| metrics (`metrics.go`, `cbwfq/metrics.go`) | OTEL instruments, `lastDepth` | recorded around the operations | - |

**How they interact.** A `Queue` calls its backing, which serialises on a
`QLock` that it shares with the iterators. Blocked calls register on one of
two `Signal`s *before* they drop that lock, and a Signal parks goroutines
through pooled parkers. Three kinds of caller code run inside operations: side
effects and the Backup under the lock, `WithOnAdmit` hooks with the lock
dropped, and the item's own methods (`Less`, `Equal`, `Hash`) anywhere. Any of
it may return an error, panic or end the goroutine. The bbolt backing adds a
goroutine of its own: callers stage batches and wait on a shared result, and the
flusher commits. The positional tree is shared between the writer under the
lock and snapshots that are read and released under none. A CBWFQ scheduler owns one `Queue` per class and serves
them under a mutex of its own.

**What is hard.** Concurrency between two atomic operations (parker, QLock);
state read before the lock is dropped and used after it (hooks, commits); caller
code unwinding between two steps that belong together; a queue closing under
everybody; a release with a deadline that is retried; reference counts that two
goroutines read and drop in turns; a process that ends between the Backup and the
store; and wakeups that are gated
(`HasWaiters`, "was it empty") so that a missed case shows as a goroutine that
never returns. `PROJECT.json` lists each at its line under `hazards`.

## 2. Modules

Every critical section is one action; each place where a lock is dropped, an
atomic operation is performed or caller code may unwind is a program counter.

| Module | Models | State ↔ code |
|---|---|---|
| `Fifo` | FIFO backing, run guards, queue wrapper | `live` is `f.live()`, an entry carrying a ghost mark `restored`; `hydrated`, `inflight`, `closed` are the fields; a Signal is the set of its registered, unwoken waiters; `mirror` is what the Backup holds |
| `BoundedQueue` | what a bounded FIFO `Backing` promises (`core/item.go`) | `queue` and the reservations per caller |
| `SignalSpec` | what a `Signal` promises its users | each caller is out, waiting or released |
| `ParkerSignal` | `core/signal.go` over `parker.go` | one action per atomic operation or lock; `state`, `g`, `pool`, `list`, `waiters` are the fields; `stolen` and `ready` are the locals of Broadcast; `firing` and `cbReady` are ctx callbacks in flight |
| `CowRange` | QLock, `All`, `AllCOW` | `cowActive`, `pending` are the counters, `announced` / `readers` / `stopped` the RWMutex (external); `start` and `late` are ghosts |
| `Cbwfq` | the scheduler | a class queue is its length; `mu` is the lock, `cursor` / `deficit` / `pending` the fields; each unlocked or separately read step is an action; `waited` is a ghost |
| `Bbolt` | bbolt callers and flusher | `db` are the rows, `count` / `inflight` / `idx` the fields under the lock, `buf` and `snap` the items staged and those in commit, in order; `result` is which flushResult a caller holds and its answer; `fpc` is where the flusher is in its loop, commit, clear or close |
| `Shutdown` | `shutdown`, `closeDB` | the `shut*` fields by name; channels are numbered |
| `Heap` | heap backing with its journal | `items`, `swaps`, `journal` and counters by name; one comparison of a sift is one action; `hurt` is history |
| `CowTree` | the positional tree | `heap` maps pointers to nodes (unreachable ones are collected), `rc` / `counts` / `spare` / `count` by name; the recursion of the writer is `path`; a step is one access to a reference count and the plain writes that follow it |
| `Btype` | btype FIFO backing, on `CowTree` | counters by name; `job` is what is left to do to the tree under this hold of the lock; `snap` are the trees AllCOW copied |
| `Btree` | keyed tree backing, three kinds | `tree` and `idx` are sets of entries `[val, seq]`; how far a call came when caller code unwound is a choice |
| `Restart` | bbolt across lives of the process | `store` and `backup` survive `End`; `flush` and `remove` say which durable step of a commit and of a removal is next |
| `FifoProofs`, `ParkerSignalProofs`, `RestartProofs`, `BtreeProofs`, `ShutdownProofs`, `CowRangeProofs`, `CbwfqProofs`, `BboltProofs` | - | the theorems about the module of that name (section 5) |
| `MC*` | - | constants for TLC |

**Composition.** `Fifo` uses a Signal through its contract: `UsesSignals` shows that each of
its two Signals is used as `SignalSpec` allows, and `ImplementsSignal` shows
that `ParkerSignal` implements the same `SignalSpec`. `ImplementsQueue`
shows that `Fifo` implements `BoundedQueue`. The mapping to `BoundedQueue` is in `Fifo`
(`Reservations`, `Abstract`), and those to `SignalSpec` are in `Fifo` (`FullWaiter`, `EmptyWaiter`) and in
`ParkerSignal` (`Waiter`, `Contract`), where the proofs use them too. `Bbolt` hands over to `Shutdown`
at the point where Close cancels the flush ctx. `Heap` repeats `Fifo`'s
parking code, so it models a parked caller only by what it waits for, and so do
`Btype` and `Btree`. `Btype` extends `CowTree` and adds the queue's bookkeeping around its
steps. `Restart` takes from `Bbolt` the order in which an operation makes its
effects durable, one commit and one removal at a time, and leaves the waiting to it.

**Abstractions.** Items are model values, or priorities where order matters.
`Item.Less` is a total preorder. Encodings of the bbolt keys are modelled by the order they
produce (`KeyLess`: complemented priority, then sequence). A failing and a
panicking side effect lead the code through the same steps and are one
outcome, except on the flusher, where ending the goroutine also ends the loop.
The flusher's ticker subsumes the `flushReq` nudge. Deadlines expire at any
moment at which they could.

## 3. Runs

All runs are small enough for TLC to exhaust the state space. Deadlock is
checked in every one of them.

| Run | Instance | States | Shows |
|---|---|---|---|
| `Fifo` | 2 goroutines, bound 2, batches of 1 and 2, restored contents of 1 and 2 | 36k | `Bounded`, `HydratedPrefix`, `NoLostWakeup`, `MirrorAgrees`, `ClosedAnswered`, `CallsEnd`, `ImplementsQueue`, `UsesSignals` |
| `ParkerSignal` | 3 goroutines, 2 parkers | 241k | `WokenRightly`, `NoLostSignal`, `ImplementsSignal`, `CancelReturns` |
| `CowRange` | 1 writer, 2 iterators, up to 2 items | 663k | `YieldsOneSnapshot`, `CowYieldsToWriter`, `WriterServed` |
| `Cbwfq` | 2 pushers, 1 puller, weights 2 and 1 and a priority class, class capacity 2 | 142k | `PopNeverBlocks`, `NoLostPull`, `BoundedWait`, `PullServed` |
| `BboltSafety` | 2 callers (symmetric) and the flusher, indexed FIFO, bound 2 | 418k | `BooksAgree`, `NobodyStranded` |
| `BboltLive` | 2 callers, failing transactions, `Hash` that unwinds, unbounded | 213k | `BooksSurvive`, `FlusherAnswers` |
| `BboltLostWakeup` | unindexed, equal priorities | - | violated: `NoLostWakeupEmpty` |
| `Shutdown` | 3 closers, one attempt on a live flusher | 120k | `ReleasedSafely`, `SameAnswer`, `CloseReturns` |
| `Heap` | 3 priorities, bound 3, batches of 1 and 3, 7 insertions | 1.1M | `PopsInOrder`, `ExactAndAwake`, `RestartLosesNothing`, `AbandonedUntouched` |
| `Btype` | nodes of at most 3 items, 2 snapshots (symmetric), bound 3, 2, 5 or 12 restored items and 5, 4 or 3 calls | 465k | `SnapshotStable`, `RefsNeverShort`, `TreeIsQueue`, `ExactAndAwake` |
| `Btree` | three kinds, 3 priorities, bound 2, batches of 1 and 2, 0 or 3 restored items, 5 insertions | 769k | `IndexFindsAll`, `RestartLosesNothing`, `BoundExact` |
| `Restart` | 3 lives, Hydrate 2 items at a time, up to 3 restored, 5 items in all | 1.2M | `AckedDurable`, `GoneForGood`, `RestoreComplete` |

Several properties are conjunctions of named parts, defined beside them:
`BooksAgree` of `CountExact`, `InflightExact`, `IndexCovers` and `MirrorAgrees`;
`BooksSurvive` of the same with `CountNeverShort` for `CountExact`;
`NobodyStranded` of the two wakeup obligations and `NoStrandedPush`;
`FlusherAnswers` of `PushAnswered` and `ClearAnswered`; `CallsEnd` of `Released`,
`ConsumerServed` and `ProducerServed`; `WokenRightly` of `GoreadyOnParked` and
`NoStaleWake`; `ReleasedSafely` of `NoReleaseUnderFlusher`, `ReleasedOnce` and
`SomebodyPerforms`;
`Heap`'s `ExactAndAwake` of `HydratedExact` and `NobodyForgotten`.

**Why the bounds are enough to be interesting.** What a larger instance could do
to the safety of the eight components of section 5 - a third or a hundredth goroutine, a
longer batch, other weights, one more life - is settled by the proofs there, which hold for any
instance. The bounds matter most where only TLC has looked: liveness, `Heap` and `Btype`.

- *FIFO.* Bound 2 with batches of 1 and 2 makes a queue full, half full and
  empty, with a batch that fits beside a hook and one that does not; restored
  contents of 2 fill the exempt range up to the bound. Two goroutines are a
  hook and whatever changes the queue under it, or a waiter and whoever wakes it.
- *Parkers.* Two parkers for three goroutines force recycling: a callback
  of the first wait is still in flight when a third goroutine registers the same
  parker.
- *CowRange.* Two items are needed so that an iteration may switch to its copy
  between them. Contents are numbered modulo 3, so the writer that keeps
  returning makes any two successive contents differ. One writer is enough
  for every property that is stated of one blocked writer; contention among
  writers is the RWMutex's business.
- *CBWFQ.* Weights 2 and 1 and Pulls of 1 and 3 cover a quantum used up in one
  Pull, in two, and cut short by an empty class; capacity 2 lets a class refill
  between two reads of its length.
- *bbolt.* `MaxSeq` bounds the sequence numbers given out. Three let a
  sequence number be reused after a Clear while a batch is staged (the hazard
  behind `IndexCovers`). The run is about an
  indexed FIFO because `NobodyStranded` is: without an index, or with priorities, the
  wakeup of a consumer can be lost (section 6); `BboltLostWakeup` shows the first. What holds of every kind of
  queue is proved (section 5). The liveness run needs room for one row only, because its
  questions are about answers, not contents.
- *Shutdown.* Three callers are a performer, a waiter that is informed and one
  that gives up. `MaxAttempts` bounds the attempts that begin while the flusher lives, any of which may time out;
  1 is one such attempt, and all the retries after the flusher has ended. The proofs have no such bound.
- *Heap.* A batch of three on up to four restored entries gives sifts of two
  levels in both directions; `MaxSeq = 7` allows a batch after restoring four.
- *Positional tree.* Nodes of 3 items (63 in the code) are the smallest that
  the code's arithmetic allows: one item at least, a split around the middle one, and
  room to rotate. Twelve items make three levels, so both rotations and merges
  happen on leaves and on branches, deletes replace a branch item by a maximum two levels
  down, the root splits and collapses, and five calls on two items empty the tree
  and reuse its spare leaf. Two snapshots give a node three owners, and each is
  released one reference count at a time between any two of the writer's.
  `MaxCalls` bounds the calls per restored size; the two sets of positions a Del
  may match hit leaves and branches, restored and pushed items.
- *Keyed tree.* Bound 2 with three restored items starts above the bound, exempt;
  the batches of one and two unwind before, between and after their inserts.
  Equal restored values exercise the sequence as a tiebreak and a
  bucket of two in the index.
- *Restart.* Three restored items against a Hydrate batch of 2 (100 in the code) are one full batch and
  a rest, so a life can end between the two; three lives see the result of a
  crash during recovery from a crash.

**History and ghost variables** record what no field of the code holds and guard
no action: `restored` (which entries Hydrate loaded), `waited`
(what others were served while a class had a backlog), `start` and `late` (an
iteration's snapshot and its yields past a waiting writer) and `hurt` (a
comparison has unwound out of Del's heapify or All's sort, where the code keeps
no journal), `halfPushed`, `halfDeleted` and `ghosts` (a Push or a Del of the keyed tree
unwound half way, and the index entries such a Del left), `snap[s].seen` (what a
snapshot was taken of), and `held`, `acked`, `gone` and `missed` of `Restart`. `before` of `Heap` keeps the array where the code keeps
only its length: the steps use the length and the sequence, the properties
the rest. `PopsInOrder` and
`Heap`'s `ExactAndAwake` are stated up to the first such unwind,
because they do not hold beyond it (section 6); `AbandonedUntouched` and
`Heap`'s `RestartLosesNothing` are stated throughout.

`MirrorAgrees` of `Bbolt` is stated for transactions that do not fail, for the
same reason. `BoundExact` and `RestartLosesNothing` of `Btree` are stated up to the
first Del that unwinds half way, and `RestoreComplete` leaves out what a
Hydrate that was cut short had not loaded. The unindexed store is run for
its violation only; that the books agree there too, for any priorities, is `BooksCorrect` of section 5.

Each property in `PROJECT.json` comes with a mutant, an operator in the module
beside the definition it replaces, marked "Mutation": a plausible slip in that
piece of code under which TLC finds the property violated.

## 4. Fairness

- **Weak fairness of a goroutine's own steps** (`Progress`, `IStep`,
  `WStep`, `Flusher`): the Go runtime schedules every runnable goroutine, and caller
  code is assumed to return. Nothing obliges anybody to *start* a call, so
  no operation's first step is fair. Nothing obliges the flusher to end either, its ctx done or not (`Shutdown`):
  `CloseReturns` rests on the deadlines alone.
- **Strong fairness of taking `s.mu`** in `Cbwfq` (`PushCount`, `PullLock`,
  and `PullStep`, which covers the locked reading of `closed` after a
  cancelled wait): `sync.Mutex` switches to handing itself over when a waiter has waited
  for a millisecond.
- **Strong fairness of `Announce`** in `CowRange`: writers queue on the
  RWMutex's internal mutex. Only the readers that were inside delay the
  announced writer.
- **Strong fairness of `SelectClear` and `SelectDone`** in `Bbolt`: a Go
  `select` picks uniformly among ready arms, so an arm that is ready again and again is taken.
- **Strong fairness of `BackupClose`** in `Shutdown`: a Backup may call Close
  again any number of times and still has to return in the end.

`Heap`, `Btype`, `Btree` and `Restart` state safety only and need no fairness.

## 5. Proofs

Eight modules hold theorems. Each is about its component as the runs check it - the same module,
no definition replaced - and each property theorem is for **every** value of the constants.

| Module | Theorem | Statement |
|---|---|---|
| `FifoProofs` | `TypesKept` | `Spec => []QueueTypes` |
| | `ReservationsExact` | `Spec => []InflightExact` |
| | `WaitersWoken` | `Spec => []NoLostWakeup` |
| | `RestoredFirst` | `Spec => []HydratedPrefix` |
| | `CapacityRespected` | `Spec => []Bounded` |
| | `ClosedPrecedence` | `Spec => [][ClosedFirst]_vars` (the safety of `ClosedAnswered`) |
| | `FifoImplementsQueue` | `Spec => ImplementsQueue` (refinement of `BoundedQueue`) |
| | `BackupMirrors` | `Spec => []MirrorAgrees` |
| | `SignalsUsedRightly` | `Spec =>` `Init` and `[][Next]` of `SignalSpec`, for `FullWaiter` and for `EmptyWaiter` (the safety of `UsesSignals`) |
| `ParkerSignalProofs` | `ParkersWokenRightly` | `Spec => []WokenRightly` |
| | `SignalsNotLost` | `Spec => []NoLostSignal` |
| | `SignalKeepsContract` | `Spec => Contract!Init /\ [][Contract!Next]_Waiter` (refinement of `SignalSpec`, safety) |
| `RestartProofs` | `NothingAckedIsLost` | `Spec => []AckedDurable` |
| | `RemovedForGood` | `Spec => []GoneForGood` |
| | `RestoredInFull` | `Spec => []RestoreComplete` |
| `BtreeProofs` | `IndexComplete` | `Spec => []IndexFindsAll` |
| | `QueuedIsMirrored` | `Spec => []RestartLosesNothing` |
| | `BoundAndWakeups` | `Spec => []BoundExact` |
| `ShutdownProofs` | `TeardownSafe` | `Spec => []ReleasedSafely` |
| | `AnswersAgree` | `Spec => []SameAnswer` |
| | `CompletionFinal` | `Spec => [][Final]_vars` |
| `CowRangeProofs` | `IteratesOneSnapshot` | `Spec => []YieldsOneSnapshot` |
| | `IteratorLetsGo` | `Spec => []CowYieldsToWriter` |
| | `ContentsStableUnderReaders` | `Spec => [][ReadStable]_vars` |
| `CbwfqProofs` | `ServeNeverBlocks` | `Spec => []PopNeverBlocks` |
| | `NoPullIsLost` | `Spec => []NoLostPull` |
| | `NoClassIsStarved` | `Spec => []BoundedWait` |
| `BboltProofs` | `BooksCorrect` | `ASSUME ~HashUnwinds PROVE Spec => []BooksAgree` |
| | `BooksNeverShort` | `Spec => []BooksSurvive` |
| | `PopTakesWhatItCounts` | `Spec => []HeadExact` |
| | `PushersNotStranded` | `Spec => [](NoLostWakeupFull /\ NoStrandedPush)` |
| | `NobodyStrandedOnFifo` | `ASSUME Indexed, FifoOrder PROVE Spec => []NobodyStranded` |

Every module also has a theorem `Spec => []IInv` (`Invariance`, `ShutdownInvariance`, ...) for
its inductive invariant, on which the others rest. The form of the proofs is the
same throughout: facts about the operators, then a lemma per kind of step or per action with one step for
each part of `IInv` that it can disturb, then `InitInvariant`, `NextInvariant` and the
theorems. TLC checked every `IInv` on the component's instance before it was proved.

**Assumptions.** Only the named `ASSUME`s of the component's module, which TLC evaluates on
every run: sizes are natural numbers, batches are non-empty sequences, a process is not `None`. Two
of them say that sets are finite, because the proofs count: the pushers of `Cbwfq` and the goroutines
of `ParkerSignal`. `Fifo` allows infinitely many goroutines: only finitely many hooks run at a
time, which is part of the invariant. `Cbwfq` assumes that no class is in the ring twice,
which `cbwfq.New` checks.

### FIFO

    IInv == QueueTypes /\ NotOpened /\ SlotsCounted /\ HookCalls /\ Parked
            /\ NoLostWakeupEmpty /\ NoLostWakeupFull /\ Admitted /\ HydratedPrefix

- `InflightExact` counts reserved slots, so it needs that set to be finite
  (`SlotsCounted`), that a reservation belongs to a call with a hook
  (`HookCalls`), and the types, for `Len` of a batch to be a number.
- `NoLostWakeupFull` speaks of the arguments of parked calls, so it needs that a
  registered goroutine is inside its wait and cannot start another call
  (`Parked`).
- `Bounded` counts entries that are not restored, which no field does. The
  code's gate keeps `Len(live) - hydrated + inflight <= MaxSize`
  (`Admitted`), and that is the same only while the restored entries are exactly
  the first `hydrated` ones (`HydratedPrefix`).
- `HydratedPrefix` survives Del because Del charges the exemption with the matches
  among the first `hydrated` positions; `IncreasingPrefix` and `DelEffect` show that
  removing positions from a sequence keeps the order of the rest and moves the border
  by exactly that many.
- `NotOpened` says what holds before `New` has returned.

`ClosedPrecedence` sorts the steps by what they do to the place of a goroutine (`RelabelStep`): once the queue is
closed, the only ways out of a wait, a retry and a cancelled wait lead to `ErrClosed`, items in the queue or
not. That the call does leave is `ClosedAnswered`, which TLC checks.

`FifoImplementsQueue` maps every action to a step of `BoundedQueue` or to a stutter under
`Reservations`, with `CapacityRespected` supplying that what is admitted is `Within` the bound. A Push that
inserts after its hook maps to `Fulfil`, one without a hook to `Admit`.

`BackupMirrors` has to bring two ways of removing together. The queue removes positions, the Backup is
told values and removes the first occurrences it has of each (`Kept`, by counting occurrences up to a position). They agree because
the entries Pop takes are the first of their values (`TakeKeeps`) and those Del takes are all of theirs
(`DelKeeps`), so both keep the same positions; a set of positions has only one enumeration in order
(`IncreasingUnique`), so what is left is the same sequence. `MirrorAgrees` is inductive beside `IInv`.

`SignalsUsedRightly` sorts the steps into three kinds (`NextKinds`): nobody enters or leaves a wait and some
waiters are woken, one goroutine parks, or one that was woken leaves. It needs that a
goroutine is registered with the Signal of its own operation (`ParkedRightly`), so that a ctx callback, which
takes it off both lists, is a `Cancel` of one Signal and nothing to the other. With
`SignalKeepsContract` the two sides of `SignalSpec` meet: what the backing assumes of a Signal is what the
parkers provide.

### Signal over parkers

The difficulty is that parkers are pooled while ctx callbacks outlive the Wait that armed them. The
invariant follows a Parker through its life: it has one owner (`Owned`), is in one place of one list
(`Once`), and one in the pool is in nobody's reach (`Pooled`). A Parker is on its way to the pool only when
its owner is the last to know it (`Clean`). That holds because of what the
owner concludes from `cancel()`: a woken Parker that is still on a list was woken by the callback
of its own ctx (`Reasons`), which `cancel()` then reports as started, and the Parker is detached and never
reused. `ParkedOwner` and `Readied` give `GoreadyOnParked`. `NoLostSignal` is kept by the
HasWaiters gate because the count is exact (`WaitersExact`) and a Wait that has registered and
not yet counted itself still holds the queue lock (`Locked`).

`SignalKeepsContract` maps each step to the contract: `Register` and `Leave` to Wait and Return, `Steal` to a
Signal that releases all that wait at once, the swap by a ctx callback to a Cancel of
that owner alone. Every other step is shown to leave `Waiter` as it is, for which the invariant says that nobody
else's Parker is touched.

### Restart

The store must never take in what was removed or what it holds already. It is fed by commits and
by Hydrate, so the batch in commit is followed from its numbering to the store (`InCommit`), the Backup
never holds what is gone (`Mirrored`), nor the victims of a removal under way (`InRemoval`). What
the Backup held at first is accounted for at each point of a Hydrate (`Restoring`, `InHydrate`). `Idle` and
`Numbered` say what is empty when, and that item numbers are never given out twice.

### Keyed tree

The three properties, with the types and two facts: sequence numbers are never given out twice and
restored entries have the first ones (`Numbering`), and there are no stale index entries before the first Del
that unwinds (`GhostsMade`). The lemmas count: how the number of entries of each value, and of exempt entries, changes
when a set of entries comes or goes.

### Shutdown

The properties speak of what was released and answered, and neither says who may still release.
There is at most one performer (`OnePerformer`); an attempt that has not committed has touched nothing
(`Commitment`); one that has owns the release until it completes (`Stages`); what it wrote stays
(`Settled`). That nobody waits for a release that nobody performs (`SomebodyPerforms`) is inductive beside these: a
channel is replaced only by the performer that is about to close it. `CompletionFinal` adds that no step of a late closer, a retry or a
re-entrant Close changes anything once the shutdown is complete.

### QLock and iterations

An iteration is safe from writers because the lock excludes them (`Exclusion`), as
`ContentsStableUnderReaders` states for each step. That AllCOW lets go in time rests on `pending`: while the
iterator reads no writer can take its bump back, so a bump it missed before one item it sees before the next
(`Bumped`).

### CBWFQ

- `PopNeverBlocks`: the length that `serveable` read without the class queue's lock stays good because only the
  holder of `s.mu` takes items out (`Holder`), and Close cannot get in between (`ClosedInOrder`).
- `NoLostPull`: a Pull that parks has read every length, each at another time. What the classes it has left
  behind hold by now belongs to Pushes that are yet to take `s.mu` and signal (`Scanning`); after a full turn of
  the cursor these are all classes.
- `BoundedWait` needs a second invariant, `Fair`, beside `IInv`. For the class `i` places
  in the ring it bounds the ghost `waited` by one quantum of each class that the cursor has passed
  since it left `i` (`Passed`), and what the class under the cursor has used of its own (`Used`). A Pull
  between its Pop and its decision to advance is why `Used` looks at the program counters: a deficit
  of 0 means a quantum used up there and a fresh one everywhere else. The quantum that a class keeps when a Push
  refills it between the two reads of its length (section 6) only makes its next turn shorter, so
  the bound holds in spite of it.

### bbolt

    IInv == Types /\ Distinct /\ Window /\ HeadCovered /\ Counted /\ Reserved /\ IndexCovers
            /\ Mirrored /\ Parked /\ EmptyWoken /\ NoLostWakeupFull /\ Answered

A commit makes its rows visible before it takes the lock to count them, so between the two every counter
disagrees with the store, by an amount that Pop and Del change meanwhile.

- `Distinct` and `Window` make the difference countable: a row is known by its sequence number, Clear included,
  and while the batch is landed and not counted it is in `landed`, as large as it was staged, unknown to the
  index and behind every counted row. `Counted`, `Reserved`, `IndexCovers` and `Mirrored` are then the books at
  each stage of the commit.
- `BooksCorrect` excludes an `Item.Hash` that unwinds, because Pop has deleted by then what it
  has not uncounted (section 6). `BooksNeverShort` is what is left without that hypothesis:
  `inflight` is exact, the index covers the store, the Backup agrees as long as no transaction fails, and the error
  of `count` is upwards only. Both are about every store, indexed
  or not, in any priority order.
- Pop reads `k` rows in key order and subtracts `k`. That there are `k` of them (`PopTakesWhatItCounts`) is no
  induction here: the rank of a row, the number of rows before it, maps rows one to one
  to numbers (`Ranks`), and the first `k` ranks are `k` rows (`FirstRowsTaken`).
- A consumer's wakeup depends on `count` not being negative, since the commit signals only when it finds
  `count` at 0. On an indexed FIFO a Pop takes every counted row before a landed one and a Del sees
  indexed rows only, so `count` covers the rows that are not landed (`HeadCovered`), and
  `EmptyWoken` follows. `FifoOrder` says that all items have one priority. Both hypotheses of
  `NobodyStrandedOnFifo` are needed: TLC has a counterexample without either (section 6). The
  second one was found by this proof, which could not keep `HeadCovered` for a Pop that takes a landed row first.
- Producers and staged Pushes need neither hypothesis: `inflight` is exact on every store, and a flusher that ends has
  answered everybody before it is gone (`Answered`).

### Left to TLC

- Liveness: `CallsEnd`, `ClosedAnswered`, `CancelReturns`, `WriterServed`, `PullServed`, `FlusherAnswers`, `CloseReturns`, and the fairness
  of `SignalSpec` that is part of `ImplementsSignal` and `UsesSignals`. TLAPS does not reason about fairness and `ENABLED` here.
- `Heap`: `Rollback` is a fold over the journal, and what a fold computes for every journal is an induction over data
  that the provers cannot do. All four of its properties speak of states after a rollback.
- `Btype` with `CowTree`: recursive descents over a tree, where what matters (a count is the size of its
  subtree, a snapshot reaches the same items) is again an induction over the data structure.

## 6. Where the code and its documents disagree

One disagreement is a run of its own, and `PROJECT.json` quotes it under `findings`:

- `BboltLostWakeup`: an unindexed Del that runs between a commit's transaction
  and its count removes uncounted rows; `p.count` turns negative, the commit finds
  it different from 0 and does not signal, and a Pop stays parked beside an item.
  An index prevents this on a FIFO (`NobodyStrandedOnFifo`) and not on a priority queue, where a
  Pop inside the same window may take a landed row that sorts before the counted ones. With two
  rows of low priority stored and two of high priority landed, `Pop(1)` takes a high one and
  `count` goes from 2 to 1, a Del of the low ones takes it to -1, a Pop parks, and the commit
  raises it to 1 without a signal. The constants for this instance are in `MCBbolt`: `Indexed = TRUE`, `Priority <- Ranked`,
  `Stored <- TwoLow`, `Batches <- TwoHigh`, `DelArgs <- DelLow`, `PopSizes = {1}`, `MaxSize` and `MaxSeq` 4.

A second one is between two comments and what a passing run shows:

- `bbolt.go:1498-1500` and `1602-1603` say of the moment at which caller code ends the flusher that "A Push
  already waiting on an in-flight batch at that moment still blocks, which is the one case this cannot
  reach". The code does reach it. A Push of the batch in commit is answered by the deferred guard of
  `doFlush` (552-581), which gives the reservation back and closes `r.done`; one of the batch staged behind it by
  `closeFromFlusher`, which settles `p.cur` (1511-1523). `NoStrandedPush` (in `BboltSafety`, and proved
  as `PushersNotStranded` for every store) and `PushAnswered` (in `BboltLive`) hold with such
  an end at every call of caller code, so the comments are out of date and the code is right.

These were met while modelling and are not the subject of a run of their own:

- `bbolt.go:1078`: by the same interleavings as `BboltLostWakeup`, `Len` of an
  unindexed store or of a priority queue can be negative.
- `bbolt.go:1482`: when the flush ctx is done Clear returns `ErrClosed` without
  taking its command back, and a flusher that has selected it runs it afterwards
  (in `Bbolt`, `DoClear` with `cmd = Nobody`); lines 1462-1464 say the caller never
  observes an error while the clear happens after the call.
- `bbolt.go:690`: a Hydrate that ends between two of its transactions leaves a store
  that is not empty, and the next `New` takes it for complete and never loads the rest
  (`missed` in `Restart`); `core/item.go:183` has Hydrate load the items of the Backup, and
  `DESIGN.md:576-581` knows an empty store and a complete one only.
- `bbolt.go:1488`: a Clear that has emptied the store and not sent its reply yet is
  reported as `ErrClosed`; lines 1483-1484 say it is reported as done.
- `bbolt.go:643`: a transaction that fails after `Backup.Push` leaves the batch
  in the Backup; `core/item.go:57-58` promises an attempted rollback.
- `bbolt.go:964`: `Item.Hash` unwinding out of an indexed Pop leaves rows deleted
  and still counted; `DESIGN.md:1229` requires the state of a returned error.
- `bbolt.go:1352`: a waiter woken by a failed attempt may be told
  `ErrShutdownIncomplete` after a later attempt has committed, against lines
  1338-1340.
- `qlock.go:25`: a writer that reads `cowActive` just before an iteration enters
  blocks behind it with `pending` at 0, so the iteration runs to its end under the
  lock; lines 50-52 say "the signal cannot be missed". The writer is delayed, not
  lost: `WriterServed` holds.
- `btree.go:488-490`: `Item.Less` or `Item.Hash` unwinding out of Del's loop leaves
  entries that the Backup has deleted, an index entry without its tree entry
  (`ghosts`), an exemption that is not reduced and producers that are not woken;
  the comment at `btree.go:23-26` says that `remove` takes its hash up front like `add`, and
  `DESIGN.md:1236` asserts that index and tree describe one queue. Nothing in the tree is ever missing from the index: `IndexFindsAll`
  holds.
- `btree.go:267`: `Item.Less` unwinding out of a batch Push leaves what was inserted
  and wakes no consumer; `DESIGN.md:768-769` accepts it.
- `cbwfq.go:69`: an item may be pulled before it is counted, so `Len` can be
  negative for a moment.
- `cbwfq.go:263`: a Push between the two reads of a class's length moves the
  cursor on with the deficit left over, against lines 261-262. `BoundedWait`
  holds all the same.
- `heap.go:452` and `heap.go:627`: `Item.Less` unwinding out of Del's heapify or
  All's sort leaves freed capacity unannounced or an array that is not a heap;
  `DESIGN.md:719-720` accepts this for Del, `DESIGN.md:1229` and
  `heap.go:616-618` read otherwise.
- `heap.go:269`: `Item.Less` unwinding out of Push rolls the heap back and not the
  Backup, against `core/item.go:57-58`. A restart would restore the batch;
  nothing is lost.
- `metrics.go:293`: `recordDepth` reads `Len` and swaps `lastDepth`, not
  atomically, so a stale depth may be the last one reported, against
  `DESIGN.md:546-548`.

## 7. What is not modelled

- The part of the positional tree that nothing in the repository calls (`Insert`,
  `Get`, `PushFront`, `PopBack`, `Ascend` and their kin), and the inside of
  tidwall/btree, which is third-party code.
- The iterations `All` and `AllCOW` of the keyed tree, and `All` of the btype
  FIFO: reads under the read lock in the shape that `CowRange` models on the FIFO.
- Metrics and spans (`recordDepth` is a gauge that no code reads back); generated `String` methods; option plumbing, type aliases
  and argument validation, which returns before any state changes; the
  ready-made item wrappers, which are pure one-liners.
- bbolt's encodings beyond the order of keys, its read-only operations, the counters of
  background write errors, and the file itself: a transaction is atomic and durable or has not happened.
- `AllCOW` of the heap, which copies, and its waits, which repeat the FIFO's.
- The wrapper's `maxBatch` check, which refuses a larger Push with `ErrBatchTooLarge` before it reaches the backing.
- What `Peek` and `Exists` answer on the heap and on both trees: they change nothing, and no property
  speaks of their results.
- Loop bodies of `RangeAll` that call back into the queue.

## 8. Plan

Done so far: models and runs of the FIFO backing with its contracts, the parking layer, QLock
with the iterators, the scheduler, the bbolt backing in three modules (calls and flusher,
shutdown, restart), the heap, the keyed tree, and the positional tree with the
FIFO on it; proofs of the safety of the FIFO, the parking layer, QLock, the scheduler, the three bbolt modules and the
keyed tree, of the steps of both refinements, and of the FIFO's use of its Signals.

1. **Model more.** What `Peek` and `Exists` answer. A heap that implements an abstract priority queue, and the keyed
   tree on the same specification. Copy-on-write iteration of the keyed tree.
2. **Prove more.** The journal of `Heap` (`AbandonedUntouched`), which is about exchanges undone in
   reverse; it needs a way to reason about the replay of the journal, of which one exchange is easy and
   the whole an induction. The keyed tree's and the bbolt backing's use of their Signals, as `SignalsUsedRightly` has it
   for the FIFO.

New questions join the run of the component they are about; a run of its own
is for a component that has none.
