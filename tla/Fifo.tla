-------------------------------- MODULE Fifo --------------------------------
(***************************************************************************)
(* The in-memory FIFO backing (queue/internal/backings/fifo/fifo.go) with  *)
(* the helpers every backing shares (core/run.go, core/opoptions.go).      *)
(*                                                                         *)
(* Every operation runs under the queue lock from its first read of the    *)
(* state to its last write, so each critical section is one action.  The   *)
(* lock is dropped in exactly three places, and those are the program      *)
(* counters of a call: while a WithOnAdmit hook runs ("hook"), while the   *)
(* call is parked on a Signal ("wait", then "retry" or "err" once Signal   *)
(* .Wait has returned), and before the two broadcasts of Close ("bcast1",  *)
(* "bcast2").  Caller code that runs inside a critical section (the side   *)
(* effect, the Backup) returns, fails or unwinds: an Outcome.              *)
(*                                                                         *)
(* The contents are f.live(), the entries of buf from head on.  A Signal   *)
(* is the set of its registered, not yet woken waiters; SignalSpec states  *)
(* that contract and ParkerSignal shows that the parkers implement it.     *)
(***************************************************************************)
EXTENDS Integers, FiniteSets, SequencesExt

CONSTANTS
    Procs,      \* goroutines calling the queue
    Items,      \* item values; Item.Equal is equality of values
    MaxSize,    \* f.maxSize, 0 when unbounded
    Batches,    \* the batches a Push may carry
    PopSizes,   \* the n a Pop may carry
    DelArgs,    \* the sets of values a Del may name
    Restores    \* the contents a Backup may hold when the queue is created

ASSUME MaxSizeAssumption == MaxSize \in Nat
ASSUME BatchesAssumption == Batches \subseteq Seq(Items) \ {<<>>}
ASSUME PopAssumption     == PopSizes \subseteq Nat \ {0}
ASSUME DelAssumption     == DelArgs \subseteq SUBSET Items
ASSUME RestoresAssumption == Restores \subseteq Seq(Items)

VARIABLES
    opened,     \* New has returned the queue to its callers
    live,       \* f.live(); "restored" marks the entries Hydrate loaded
    hydrated,   \* f.hydrated
    inflight,   \* f.inflight
    closed,     \* f.closed
    attached,   \* f.backup # nil
    mirror,     \* what the Backup holds
    notFull,    \* waiters registered on f.notFull and not yet woken
    notEmpty,   \* waiters registered on f.notEmpty and not yet woken
    pc,         \* where each goroutine is
    call,       \* the arguments of the call it is in
    cancelled   \* the ctx of that call is done

queueVars == <<live, hydrated, inflight, closed, mirror>>
procVars  == <<pc, call, cancelled>>
vars == <<opened, attached, queueVars, notFull, notEmpty, procVars>>

\* What a goroutine outside any call remembers of the last one: that it
\* returned ErrClosed, the cause of its ctx, or anything else.
Idle == {"idle", "errClosed", "errCause"}
InCall(p) == pc[p] \notin Idle

Ops  == {"push", "pop", "notEmpty", "notFull"}
Call ==
    {c \in [op : Ops, vs : Batches \cup {<<>>}, n : Nat, hook : BOOLEAN] :
        c.op = "pop" => c.n # 0}

NoCall == [op |-> "notEmpty", vs |-> <<>>, n |-> 0, hook |-> FALSE]
PushCall(vs, hook) == [op |-> "push", vs |-> vs, n |-> 0, hook |-> hook]
PopCall(n) == [op |-> "pop", vs |-> <<>>, n |-> n, hook |-> FALSE]
WaitCall(op) == [op |-> op, vs |-> <<>>, n |-> 0, hook |-> FALSE]

\* How caller code run by the queue ends: normally, with an error, or by
\* leaving the frame (a panic or runtime.Goexit), which runs the release
\* closure of RunLocked instead of the return path.
Outcome == {"ok", "err", "unwind"}

Entry(v, r) == [val |-> v, restored |-> r]
Entries(vs, r) == [i \in 1..Len(vs) |-> Entry(vs[i], r)]
Values(es) == [i \in 1..Len(es) |-> es[i].val]

-----------------------------------------------------------------------------
(***************************************************************************)
(* Helpers of the backing.                                                 *)
(***************************************************************************)

\* Mutation: the gate forgets the reservations of running hooks.
GateForgetsInflight(n) == MaxSize = 0 \/ Len(live) - hydrated + n <= MaxSize

\* The admission gate of Push for n more items.
Gate(n) == MaxSize = 0 \/ Len(live) - hydrated + inflight + n <= MaxSize

\* The condition NotFull waits for.
Room == MaxSize = 0 \/ Len(live) - hydrated + inflight < MaxSize

\* dropHydrated: the exemption shrinks by n, never below zero.
DropHydrated(n) == IF n >= hydrated THEN 0 ELSE hydrated - n

\* Signal wakes every waiter registered so far.  The HasWaiters gate in front
\* of it changes nothing: without a waiter the broadcast is empty.
SignalNotFull  == notFull' = {}
SignalNotEmpty == notEmpty' = {}

\* Mutation: an abandoned reservation wakes nobody.
ReleasesSilently(c) == UNCHANGED notFull

\* ReleaseReservation: a Push that carried a hook gave its reservation back
\* with nothing inserted, and owes the producers a wakeup.
ReleaseReservation(c) ==
    IF c.hook THEN SignalNotFull ELSE UNCHANGED notFull

Mirrored(m) == mirror' = IF attached THEN m ELSE mirror

\* The order-preserving enumerations of a set of positions (there is one).
Increasing(S) ==
    {f \in [1..Cardinality(S) -> S] : \A i, j \in DOMAIN f : i < j => f[i] < f[j]}

CountUpTo(s, n, v) == Cardinality({i \in 1..n : s[i] = v})

\* Backup.Del removes one matching occurrence per element of vs, the first ones
\* it has: an item stays when it and those before it are more than vs names.
Kept(m, vs) == {i \in 1..Len(m) : CountUpTo(m, i, m[i]) > CountUpTo(vs, Len(vs), m[i])}

BackupDel(vs) ==
    \E h \in Increasing(Kept(mirror, vs)) : Mirrored([i \in DOMAIN h |-> mirror[h[i]]])

\* The side effect and the Backup call of one critical section both succeed.
AllOk(se, bk) == se = "ok" /\ (attached => bk = "ok")

Return(p, result) ==
    /\ pc' = [pc EXCEPT ![p] = result]
    /\ call' = [call EXCEPT ![p] = NoCall]
    /\ cancelled' = [cancelled EXCEPT ![p] = FALSE]

\* The call keeps going under another program counter.
Continue(p, c, label) ==
    /\ pc' = [pc EXCEPT ![p] = label]
    /\ call' = [call EXCEPT ![p] = c]
    /\ UNCHANGED cancelled

-----------------------------------------------------------------------------
(***************************************************************************)
(* New with an optional Backup: Hydrate loads everything the Backup holds, *)
(* exempt from maxSize, and attaches it last.  A Hydrate that fails leaves *)
(* no queue behind, so there is nothing to model after it.                 *)
(***************************************************************************)
Hydrate(m) ==
    /\ live' = Entries(m, TRUE)
    /\ hydrated' = Len(m)
    /\ mirror' = m
    /\ attached' = TRUE

New ==
    /\ ~opened
    /\ opened' = TRUE
    /\ \/ \E m \in Restores : Hydrate(m)
       \/ UNCHANGED <<live, hydrated, mirror, attached>>
    /\ UNCHANGED <<inflight, closed, notFull, notEmpty, procVars>>

-----------------------------------------------------------------------------
(***************************************************************************)
(* Push.                                                                   *)
(***************************************************************************)

\* Mutation: the Backup has the batch that the abandoned insert did not append.
AbandonAfterBackup(p, c) ==
    /\ ReleaseReservation(c)
    /\ Return(p, "idle")
    /\ Mirrored(mirror \o c.vs)
    /\ UNCHANGED <<live, notEmpty>>

\* The end of Push once capacity is its own: side effect, Backup, append.  An
\* abandoned insert reaches the release of RunLocked or the error return.
Abandon(p, c) ==
    /\ ReleaseReservation(c)
    /\ Return(p, "idle")
    /\ UNCHANGED <<live, mirror, notEmpty>>

Insert(p, c) ==
    \E se, bk \in Outcome :
        \/ /\ AllOk(se, bk)
           /\ live' = live \o Entries(c.vs, FALSE)
           /\ Mirrored(mirror \o c.vs)
           /\ IF live = <<>> THEN SignalNotEmpty ELSE UNCHANGED notEmpty
           /\ Return(p, "idle")
           /\ UNCHANGED notFull
        \/ ~AllOk(se, bk) /\ Abandon(p, c)

\* One pass of Push's loop, from Lock to Unlock.
PushPass(p, c) ==
    \/ /\ closed
       /\ Return(p, "errClosed")
       /\ UNCHANGED <<queueVars, notFull, notEmpty>>
    \/ /\ ~closed /\ MaxSize > 0 /\ Len(c.vs) > MaxSize    \* ErrBatchTooLarge
       /\ Return(p, "idle")
       /\ UNCHANGED <<queueVars, notFull, notEmpty>>
    \/ /\ ~closed /\ Gate(Len(c.vs)) /\ c.hook
       /\ inflight' = inflight + Len(c.vs)
       /\ Continue(p, c, "hook")
       /\ UNCHANGED <<live, hydrated, closed, mirror, notFull, notEmpty>>
    \/ /\ ~closed /\ Gate(Len(c.vs)) /\ ~c.hook
       /\ Insert(p, c)
       /\ UNCHANGED <<hydrated, inflight, closed>>
    \/ /\ ~closed /\ ~(MaxSize > 0 /\ Len(c.vs) > MaxSize) /\ ~Gate(Len(c.vs))
       /\ notFull' = notFull \cup {p}
       /\ Continue(p, c, "wait")
       /\ UNCHANGED <<queueVars, notEmpty>>

\* Mutation: closed is not looked at again after the hook.
HookInsertsAnyway(p) ==
    /\ pc[p] = "hook"
    /\ inflight' = inflight - Len(call[p].vs)
    /\ Insert(p, call[p])
    /\ UNCHANGED <<opened, attached, hydrated, closed>>

\* RunOnAdmit gives the reservation back and signals unless the hook
\* succeeded; Push then rechecks closed and inserts.
HookReturn(p) ==
    /\ pc[p] = "hook"
    /\ inflight' = inflight - Len(call[p].vs)
    /\ \E h \in Outcome :
        \/ /\ h # "ok"
           /\ SignalNotFull
           /\ Return(p, "idle")
           /\ UNCHANGED <<live, mirror, notEmpty>>
        \/ /\ h = "ok" /\ closed
           /\ ReleaseReservation(call[p])
           /\ Return(p, "errClosed")
           /\ UNCHANGED <<live, mirror, notEmpty>>
        \/ /\ h = "ok" /\ ~closed
           /\ Insert(p, call[p])
    /\ UNCHANGED <<opened, attached, hydrated, closed>>

-----------------------------------------------------------------------------
(***************************************************************************)
(* Pop, NotEmpty and NotFull.                                              *)
(***************************************************************************)

\* Pop takes the first k entries; the restored ones are at the front.
Take(k) ==
    /\ live' = SubSeq(live, k + 1, Len(live))
    /\ BackupDel(Values(SubSeq(live, 1, k)))
    /\ hydrated' = DropHydrated(IF k < hydrated THEN k ELSE hydrated)
    /\ SignalNotFull

PopPass(p, c) ==
    \/ /\ closed
       /\ Return(p, "errClosed")
       /\ UNCHANGED <<queueVars, notFull, notEmpty>>
    \/ /\ ~closed /\ live # <<>>
       /\ \E se, bk \in Outcome :
            \/ /\ AllOk(se, bk)
               /\ Take(IF c.n > Len(live) THEN Len(live) ELSE c.n)
            \/ ~AllOk(se, bk) /\ UNCHANGED <<live, mirror, hydrated, notFull>>
       /\ Return(p, "idle")
       /\ UNCHANGED <<inflight, closed, notEmpty>>
    \/ /\ ~closed /\ live = <<>>
       /\ notEmpty' = notEmpty \cup {p}
       /\ Continue(p, c, "wait")
       /\ UNCHANGED <<queueVars, notFull>>

\* Mutation: NotEmpty looks at the items before it looks at closed.
NotEmptyItemsFirst(p, c) ==
    \/ /\ closed \/ live # <<>>
       /\ Return(p, IF live = <<>> THEN "errClosed" ELSE "idle")
       /\ UNCHANGED <<notFull, notEmpty>>
    \/ /\ ~closed /\ live = <<>>
       /\ notEmpty' = notEmpty \cup {p}
       /\ Continue(p, c, "wait")
       /\ UNCHANGED notFull

\* NotEmpty and NotFull read under the read lock and wait the same way.
NotEmptyPass(p, c) ==
    \/ /\ closed \/ live # <<>>
       /\ Return(p, IF closed THEN "errClosed" ELSE "idle")
       /\ UNCHANGED <<notFull, notEmpty>>
    \/ /\ ~closed /\ live = <<>>
       /\ notEmpty' = notEmpty \cup {p}
       /\ Continue(p, c, "wait")
       /\ UNCHANGED notFull

NotFullPass(p, c) ==
    \/ /\ closed \/ Room
       /\ Return(p, IF closed THEN "errClosed" ELSE "idle")
       /\ UNCHANGED <<notFull, notEmpty>>
    \/ /\ ~closed /\ ~Room
       /\ notFull' = notFull \cup {p}
       /\ Continue(p, c, "wait")
       /\ UNCHANGED notEmpty

-----------------------------------------------------------------------------
(***************************************************************************)
(* Del, Clear and Close.                                                   *)
(***************************************************************************)

Matched(vs) == {i \in 1..Len(live) : live[i].val \in vs}

\* Mutation: every match is charged to the exemption.
ChargesEveryMatch(vs) == Cardinality(Matched(vs))

\* Only the matches among the first f.hydrated positions are charged to the
\* exemption.
Charged(vs) == Cardinality(Matched(vs) \cap 1..hydrated)

\* Del removes every match.
DelMatched(vs) ==
    /\ \E f \in Increasing((1..Len(live)) \ Matched(vs)) : live' = [i \in DOMAIN f |-> live[f[i]]]
    /\ \E g \in Increasing(Matched(vs)) : BackupDel([i \in DOMAIN g |-> live[g[i]].val])
    /\ hydrated' = DropHydrated(Charged(vs))
    /\ SignalNotFull

Del(p, vs) ==
    /\ ~InCall(p)
    /\ \/ /\ closed
          /\ Return(p, "errClosed")
          /\ UNCHANGED <<live, mirror, hydrated, notFull>>
       \/ /\ ~closed
          /\ \E se, bk \in Outcome :
               IF Matched(vs) # {} /\ AllOk(se, bk)
               THEN DelMatched(vs)
               ELSE UNCHANGED <<live, mirror, hydrated, notFull>>
          /\ Return(p, "idle")
    /\ UNCHANGED <<opened, attached, inflight, closed, notEmpty>>

Empty ==
    /\ live' = <<>>
    /\ hydrated' = 0
    /\ Mirrored(<<>>)
    /\ SignalNotFull

Clear(p) ==
    /\ ~InCall(p)
    /\ \/ /\ closed
          /\ Return(p, "errClosed")
          /\ UNCHANGED <<live, mirror, hydrated, notFull>>
       \/ /\ ~closed
          /\ \E se, bk \in Outcome :
               IF live # <<>> /\ AllOk(se, bk)
               THEN Empty
               ELSE UNCHANGED <<live, mirror, hydrated, notFull>>
          /\ Return(p, "idle")
    /\ UNCHANGED <<opened, attached, inflight, closed, notEmpty>>

\* Only a failed side effect aborts a close: the Backup's own failure, an
\* unwind included, is reported and the close takes effect all the same.  The
\* two broadcasts follow after the unlock.  A second Close has no effect.
Close(p) ==
    /\ ~InCall(p)
    /\ \E se \in Outcome :
         IF ~closed /\ se = "ok"
         THEN closed' = TRUE /\ Continue(p, NoCall, "bcast1")
         ELSE UNCHANGED closed /\ Return(p, "idle")
    /\ UNCHANGED <<opened, attached, live, hydrated, inflight, mirror, notFull, notEmpty>>

CloseNotEmpty(p) ==
    /\ pc[p] = "bcast1"
    /\ SignalNotEmpty
    /\ Continue(p, NoCall, "bcast2")
    /\ UNCHANGED <<opened, attached, queueVars, notFull>>

CloseNotFull(p) ==
    /\ pc[p] = "bcast2"
    /\ SignalNotFull
    /\ Return(p, "idle")
    /\ UNCHANGED <<opened, attached, queueVars, notEmpty>>

\* Peek and Exists read under the read lock and change nothing.
Read(p) ==
    /\ ~InCall(p)
    /\ Return(p, IF closed THEN "errClosed" ELSE "idle")
    /\ UNCHANGED <<opened, attached, queueVars, notFull, notEmpty>>

-----------------------------------------------------------------------------
(***************************************************************************)
(* Waiting, cancellation and the specification.                            *)
(***************************************************************************)
Waiting(p) == p \in notFull \cup notEmpty

\* The ctx of a call may be done at any moment of it.
CtxDone(p) ==
    /\ InCall(p) /\ ~cancelled[p]
    /\ cancelled' = [cancelled EXCEPT ![p] = TRUE]
    /\ UNCHANGED <<opened, attached, queueVars, notFull, notEmpty, pc, call>>

\* The AfterFunc callback wakes a waiter whose ctx is done.
CtxWake(p) ==
    /\ Waiting(p) /\ cancelled[p]
    /\ notFull' = notFull \ {p}
    /\ notEmpty' = notEmpty \ {p}
    /\ UNCHANGED <<opened, attached, queueVars, procVars>>

\* Mutation: Wait returns a done ctx at once and stays registered.
WaitReturnsRegistered(p) ==
    /\ pc[p] = "wait" /\ (~Waiting(p) \/ cancelled[p])
    /\ Continue(p, call[p], IF cancelled[p] THEN "err" ELSE "retry")
    /\ UNCHANGED <<opened, attached, queueVars, notFull, notEmpty>>

\* Mutation: the error of Wait is dropped and the call tries again.
WaitErrorDropped(p) ==
    /\ pc[p] = "wait" /\ ~Waiting(p)
    /\ Continue(p, call[p], "retry")
    /\ UNCHANGED <<opened, attached, queueVars, notFull, notEmpty>>

\* Signal.Wait returns to a woken waiter: the cause when ctx is done.
WaitReturn(p) ==
    /\ pc[p] = "wait" /\ ~Waiting(p)
    /\ Continue(p, call[p], IF cancelled[p] THEN "err" ELSE "retry")
    /\ UNCHANGED <<opened, attached, queueVars, notFull, notEmpty>>

\* ClosedOrCause: ErrClosed wins over the cause of the ctx.
ClosedOrCause(p) ==
    /\ pc[p] = "err"
    /\ Return(p, IF closed THEN "errClosed" ELSE "errCause")
    /\ UNCHANGED <<opened, attached, queueVars, notFull, notEmpty>>

Pass(p, c) ==
    /\ \/ c.op = "push" /\ PushPass(p, c)
       \/ c.op = "pop" /\ PopPass(p, c)
       \/ c.op = "notEmpty" /\ NotEmptyPass(p, c) /\ UNCHANGED queueVars
       \/ c.op = "notFull" /\ NotFullPass(p, c) /\ UNCHANGED queueVars
    /\ UNCHANGED <<opened, attached>>

Push(p)     == \E vs \in Batches, h \in BOOLEAN : ~InCall(p) /\ Pass(p, PushCall(vs, h))
Pop(p)      == \E n \in PopSizes : ~InCall(p) /\ Pass(p, PopCall(n))
NotEmpty(p) == ~InCall(p) /\ Pass(p, WaitCall("notEmpty"))
NotFull(p)  == ~InCall(p) /\ Pass(p, WaitCall("notFull"))
Retry(p)    == pc[p] = "retry" /\ Pass(p, call[p])

Init ==
    /\ opened = FALSE
    /\ live = <<>> /\ hydrated = 0 /\ inflight = 0 /\ closed = FALSE
    /\ attached = FALSE /\ mirror = <<>>
    /\ notFull = {} /\ notEmpty = {}
    /\ pc = [p \in Procs |-> "idle"]
    /\ call = [p \in Procs |-> NoCall]
    /\ cancelled = [p \in Procs |-> FALSE]

\* Steps a goroutine takes by itself once its call is under way.
Progress(p) ==
    \/ HookReturn(p) \/ CtxWake(p) \/ WaitReturn(p) \/ ClosedOrCause(p)
    \/ Retry(p) \/ CloseNotEmpty(p) \/ CloseNotFull(p)

Calls(p) ==
    \/ Push(p) \/ Pop(p) \/ NotEmpty(p) \/ NotFull(p)
    \/ (\E vs \in DelArgs : Del(p, vs)) \/ Clear(p) \/ Close(p) \/ Read(p)

Next ==
    \/ New
    \/ opened /\ \E p \in Procs : Calls(p) \/ CtxDone(p) \/ Progress(p)

\* The runtime schedules every runnable goroutine and RWMutex does not starve
\* a locker; a hook is assumed to return.  Nothing obliges a caller to call.
Fairness == \A p \in Procs : WF_vars(opened /\ Progress(p))

Spec == Init /\ [][Next]_vars /\ Fairness

-----------------------------------------------------------------------------
(***************************************************************************)
(* Properties.                                                             *)
(***************************************************************************)

\* The slots the running hooks hold: what f.inflight has to count.
ReservedSlots ==
    UNION {{p} \X (1..Len(call[p].vs)) : p \in {q \in Procs : pc[q] = "hook"}}

\* Every variable has the shape the code gives it.
ProcTypes ==
    /\ pc \in [Procs -> Idle \cup
                {"hook", "wait", "retry", "err", "bcast1", "bcast2"}]
    /\ call \in [Procs -> Call]
    /\ cancelled \in [Procs -> BOOLEAN]

\* The type invariant.
QueueTypes ==
    /\ opened \in BOOLEAN /\ closed \in BOOLEAN /\ attached \in BOOLEAN
    /\ live \in Seq([val : Items, restored : BOOLEAN])
    /\ hydrated \in Nat /\ inflight \in Nat
    /\ notFull \subseteq Procs /\ notEmpty \subseteq Procs
    /\ ProcTypes

\* A bounded queue never holds more admitted entries than maxSize, the
\* reservations of running hooks included: concurrent Pushes that each drop
\* the lock for a hook cannot overshoot together.
Bounded ==
    MaxSize > 0 =>
        Cardinality({i \in 1..Len(live) : ~live[i].restored})
            + Cardinality(ReservedSlots) <= MaxSize

\* f.inflight counts exactly the reservations of the hooks still running,
\* however each of them ends (error, unwind, or a Close in between).
InflightExact == inflight = Cardinality(ReservedSlots)

\* f.hydrated classifies by position: the restored entries are exactly the
\* first f.hydrated entries, whatever Pop, Del and Clear removed.
HydratedPrefix ==
    /\ hydrated <= Len(live)
    /\ \A i \in 1..Len(live) : live[i].restored <=> i <= hydrated

\* A goroutine that stays parked on notEmpty has nothing to wait for having
\* been woken: the queue is empty, and if it is closed the broadcast of Close
\* that will wake it is still to come.
NoLostWakeupEmpty ==
    \A p \in notEmpty :
        /\ live = <<>>
        /\ closed => \E q \in Procs : pc[q] = "bcast1"

\* A producer that stays parked on notFull still does not fit: no path frees
\* capacity (a removal, an abandoned reservation) without waking it.
NoLostWakeupFull ==
    \A p \in notFull :
        /\ IF call[p].op = "push" THEN ~Gate(Len(call[p].vs)) ELSE ~Room
        /\ closed => \E q \in Procs : pc[q] \in {"bcast1", "bcast2"}

\* Both together: nobody is parked on a condition that holds.
NoLostWakeup == NoLostWakeupEmpty /\ NoLostWakeupFull

\* The Backup is a true mirror of the queue, value by value and in order,
\* through every failure of a side effect or of the Backup itself.
MirrorAgrees == attached => mirror = Values(live)

\* The batches whose hooks are running, as the reservations of BoundedQueue.
Reservations == [p \in Procs |-> IF pc[p] = "hook" THEN call[p].vs ELSE <<>>]

Abstract == INSTANCE BoundedQueue WITH queue <- live, reserved <- Reservations

\* The backing implements the abstract bounded queue: what its operations do
\* to the contents, hooks and failures included, is what the interface says.
ImplementsQueue == Abstract!Spec

\* What each of the two Signals sees of the goroutines: one that is registered
\* waits, one that was woken and has not returned from Wait is released.
FullOps  == {"push", "notFull"}
EmptyOps == {"pop", "notEmpty"}
Waiter(set, ops) ==
    [p \in Procs |-> IF p \in set THEN "waiting"
                     ELSE IF pc[p] = "wait" /\ call[p].op \in ops THEN "released"
                     ELSE "out"]
FullWaiter  == Waiter(notFull, FullOps)
EmptyWaiter == Waiter(notEmpty, EmptyOps)

NotFullSignal  == INSTANCE SignalSpec WITH waiter <- FullWaiter
NotEmptySignal == INSTANCE SignalSpec WITH waiter <- EmptyWaiter

\* The backing uses its two Signals only as their contract allows, and every
\* Wait that is released returns.
UsesSignals == NotFullSignal!Spec /\ NotEmptySignal!Spec

\* Close releases every blocked call, and every Push whose hook was running;
\* a call whose ctx is done returns.
Released == \A p \in Procs : (closed \/ cancelled[p]) ~> ~InCall(p)

\* No Pop or NotEmpty stays blocked on a queue that stays non-empty.
ConsumerServed ==
    \A p \in Procs :
        ~<>[](InCall(p) /\ call[p].op \in {"pop", "notEmpty"}
                /\ pc[p] \in {"wait", "retry"} /\ live # <<>>)

\* No Push stays blocked on a queue that keeps room for its batch.
ProducerServed ==
    \A p \in Procs :
        ~<>[](pc[p] \in {"wait", "retry"} /\ call[p].op = "push"
                /\ Gate(Len(call[p].vs)))

\* A call that is parked, was woken and is yet to look again, or is about to
\* report that its ctx is done.
Blocked(p) == pc[p] \in {"wait", "retry", "err"}

\* What a blocked call of a closed queue may return.
ClosedFirst ==
    \A p \in Procs : closed /\ Blocked(p) /\ pc'[p] \in Idle => pc'[p] = "errClosed"

\* Every call that is blocked when Close takes effect answers ErrClosed in the
\* end, and nothing else before: whether it is still parked, was cancelled, or
\* was woken by a Push or a Pop whose item or room it would find there.
ClosedAnswered == \A p \in Procs : closed /\ Blocked(p) ~> pc[p] = "errClosed"

\* No call blocks for ever that should not: what a call waits for and stays
\* true is what it gets, and Close or a done ctx ends every wait.
CallsEnd == Released /\ ConsumerServed /\ ProducerServed
=============================================================================
