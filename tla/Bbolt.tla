-------------------------------- MODULE Bbolt -------------------------------
(***************************************************************************)
(* The on-disk backing (queue/internal/backings/bbolt/bbolt.go): callers   *)
(* stage batches in a buffer and one flusher goroutine commits them in     *)
(* groups.                                                                 *)
(*                                                                         *)
(* Push, Pop, Del and the counting half of a commit run under the queue    *)
(* lock, so each is one action; the flusher's db.Update does not hold that *)
(* lock, so the store and p.count disagree between the steps "land" and    *)
(* "count" of a commit.  Every point where the flusher or a caller holds   *)
(* no lock is a program counter.  How Close joins the flusher and releases *)
(* the store is module Shutdown; here a closer only cancels the flush ctx. *)
(*                                                                         *)
(* A flushResult is seen from the callers that hold it: result[p] is "cur" *)
(* while p holds p.cur, "snap" while it holds the one of the batch being   *)
(* settled, and "ok" or "err" once done is closed.  A Backup is attached.  *)
(* The flushReq channel only hurries the flusher, whose ticker makes every *)
(* flush possible anyway, so it is not modelled.                           *)
(***************************************************************************)
EXTENDS Integers, FiniteSets, SequencesExt

CONSTANTS
    Procs,          \* goroutines calling the queue
    Items,          \* item values; Item.Equal is equality of values
    Priority,       \* Item.Priority, constant on a FIFO
    MaxSize,        \* p.maxSize, 0 when unbounded
    MaxBatch,       \* p.maxBatch
    Batches,        \* the batches a Push may carry
    PopSizes,       \* the n a Pop may carry
    DelArgs,        \* the sets of values a Del may name
    Stored,         \* the contents the store may hold when it is opened
    Indexed,        \* WithIndex
    StoreFails,     \* a bbolt transaction or the codec may fail
    HashUnwinds,    \* Item.Hash may panic on the goroutine of a Pop
    MaxSeq          \* bound on the bucket's sequence numbers

ASSUME PriorityAssumption == Priority \in [Items -> Nat]
ASSUME SizesAssumption == MaxSize \in Nat /\ MaxBatch \in Nat \ {0} /\ MaxSeq \in Nat
ASSUME BatchesAssumption == \A vs \in Batches : vs \in Seq(Items) /\ Len(vs) \in 1..MaxBatch
ASSUME ArgsAssumption == PopSizes \subseteq Nat \ {0} /\ DelArgs \subseteq SUBSET Items
ASSUME StoredAssumption == Stored \subseteq Seq(Items)
ASSUME FlagsAssumption == {Indexed, StoreFails, HashUnwinds} \subseteq BOOLEAN

VARIABLES
    db,         \* the items bucket: rows [seq, val]
    nextSeq,    \* the bucket's sequence counter
    count,      \* p.count
    inflight,   \* p.inflight
    idx,        \* p.idx: the rows it knows ({} without WithIndex)
    mirror,     \* how many of each value the Backup holds
    closed,     \* p.closed
    notFull,    \* waiters registered on p.notFull and not yet woken
    notEmpty,   \* waiters registered on p.notEmpty and not yet woken
    buf,        \* p.buf: the items staged, in order
    result,     \* the flushResult (or Clear reply) each goroutine holds
    gone,       \* the flush ctx is done
    clearReq,   \* the buffered channel of one Clear command
    fpc,        \* where the flusher is
    after,      \* where it goes once the current doFlush returns
    snap,       \* the batch it is committing
    landed,     \* rows of that batch in the store that p.count does not know
    failed,     \* the batch it is committing failed
    dying,      \* caller code ended the flusher's goroutine
    cmd,        \* the caller of the Clear it runs, or None, or Nobody
    reply,      \* the answer it has for cmd
    pc, call, cancelled     \* per goroutine, as in Fifo

storeVars   == <<db, nextSeq>>
lockVars    == <<count, inflight, idx, closed, buf>>
signalVars  == <<notFull, notEmpty>>
flusherVars == <<fpc, after, snap, landed, failed, dying, cmd, reply>>
procVars    == <<pc, call, cancelled>>
vars == <<storeVars, lockVars, signalVars, mirror, result, gone, clearReq,
          flusherVars, procVars>>

None   == "none"    \* no Clear is running
Nobody == "nobody"  \* its caller has already returned

InCall(p) == pc[p] # "idle"

MkCall(op, vs, n) == [op |-> op, vs |-> vs, n |-> n]
NoCall == MkCall("other", <<>>, 0)

-----------------------------------------------------------------------------
(***************************************************************************)
(* Rows, keys and the Backup.                                              *)
(***************************************************************************)

\* Byte order of the storage keys: complemented priority, then sequence.
KeyLess(e, f) ==
    \/ Priority[e.val] > Priority[f.val]
    \/ Priority[e.val] = Priority[f.val] /\ e.seq < f.seq

\* The first k rows of a cursor.
FirstRows(k) == {e \in db : Cardinality({f \in db : KeyLess(f, e)}) < k}

Rows(from, vs) == {[seq |-> from + i, val |-> vs[i]] : i \in 1..Len(vs)}

CountOf(vs, v) == Cardinality({i \in 1..Len(vs) : vs[i] = v})
RowsOf(S, v) == Cardinality({e \in S : e.val = v})

\* Backup.Push, and Backup.Del of items the Backup holds.
BackupPush(vs) == mirror' = [v \in Items |-> mirror[v] + CountOf(vs, v)]
BackupDel(S) ==
    mirror' = [v \in Items |-> IF RowsOf(S, v) > mirror[v] THEN 0
                               ELSE mirror[v] - RowsOf(S, v)]

\* How caller code ends on the flusher's goroutine.
Outcome == {"ok", "err", "goexit"}

SignalNotFull  == notFull' = {}
SignalNotEmpty == notEmpty' = {}

\* The flushResult p.cur becomes the one being settled; a new one takes over.
Rotate == result' = [p \in Procs |-> IF result[p] = "cur" THEN "snap" ELSE result[p]]
\* close(r.done) with r.err in place.
Answer(r) == result' = [p \in Procs |-> IF result[p] = "snap" THEN r ELSE result[p]]

Return(p) ==
    /\ pc' = [pc EXCEPT ![p] = "idle"]
    /\ call' = [call EXCEPT ![p] = NoCall]
    /\ cancelled' = [cancelled EXCEPT ![p] = FALSE]

Continue(p, c, label) ==
    /\ pc' = [pc EXCEPT ![p] = label]
    /\ call' = [call EXCEPT ![p] = c]
    /\ UNCHANGED cancelled

-----------------------------------------------------------------------------
(***************************************************************************)
(* Push.                                                                   *)
(***************************************************************************)
Gate(n) == MaxSize = 0 \/ count + inflight + n <= MaxSize
Room == MaxSize = 0 \/ count + inflight < MaxSize

\* What MaxSeq bounds: the sequence numbers given out or asked for, and what
\* failed commits have left in the Backup.
Numbered == Max({nextSeq} \cup {mirror[v] : v \in Items}) + Len(buf) + Len(snap)

\* One pass of Push's loop.  A side effect that fails or unwinds stages
\* nothing.
PushPass(p, c) ==
    LET n == Len(c.vs) IN
    \/ /\ closed \/ (MaxSize > 0 /\ n > MaxSize)
       /\ Return(p)
       /\ UNCHANGED <<lockVars, notFull, result>>
    \/ /\ ~closed /\ ~(MaxSize > 0 /\ n > MaxSize) /\ ~Gate(n)
       /\ notFull' = notFull \cup {p}
       /\ Continue(p, c, "wait")
       /\ UNCHANGED <<lockVars, result>>
    \/ /\ ~closed /\ Gate(n) /\ Len(buf) + n <= MaxBatch
       /\ Numbered + n <= MaxSeq
       /\ buf' = buf \o c.vs
       /\ inflight' = inflight + n
       /\ result' = [result EXCEPT ![p] = "cur"]
       /\ Continue(p, c, "staged")
       /\ UNCHANGED <<count, idx, closed, notFull>>
    \/ /\ ~closed /\ Gate(n) /\ Len(buf) + n <= MaxBatch   \* side effect failed
       /\ Return(p)
       /\ UNCHANGED <<lockVars, notFull, result>>
    \/ /\ ~closed /\ Gate(n) /\ Len(buf) + n > MaxBatch
       /\ result' = [result EXCEPT ![p] = "cur"]
       /\ Continue(p, c, "room")
       /\ UNCHANGED <<lockVars, notFull>>

\* <-r.done after staging: nothing else ends this wait.
PushDone(p) ==
    /\ pc[p] = "staged" /\ result[p] \in {"ok", "err"}
    /\ result' = [result EXCEPT ![p] = None]
    /\ Return(p)
    /\ UNCHANGED <<storeVars, lockVars, signalVars, mirror, gone, clearReq, flusherVars>>

\* The wait for buffer room ends with the batch in front, or with ctx.
RoomDone(p) ==
    /\ pc[p] = "room"
    /\ \/ result[p] \in {"ok", "err"} /\ Continue(p, call[p], "retry")
       \/ cancelled[p] /\ Return(p)
    /\ result' = [result EXCEPT ![p] = None]
    /\ UNCHANGED <<storeVars, lockVars, signalVars, mirror, gone, clearReq, flusherVars>>

-----------------------------------------------------------------------------
(***************************************************************************)
(* Pop, Del, NotEmpty and NotFull.                                         *)
(***************************************************************************)

\* The deletes of a Pop or Del land: the Backup's first, then the
\* store's, the index and the counter, then the wakeup.
Removed(S) ==
    /\ db' = db \ S
    /\ BackupDel(S)
    /\ idx' = idx \ S
    /\ count' = count - Cardinality(S)
    /\ SignalNotFull

\* Mutation: the rows are uncounted before the transaction that deletes them.
RemoveFailsUncounted(S) ==
    /\ count' = count - Cardinality(S)
    /\ UNCHANGED <<mirror, db, idx, notFull>>

\* The side effect, the Backup or the transaction failed.  A transaction that
\* fails after the Backup is undone by Restore, which may itself fail.
RemoveFails(S) ==
    /\ \/ UNCHANGED mirror
       \/ StoreFails /\ BackupDel(S)
    /\ UNCHANGED <<db, idx, count, notFull>>

\* idx.remove runs Item.Hash after the transaction, row by row in key order: an
\* unwind there leaves the last of them, T, in the index, releases the lock and
\* skips everything below it.
RemoveUnwinds(S) ==
    /\ Indexed /\ HashUnwinds
    /\ db' = db \ S
    /\ BackupDel(S)
    /\ \E T \in SUBSET S :
         /\ T # {} /\ \A e \in S \ T, f \in T : KeyLess(e, f)
         /\ idx' = idx \ (S \ T)
    /\ UNCHANGED <<count, notFull>>

PopPass(p, c) ==
    LET k == IF c.n > count THEN count ELSE c.n IN
    \/ /\ closed
       /\ Return(p)
       /\ UNCHANGED <<db, mirror, lockVars, notFull, notEmpty>>
    \/ /\ ~closed /\ count > 0
       /\ \/ Cardinality(db) >= k /\ (Removed(FirstRows(k)) \/ RemoveUnwinds(FirstRows(k)))
          \/ RemoveFails(FirstRows(k))
       /\ Return(p)
       /\ UNCHANGED <<inflight, closed, buf, notEmpty>>
    \/ /\ ~closed /\ count <= 0
       /\ notEmpty' = notEmpty \cup {p}
       /\ Continue(p, c, "wait")
       /\ UNCHANGED <<db, mirror, lockVars, notFull>>

\* Without an index Del scans the store; with one, the rows the index knows.
\* The View and the Update are two transactions, but between them the flusher
\* can only add rows, which Del then leaves alone.
Matched(vs) == {e \in IF Indexed THEN idx \cap db ELSE db : e.val \in vs}

Del(p, vs) ==
    /\ ~InCall(p)
    /\ IF closed \/ count = 0 \/ Matched(vs) = {}
       THEN UNCHANGED <<db, mirror, idx, count, notFull>>
       ELSE Removed(Matched(vs)) \/ RemoveFails(Matched(vs))
    /\ UNCHANGED <<nextSeq, inflight, closed, buf, notEmpty, result, gone,
                   clearReq, flusherVars, procVars>>

NotEmptyPass(p, c) ==
    \/ /\ closed \/ count > 0
       /\ Return(p)
       /\ UNCHANGED notEmpty
    \/ /\ ~closed /\ count <= 0
       /\ notEmpty' = notEmpty \cup {p}
       /\ Continue(p, c, "wait")

NotFullPass(p, c) ==
    \/ /\ closed \/ Room
       /\ Return(p)
       /\ UNCHANGED notFull
    \/ /\ ~closed /\ ~Room
       /\ notFull' = notFull \cup {p}
       /\ Continue(p, c, "wait")

Pass(p, c) ==
    /\ \/ c.op = "push" /\ PushPass(p, c) /\ UNCHANGED <<db, mirror, notEmpty>>
       \/ c.op = "pop" /\ PopPass(p, c) /\ UNCHANGED result
       \/ /\ c.op = "notEmpty" /\ NotEmptyPass(p, c)
          /\ UNCHANGED <<db, mirror, lockVars, result, notFull>>
       \/ /\ c.op = "notFull" /\ NotFullPass(p, c)
          /\ UNCHANGED <<db, mirror, lockVars, result, notEmpty>>
    /\ UNCHANGED <<nextSeq, gone, clearReq, flusherVars>>

Push(p)     == \E vs \in Batches : ~InCall(p) /\ Pass(p, MkCall("push", vs, 0))
Pop(p)      == \E n \in PopSizes : ~InCall(p) /\ Pass(p, MkCall("pop", <<>>, n))
NotEmpty(p) == ~InCall(p) /\ Pass(p, MkCall("notEmpty", <<>>, 0))
NotFull(p)  == ~InCall(p) /\ Pass(p, MkCall("notFull", <<>>, 0))
Retry(p)    == pc[p] = "retry" /\ Pass(p, call[p])

-----------------------------------------------------------------------------
(***************************************************************************)
(* Clear, as its caller sees it, and Close.                                *)
(***************************************************************************)
Clear(p) ==
    /\ ~InCall(p)
    /\ Continue(p, NoCall, "clearSend")
    /\ UNCHANGED <<storeVars, lockVars, signalVars, mirror, result, gone, clearReq, flusherVars>>

\* The first select: the command is buffered, or the call ends here.
ClearSend(p) ==
    /\ pc[p] = "clearSend"
    /\ \/ /\ clearReq = <<>>
          /\ clearReq' = <<p>>
          /\ Continue(p, NoCall, "clearWait")
       \/ /\ gone \/ cancelled[p]
          /\ Return(p)
          /\ UNCHANGED clearReq
    /\ UNCHANGED <<storeVars, lockVars, signalVars, mirror, result, gone, flusherVars>>

\* The second select prefers a reply; without one a done flush ctx ends the
\* call and leaves the command behind.
ClearDone(p) ==
    /\ pc[p] = "clearWait"
    /\ \/ /\ result[p] # None
          /\ UNCHANGED <<clearReq, cmd>>
       \/ /\ result[p] = None /\ gone
          /\ clearReq' = [i \in 1..Len(clearReq) |-> IF clearReq[i] = p THEN Nobody ELSE clearReq[i]]
          /\ cmd' = IF cmd = p THEN Nobody ELSE cmd
    /\ result' = [result EXCEPT ![p] = None]
    /\ Return(p)
    /\ UNCHANGED <<storeVars, lockVars, signalVars, mirror, gone, fpc, after, snap, landed,
                   failed, dying, reply>>

\* A close whose side effect fails leaves the backing open.
Close(p) ==
    /\ ~InCall(p)
    /\ \/ closed' = TRUE /\ Continue(p, NoCall, "bcast1")
       \/ UNCHANGED <<closed, procVars>>
    /\ UNCHANGED <<storeVars, count, inflight, idx, buf, signalVars, mirror, result, gone,
                   clearReq, flusherVars>>

\* Two broadcasts, then shutdown cancels the flush ctx; the join and the
\* release that follow are module Shutdown.
CloseStep(p) ==
    /\ \/ /\ pc[p] = "bcast1"
          /\ SignalNotEmpty
          /\ Continue(p, NoCall, "bcast2")
          /\ UNCHANGED <<notFull, gone>>
       \/ /\ pc[p] = "bcast2"
          /\ SignalNotFull
          /\ Continue(p, NoCall, "cancel")
          /\ UNCHANGED <<notEmpty, gone>>
       \/ /\ pc[p] = "cancel"
          /\ gone' = TRUE
          /\ Return(p)
          /\ UNCHANGED signalVars
    /\ UNCHANGED <<storeVars, lockVars, mirror, result, clearReq, flusherVars>>

-----------------------------------------------------------------------------
(***************************************************************************)
(* The flusher.                                                            *)
(***************************************************************************)

\* flushLoop's select.  The flushReq and ticker arms are one.
SelectFlush ==
    /\ fpc = "loop" /\ buf # <<>>
    /\ fpc' = "flush" /\ after' = "loop"
    /\ UNCHANGED <<storeVars, lockVars, signalVars, mirror, result, gone, clearReq,
                   snap, landed, failed, dying, cmd, reply, procVars>>

SelectClear ==
    /\ fpc = "loop" /\ clearReq # <<>>
    /\ fpc' = "flush" /\ after' = "clear"
    /\ cmd' = Head(clearReq) /\ clearReq' = <<>>
    /\ UNCHANGED <<storeVars, lockVars, signalVars, mirror, result, gone,
                   snap, landed, failed, dying, reply, procVars>>

SelectDone ==
    /\ fpc = "loop" /\ gone
    /\ fpc' = "flush" /\ after' = "close"
    /\ UNCHANGED <<storeVars, lockVars, signalVars, mirror, result, gone, clearReq,
                   snap, landed, failed, dying, cmd, reply, procVars>>

\* Mutation: the flushResult is not rotated with the buffer.
FlushUnrotated ==
    /\ fpc = "flush"
    /\ IF buf = <<>>
       THEN fpc' = after /\ after' = "loop" /\ UNCHANGED <<snap, buf>>
       ELSE fpc' = "commit" /\ snap' = buf /\ buf' = <<>> /\ UNCHANGED after
    /\ UNCHANGED <<storeVars, count, inflight, idx, closed, signalVars, mirror, result, gone,
                   clearReq, landed, failed, dying, cmd, reply, procVars>>

\* doFlush up to the unlock: nothing staged, nothing to do.
DoFlush ==
    /\ fpc = "flush"
    /\ IF buf = <<>>
       THEN fpc' = after /\ after' = "loop" /\ UNCHANGED <<snap, buf, result>>
       ELSE fpc' = "commit" /\ snap' = buf /\ buf' = <<>> /\ Rotate /\ UNCHANGED after
    /\ UNCHANGED <<storeVars, count, inflight, idx, closed, signalVars, mirror, gone, clearReq,
                   landed, failed, dying, cmd, reply, procVars>>

\* The batch cannot be committed: an error return and a panic converted by
\* the guard of doFlush lead to the same steps, a Goexit also ends the loop.
Fail(how) ==
    /\ fpc' = "release"
    /\ failed' = TRUE
    /\ dying' = (how = "goexit")

CommitBackup ==
    /\ fpc = "commit"
    /\ \/ BackupPush(snap) /\ fpc' = "land" /\ UNCHANGED <<failed, dying>>
       \/ \E how \in Outcome \ {"ok"} : Fail(how) /\ UNCHANGED mirror
    /\ UNCHANGED <<storeVars, lockVars, signalVars, result, gone, clearReq,
                   after, snap, landed, cmd, reply, procVars>>

\* db.Update, without the queue lock; a failure rolls it back.
CommitStore ==
    /\ fpc = "land"
    /\ \/ /\ landed' = Rows(nextSeq, snap)
          /\ db' = db \cup landed'
          /\ nextSeq' = nextSeq + Len(snap)
          /\ fpc' = "count"
          /\ UNCHANGED <<failed, dying>>
       \/ /\ StoreFails
          /\ \E how \in Outcome \ {"ok"} : Fail(how)
          /\ UNCHANGED <<storeVars, landed>>
    /\ UNCHANGED <<lockVars, signalVars, mirror, result, gone, clearReq,
                   after, snap, cmd, reply, procVars>>

Counts(next) ==
    /\ fpc = "count"
    /\ count' = count + Len(snap)
    /\ inflight' = inflight - Len(snap)
    /\ idx' = IF Indexed THEN idx \cup landed ELSE idx
    /\ landed' = {}
    /\ fpc' = next
    /\ UNCHANGED <<storeVars, closed, buf, signalVars, mirror, result, gone, clearReq,
                   after, snap, failed, dying, cmd, reply, procVars>>

\* Mutation: the signal depends on the counter after the batch.
CommitCountsFirst == Counts(IF count + Len(snap) = 0 THEN "signal" ELSE "settle")

\* The counters and the index catch up under the lock.
CommitCount == Counts(IF count = 0 THEN "signal" ELSE "settle")

CommitSignal ==
    /\ fpc = "signal"
    /\ SignalNotEmpty
    /\ fpc' = "settle"
    /\ UNCHANGED <<storeVars, lockVars, notFull, mirror, result, gone, clearReq,
                   after, snap, landed, failed, dying, cmd, reply, procVars>>

\* releaseInflight: the subtraction under the lock, the wakeup after it.
ReleaseInflight ==
    /\ fpc = "release"
    /\ inflight' = inflight - Len(snap)
    /\ fpc' = "wake"
    /\ UNCHANGED <<storeVars, count, idx, closed, buf, signalVars, mirror, result, gone, clearReq,
                   after, snap, landed, failed, dying, cmd, reply, procVars>>

ReleaseWake ==
    /\ fpc = "wake"
    /\ SignalNotFull
    /\ fpc' = "settle"
    /\ UNCHANGED <<storeVars, lockVars, notEmpty, mirror, result, gone, clearReq,
                   after, snap, landed, failed, dying, cmd, reply, procVars>>

\* doFlush closes r.done and returns, or keeps unwinding.
Settle ==
    /\ fpc = "settle"
    /\ Answer(IF failed THEN "err" ELSE "ok")
    /\ snap' = <<>>
    /\ failed' = FALSE
    /\ fpc' = IF dying THEN "close" ELSE after
    /\ after' = "loop"
    /\ UNCHANGED <<storeVars, lockVars, signalVars, mirror, gone, clearReq,
                   landed, dying, cmd, reply, procVars>>

-----------------------------------------------------------------------------
(***************************************************************************)
(* Clear on the flusher, and the flusher's own close.                      *)
(***************************************************************************)
EmptiedTo(c, i, m) ==
    /\ db' = {} /\ nextSeq' = 0
    /\ mirror' = m
    /\ count' = c
    /\ idx' = i
    /\ SignalNotFull

NoItems == [v \in Items |-> 0]

\* Mutation: the index still knows the rows of the old bucket.
EmptiedKeepsIndex == EmptiedTo(0, idx, NoItems)

\* The Backup is cleared, the bucket is replaced by an empty one, and the
\* counter and the index follow.
Emptied == EmptiedTo(0, {}, NoItems)

\* The part of doClear under the lock: the closed check, the ctx check, the
\* side effect, the Backup, the bucket.  The ctx of a caller that has left is
\* done or not.
DoClear ==
    /\ fpc = "clear"
    /\ \/ /\ ~closed /\ count # 0
          /\ cmd # Nobody => ~cancelled[cmd]
          /\ Emptied
          /\ reply' = "ok" /\ UNCHANGED dying
       \/ /\ ~closed /\ count = 0
          /\ cmd # Nobody => ~cancelled[cmd]
          /\ reply' = "ok"
          /\ UNCHANGED <<storeVars, mirror, count, idx, notFull, dying>>
       \/ /\ reply' = "err"
          /\ dying' \in IF closed THEN {FALSE} ELSE BOOLEAN
          /\ mirror' \in IF ~closed /\ count # 0 /\ StoreFails
                         THEN {mirror, NoItems} ELSE {mirror}
          /\ UNCHANGED <<storeVars, count, idx, notFull>>
    /\ fpc' = "reply"
    /\ UNCHANGED <<inflight, closed, buf, notEmpty, result, gone, clearReq,
                   after, snap, landed, failed, cmd, procVars>>

\* cmd.done has room for one reply, so a caller that left costs nothing.
Reply ==
    /\ fpc = "reply"
    /\ result' = IF cmd = Nobody THEN result
                 ELSE [result EXCEPT ![cmd] = IF dying THEN "err" ELSE reply]
    /\ cmd' = None
    /\ reply' = None
    /\ fpc' = IF dying THEN "close" ELSE "loop"
    /\ UNCHANGED <<storeVars, lockVars, signalVars, mirror, gone, clearReq,
                   after, snap, landed, failed, dying, procVars>>

\* closeFromFlusher: closed, and the batch staged meanwhile is written off ...
CloseFromFlusher ==
    /\ fpc = "close"
    /\ closed' = TRUE
    /\ inflight' = inflight - Len(buf)
    /\ buf' = <<>>
    /\ Rotate
    /\ fpc' = "writeOff"
    /\ UNCHANGED <<storeVars, count, idx, signalVars, mirror, gone, clearReq,
                   after, snap, landed, failed, dying, cmd, reply, procVars>>

\* ... its pushers are answered, and everyone parked is woken.
WriteOff ==
    /\ fpc = "writeOff"
    /\ Answer("err")
    /\ fpc' = "bcastFull"
    /\ UNCHANGED <<storeVars, lockVars, signalVars, mirror, gone, clearReq,
                   after, snap, landed, failed, dying, cmd, reply, procVars>>

FlusherBroadcast ==
    /\ \/ fpc = "bcastFull" /\ SignalNotFull /\ fpc' = "bcastEmpty" /\ UNCHANGED notEmpty
       \/ fpc = "bcastEmpty" /\ SignalNotEmpty /\ fpc' = "exit" /\ UNCHANGED notFull
    /\ UNCHANGED <<storeVars, lockVars, mirror, result, gone, clearReq,
                   after, snap, landed, failed, dying, cmd, reply, procVars>>

\* An unwind that came through runClear still owes its caller a reply, and
\* only then cancels the flush ctx; any other unwind cancels it here.
FlusherExit ==
    /\ fpc = "exit"
    /\ IF dying /\ cmd # None
       THEN fpc' = "reply" /\ UNCHANGED gone
       ELSE fpc' = "dead" /\ gone' = (gone \/ dying)
    /\ UNCHANGED <<storeVars, lockVars, signalVars, mirror, result, clearReq,
                   after, snap, landed, failed, dying, cmd, reply, procVars>>

Flusher ==
    \/ SelectFlush \/ SelectClear \/ SelectDone \/ DoFlush
    \/ CommitBackup \/ CommitStore \/ CommitCount \/ CommitSignal
    \/ ReleaseInflight \/ ReleaseWake \/ Settle
    \/ DoClear \/ Reply \/ CloseFromFlusher \/ WriteOff \/ FlusherBroadcast \/ FlusherExit

-----------------------------------------------------------------------------
(***************************************************************************)
(* Waiting, cancellation and the specification.                            *)
(***************************************************************************)
Waiting(p) == p \in notFull \cup notEmpty

\* The ctx of a call that looks at its ctx may be done at any moment of it.
CtxDone(p) ==
    /\ pc[p] \in {"wait", "room", "clearSend", "clearWait"} /\ ~cancelled[p]
    /\ cancelled' = [cancelled EXCEPT ![p] = TRUE]
    /\ UNCHANGED <<storeVars, lockVars, signalVars, mirror, result, gone, clearReq,
                   flusherVars, pc, call>>

\* The owner may cancel the ctx the backing was constructed with.
OwnerCancels ==
    /\ ~gone
    /\ gone' = TRUE
    /\ UNCHANGED <<storeVars, lockVars, signalVars, mirror, result, clearReq,
                   flusherVars, procVars>>

CtxWake(p) ==
    /\ Waiting(p) /\ cancelled[p]
    /\ notFull' = notFull \ {p}
    /\ notEmpty' = notEmpty \ {p}
    /\ UNCHANGED <<storeVars, lockVars, mirror, result, gone, clearReq, flusherVars, procVars>>

\* Signal.Wait returns to a woken waiter, which tries again or, its ctx being
\* done, reports ErrClosed or the cause.
WaitReturn(p) ==
    /\ pc[p] = "wait" /\ ~Waiting(p)
    /\ IF cancelled[p] THEN Return(p) ELSE Continue(p, call[p], "retry")
    /\ UNCHANGED <<storeVars, lockVars, signalVars, mirror, result, gone, clearReq, flusherVars>>

\* A store that was reopened and agrees with its Backup, or an empty one that
\* Hydrate has filled from it; either way the index is built from the rows.
Hydrate(m) ==
    /\ db = Rows(0, m)
    /\ nextSeq = Len(m)
    /\ count = Len(m)
    /\ idx = IF Indexed THEN Rows(0, m) ELSE {}
    /\ mirror = [v \in Items |-> CountOf(m, v)]

Init ==
    /\ \E m \in Stored : Hydrate(m)
    /\ inflight = 0 /\ closed = FALSE /\ buf = <<>>
    /\ notFull = {} /\ notEmpty = {}
    /\ gone = FALSE /\ clearReq = <<>>
    /\ fpc = "loop" /\ after = "loop" /\ snap = <<>> /\ landed = {}
    /\ failed = FALSE /\ dying = FALSE /\ cmd = None /\ reply = None
    /\ result = [p \in Procs |-> None]
    /\ pc = [p \in Procs |-> "idle"]
    /\ call = [p \in Procs |-> NoCall]
    /\ cancelled = [p \in Procs |-> FALSE]

Progress(p) ==
    \/ PushDone(p) \/ RoomDone(p) \/ ClearSend(p) \/ ClearDone(p) \/ CloseStep(p)
    \/ CtxWake(p) \/ WaitReturn(p) \/ Retry(p)

Calls(p) ==
    \/ Push(p) \/ Pop(p) \/ NotEmpty(p) \/ NotFull(p)
    \/ (\E vs \in DelArgs : Del(p, vs)) \/ Clear(p) \/ Close(p)

Next ==
    \/ Flusher \/ OwnerCancels
    \/ \E p \in Procs : Calls(p) \/ CtxDone(p) \/ Progress(p)

\* The runtime schedules every runnable goroutine; caller code returns; a
\* select that keeps finding several arms ready takes each of them in time.
Fairness ==
    /\ WF_vars(Flusher)
    /\ SF_vars(SelectClear) /\ SF_vars(SelectDone)
    /\ \A p \in Procs : WF_vars(Progress(p))

Spec == Init /\ [][Next]_vars /\ Fairness

-----------------------------------------------------------------------------
(***************************************************************************)
(* Properties.                                                             *)
(***************************************************************************)

\* Rows that are in the store while the counters still lag behind.
Lag == IF fpc = "count" THEN Len(snap) ELSE 0

\* p.count is the number of stored rows, but for the batch that has landed
\* and is not counted yet.
CountExact == count + Lag = Cardinality(db)

\* p.count may be too high once Item.Hash has unwound out of a Pop, whose rows
\* were deleted and not uncounted, but never too low: no stored row is out of
\* the reach of a Pop that trusts count, whatever fails or unwinds.
CountNeverShort == count + Lag >= Cardinality(db)

\* p.inflight is what is staged or being committed.
InflightExact ==
    inflight = Len(buf) + IF fpc \in {"commit", "land", "count", "release"} THEN Len(snap) ELSE 0

\* With an index, every stored row that is counted is known to it, and a row
\* it knows under a live key is that very row.
IndexCovers ==
    Indexed =>
        /\ db \subseteq idx \cup landed
        /\ \A e \in idx, f \in db : e.seq = f.seq => e = f

\* A goroutine parked on notEmpty finds nothing to take, unless the signal
\* that will wake it is on its way.
NoLostWakeupEmpty ==
    notEmpty # {} =>
        /\ count > 0 => fpc = "signal" \/ closed
        /\ closed => \/ fpc \in {"writeOff", "bcastFull", "bcastEmpty"}
                     \/ \E q \in Procs : pc[q] = "bcast1"

\* What a goroutine parked on notFull waits for.
Fits(p) == IF call[p].op = "push" THEN Gate(Len(call[p].vs)) ELSE Room

\* A producer parked on notFull does not fit, unless its signal is on its way,
\* and a close that has been decided is yet to wake it.
NoLostWakeupFull ==
    \A p \in notFull :
        /\ Fits(p) => fpc = "wake" \/ closed
        /\ closed => \/ fpc \in {"writeOff", "bcastFull"}
                     \/ \E q \in Procs : pc[q] \in {"bcast1", "bcast2"}

\* A flusher that is gone leaves no pusher waiting for it.
NoStrandedPush ==
    fpc = "dead" => closed /\ \A p \in Procs : result[p] \notin {"cur", "snap"}

\* Nobody is parked on a condition that holds, on an indexed queue that serves
\* in insertion order, and whatever ended the flusher, every staged batch has
\* been answered.
NobodyStranded == NoLostWakeupEmpty /\ NoLostWakeupFull /\ NoStrandedPush

\* As long as transactions do not fail, the Backup mirrors the store, but for
\* the batch it has been given that has not landed.
MirrorAgrees ==
    ~StoreFails =>
        \A v \in Items :
            mirror[v] = RowsOf(db, v) + IF fpc = "land" THEN CountOf(snap, v) ELSE 0

\* The four books kept about one set of rows agree, although commits land
\* without the lock Pop and Del hold: a Pop that trusts count never runs past
\* the end of the store, reservations are given back exactly once however a
\* commit ends, Del and Exists miss nothing and remove nothing else although
\* Clear reuses sequence numbers, and the Backup has what the store has.
BooksAgree == CountExact /\ InflightExact /\ IndexCovers /\ MirrorAgrees

\* What is left of that agreement whatever fails or unwinds: no stored row is
\* out of the reach of a Pop that trusts count or of a Del that trusts the
\* index, and no reservation is lost or given back twice.
BooksSurvive == CountNeverShort /\ InflightExact /\ IndexCovers /\ MirrorAgrees

\* A staged Push is answered, although its ctx cannot end the wait.
PushAnswered == \A p \in Procs : pc[p] \in {"staged", "room"} ~> pc[p] \notin {"staged", "room"}

\* A Clear returns, also when the flusher dies under it.
ClearAnswered == \A p \in Procs : pc[p] = "clearWait" ~> pc[p] # "clearWait"

\* No call waits for the flusher for ever.
FlusherAnswers == PushAnswered /\ ClearAnswered
=============================================================================
