------------------------------ MODULE CowRange ------------------------------
(***************************************************************************)
(* Iteration against writers: QLock (core/qlock.go) and the All and AllCOW *)
(* iterators of the FIFO backing (fifo/fifo.go).                           *)
(*                                                                         *)
(* QLock is a sync.RWMutex with two counters in front of it.  The RWMutex  *)
(* is external: a writer in Lock first becomes the one announced writer,   *)
(* which stops new readers, and acquires when the readers inside have      *)
(* left; its Unlock lets in the readers that were stopped.  A writer bumps *)
(* pending only if it saw a copy-on-write iterator active, and the         *)
(* iterator looks at pending before each item it yields.                   *)
(***************************************************************************)
EXTENDS Integers, FiniteSets, Sequences

CONSTANTS
    Writers, Iters,     \* goroutines that mutate, goroutines that iterate
    Depth,              \* bound: the contents are at most this many items
    None

ASSUME DepthAssumption == Depth \in Nat \ {0}
ASSUME NoneAssumption == None \notin Writers \cup Iters

VARIABLES
    contents, closed,   \* the backing; items are numbered modulo 3
    cowActive, pending, \* the counters of QLock
    announced,          \* the writer inside mu.Lock or holding it, or None
    readers, stopped,   \* holders of the read lock, and readers it keeps out
    wpc, guarded,       \* writers: program counter, and "bumped pending"
    ipc, cow, pos,      \* iterators: program counter, kind, items yielded
    snap,               \* the remainder an AllCOW copied
    start, late         \* ghosts: contents when the read lock was taken, and
                        \* yields under it since a guarded writer waits

lockVars == <<announced, readers, stopped>>
wVars == <<wpc, guarded>>
iVars == <<ipc, cow, pos, snap, start, late>>
vars == <<contents, closed, cowActive, pending, lockVars, wVars, iVars>>

-----------------------------------------------------------------------------
(***************************************************************************)
(* A writer: QLock.Lock, a mutation, Unlock.                               *)
(***************************************************************************)
WGoto(w, label) == wpc' = [wpc EXCEPT ![w] = label]

\* The load of cowActive decides which path Lock takes.
LoadCowActive(w) ==
    /\ wpc[w] = "idle"
    /\ guarded' = [guarded EXCEPT ![w] = cowActive > 0]
    /\ WGoto(w, IF cowActive > 0 THEN "bump" ELSE "lock")
    /\ UNCHANGED <<contents, closed, cowActive, pending, lockVars, iVars>>

BumpPending(w) ==
    /\ wpc[w] = "bump"
    /\ pending' = pending + 1
    /\ WGoto(w, "lock")
    /\ UNCHANGED <<contents, closed, cowActive, lockVars, guarded, iVars>>

Announce(w) ==
    /\ wpc[w] = "lock" /\ announced = None
    /\ announced' = w
    /\ WGoto(w, "drain")
    /\ UNCHANGED <<contents, closed, cowActive, pending, readers, stopped, guarded, iVars>>

\* mu.Lock returns; the guarded path takes its bump back.
Acquire(w) ==
    /\ wpc[w] = "drain" /\ readers = {}
    /\ pending' = IF guarded[w] THEN pending - 1 ELSE pending
    /\ WGoto(w, "crit")
    /\ UNCHANGED <<contents, closed, cowActive, lockVars, guarded, iVars>>

\* What the critical section may do to the contents: push, pop or close.
Mutation ==
    \/ closed /\ UNCHANGED <<contents, closed>>
    \/ /\ ~closed /\ Len(contents) < Depth
       /\ contents' = Append(contents, IF contents = <<>> THEN 0
                                       ELSE (contents[Len(contents)] + 1) % 3)
       /\ UNCHANGED closed
    \/ /\ ~closed /\ contents # <<>>
       /\ contents' = Tail(contents) /\ UNCHANGED closed
    \/ ~closed /\ closed' = TRUE /\ UNCHANGED contents

Unlock(w) ==
    /\ wpc[w] = "crit"
    /\ Mutation
    /\ announced' = None
    /\ readers' = readers \cup stopped /\ stopped' = {}
    /\ WGoto(w, "idle")
    /\ guarded' = [guarded EXCEPT ![w] = FALSE]
    /\ UNCHANGED <<cowActive, pending, iVars>>

-----------------------------------------------------------------------------
(***************************************************************************)
(* An iterator: All or AllCOW.                                             *)
(***************************************************************************)
IGoto(i, label) == ipc' = [ipc EXCEPT ![i] = label]

\* CowEnter for AllCOW, nothing for All.
Enter(i) ==
    /\ ipc[i] = "idle"
    /\ \E c \in BOOLEAN :
        /\ cow' = [cow EXCEPT ![i] = c]
        /\ cowActive' = cowActive + (IF c THEN 1 ELSE 0)
    /\ IGoto(i, "rlock")
    /\ UNCHANGED <<contents, closed, pending, lockVars, wVars, pos, snap, start, late>>

RLock(i) ==
    /\ ipc[i] = "rlock"
    /\ IF announced = None THEN readers' = readers \cup {i} /\ UNCHANGED stopped
                           ELSE stopped' = stopped \cup {i} /\ UNCHANGED readers
    /\ IGoto(i, "rlocked")
    /\ UNCHANGED <<contents, closed, cowActive, pending, announced, wVars, cow, pos, snap, start, late>>

\* RLock has returned.  On a closed queue AllCOW releases the lock and yields
\* ErrClosed; All yields it first and its deferred RUnlock comes after.
CheckClosed(i) ==
    /\ ipc[i] = "rlocked" /\ i \in readers
    /\ start' = [start EXCEPT ![i] = contents]
    /\ \/ closed /\ cow[i] /\ readers' = readers \ {i} /\ IGoto(i, "exit")
       \/ closed /\ ~cow[i] /\ UNCHANGED readers /\ IGoto(i, "refused")
       \/ ~closed /\ UNCHANGED readers /\ IGoto(i, "loop")
    /\ UNCHANGED <<contents, closed, cowActive, pending, announced, stopped, wVars, cow, pos, snap, late>>

\* Mutation: one waiting writer is not enough.
WriteWantedLate == pending > 1

WriteWanted == pending > 0

\* The head of the loop: the end of the contents, a ctx that is done, or the
\* next item; AllCOW first looks for a waiting writer and copies the rest.
CopyFrom(i, k) ==
    /\ ipc[i] = "loop" /\ pos[i] < Len(contents) /\ cow[i] /\ WriteWanted
    /\ snap' = [snap EXCEPT ![i] = SubSeq(contents, k, Len(contents))]
    /\ readers' = readers \ {i}
    /\ IGoto(i, "copied")
    /\ UNCHANGED <<contents, closed, cowActive, pending, announced, stopped, wVars, cow, pos, start, late>>

\* Mutation: the copy repeats the last item yielded.
SnapshotRepeats(i) == CopyFrom(i, IF pos[i] = 0 THEN 1 ELSE pos[i])

Snapshot(i) == CopyFrom(i, pos[i] + 1)

\* The loop body is caller code and runs with the read lock held.
Yield(i) ==
    /\ ipc[i] = "loop" /\ pos[i] < Len(contents)
    /\ ~(cow[i] /\ WriteWanted)
    /\ pos' = [pos EXCEPT ![i] = @ + 1]
    /\ IGoto(i, "body")
    /\ UNCHANGED <<contents, closed, cowActive, pending, lockVars, wVars, cow, snap, start, late>>

\* The body ends and the loop goes on; yields made while a guarded writer
\* was already waiting are counted.
BodyEnd(i) ==
    /\ ipc[i] = "body"
    /\ late' = [late EXCEPT ![i] = IF pending > 0 THEN @ + 1 ELSE 0]
    /\ IGoto(i, "loop")
    /\ UNCHANGED <<contents, closed, cowActive, pending, lockVars, wVars, cow, pos, snap, start>>

YieldCopied(i) ==
    /\ ipc[i] = "copied" /\ snap[i] # <<>>
    /\ pos' = [pos EXCEPT ![i] = @ + 1]
    /\ snap' = [snap EXCEPT ![i] = Tail(@)]
    /\ UNCHANGED <<contents, closed, cowActive, pending, lockVars, wVars, ipc, cow, start, late>>

\* Mutation: the loop is left with the read lock held.
ExitLocked(i) ==
    /\ ipc[i] \in {"refused", "loop", "body", "copied"}
    /\ IGoto(i, "exit")
    /\ UNCHANGED <<contents, closed, cowActive, pending, lockVars, wVars, cow, pos, snap, start, late>>

\* Every way out releases the read lock if it is still held: the last item, a
\* done ctx, a body that breaks out, All's ErrClosed, and, through the deferred
\* release, a body that panics.
ExitLoop(i) ==
    /\ ipc[i] \in {"refused", "loop", "body", "copied"}
    /\ readers' = readers \ {i}
    /\ IGoto(i, "exit")
    /\ UNCHANGED <<contents, closed, cowActive, pending, announced, stopped, wVars,
                   cow, pos, snap, start, late>>

CowExit(i) ==
    /\ ipc[i] = "exit"
    /\ cowActive' = cowActive - (IF cow[i] THEN 1 ELSE 0)
    /\ IGoto(i, "idle")
    /\ cow' = [cow EXCEPT ![i] = FALSE]
    /\ pos' = [pos EXCEPT ![i] = 0]
    /\ snap' = [snap EXCEPT ![i] = <<>>]
    /\ start' = [start EXCEPT ![i] = <<>>]
    /\ late' = [late EXCEPT ![i] = 0]
    /\ UNCHANGED <<contents, closed, pending, lockVars, wVars>>

-----------------------------------------------------------------------------
Init ==
    /\ contents = <<>> /\ closed = FALSE
    /\ cowActive = 0 /\ pending = 0
    /\ announced = None /\ readers = {} /\ stopped = {}
    /\ wpc = [w \in Writers |-> "idle"] /\ guarded = [w \in Writers |-> FALSE]
    /\ ipc = [i \in Iters |-> "idle"] /\ cow = [i \in Iters |-> FALSE]
    /\ pos = [i \in Iters |-> 0] /\ late = [i \in Iters |-> 0]
    /\ snap = [i \in Iters |-> <<>>] /\ start = [i \in Iters |-> <<>>]

WStep(w) == BumpPending(w) \/ Announce(w) \/ Acquire(w) \/ Unlock(w)
IStep(i) ==
    \/ RLock(i) \/ CheckClosed(i) \/ Snapshot(i) \/ Yield(i) \/ BodyEnd(i)
    \/ YieldCopied(i) \/ ExitLoop(i) \/ CowExit(i)

Next ==
    \/ \E w \in Writers : LoadCowActive(w) \/ WStep(w)
    \/ \E i \in Iters : Enter(i) \/ IStep(i)

\* Goroutines are scheduled, loop bodies return, and the RWMutex hands the
\* writer side over to each writer in turn.
Fairness ==
    /\ \A w \in Writers : WF_vars(WStep(w)) /\ SF_vars(Announce(w))
    /\ \A i \in Iters : WF_vars(IStep(i))

Spec == Init /\ [][Next]_vars /\ Fairness

-----------------------------------------------------------------------------
\* What an iteration has yielded plus what it still holds as a copy is the
\* contents at the moment it took the read lock: no push, pop or close that
\* lands during the iteration shows through, nor is an item skipped or
\* repeated at the switch to the copy.
YieldsOneSnapshot ==
    \A i \in Iters :
        /\ ipc[i] \in {"loop", "body"} => contents = start[i]
        /\ ipc[i] = "copied" => snap[i] = SubSeq(start[i], pos[i] + 1, Len(start[i]))

\* Once a guarded writer waits, AllCOW yields at most the item whose body is
\* running before it lets go of the read lock.
CowYieldsToWriter == \A i \in Iters : cow[i] => late[i] <= 1

\* Every writer gets the lock, however iterations end (break, panic, done ctx).
WriterServed == \A w \in Writers : wpc[w] = "lock" ~> wpc[w] = "crit"
=============================================================================
