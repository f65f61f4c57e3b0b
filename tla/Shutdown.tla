------------------------------ MODULE Shutdown ------------------------------
(***************************************************************************)
(* How Close releases the on-disk backing (shutdown and closeDB in         *)
(* queue/internal/backings/bbolt/bbolt.go).                                *)
(*                                                                         *)
(* One caller performs the release; the others wait for it on p.shutDone   *)
(* with a deadline and report what it published.  A performer whose join   *)
(* with the flusher times out releases nothing and installs a fresh        *)
(* shutDone, so that a later Close may try again.  The caller's Backup     *)
(* .Close runs on the performer's goroutine, holding no lock: it returns,  *)
(* fails, unwinds, or calls Close again on the same queue.                 *)
(*                                                                         *)
(* The channels p.shutDone are numbered in the order they are made.  The   *)
(* errors a shutdown gathers are those of joining the flusher's group      *)
(* (external), of Backup.Close and of closeDB.                             *)
(***************************************************************************)
EXTENDS Integers, FiniteSets

CONSTANTS
    Procs,          \* goroutines calling Close
    Started,        \* SetQueueLock has launched the flusher
    MaxAttempts     \* bound: how many attempts begin with the flusher alive

ASSUME StartedAssumption == Started \in BOOLEAN
ASSUME AttemptsAssumption == MaxAttempts \in Nat

VARIABLES
    flusher,        \* "running", "draining" (its ctx is done) or "done"
    shutBusy, shutComplete, shutCommitted,
    shutDone,       \* the number of the current channel
    doneClosed,     \* the channels that are closed
    published,      \* <<shutGErr, shutBErr, shutCErr>>
    backup,         \* "open", "closing" or "closed"
    store,          \* the bolt handle: "open", "closed" or "stuck"
    closeCalls,     \* how often Backup.Close and db.Close were called
    pc,             \* where each goroutine is in shutdown
    held,           \* the channel it copied from p.shutDone
    errs,           \* the performer's <<gErr, bErr, cErr>>
    complete,       \* the performer's own complete
    answer          \* what its last Close returned

shutVars == <<shutBusy, shutComplete, shutCommitted, shutDone, published>>
releaseVars == <<backup, store, closeCalls>>
localVars == <<held, errs, complete>>
vars == <<flusher, shutVars, doneClosed, releaseVars, pc, localVars, answer>>

Nil == "nil"
NoErrs == <<Nil, Nil, Nil>>

\* What a Close returns: how far the shutdown came, and the errors of a
\* finished one.
Told(kind, e) == [kind |-> kind, errs |-> e]

Goto(p, label) == pc' = [pc EXCEPT ![p] = label]

\* The call returns, and its locals are gone.
Answer(p, kind, e) ==
    /\ Goto(p, "idle")
    /\ answer' = [answer EXCEPT ![p] = Told(kind, e)]
    /\ held' = [held EXCEPT ![p] = 0]
    /\ errs' = [errs EXCEPT ![p] = NoErrs]
    /\ complete' = [complete EXCEPT ![p] = FALSE]

-----------------------------------------------------------------------------
\* The calls of Close beyond MaxAttempts come after the flusher has ended.
MayBegin == shutDone < MaxAttempts \/ flusher = "done" \/ ~Started

\* The section under shutMu: a finished shutdown answers at once, a running
\* one is waited for, otherwise this caller performs it.
Enter(p) ==
    /\ pc[p] = "idle"
    /\ \/ /\ shutComplete
          /\ Answer(p, "final", published)
          /\ UNCHANGED shutBusy
       \/ /\ ~shutComplete /\ shutBusy
          /\ held' = [held EXCEPT ![p] = shutDone]
          /\ Goto(p, "waiting")
          /\ UNCHANGED <<shutBusy, errs, complete, answer>>
       \/ /\ ~shutComplete /\ ~shutBusy /\ MayBegin
          /\ shutBusy' = TRUE
          /\ held' = [held EXCEPT ![p] = shutDone]
          /\ Goto(p, "cancel")
          /\ UNCHANGED <<errs, complete, answer>>
    /\ UNCHANGED <<flusher, shutComplete, shutCommitted, shutDone, published, doneClosed,
                   releaseVars>>

\* The waiter's select: the channel, or its own deadline.
Woken(p) ==
    /\ pc[p] = "waiting" /\ held[p] \in doneClosed
    /\ Goto(p, "woken")
    /\ UNCHANGED <<flusher, shutVars, doneClosed, releaseVars, localVars, answer>>

GivesUp(p) ==
    /\ pc[p] = "waiting" /\ held[p] \notin doneClosed
    /\ Goto(p, "gaveUp")
    /\ UNCHANGED <<flusher, shutVars, doneClosed, releaseVars, localVars, answer>>

\* Mutation: a woken waiter takes the shutdown for finished.
WokenAssumes(p) ==
    /\ pc[p] = "woken"
    /\ Answer(p, "final", published)
    /\ UNCHANGED <<flusher, shutVars, doneClosed, releaseVars>>

\* Both then read the state under shutMu again.
WokenAnswer(p) ==
    /\ pc[p] = "woken"
    /\ IF shutComplete THEN Answer(p, "final", published) ELSE Answer(p, "incomplete", NoErrs)
    /\ UNCHANGED <<flusher, shutVars, doneClosed, releaseVars>>

GaveUpAnswer(p) ==
    /\ pc[p] = "gaveUp"
    /\ Answer(p, IF shutCommitted THEN "inProgress" ELSE "incomplete", NoErrs)
    /\ UNCHANGED <<flusher, shutVars, doneClosed, releaseVars>>

-----------------------------------------------------------------------------
FlushCancel(p) ==
    /\ pc[p] = "cancel"
    /\ flusher' = IF flusher = "running" THEN "draining" ELSE flusher
    /\ Goto(p, "join")
    /\ UNCHANGED <<shutVars, doneClosed, releaseVars, localVars, answer>>

\* A flusher that was never launched needs no join.  One that was has ended,
\* and its group says how.
Joined(p) ==
    /\ pc[p] = "join"
    /\ Started => flusher = "done"
    /\ \E g \in IF Started THEN {Nil, "failed"} ELSE {Nil} :
         errs' = [errs EXCEPT ![p] = <<g, Nil, Nil>>]
    /\ Goto(p, "commit")
    /\ UNCHANGED <<flusher, shutVars, doneClosed, releaseVars, held, complete, answer>>

TimesOut(p, label) ==
    /\ pc[p] = "join" /\ Started /\ flusher # "done"
    /\ Goto(p, label)
    /\ UNCHANGED <<flusher, shutVars, doneClosed, releaseVars, localVars, answer>>

\* Mutation: the release goes ahead without the join.
TimeoutReleases(p) == TimesOut(p, "commit")

\* The join deadline, in every attempt that finds the flusher alive.  The
\* attempt ends without releasing anything.
JoinTimeout(p) == TimesOut(p, "book")

Commit(p) ==
    /\ pc[p] = "commit"
    /\ complete' = [complete EXCEPT ![p] = TRUE]
    /\ shutCommitted' = TRUE
    /\ Goto(p, "backup")
    /\ backup' = "closing"
    /\ closeCalls' = [closeCalls EXCEPT !.backup = @ + 1]
    /\ UNCHANGED <<flusher, shutBusy, shutComplete, shutDone, published, doneClosed,
                   store, held, errs, answer>>

\* Backup.Close returns, or leaves the frame with bErr still pre-set.
BackupClose(p) ==
    /\ pc[p] = "backup"
    /\ \E e \in {Nil, "failed", "noReturn"} : errs' = [errs EXCEPT ![p] = <<errs[p][1], e, Nil>>]
    /\ backup' = "closed"
    /\ Goto(p, "closeDB")
    /\ UNCHANGED <<flusher, shutVars, doneClosed, store, closeCalls, held, complete, answer>>

\* Backup.Close calls Close: it finds shutBusy, waits on a channel only its
\* own goroutine could close, and its deadline brings it back.
Reenter(p) ==
    /\ pc[p] = "backup"
    /\ Goto(p, "nested")
    /\ UNCHANGED <<flusher, shutVars, doneClosed, releaseVars, localVars, answer>>

\* Mutation: the nested Close has no deadline of its own.
NestedWaits(p) ==
    /\ pc[p] = "nested" /\ held[p] \in doneClosed
    /\ Goto(p, "backup")
    /\ UNCHANGED <<flusher, shutVars, doneClosed, releaseVars, localVars, answer>>

NestedGivesUp(p) ==
    /\ pc[p] = "nested"
    /\ Goto(p, "backup")
    /\ answer' = [answer EXCEPT ![p] =
                    Told(IF shutCommitted THEN "inProgress" ELSE "incomplete", NoErrs)]
    /\ UNCHANGED <<flusher, shutVars, doneClosed, releaseVars, localVars>>

\* The deferred release of the handle.
CloseDB(p) ==
    /\ pc[p] = "closeDB"
    /\ \/ store' = "closed" /\ UNCHANGED errs
       \/ store' = "stuck" /\ errs' = [errs EXCEPT ![p] = <<errs[p][1], errs[p][2], "incomplete">>]
    /\ closeCalls' = [closeCalls EXCEPT !.store = @ + 1]
    /\ Goto(p, "book")
    /\ UNCHANGED <<flusher, shutVars, doneClosed, backup, held, complete, answer>>

\* The deferred bookkeeping under shutMu.
Book(p) ==
    /\ pc[p] = "book"
    /\ published' = errs[p]
    /\ shutComplete' = complete[p]
    /\ shutBusy' = FALSE
    /\ shutDone' = IF complete[p] THEN shutDone ELSE shutDone + 1
    /\ Goto(p, "release")
    /\ UNCHANGED <<flusher, shutCommitted, doneClosed, releaseVars, localVars, answer>>

\* close(done) follows the unlock; then the performer's own answer.
CloseDone(p) ==
    /\ pc[p] = "release"
    /\ doneClosed' = doneClosed \cup {held[p]}
    /\ Answer(p, IF ~complete[p] THEN "incomplete"
                 ELSE IF errs[p][2] = "noReturn" THEN "unwound" ELSE "final", errs[p])
    /\ UNCHANGED <<flusher, shutVars, releaseVars>>

\* flushLoop returns once its ctx is done, or earlier when caller code ends
\* its goroutine; nothing bounds how long the drain takes.
FlusherDone ==
    /\ flusher # "done" /\ Started
    /\ flusher' = "done"
    /\ UNCHANGED <<shutVars, doneClosed, releaseVars, pc, localVars, answer>>

-----------------------------------------------------------------------------
Init ==
    /\ flusher = "running"
    /\ shutBusy = FALSE /\ shutComplete = FALSE /\ shutCommitted = FALSE
    /\ shutDone = 0 /\ doneClosed = {} /\ published = NoErrs
    /\ backup = "open" /\ store = "open"
    /\ closeCalls = [backup |-> 0, store |-> 0]
    /\ pc = [p \in Procs |-> "idle"]
    /\ held = [p \in Procs |-> 0]
    /\ errs = [p \in Procs |-> NoErrs]
    /\ complete = [p \in Procs |-> FALSE]
    /\ answer = [p \in Procs |-> Told("none", NoErrs)]

Progress(p) ==
    \/ Woken(p) \/ GivesUp(p) \/ WokenAnswer(p) \/ GaveUpAnswer(p)
    \/ FlushCancel(p) \/ Joined(p) \/ JoinTimeout(p) \/ Commit(p) \/ BackupClose(p)
    \/ NestedGivesUp(p) \/ CloseDB(p) \/ Book(p) \/ CloseDone(p)

Next == FlusherDone \/ \E p \in Procs : Enter(p) \/ Reenter(p) \/ Progress(p)

\* Goroutines are scheduled, deadlines expire, and Backup.Close returns in the
\* end.  Nothing obliges the flusher to end.
Fairness == \A p \in Procs : WF_vars(Progress(p)) /\ SF_vars(BackupClose(p))

Spec == Init /\ [][Next]_vars /\ Fairness

-----------------------------------------------------------------------------
(***************************************************************************)
(* Properties.                                                             *)
(***************************************************************************)

\* Nothing is released under a live flusher: neither the caller's Backup nor
\* the bolt handle, whatever retries and deadlines came before.
NoReleaseUnderFlusher ==
    backup # "open" \/ store # "open" => flusher = "done" \/ ~Started

\* The Backup is closed before the handle, and each at most once, over all
\* callers and attempts.
ReleasedOnce ==
    /\ closeCalls.backup <= 1 /\ closeCalls.store <= closeCalls.backup
    /\ store # "open" => backup = "closed"

\* The caller that holds the performer's token.
Performing(p) ==
    pc[p] \in {"cancel", "join", "commit", "backup", "nested", "closeDB", "book"}

\* The token is never left behind and no channel is forgotten: while shutBusy
\* is set somebody performs, and whoever waits does so on a channel that is
\* closed or that its performer is still going to close, also after an attempt
\* that timed out or whose Backup.Close ended the frame.
SomebodyPerforms ==
    /\ shutBusy => \E q \in Procs : Performing(q) /\ held[q] = shutDone
    /\ \A p \in Procs : pc[p] = "waiting" =>
         \/ held[p] \in doneClosed
         \/ \E q \in Procs : (Performing(q) \/ pc[q] = "release") /\ held[q] = held[p]

\* Teardown happens in order, once, under nobody's feet, and as long as anybody
\* waits for it there is somebody who does it.
ReleasedSafely == NoReleaseUnderFlusher /\ ReleasedOnce /\ SomebodyPerforms

\* Everyone who learns how the shutdown ended learns the same, and nobody is
\* told it ended well while the file lock may still be held.
SameAnswer ==
    \A p \in Procs : answer[p].kind = "final" =>
        /\ shutComplete /\ answer[p].errs = published
        /\ answer[p].errs[3] = Nil => store = "closed"

\* Every Close returns, also when the flusher never ends and when Backup.Close
\* calls Close again: each wait has a deadline that does not depend on another
\* goroutine.
CloseReturns == \A p \in Procs : pc[p] # "idle" ~> pc[p] = "idle"
=============================================================================
