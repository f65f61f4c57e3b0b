--------------------------- MODULE ShutdownProofs ---------------------------
(***************************************************************************)
(* What Shutdown guarantees for every set of goroutines and every number   *)
(* of failed attempts, proved from an inductive invariant.                 *)
(***************************************************************************)
EXTENDS Shutdown, TLAPS

Errors == {Nil, "failed"} \X {Nil, "failed", "noReturn"} \X {Nil, "incomplete"}

Labels == {"idle", "waiting", "woken", "gaveUp", "cancel", "join", "commit", "backup",
           "nested", "closeDB", "book", "release"}

Kinds == {"none", "final", "incomplete", "inProgress", "unwound"}

Types ==
    /\ flusher \in {"running", "draining", "done"}
    /\ shutBusy \in BOOLEAN /\ shutComplete \in BOOLEAN /\ shutCommitted \in BOOLEAN
    /\ shutDone \in Nat /\ published \in Errors
    /\ backup \in {"open", "closing", "closed"}
    /\ store \in {"open", "closed", "stuck"}
    /\ closeCalls \in [backup : Nat, store : Nat]
    /\ pc \in [Procs -> Labels]
    /\ held \in [Procs -> Nat]
    /\ errs \in [Procs -> Errors]
    /\ complete \in [Procs -> BOOLEAN]
    /\ answer \in [Procs -> [kind : Kinds, errs : Errors]]

-----------------------------------------------------------------------------
(***************************************************************************)
(* The inductive invariant.  The properties speak of what was released and *)
(* of what was answered; neither says who may still release.  So it tracks *)
(* the performer: there is at most one and only while shutBusy             *)
(* (OnePerformer), an attempt that has not committed has touched nothing   *)
(* (Commitment), one that has owns the release until it completes          *)
(* (Stages), and what it wrote stays (Settled).                            *)
(***************************************************************************)
OnePerformer ==
    /\ \A p \in Procs : Performing(p) => shutBusy /\ ~shutComplete
    /\ \A p, q \in Procs : Performing(p) /\ Performing(q) => p = q

FlusherGone == flusher = "done" \/ ~Started

\* Before the commitment nothing was released; after it the flusher is gone
\* and the next attempt has to wait for this one.
Commitment ==
    /\ ~shutCommitted => /\ backup = "open" /\ store = "open"
                         /\ closeCalls.backup = 0 /\ closeCalls.store = 0
    /\ shutCommitted => /\ FlusherGone /\ closeCalls.backup = 1
                        /\ shutBusy \/ shutComplete

\* How far the performer has come.
Stages ==
    \A p \in Procs :
      /\ pc[p] \in {"cancel", "join", "commit"} => ~shutCommitted
      /\ pc[p] \in {"cancel", "join"} => errs[p] = NoErrs
      /\ pc[p] \in {"idle", "cancel", "join", "commit"} => ~complete[p]
      /\ pc[p] = "idle" => errs[p] = NoErrs
      /\ pc[p] = "commit" => FlusherGone
      /\ pc[p] \in {"backup", "nested", "closeDB"} =>
            shutCommitted /\ complete[p] /\ store = "open" /\ closeCalls.store = 0
      /\ pc[p] = "closeDB" => backup = "closed" /\ errs[p][3] = Nil
      /\ pc[p] = "book" /\ ~complete[p] => ~shutCommitted
      /\ pc[p] = "book" /\ complete[p] =>
            /\ shutCommitted /\ backup = "closed" /\ closeCalls.store = 1
            /\ errs[p][3] = Nil => store = "closed"
      /\ pc[p] = "release" /\ complete[p] => shutComplete /\ published = errs[p]

\* A finished shutdown.
Settled ==
    shutComplete => /\ shutCommitted /\ backup = "closed" /\ closeCalls.store = 1
                    /\ published[3] = Nil => store = "closed"

IInv ==
    /\ Types /\ OnePerformer /\ Commitment /\ Stages /\ Settled
    /\ ReleasedOnce /\ SameAnswer /\ SomebodyPerforms

-----------------------------------------------------------------------------
\* The errors the performer gathers.
LEMMA ErrorsBuilt ==
    /\ NoErrs \in Errors
    /\ \A g \in {Nil, "failed"} : <<g, Nil, Nil>> \in Errors
    /\ \A e \in Errors, b \in {Nil, "failed", "noReturn"} : <<e[1], b, Nil>> \in Errors
    /\ \A e \in Errors : <<e[1], e[2], "incomplete">> \in Errors
BY DEF Errors, NoErrs, Nil

\* What a performer gathers has its type.
LEMMA ErrorsKept ==
    ASSUME errs \in [Procs -> Errors], NEW p \in Procs, NEW e \in Errors,
           errs' = [errs EXCEPT ![p] = e]
    PROVE  errs' \in [Procs -> Errors]
OBVIOUS

\* What a call leaves behind has its type.
LEMMA AnswerTypes ==
    ASSUME Types, NEW p \in Procs, NEW kind \in Kinds, NEW e \in Errors, Answer(p, kind, e)
    PROVE  /\ pc' \in [Procs -> Labels] /\ held' \in [Procs -> Nat]
           /\ errs' \in [Procs -> Errors] /\ complete' \in [Procs -> BOOLEAN]
           /\ answer' \in [Procs -> [kind : Kinds, errs : Errors]]
<1>1. "idle" \in Labels /\ pc' \in [Procs -> Labels]
  BY DEF Types, Answer, Goto, Labels
<1>2. held' \in [Procs -> Nat]
  BY DEF Types, Answer
<1>3. errs' \in [Procs -> Errors]
  BY ErrorsBuilt, ErrorsKept DEF Types, Answer
<1>4. complete' \in [Procs -> BOOLEAN]
  BY Zenon DEF Types, Answer
<1>5. answer' \in [Procs -> [kind : Kinds, errs : Errors]]
  BY DEF Types, Answer, Told
<1> QED BY <1>1, <1>2, <1>3, <1>4, <1>5

\* A caller that does not perform leaves the others their performer.
LEMMA BystanderAnswers ==
    ASSUME Types, SomebodyPerforms, NEW p \in Procs, ~Performing(p), pc[p] # "release",
           NEW kind, NEW e, Answer(p, kind, e), UNCHANGED <<shutBusy, shutDone, doneClosed>>
    PROVE  SomebodyPerforms'
<1>1. \A q \in Procs \ {p} : pc'[q] = pc[q] /\ held'[q] = held[q]
  BY DEF Answer, Goto, Types
<1>2. pc'[p] = "idle"
  BY DEF Answer, Goto, Types
<1>3. \A q \in Procs : Performing(q) \/ pc[q] = "release" =>
         /\ held'[q] = held[q] /\ pc'[q] = pc[q]
  BY <1>1
<1> QED BY <1>1, <1>2, <1>3 DEF SomebodyPerforms, Performing

\* Nothing is released and nobody is told anything at the start.
LEMMA InitInvariant == Init => IInv
<1> SUFFICES ASSUME Init PROVE IInv OBVIOUS
<1> USE DEF Init
<1>1. Types
  BY ErrorsBuilt DEF Types, Labels, Kinds, Told
<1>2. /\ OnePerformer /\ Commitment /\ Stages /\ Settled /\ ReleasedOnce /\ SameAnswer
      /\ SomebodyPerforms
  BY DEF OnePerformer, Performing, Commitment, Stages, Settled, ReleasedOnce, SameAnswer, Told,
         NoErrs, Nil, SomebodyPerforms
<1> QED BY <1>1, <1>2 DEF IInv

\* A caller takes the shutdown over only when nobody performs it and it has not
\* completed, hence when nothing is committed.
LEMMA EnterInvariant ==
    ASSUME IInv, NEW p \in Procs, Enter(p)
    PROVE  IInv'
<1> USE DEF IInv, Enter, Goto, Answer, releaseVars, localVars, Told
<1>0. ASSUME shutComplete PROVE Types' /\ SomebodyPerforms'
  <2>1. Answer(p, "final", published) /\ "final" \in Kinds /\ published \in Errors
    BY <1>0 DEF Types, Kinds
  <2>2. Types'
    <3> HIDE DEF Answer
    <3>1. /\ pc' \in [Procs -> Labels] /\ held' \in [Procs -> Nat]
          /\ errs' \in [Procs -> Errors] /\ complete' \in [Procs -> BOOLEAN]
          /\ answer' \in [Procs -> [kind : Kinds, errs : Errors]]
      BY <2>1, AnswerTypes
    <3> QED BY <1>0, <3>1 DEF Types
  <2>3. ~Performing(p) /\ pc[p] # "release"
    BY DEF Performing
  <2>4. UNCHANGED <<shutBusy, shutDone, doneClosed>>
    BY <1>0
  <2>5. SomebodyPerforms'
    BY <2>1, <2>3, <2>4, BystanderAnswers
  <2> QED BY <2>2, <2>5
<1>1. Types'
  <2>1. CASE ~shutComplete /\ shutBusy
    <3>1. pc' \in [Procs -> Labels] /\ held' \in [Procs -> Nat]
      BY <2>1 DEF Types, Labels
    <3> QED BY <2>1, <3>1 DEF Types
  <2>2. CASE ~shutComplete /\ ~shutBusy
    <3>1. pc' \in [Procs -> Labels] /\ held' \in [Procs -> Nat]
      BY <2>2 DEF Types, Labels
    <3> QED BY <2>2, <3>1 DEF Types
  <2> QED BY <1>0, <2>1, <2>2
<1>2. OnePerformer'
  BY DEF Types, OnePerformer, Performing
<1>3. Commitment'
  BY DEF Types, Commitment, Stages, OnePerformer, Performing, FlusherGone, Settled
<1>4. Stages'
  BY DEF Types, Stages, OnePerformer, Performing, Commitment, FlusherGone, NoErrs, Nil
<1>5. Settled'
  BY DEF Types, Settled, OnePerformer, Performing, Stages
<1>6. ReleasedOnce'
  BY DEF Types, ReleasedOnce, Stages, Commitment
<1>7. SameAnswer'
  BY DEF Types, SameAnswer, Settled, OnePerformer, Performing, Stages
<1>8. SomebodyPerforms'
  <2>1. CASE ~shutComplete /\ shutBusy
    <3>1. PICK q \in Procs : Performing(q) /\ held[q] = shutDone
      BY <2>1 DEF SomebodyPerforms
    <3>2. /\ \A r \in Procs \ {p} : pc'[r] = pc[r] /\ held'[r] = held[r]
          /\ held'[p] = shutDone
      BY <2>1 DEF Types
    <3>3. \A r \in Procs : Performing(r) \/ pc[r] = "release" =>
             /\ held'[r] = held[r] /\ pc'[r] = pc[r]
      BY <3>2 DEF Performing
    <3> QED BY <2>1, <3>1, <3>2, <3>3 DEF SomebodyPerforms, Performing
  <2>2. CASE ~shutComplete /\ ~shutBusy
    <3>1. /\ \A r \in Procs \ {p} : pc'[r] = pc[r] /\ held'[r] = held[r]
          /\ held'[p] = shutDone /\ pc'[p] = "cancel"
      BY <2>2 DEF Types
    <3>2. \A r \in Procs : Performing(r) \/ pc[r] = "release" =>
             /\ held'[r] = held[r] /\ pc'[r] = pc[r]
      BY <3>1 DEF Performing
    <3> QED BY <2>2, <3>1, <3>2 DEF SomebodyPerforms, Performing
  <2> QED BY <1>0, <2>1, <2>2
<1> QED BY <1>1, <1>2, <1>3, <1>4, <1>5, <1>6, <1>7, <1>8

\* A waiter moves on.
LEMMA WokenInvariant ==
    ASSUME IInv, NEW p \in Procs, Woken(p)
    PROVE  IInv'
<1> USE DEF IInv, Woken, Goto, shutVars, releaseVars, localVars
<1>1. Types'
  BY DEF Types, Labels
<1>2. OnePerformer' /\ Commitment' /\ Stages' /\ Settled'
  BY DEF Types, OnePerformer, Performing, Commitment, Stages, Settled, FlusherGone, NoErrs, Nil
<1>3. ReleasedOnce' /\ SameAnswer'
  BY DEF Types, ReleasedOnce, SameAnswer, Settled
<1>4. SomebodyPerforms'
  BY DEF Types, SomebodyPerforms, Performing
<1> QED BY <1>1, <1>2, <1>3, <1>4

\* A waiter's deadline.
LEMMA GivesUpInvariant ==
    ASSUME IInv, NEW p \in Procs, GivesUp(p)
    PROVE  IInv'
<1> USE DEF IInv, GivesUp, Goto, shutVars, releaseVars, localVars
<1>1. Types'
  BY DEF Types, Labels
<1>2. OnePerformer' /\ Commitment' /\ Stages' /\ Settled'
  BY DEF Types, OnePerformer, Performing, Commitment, Stages, Settled, FlusherGone, NoErrs, Nil
<1>3. ReleasedOnce' /\ SameAnswer'
  BY DEF Types, ReleasedOnce, SameAnswer, Settled
<1>4. SomebodyPerforms'
  BY DEF Types, SomebodyPerforms, Performing
<1> QED BY <1>1, <1>2, <1>3, <1>4

\* A waiter repeats what was published, and only after completion.
LEMMA WokenAnswerInvariant ==
    ASSUME IInv, NEW p \in Procs, WokenAnswer(p)
    PROVE  IInv'
<1> USE DEF IInv, WokenAnswer, Answer, shutVars, releaseVars, localVars, Goto, Told
<1>0. \E kind \in Kinds, e \in Errors : Answer(p, kind, e)
  BY ErrorsBuilt DEF Types, Kinds
<1>1. Types'
  <2> HIDE DEF Answer
  <2>1. /\ pc' \in [Procs -> Labels] /\ held' \in [Procs -> Nat]
        /\ errs' \in [Procs -> Errors] /\ complete' \in [Procs -> BOOLEAN]
        /\ answer' \in [Procs -> [kind : Kinds, errs : Errors]]
    BY <1>0, AnswerTypes
  <2> QED BY <2>1 DEF Types
<1>2. OnePerformer' /\ Commitment' /\ Stages' /\ Settled'
  BY DEF Types, OnePerformer, Performing, Commitment, Stages, Settled, FlusherGone, NoErrs, Nil
<1>3. ReleasedOnce' /\ SameAnswer'
  BY DEF Types, ReleasedOnce, SameAnswer, Settled
<1>4. SomebodyPerforms'
  <2> HIDE DEF Answer
  <2>1. ~Performing(p) /\ pc[p] # "release"
    BY DEF Performing
  <2> QED BY <1>0, <2>1, BystanderAnswers
<1> QED BY <1>1, <1>2, <1>3, <1>4

\* A waiter that gave up reports nothing final.
LEMMA GaveUpAnswerInvariant ==
    ASSUME IInv, NEW p \in Procs, GaveUpAnswer(p)
    PROVE  IInv'
<1> USE DEF IInv, GaveUpAnswer, Answer, shutVars, releaseVars, localVars, Goto, Told
<1>0. \E kind \in Kinds, e \in Errors : Answer(p, kind, e)
  BY ErrorsBuilt DEF Types, Kinds
<1>1. Types'
  <2> HIDE DEF Answer
  <2>1. /\ pc' \in [Procs -> Labels] /\ held' \in [Procs -> Nat]
        /\ errs' \in [Procs -> Errors] /\ complete' \in [Procs -> BOOLEAN]
        /\ answer' \in [Procs -> [kind : Kinds, errs : Errors]]
    BY <1>0, AnswerTypes
  <2> QED BY <2>1 DEF Types
<1>2. OnePerformer' /\ Commitment' /\ Stages' /\ Settled'
  BY DEF Types, OnePerformer, Performing, Commitment, Stages, Settled, FlusherGone, NoErrs, Nil
<1>3. ReleasedOnce' /\ SameAnswer'
  BY DEF Types, ReleasedOnce, SameAnswer, Settled
<1>4. SomebodyPerforms'
  <2> HIDE DEF Answer
  <2>1. ~Performing(p) /\ pc[p] # "release"
    BY DEF Performing
  <2> QED BY <1>0, <2>1, BystanderAnswers
<1> QED BY <1>1, <1>2, <1>3, <1>4

\* The performer cancels the flusher, or finds it gone.
LEMMA FlushCancelInvariant ==
    ASSUME IInv, NEW p \in Procs, FlushCancel(p)
    PROVE  IInv'
<1> USE DEF IInv, FlushCancel, Goto, shutVars, releaseVars, localVars
<1>1. Types'
  BY DEF Types, Labels
<1>2. OnePerformer' /\ Commitment' /\ Stages' /\ Settled'
  BY DEF Types, OnePerformer, Performing, Commitment, Stages, Settled, FlusherGone, NoErrs, Nil
<1>3. ReleasedOnce' /\ SameAnswer'
  BY DEF Types, ReleasedOnce, SameAnswer, Settled
<1>4. SomebodyPerforms'
  BY DEF Types, SomebodyPerforms, Performing
<1> QED BY <1>1, <1>2, <1>3, <1>4

\* The join is where the performer learns that the flusher is gone.
LEMMA JoinedInvariant ==
    ASSUME IInv, NEW p \in Procs, Joined(p)
    PROVE  IInv'
<1> USE DEF IInv, Joined, Goto, shutVars, releaseVars, localVars
<1>1. Types'
  <2>1. errs' \in [Procs -> Errors]
    BY ErrorsBuilt, ErrorsKept DEF Types
  <2> QED BY <2>1 DEF Types, Labels
<1>2. OnePerformer' /\ Commitment' /\ Stages' /\ Settled'
  BY DEF Types, OnePerformer, Performing, Commitment, Stages, Settled, FlusherGone, NoErrs, Nil
<1>3. ReleasedOnce' /\ SameAnswer'
  BY DEF Types, ReleasedOnce, SameAnswer, Settled
<1>4. SomebodyPerforms'
  BY DEF Types, SomebodyPerforms, Performing
<1> QED BY <1>1, <1>2, <1>3, <1>4

\* A join that times out is booked with nothing released.
LEMMA JoinTimeoutInvariant ==
    ASSUME IInv, NEW p \in Procs, JoinTimeout(p)
    PROVE  IInv'
<1> USE DEF IInv, JoinTimeout, TimesOut, Goto, shutVars, releaseVars, localVars
<1>1. Types'
  BY DEF Types, Labels
<1>2. OnePerformer' /\ Commitment' /\ Stages' /\ Settled'
  BY DEF Types, OnePerformer, Performing, Commitment, Stages, Settled, FlusherGone, NoErrs, Nil
<1>3. ReleasedOnce' /\ SameAnswer'
  BY DEF Types, ReleasedOnce, SameAnswer, Settled
<1>4. SomebodyPerforms'
  BY DEF Types, SomebodyPerforms, Performing
<1> QED BY <1>1, <1>2, <1>3, <1>4

\* The commitment: from here on the flusher is gone for good.
LEMMA CommitInvariant ==
    ASSUME IInv, NEW p \in Procs, Commit(p)
    PROVE  IInv'
<1> USE DEF IInv, Commit, Goto
<1>1. Types'
  <2>1. shutCommitted' \in BOOLEAN /\ complete' \in [Procs -> BOOLEAN]
    BY Zenon DEF Types
  <2> QED BY <2>1 DEF Types, Labels
<1>2. OnePerformer'
  BY DEF Types, OnePerformer, Performing
<1>3. Commitment'
  BY DEF Types, Commitment, Stages, OnePerformer, Performing, FlusherGone, Settled
<1>4. Stages'
  BY DEF Types, Stages, OnePerformer, Performing, Commitment, FlusherGone, NoErrs, Nil
<1>5. Settled'
  BY DEF Types, Settled, OnePerformer, Performing, Stages
<1>6. ReleasedOnce'
  BY DEF Types, ReleasedOnce, Stages, Commitment
<1>7. SameAnswer'
  BY DEF Types, SameAnswer, Settled, OnePerformer, Performing, Stages
<1>8. SomebodyPerforms'
  BY DEF Types, SomebodyPerforms, Performing
<1> QED BY <1>1, <1>2, <1>3, <1>4, <1>5, <1>6, <1>7, <1>8

\* The Backup closes, once, before the handle.
LEMMA BackupCloseInvariant ==
    ASSUME IInv, NEW p \in Procs, BackupClose(p)
    PROVE  IInv'
<1> USE DEF IInv, BackupClose, Goto, shutVars
<1>1. Types'
  <2>1. errs' \in [Procs -> Errors]
    BY ErrorsBuilt, ErrorsKept DEF Types
  <2> QED BY <2>1 DEF Types, Labels
<1>2. OnePerformer'
  BY DEF Types, OnePerformer, Performing
<1>3. Commitment'
  BY DEF Types, Commitment, Stages, OnePerformer, Performing, FlusherGone, Settled
<1>4. Stages'
  BY DEF Types, Stages, OnePerformer, Performing, Commitment, FlusherGone, NoErrs, Nil
<1>5. Settled'
  BY DEF Types, Settled, OnePerformer, Performing, Stages
<1>6. ReleasedOnce'
  BY DEF Types, ReleasedOnce, Stages, Commitment
<1>7. SameAnswer'
  BY DEF Types, SameAnswer, Settled, OnePerformer, Performing, Stages
<1>8. SomebodyPerforms'
  BY DEF Types, SomebodyPerforms, Performing
<1> QED BY <1>1, <1>2, <1>3, <1>4, <1>5, <1>6, <1>7, <1>8

\* The Backup calls Close.
LEMMA ReenterInvariant ==
    ASSUME IInv, NEW p \in Procs, Reenter(p)
    PROVE  IInv'
<1> USE DEF IInv, Reenter, Goto, shutVars, releaseVars, localVars
<1>1. Types'
  BY DEF Types, Labels
<1>2. OnePerformer' /\ Commitment' /\ Stages' /\ Settled'
  BY DEF Types, OnePerformer, Performing, Commitment, Stages, Settled, FlusherGone, NoErrs, Nil
<1>3. ReleasedOnce' /\ SameAnswer'
  BY DEF Types, ReleasedOnce, SameAnswer, Settled
<1>4. SomebodyPerforms'
  BY DEF Types, SomebodyPerforms, Performing
<1> QED BY <1>1, <1>2, <1>3, <1>4

\* The nested Close comes back with nothing final.
LEMMA NestedGivesUpInvariant ==
    ASSUME IInv, NEW p \in Procs, NestedGivesUp(p)
    PROVE  IInv'
<1> USE DEF IInv, NestedGivesUp, Goto, Told, shutVars, releaseVars, localVars
<1>1. Types'
  BY ErrorsBuilt DEF Types, Labels, Kinds
<1>2. OnePerformer' /\ Commitment' /\ Stages' /\ Settled'
  BY DEF Types, OnePerformer, Performing, Commitment, Stages, Settled, FlusherGone, NoErrs, Nil
<1>3. ReleasedOnce' /\ SameAnswer'
  BY DEF Types, ReleasedOnce, SameAnswer, Settled
<1>4. SomebodyPerforms'
  BY DEF Types, SomebodyPerforms, Performing
<1> QED BY <1>1, <1>2, <1>3, <1>4

\* The handle closes, once; a handle that sticks is an error of the performer.
LEMMA CloseDBInvariant ==
    ASSUME IInv, NEW p \in Procs, CloseDB(p)
    PROVE  IInv'
<1> USE DEF IInv, CloseDB, Goto, shutVars
<1>1. Types'
  <2>1. errs' \in [Procs -> Errors]
    <3>1. CASE UNCHANGED errs
      BY <3>1 DEF Types
    <3>2. CASE errs' = [errs EXCEPT ![p] = <<errs[p][1], errs[p][2], "incomplete">>]
      <4>1. <<errs[p][1], errs[p][2], "incomplete">> \in Errors
        BY ErrorsBuilt DEF Types
      <4> QED BY <3>2, <4>1 DEF Types
    <3> QED BY <3>1, <3>2
  <2>2. /\ store' \in {"open", "closed", "stuck"}
        /\ closeCalls' \in [backup : Nat, store : Nat]
        /\ pc' \in [Procs -> Labels]
    BY DEF Types, Labels
  <2>3. UNCHANGED <<flusher, shutVars, backup, held, complete, answer>>
    OBVIOUS
  <2> QED
    BY <2>1, <2>2, <2>3 DEF Types
<1>2. OnePerformer'
  BY DEF Types, OnePerformer, Performing
<1>3. Commitment'
  BY DEF Types, Commitment, Stages, OnePerformer, Performing, FlusherGone, Settled
<1>4. Stages'
  BY DEF Types, Stages, OnePerformer, Performing, Commitment, FlusherGone, NoErrs, Nil
<1>5. Settled'
  BY DEF Types, Settled, OnePerformer, Performing, Stages
<1>6. ReleasedOnce'
  BY DEF Types, ReleasedOnce, Stages, Commitment
<1>7. SameAnswer'
  BY DEF Types, SameAnswer, Settled, OnePerformer, Performing, Stages
<1>8. SomebodyPerforms'
  BY DEF Types, SomebodyPerforms, Performing
<1> QED BY <1>1, <1>2, <1>3, <1>4, <1>5, <1>6, <1>7, <1>8

\* What is published is the performer's own errors, and is final iff it released.
LEMMA BookInvariant ==
    ASSUME IInv, NEW p \in Procs, Book(p)
    PROVE  IInv'
<1> USE DEF IInv, Book, Goto, releaseVars, localVars
<1>1. Types'
  <2>1. shutBusy' \in BOOLEAN /\ shutComplete' \in BOOLEAN /\ complete' \in [Procs -> BOOLEAN]
    BY Zenon DEF Types
  <2>2. shutDone' \in Nat /\ published' \in Errors
    BY DEF Types
  <2> QED BY <2>1, <2>2 DEF Types, Labels
<1>2. OnePerformer'
  BY DEF Types, OnePerformer, Performing
<1>3. Commitment'
  BY DEF Types, Commitment, Stages, OnePerformer, Performing, FlusherGone, Settled
<1>4. Stages'
  BY DEF Types, Stages, OnePerformer, Performing, Commitment, FlusherGone, NoErrs, Nil
<1>5. Settled'
  BY DEF Types, Settled, OnePerformer, Performing, Stages
<1>6. ReleasedOnce'
  BY DEF Types, ReleasedOnce, Stages, Commitment
<1>7. SameAnswer'
  BY DEF Types, SameAnswer, Settled, OnePerformer, Performing, Stages
<1>8. SomebodyPerforms'
  BY DEF Types, SomebodyPerforms, Performing
<1> QED BY <1>1, <1>2, <1>3, <1>4, <1>5, <1>6, <1>7, <1>8

\* The performer's own answer is what it published.
LEMMA CloseDoneInvariant ==
    ASSUME IInv, NEW p \in Procs, CloseDone(p)
    PROVE  IInv'
<1> USE DEF IInv, CloseDone, Answer, shutVars, releaseVars, localVars, Goto, Told
<1>1. Types'
  BY ErrorsBuilt DEF Types, Labels, Kinds
<1>2. OnePerformer'
  BY DEF Types, OnePerformer, Performing
<1>3. Commitment'
  BY DEF Types, Commitment, Stages, OnePerformer, Performing, FlusherGone, Settled
<1>4. Stages'
  BY DEF Types, Stages, OnePerformer, Performing, Commitment, FlusherGone, NoErrs, Nil
<1>5. Settled'
  BY DEF Types, Settled, OnePerformer, Performing, Stages
<1>6. ReleasedOnce'
  BY DEF Types, ReleasedOnce, Stages, Commitment
<1>7. SameAnswer'
  BY DEF Types, SameAnswer, Settled, OnePerformer, Performing, Stages
<1>8. SomebodyPerforms'
  BY DEF Types, SomebodyPerforms, Performing
<1> QED BY <1>1, <1>2, <1>3, <1>4, <1>5, <1>6, <1>7, <1>8

\* The flusher ends on its own.
LEMMA FlusherDoneInvariant ==
    ASSUME IInv, FlusherDone
    PROVE  IInv'
BY DEF IInv, FlusherDone, Types, OnePerformer, Performing, Commitment, Stages, Settled, FlusherGone,
       ReleasedOnce, SameAnswer, SomebodyPerforms, shutVars, releaseVars, localVars

\* Nothing changes.
LEMMA StutterInvariant ==
    ASSUME IInv, UNCHANGED vars
    PROVE  IInv'
BY DEF IInv, vars, Types, OnePerformer, Performing, Commitment, Stages, Settled, FlusherGone,
       ReleasedOnce, SameAnswer, SomebodyPerforms, shutVars, releaseVars, localVars

\* Every step of shutdown keeps the invariant.
THEOREM ShutdownInvariance == Spec => []IInv
<1>1. ASSUME IInv, [Next]_vars PROVE IInv'
  <2>1. CASE FlusherDone BY <1>1, <2>1, FlusherDoneInvariant
  <2>2. CASE UNCHANGED vars BY <1>1, <2>2, StutterInvariant
  <2>3. ASSUME NEW p \in Procs, Enter(p) \/ Reenter(p) \/ Progress(p) PROVE IInv'
    BY <1>1, <2>3, EnterInvariant, WokenInvariant, GivesUpInvariant, WokenAnswerInvariant,
       GaveUpAnswerInvariant, FlushCancelInvariant, JoinedInvariant, JoinTimeoutInvariant,
       CommitInvariant, BackupCloseInvariant, ReenterInvariant, NestedGivesUpInvariant,
       CloseDBInvariant, BookInvariant, CloseDoneInvariant
    DEF Progress
  <2> QED BY <1>1, <2>1, <2>2, <2>3 DEF Next
<1> QED BY InitInvariant, <1>1, PTL DEF Spec

\* closeDB and Backup.Close happen in order, at most once each over all callers
\* and attempts, and never while the flusher runs: a join that timed out any
\* number of times never lets a release through.  However an attempt ends, its
\* token and its channel are given up, so nobody waits for nobody.
THEOREM TeardownSafe == Spec => []ReleasedSafely
<1>1. IInv => ReleasedSafely
  BY DEF IInv, ReleasedSafely, NoReleaseUnderFlusher, Commitment, FlusherGone
<1> QED BY ShutdownInvariance, <1>1, PTL

\* Whoever is told how the shutdown ended - performer, waiter or late caller -
\* is told the same errors, and no caller hears of success while the
\* handle is not closed.
THEOREM AnswersAgree == Spec => []SameAnswer
<1>1. IInv => SameAnswer
  BY DEF IInv
<1> QED BY ShutdownInvariance, <1>1, PTL

\* A shutdown that completed stays completed, its published errors never
\* change, and nothing is closed again: the early return of shutdown is safe.
Final == shutComplete => UNCHANGED <<shutComplete, published, backup, store, closeCalls>>

\* The early return is safe: see Final.
THEOREM CompletionFinal == Spec => [][Final]_vars
<1>1. ASSUME IInv, Next PROVE Final
  <2> SUFFICES ASSUME shutComplete PROVE Final
    BY DEF Final
  <2>1. \A p \in Procs : ~Performing(p)
    BY <1>1 DEF IInv, OnePerformer
  <2>2. CASE FlusherDone
    BY <2>2 DEF FlusherDone, Final, shutVars, releaseVars
  <2>3. ASSUME NEW p \in Procs, Enter(p) \/ Reenter(p) \/ Progress(p) PROVE Final
    BY <2>1, <2>3 DEF Final, Performing, shutVars, releaseVars, Progress, Enter, Reenter, Woken,
       GivesUp, WokenAnswer, GaveUpAnswer, FlushCancel, Joined, JoinTimeout, TimesOut, Commit,
       BackupClose, NestedGivesUp, CloseDB, Book, CloseDone
  <2> QED BY <1>1, <2>2, <2>3 DEF Next
<1> QED BY ShutdownInvariance, <1>1, PTL DEF Spec
=============================================================================
