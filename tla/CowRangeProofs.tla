--------------------------- MODULE CowRangeProofs ---------------------------
(***************************************************************************)
(* What CowRange guarantees for every set of writers and iterators and     *)
(* every depth of the queue, proved from an inductive invariant.           *)
(***************************************************************************)
EXTENDS CowRange, FiniteSetTheorems, SequenceTheorems, TLAPS

WLabels == {"idle", "bump", "lock", "drain", "crit"}
ILabels == {"idle", "rlock", "rlocked", "refused", "loop", "body", "copied", "exit"}

Types ==
    /\ contents \in Seq(Int) /\ closed \in BOOLEAN
    /\ cowActive \in Int /\ pending \in Int
    /\ announced \in Writers \cup {None}
    /\ readers \in SUBSET Iters /\ stopped \in SUBSET Iters
    /\ wpc \in [Writers -> WLabels] /\ guarded \in [Writers -> BOOLEAN]
    /\ ipc \in [Iters -> ILabels] /\ cow \in [Iters -> BOOLEAN]
    /\ pos \in [Iters -> Nat] /\ late \in [Iters -> Nat]
    /\ snap \in [Iters -> Seq(Int)] /\ start \in [Iters -> Seq(Int)]

-----------------------------------------------------------------------------
(***************************************************************************)
(* The inductive invariant.  The contents change only under the writer     *)
(* that holds the lock, so an iteration is safe from them because the lock *)
(* excludes: one announced writer, no reader while it is inside, and a     *)
(* loop that runs is a reader (Exclusion).  That AllCOW lets go in time    *)
(* rests on pending: while the iterator reads no writer can take its bump  *)
(* back, so a bump it missed before one item it sees before the next       *)
(* (Bumped).                                                               *)
(***************************************************************************)
Exclusion ==
    /\ \A w \in Writers : wpc[w] \in {"drain", "crit"} => announced = w
    /\ \A w \in Writers : wpc[w] = "crit" => readers = {}
    /\ readers \cap stopped = {}
    /\ \A i \in readers : ipc[i] \in {"rlocked", "refused", "loop", "body"}
    /\ \A i \in stopped : ipc[i] = "rlocked"
    /\ \A i \in Iters : ipc[i] \in {"refused", "loop", "body"} => i \in readers

\* Where the iterations are.
Positions ==
    \A i \in Iters :
        /\ ipc[i] \in {"idle", "rlock", "rlocked"} => pos[i] = 0 /\ late[i] = 0
        /\ ipc[i] \in {"loop", "body", "copied"} => pos[i] <= Len(start[i])

Bumped ==
    \A i \in Iters : cow[i] =>
        /\ ipc[i] = "body" => late[i] = 0
        /\ ipc[i] = "loop" /\ late[i] > 0 => pending > 0

IInv == Types /\ Exclusion /\ Positions /\ Bumped /\ YieldsOneSnapshot /\ CowYieldsToWriter

-----------------------------------------------------------------------------
\* Taking the first item off a remainder leaves the next remainder.
LEMMA TailOfSubSeq ==
    ASSUME NEW s \in Seq(Int), NEW k \in Nat, k < Len(s)
    PROVE  Tail(SubSeq(s, k + 1, Len(s))) = SubSeq(s, k + 2, Len(s))
OBVIOUS

\* Nothing is read and nothing waits at the start.
LEMMA InitInvariant == Init => IInv
<1> SUFFICES ASSUME Init PROVE IInv
  OBVIOUS
<1>1. <<>> \in Seq(Int)
  OBVIOUS
<1>2. Types
  <2>1. guarded \in [Writers -> BOOLEAN] /\ cow \in [Iters -> BOOLEAN] /\ closed \in BOOLEAN
    BY DEF Init
  <2>2. snap \in [Iters -> Seq(Int)] /\ start \in [Iters -> Seq(Int)] /\ contents \in Seq(Int)
    BY <1>1 DEF Init
  <2>3. wpc \in [Writers -> WLabels] /\ ipc \in [Iters -> ILabels]
    BY DEF Init, WLabels, ILabels
  <2>4. pos \in [Iters -> Nat] /\ late \in [Iters -> Nat]
    BY DEF Init
  <2> QED BY <2>1, <2>2, <2>3, <2>4 DEF Init, Types
<1>3. Exclusion /\ Positions /\ Bumped /\ YieldsOneSnapshot /\ CowYieldsToWriter
  BY DEF Init, Exclusion, Positions, Bumped, YieldsOneSnapshot, CowYieldsToWriter
<1> QED BY <1>2, <1>3 DEF IInv

\* A writer chooses its path.
LEMMA LoadCowActiveInvariant ==
    ASSUME IInv, NEW w \in Writers, LoadCowActive(w)
    PROVE  IInv'
<1> USE DEF IInv, LoadCowActive, WGoto, lockVars, wVars, iVars
<1>1. Types'
  BY DEF Types, WLabels, ILabels
<1>2. Exclusion'
  BY NoneAssumption DEF Types, Exclusion
<1>3. Positions'
  BY DEF Types, Exclusion, Positions, YieldsOneSnapshot
<1>4. Bumped'
  BY DEF Types, Exclusion, Positions, Bumped
<1>5. YieldsOneSnapshot'
  BY DEF Types, Exclusion, Positions, YieldsOneSnapshot
<1>6. CowYieldsToWriter'
  BY DEF Types, Exclusion, Positions, Bumped, CowYieldsToWriter
<1> QED BY <1>1, <1>2, <1>3, <1>4, <1>5, <1>6

\* A bump can only be seen more.
LEMMA BumpPendingInvariant ==
    ASSUME IInv, NEW w \in Writers, BumpPending(w)
    PROVE  IInv'
<1> USE DEF IInv, BumpPending, WGoto, lockVars, wVars, iVars
<1>1. Types'
  BY DEF Types, WLabels, ILabels
<1>2. Exclusion'
  BY NoneAssumption DEF Types, Exclusion
<1>3. Positions'
  BY DEF Types, Exclusion, Positions, YieldsOneSnapshot
<1>4. Bumped'
  BY DEF Types, Exclusion, Positions, Bumped
<1>5. YieldsOneSnapshot'
  BY DEF Types, Exclusion, Positions, YieldsOneSnapshot
<1>6. CowYieldsToWriter'
  BY DEF Types, Exclusion, Positions, Bumped, CowYieldsToWriter
<1> QED BY <1>1, <1>2, <1>3, <1>4, <1>5, <1>6

\* One writer is announced at a time.
LEMMA AnnounceInvariant ==
    ASSUME IInv, NEW w \in Writers, Announce(w)
    PROVE  IInv'
<1> USE DEF IInv, Announce, WGoto, lockVars, wVars, iVars
<1>1. Types'
  BY DEF Types, WLabels, ILabels
<1>2. Exclusion'
  BY NoneAssumption DEF Types, Exclusion
<1>3. Positions'
  BY DEF Types, Exclusion, Positions, YieldsOneSnapshot
<1>4. Bumped'
  BY DEF Types, Exclusion, Positions, Bumped
<1>5. YieldsOneSnapshot'
  BY DEF Types, Exclusion, Positions, YieldsOneSnapshot
<1>6. CowYieldsToWriter'
  BY DEF Types, Exclusion, Positions, Bumped, CowYieldsToWriter
<1> QED BY <1>1, <1>2, <1>3, <1>4, <1>5, <1>6

\* The bump is taken back only when nobody reads: no iterator that counts on
\* it is in its loop.
LEMMA AcquireInvariant ==
    ASSUME IInv, NEW w \in Writers, Acquire(w)
    PROVE  IInv'
<1> USE DEF IInv, Acquire, WGoto, lockVars, wVars, iVars
<1>1. Types'
  BY DEF Types, WLabels, ILabels
<1>2. Exclusion'
  BY NoneAssumption DEF Types, Exclusion
<1>3. Positions'
  BY DEF Types, Exclusion, Positions, YieldsOneSnapshot
<1>4. Bumped'
  BY DEF Types, Exclusion, Positions, Bumped
<1>5. YieldsOneSnapshot'
  BY DEF Types, Exclusion, Positions, YieldsOneSnapshot
<1>6. CowYieldsToWriter'
  BY DEF Types, Exclusion, Positions, Bumped, CowYieldsToWriter
<1> QED BY <1>1, <1>2, <1>3, <1>4, <1>5, <1>6

\* The contents change while nobody reads.
LEMMA UnlockInvariant ==
    ASSUME IInv, NEW w \in Writers, Unlock(w)
    PROVE  IInv'
<1> USE DEF IInv, Unlock, Mutation, WGoto, lockVars, wVars, iVars
<1>1. Types'
  <2>1. contents' \in Seq(Int)
    <3>1. CASE contents = <<>> /\ contents' = Append(contents, 0)
      BY <3>1
    <3>2. CASE contents # <<>> /\ contents' = Append(contents, (contents[Len(contents)] + 1) % 3)
      <4>1. (contents[Len(contents)] + 1) % 3 \in Int
        BY <3>2 DEF Types
      <4> QED BY <3>2, <4>1 DEF Types
    <3>3. CASE contents # <<>> /\ contents' = Tail(contents)
      BY <3>3 DEF Types
    <3>4. CASE contents' = contents
      BY <3>4 DEF Types
    <3> QED BY <3>1, <3>2, <3>3, <3>4
  <2>2. closed' \in BOOLEAN
    BY DEF Types
  <2>3. guarded' \in [Writers -> BOOLEAN] /\ wpc' \in [Writers -> WLabels]
    BY DEF Types, WLabels
  <2> QED BY <2>1, <2>2, <2>3 DEF Types
<1>2. Exclusion'
  BY NoneAssumption DEF Types, Exclusion
<1>3. Positions'
  BY DEF Types, Exclusion, Positions, YieldsOneSnapshot
<1>4. Bumped'
  BY DEF Types, Exclusion, Positions, Bumped
<1>5. YieldsOneSnapshot'
  BY DEF Types, Exclusion, Positions, YieldsOneSnapshot
<1>6. CowYieldsToWriter'
  BY DEF Types, Exclusion, Positions, Bumped, CowYieldsToWriter
<1> QED BY <1>1, <1>2, <1>3, <1>4, <1>5, <1>6

\* An iteration begins with nothing yielded.
LEMMA EnterInvariant ==
    ASSUME IInv, NEW i \in Iters, Enter(i)
    PROVE  IInv'
<1> USE DEF IInv, Enter, IGoto, lockVars, wVars, iVars
<1>1. Types'
  BY DEF Types, WLabels, ILabels
<1>2. Exclusion'
  BY NoneAssumption DEF Types, Exclusion
<1>3. Positions'
  BY DEF Types, Exclusion, Positions, YieldsOneSnapshot
<1>4. Bumped'
  BY DEF Types, Exclusion, Positions, Bumped
<1>5. YieldsOneSnapshot'
  BY DEF Types, Exclusion, Positions, YieldsOneSnapshot
<1>6. CowYieldsToWriter'
  BY DEF Types, Exclusion, Positions, Bumped, CowYieldsToWriter
<1> QED BY <1>1, <1>2, <1>3, <1>4, <1>5, <1>6

\* A reader gets in, or is stopped by the announced writer.
LEMMA RLockInvariant ==
    ASSUME IInv, NEW i \in Iters, RLock(i)
    PROVE  IInv'
<1> USE DEF IInv, RLock, IGoto, lockVars, wVars, iVars
<1>1. Types'
  BY DEF Types, WLabels, ILabels
<1>2. Exclusion'
  BY NoneAssumption DEF Types, Exclusion
<1>3. Positions'
  BY DEF Types, Exclusion, Positions, YieldsOneSnapshot
<1>4. Bumped'
  BY DEF Types, Exclusion, Positions, Bumped
<1>5. YieldsOneSnapshot'
  BY DEF Types, Exclusion, Positions, YieldsOneSnapshot
<1>6. CowYieldsToWriter'
  BY DEF Types, Exclusion, Positions, Bumped, CowYieldsToWriter
<1> QED BY <1>1, <1>2, <1>3, <1>4, <1>5, <1>6

\* The contents an iteration will yield are the ones it finds.
LEMMA CheckClosedInvariant ==
    ASSUME IInv, NEW i \in Iters, CheckClosed(i)
    PROVE  IInv'
<1> USE DEF IInv, CheckClosed, IGoto, lockVars, wVars, iVars
<1>1. Types'
  BY DEF Types, WLabels, ILabels
<1>2. Exclusion'
  <2>1. /\ wpc' = wpc /\ announced' = announced /\ stopped' = stopped
        /\ \/ readers' = readers \ {i} /\ ipc' = [ipc EXCEPT ![i] = "exit"]
           \/ readers' = readers /\ ipc' = [ipc EXCEPT ![i] = "refused"]
           \/ readers' = readers /\ ipc' = [ipc EXCEPT ![i] = "loop"]
    OBVIOUS
  <2>2. i \in readers /\ i \notin stopped
    BY DEF Exclusion
  <2> QED BY <2>1, <2>2 DEF Types, Exclusion
<1>3. Positions'
  BY DEF Types, Exclusion, Positions, YieldsOneSnapshot
<1>4. Bumped'
  BY DEF Types, Exclusion, Positions, Bumped
<1>5. YieldsOneSnapshot'
  BY DEF Types, Exclusion, Positions, YieldsOneSnapshot
<1>6. CowYieldsToWriter'
  BY DEF Types, Exclusion, Positions, Bumped, CowYieldsToWriter
<1> QED BY <1>1, <1>2, <1>3, <1>4, <1>5, <1>6

\* The copy starts after the last item yielded.
LEMMA SnapshotInvariant ==
    ASSUME IInv, NEW i \in Iters, Snapshot(i)
    PROVE  IInv'
<1> USE DEF IInv, Snapshot, CopyFrom, WriteWanted, IGoto, lockVars, wVars, iVars
<1>1. Types'
  <2>1. SubSeq(contents, pos[i] + 1, Len(contents)) \in Seq(Int)
    BY DEF Types
  <2>2. snap' \in [Iters -> Seq(Int)]
    BY <2>1 DEF Types
  <2>3. ipc' \in [Iters -> ILabels] /\ readers' \in SUBSET Iters
    BY DEF Types, ILabels
  <2>4. UNCHANGED <<contents, closed, cowActive, pending, announced, stopped, wVars, cow, pos,
                    start, late>>
    OBVIOUS
  <2> QED BY <2>2, <2>3, <2>4 DEF Types
<1>2. Exclusion'
  BY NoneAssumption DEF Types, Exclusion
<1>3. Positions'
  BY DEF Types, Exclusion, Positions, YieldsOneSnapshot
<1>4. Bumped'
  BY DEF Types, Exclusion, Positions, Bumped
<1>5. YieldsOneSnapshot'
  BY DEF Types, Exclusion, Positions, YieldsOneSnapshot
<1>6. CowYieldsToWriter'
  BY DEF Types, Exclusion, Positions, Bumped, CowYieldsToWriter
<1> QED BY <1>1, <1>2, <1>3, <1>4, <1>5, <1>6

\* AllCOW yields from the contents only while it sees no bump.
LEMMA YieldInvariant ==
    ASSUME IInv, NEW i \in Iters, Yield(i)
    PROVE  IInv'
<1> USE DEF IInv, Yield, WriteWanted, IGoto, lockVars, wVars, iVars
<1>1. Types'
  BY DEF Types, WLabels, ILabels
<1>2. Exclusion'
  BY NoneAssumption DEF Types, Exclusion
<1>3. Positions'
  BY DEF Types, Exclusion, Positions, YieldsOneSnapshot
<1>4. Bumped'
  BY DEF Types, Exclusion, Positions, Bumped
<1>5. YieldsOneSnapshot'
  BY DEF Types, Exclusion, Positions, YieldsOneSnapshot
<1>6. CowYieldsToWriter'
  BY DEF Types, Exclusion, Positions, Bumped, CowYieldsToWriter
<1> QED BY <1>1, <1>2, <1>3, <1>4, <1>5, <1>6

\* A body may have been running when the writer came: it counts once.
LEMMA BodyEndInvariant ==
    ASSUME IInv, NEW i \in Iters, BodyEnd(i)
    PROVE  IInv'
<1> USE DEF IInv, BodyEnd, IGoto, lockVars, wVars, iVars
<1>1. Types'
  BY DEF Types, WLabels, ILabels
<1>2. Exclusion'
  BY NoneAssumption DEF Types, Exclusion
<1>3. Positions'
  BY DEF Types, Exclusion, Positions, YieldsOneSnapshot
<1>4. Bumped'
  BY DEF Types, Exclusion, Positions, Bumped
<1>5. YieldsOneSnapshot'
  BY DEF Types, Exclusion, Positions, YieldsOneSnapshot
<1>6. CowYieldsToWriter'
  BY DEF Types, Exclusion, Positions, Bumped, CowYieldsToWriter
<1> QED BY <1>1, <1>2, <1>3, <1>4, <1>5, <1>6

\* The copy is used up from the front.
LEMMA YieldCopiedInvariant ==
    ASSUME IInv, NEW i \in Iters, YieldCopied(i)
    PROVE  IInv'
<1> USE DEF IInv, YieldCopied, IGoto, lockVars, wVars, iVars
<1>1. Types'
  BY DEF Types, WLabels, ILabels
<1>2. Exclusion'
  BY NoneAssumption DEF Types, Exclusion
<1>a. /\ pos[i] < Len(start[i])
      /\ Tail(snap[i]) = SubSeq(start[i], pos[i] + 2, Len(start[i]))
  <2>1. /\ start[i] \in Seq(Int) /\ pos[i] \in Nat /\ pos[i] <= Len(start[i]) /\ snap[i] # <<>>
        /\ snap[i] = SubSeq(start[i], pos[i] + 1, Len(start[i])) /\ Len(start[i]) \in Nat
    <3>1. ipc[i] = "copied" /\ snap[i] # <<>>
      OBVIOUS
    <3>2. start[i] \in Seq(Int) /\ pos[i] \in Nat
      BY DEF Types
    <3> QED BY <3>1, <3>2 DEF Positions, YieldsOneSnapshot
  <2>2. pos[i] < Len(start[i])
    BY <2>1
  <2> QED BY <2>1, <2>2, TailOfSubSeq
<1>3. Positions'
  <2> SUFFICES ASSUME NEW j \in Iters
               PROVE  /\ ipc'[j] \in {"idle", "rlock", "rlocked"} => pos'[j] = 0 /\ late'[j] = 0
                      /\ ipc'[j] \in {"loop", "body", "copied"} => pos'[j] <= Len(start'[j])
    BY DEF Positions
  <2>1. CASE j = i
    <3>1. ipc'[i] = "copied" /\ pos'[i] = pos[i] + 1 /\ start'[i] = start[i]
      BY DEF Types
    <3>2. pos[i] \in Nat /\ Len(start[i]) \in Nat
      BY DEF Types
    <3> QED BY <2>1, <3>1, <3>2, <1>a
  <2>2. CASE j # i
    BY <2>2 DEF Types, Positions
  <2> QED BY <2>1, <2>2
<1>4. Bumped'
  BY DEF Types, Exclusion, Positions, Bumped
<1>5. YieldsOneSnapshot'
  <2> SUFFICES ASSUME NEW j \in Iters
               PROVE  /\ ipc'[j] \in {"loop", "body"} => contents' = start'[j]
                      /\ ipc'[j] = "copied" => snap'[j] = SubSeq(start'[j], pos'[j] + 1, Len(start'[j]))
    BY DEF YieldsOneSnapshot
  <2>1. CASE j = i
    <3>1. pos'[i] + 1 = pos[i] + 2 /\ snap'[i] = Tail(snap[i])
      BY DEF Types
    <3> QED BY <2>1, <3>1, <1>a DEF Types
  <2>2. CASE j # i
    BY <2>2 DEF Types, YieldsOneSnapshot
  <2> QED BY <2>1, <2>2
<1>6. CowYieldsToWriter'
  BY DEF Types, Exclusion, Positions, Bumped, CowYieldsToWriter
<1> QED BY <1>1, <1>2, <1>3, <1>4, <1>5, <1>6

\* An exit releases the read lock.
LEMMA ExitLoopInvariant ==
    ASSUME IInv, NEW i \in Iters, ExitLoop(i)
    PROVE  IInv'
<1> USE DEF IInv, ExitLoop, IGoto, lockVars, wVars, iVars
<1>1. Types'
  BY DEF Types, WLabels, ILabels
<1>2. Exclusion'
  BY NoneAssumption DEF Types, Exclusion
<1>3. Positions'
  BY DEF Types, Exclusion, Positions, YieldsOneSnapshot
<1>4. Bumped'
  BY DEF Types, Exclusion, Positions, Bumped
<1>5. YieldsOneSnapshot'
  BY DEF Types, Exclusion, Positions, YieldsOneSnapshot
<1>6. CowYieldsToWriter'
  BY DEF Types, Exclusion, Positions, Bumped, CowYieldsToWriter
<1> QED BY <1>1, <1>2, <1>3, <1>4, <1>5, <1>6

\* The iteration is over.
LEMMA CowExitInvariant ==
    ASSUME IInv, NEW i \in Iters, CowExit(i)
    PROVE  IInv'
<1> USE DEF IInv, CowExit, IGoto, lockVars, wVars, iVars
<1>1. Types'
  BY DEF Types, WLabels, ILabels
<1>2. Exclusion'
  BY NoneAssumption DEF Types, Exclusion
<1>3. Positions'
  BY DEF Types, Exclusion, Positions, YieldsOneSnapshot
<1>4. Bumped'
  BY DEF Types, Exclusion, Positions, Bumped
<1>5. YieldsOneSnapshot'
  BY DEF Types, Exclusion, Positions, YieldsOneSnapshot
<1>6. CowYieldsToWriter'
  BY DEF Types, Exclusion, Positions, Bumped, CowYieldsToWriter
<1> QED BY <1>1, <1>2, <1>3, <1>4, <1>5, <1>6

\* A step that changes nothing.
LEMMA StutterInvariant ==
    ASSUME IInv, UNCHANGED vars
    PROVE  IInv'
BY DEF IInv, vars, lockVars, wVars, iVars, Types, Exclusion, Positions, Bumped, YieldsOneSnapshot,
       CowYieldsToWriter

-----------------------------------------------------------------------------
\* Every step of a writer and of an iterator keeps the invariant.
THEOREM CowRangeInvariance == Spec => []IInv
<1>1. ASSUME IInv, [Next]_vars PROVE IInv'
  <2>1. ASSUME NEW w \in Writers, LoadCowActive(w) \/ WStep(w) PROVE IInv'
    BY <1>1, <2>1, LoadCowActiveInvariant, BumpPendingInvariant, AnnounceInvariant,
       AcquireInvariant, UnlockInvariant DEF WStep
  <2>2. ASSUME NEW i \in Iters, Enter(i) \/ IStep(i) PROVE IInv'
    BY <1>1, <2>2, EnterInvariant, RLockInvariant, CheckClosedInvariant, SnapshotInvariant,
       YieldInvariant, BodyEndInvariant, YieldCopiedInvariant, ExitLoopInvariant,
       CowExitInvariant DEF IStep
  <2>3. CASE UNCHANGED vars
    BY <1>1, <2>3, StutterInvariant
  <2> QED BY <1>1, <2>1, <2>2, <2>3 DEF Next
<1> QED BY InitInvariant, <1>1, PTL DEF Spec

\* All and AllCOW yield one snapshot of the queue, taken with the read lock,
\* under any number of concurrent pushes, pops and closes.
THEOREM IteratesOneSnapshot == Spec => []YieldsOneSnapshot
<1>1. IInv => YieldsOneSnapshot
  BY DEF IInv
<1> QED BY CowRangeInvariance, <1>1, PTL

\* A writer that saw the iterator waits for at most the body that is running.
THEOREM IteratorLetsGo == Spec => []CowYieldsToWriter
<1>1. IInv => CowYieldsToWriter
  BY DEF IInv
<1> QED BY CowRangeInvariance, <1>1, PTL

\* While an iteration is in its loop under the read lock, no step of anybody
\* changes the contents it reads.
ReadStable == \A i \in Iters : ipc[i] \in {"loop", "body"} => contents' = contents

\* No writer mutates under a running loop: see ReadStable.
THEOREM ContentsStableUnderReaders == Spec => [][ReadStable]_vars
<1>1. ASSUME IInv, Next PROVE ReadStable
  <2>1. ASSUME NEW w \in Writers, Unlock(w) PROVE ReadStable
    BY <1>1, <2>1 DEF IInv, Exclusion, ReadStable, Unlock
  <2>2. ASSUME NEW w \in Writers, LoadCowActive(w) \/ BumpPending(w) \/ Announce(w) \/ Acquire(w)
        PROVE  ReadStable
    BY <2>2 DEF ReadStable, LoadCowActive, BumpPending, Announce, Acquire
  <2>3. ASSUME NEW i \in Iters, Enter(i) \/ IStep(i) PROVE ReadStable
    BY <2>3 DEF ReadStable, IStep, Enter, RLock, CheckClosed, Snapshot, CopyFrom, Yield, BodyEnd,
       YieldCopied, ExitLoop, CowExit
  <2> QED BY <1>1, <2>1, <2>2, <2>3 DEF Next, WStep
<1> QED BY CowRangeInvariance, <1>1, PTL DEF Spec
=============================================================================
