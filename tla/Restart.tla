------------------------------ MODULE Restart ------------------------------
(***************************************************************************)
(* The on-disk backing across the lives of its process: what a crash at    *)
(* any point leaves in the bbolt store and in the Backup, and what the     *)
(* next newBacking and Hydrate make of it (bbolt/bbolt.go).                *)
(*                                                                         *)
(* The store and the Backup survive; everything else is gone with the      *)
(* process.  Each is a sequence of items, numbered so that no two are      *)
(* equal.  A bbolt transaction and a call of the Backup each happen at     *)
(* once or not at all; between two of them the process may end.  Callers,  *)
(* waiting and the flusher's loop are module Bbolt; here one batch is      *)
(* being committed at a time, by the flusher, and one removal, by a caller *)
(* who holds the lock.                                                     *)
(***************************************************************************)
EXTENDS Integers, FiniteSets, SequencesExt

CONSTANTS
    HydrateBatch,       \* hydrateBatch, 100 in the code
    Restores,           \* how many items the Backup may hold before the first life
    BatchSizes,         \* how many items one commit may carry
    RemoveSizes,        \* how many items one Pop or Del may take
    MaxItems,           \* bound on the items that ever exist
    MaxLives            \* bound on the lives of the process

ASSUME SizesAssumption == HydrateBatch \in Nat \ {0} /\ BatchSizes \cup RemoveSizes \subseteq Nat \ {0}
ASSUME BoundsAssumption == MaxItems \in Nat /\ MaxLives \in Nat /\ Restores \subseteq Nat

VARIABLES
    store, backup,      \* what survives
    life,               \* "down", "hydrating", "up"
    lives,
    toLoad,             \* Hydrate: what RangeAll has still to yield
    flush, batch,       \* where the flusher's commit stands, and its items
    remove, victims,    \* where the removal in progress stands, and its items
    created,            \* how many items exist
    held,               \* history: what the Backup held before the first life
    acked,              \* history: items whose Push returned nil
    gone,               \* history: items whose removal was committed
    missed              \* history: what a Hydrate that was cut short left out

durableVars == <<store, backup>>
localVars   == <<toLoad, flush, batch, remove, victims>>
histVars    == <<held, acked, gone, missed>>
vars == <<durableVars, life, lives, localVars, created, histVars>>

Items(s)      == ToSet(s)
FirstOf(s, n) == SubSeq(s, 1, IF n < Len(s) THEN n ELSE Len(s))
Numbers(a, n) == [i \in 1..n |-> a + i]

\* The items of s that are in X, in their order (what Restore is given), and the
\* others.
Rank(S, k) == Cardinality({j \in S : j <= k})
Only(s, X) ==
    LET S == {j \in 1..Len(s) : s[j] \in X} IN
    [i \in 1..Cardinality(S) |-> s[CHOOSE k \in S : Rank(S, k) = i]]
Without(s, X) == Only(s, Items(s) \ X)

\* p.count does not know a batch before the commit's last part.
Count == Len(store) - (IF flush = "count" THEN Len(batch) ELSE 0)

\* The write lock is free, and a bbolt write transaction may begin.
LockFree == life = "up" /\ remove = "none"

-----------------------------------------------------------------------------
(***************************************************************************)
(* New.                                                                    *)
(***************************************************************************)

\* newBacking counts the rows; a store that holds any is the source of truth.
Open ==
    /\ life' = IF store = <<>> /\ backup # <<>> THEN "hydrating" ELSE "up"
    /\ toLoad' = IF store = <<>> THEN backup ELSE <<>>

New ==
    /\ life = "down" /\ lives < MaxLives
    /\ lives' = lives + 1
    /\ Open
    /\ UNCHANGED <<durableVars, flush, batch, remove, victims, created, histVars>>

\* Mutation: what is left in the buffer after the last full batch is not
\* flushed.
FlushFull(n) == n = HydrateBatch
\* hydrateBatch items, or the rest, in one transaction.
FlushAny(n) == n > 0

\* One flush of Hydrate; the last one is followed by the attach.
HydrateFlush ==
    /\ life = "hydrating"
    /\ LET part == FirstOf(toLoad, HydrateBatch) IN
       /\ store' = IF FlushAny(Len(part)) THEN store \o part ELSE store
       /\ toLoad' = SubSeq(toLoad, Len(part) + 1, Len(toLoad))
       /\ life' = IF toLoad' = <<>> THEN "up" ELSE "hydrating"
    /\ UNCHANGED <<backup, lives, flush, batch, remove, victims, created, histVars>>

-----------------------------------------------------------------------------
(***************************************************************************)
(* A commit by the flusher.                                                *)
(***************************************************************************)
Staged(n) ==
    /\ life = "up" /\ flush = "none" /\ remove # "clear"
    /\ created + n <= MaxItems
    /\ batch' = Numbers(created, n)
    /\ created' = created + n
    /\ flush' = "mirror"
    /\ UNCHANGED <<durableVars, life, lives, toLoad, remove, victims, histVars>>

\* The batch's Pushes return an error; nothing undoes the Backup.
CommitFails ==
    /\ flush \in {"mirror", "land"}
    /\ flush' = "none" /\ batch' = <<>>
    /\ UNCHANGED <<durableVars, life, lives, toLoad, remove, victims, created, histVars>>

CommitMirror ==
    /\ flush = "mirror"
    /\ backup' = backup \o batch
    /\ flush' = "land"
    /\ UNCHANGED <<store, life, lives, toLoad, batch, remove, victims, created, histVars>>

\* db.Update, while no other write transaction is open.
CommitLand ==
    /\ flush = "land" /\ remove # "pop"
    /\ store' = store \o batch
    /\ flush' = "count"
    /\ UNCHANGED <<backup, life, lives, toLoad, batch, remove, victims, created, histVars>>

\* The counter, under the lock, and the answer to the batch's Pushes.
Settles ==
    /\ acked' = acked \cup Items(batch)
    /\ flush' = "none" /\ batch' = <<>>
    /\ UNCHANGED <<durableVars, life, lives, toLoad, remove, victims, created, held, gone, missed>>

\* Mutation: the Pushes are answered once the Backup has the batch.
AnswerMirrored == flush \in {"land", "count"} /\ remove = "none" /\ Settles
CommitAnswer == flush = "count" /\ remove = "none" /\ Settles

-----------------------------------------------------------------------------
(***************************************************************************)
(* Removals.                                                               *)
(***************************************************************************)

\* Mutation: the Backup still holds what the removal is about to take.
UndeletedYet(op, X) == remove' = op /\ victims' = X /\ UNCHANGED backup
\* The Backup deletes the items, or empties, before the transaction.
BackupFirst(op, X) ==
    /\ remove' = op /\ victims' = X
    /\ backup' = IF op = "clear" THEN <<>> ELSE Without(backup, X)

\* Pop takes the first rows, inside its transaction; Del any it matched.
Pop(n) ==
    /\ LockFree /\ Count > 0
    /\ BackupFirst("pop", Items(FirstOf(store, IF n < Count THEN n ELSE Count)))
    /\ UNCHANGED <<store, life, lives, toLoad, flush, batch, created, histVars>>

Del(X) ==
    /\ LockFree /\ Count # 0 /\ X # {}
    /\ BackupFirst("del", X)
    /\ UNCHANGED <<store, life, lives, toLoad, flush, batch, created, histVars>>

\* doClear runs on the flusher after a drain; with nothing counted it leaves
\* the Backup alone.
Clear ==
    /\ LockFree /\ flush = "none" /\ Count # 0
    /\ BackupFirst("clear", Items(store))
    /\ UNCHANGED <<store, life, lives, toLoad, flush, batch, created, histVars>>

RemoveOver == remove' = "none" /\ victims' = {}

RemoveLand ==
    /\ remove # "none"
    /\ store' = Without(store, victims)
    /\ gone' = gone \cup victims
    /\ RemoveOver
    /\ UNCHANGED <<backup, life, lives, toLoad, flush, batch, created, held, acked, missed>>

\* The transaction fails.  Pop and Del put the items back at the front of the
\* Backup, which may fail too; Clear does not try.
RemoveFails ==
    /\ remove # "none"
    /\ \/ UNCHANGED backup
       \/ /\ remove # "clear"
          /\ backup' = Only(store, victims) \o backup
    /\ RemoveOver
    /\ UNCHANGED <<store, life, lives, toLoad, flush, batch, created, histVars>>

-----------------------------------------------------------------------------
\* The process ends: a crash at any point, a Close when nothing is under way,
\* or a New whose Hydrate returned an error or unwound.
End ==
    /\ life # "down"
    /\ life' = "down"
    /\ missed' = IF life = "hydrating" /\ store # <<>> THEN missed \cup Items(toLoad) ELSE missed
    /\ toLoad' = <<>>
    /\ flush' = "none" /\ batch' = <<>> /\ remove' = "none" /\ victims' = {}
    /\ UNCHANGED <<durableVars, lives, created, held, acked, gone>>

\* The bound on lives is reached.
Finished == life = "down" /\ lives = MaxLives /\ UNCHANGED vars

Init ==
    \E m \in Restores :
      /\ store = <<>> /\ backup = Numbers(0, m)
      /\ life = "down" /\ lives = 0 /\ created = m
      /\ toLoad = <<>> /\ flush = "none" /\ batch = <<>> /\ remove = "none" /\ victims = {}
      /\ held = 1..m /\ acked = {} /\ gone = {} /\ missed = {}

Next ==
    \/ New \/ HydrateFlush
    \/ \E n \in BatchSizes : Staged(n)
    \/ CommitFails \/ CommitMirror \/ CommitLand \/ CommitAnswer
    \/ \E n \in RemoveSizes : Pop(n)
    \/ \E X \in {Y \in SUBSET Items(store) : Cardinality(Y) \in RemoveSizes} : Del(X)
    \/ Clear \/ RemoveLand \/ RemoveFails
    \/ End \/ Finished

Spec == Init /\ [][Next]_vars

-----------------------------------------------------------------------------
(***************************************************************************)
(* Properties.                                                             *)
(***************************************************************************)

\* An item whose Push returned nil is in the store, in every life and between
\* lives, until its removal is committed.
AckedDurable == acked \ gone \subseteq Items(store)

\* What was popped, deleted or cleared never comes back, and nothing is queued
\* twice, whatever the Backup held when the process ended.
GoneForGood == Items(store) \cap gone = {} /\ IsInjective(store)

\* Once New has returned a queue, everything the Backup held before the first
\* life is in it or has been removed, except for what a Hydrate that was cut
\* short had not loaded: a store that is no longer empty is never completed.
RestoreComplete == life = "up" => held \ (gone \cup missed) \subseteq Items(store)
=============================================================================
