---------------------------- MODULE ParkerSignal ----------------------------
(***************************************************************************)
(* core.Signal on top of package parker: core/signal.go and                *)
(* internal/parker/parker.go, at the grain of their atomic operations.     *)
(*                                                                         *)
(* Wait registers a pooled Parker while it still holds the caller's lock,  *)
(* arms a context callback, and parks.  Broadcast steals the list of       *)
(* parkers and then swaps each one's state outside the lock; a swap that   *)
(* finds "parked" owes the goroutine a goready, a separate step.  What     *)
(* makes this hard is that parkers are recycled through a pool while a     *)
(* callback or a Broadcast may still be about to touch them.               *)
(*                                                                         *)
(* The caller of a Signal is modelled too, as the backings use it: a flag  *)
(* cond, guarded by the queue lock lk, that waiters wait for; a mutator    *)
(* sets it and broadcasts under the lock when HasWaiters, Close sets it    *)
(* and broadcasts after the unlock, and a taker resets it.                 *)
(***************************************************************************)
EXTENDS Integers, FiniteSets, SequencesExt

CONSTANTS
    Procs,      \* goroutines
    Parkers,    \* Parker objects
    None        \* nil, for lk, g and par

ASSUME NoneAssumption == None \notin Procs \cup Parkers
ASSUME ProcsAssumption == IsFiniteSet(Procs)

VARIABLES
    lk,         \* who holds the queue lock, or None
    cond,       \* the condition the waiters wait for
    pc,
    par,        \* the Parker of the call a goroutine is in
    armed,      \* its AfterFunc registration is pending
    done,       \* its ctx is done
    state, g,   \* the two fields of a Parker that Wake and Broadcast touch
    pool,       \* parkers in parkerPool
    list,       \* w.parkers
    waiters,    \* s.waiters
    stolen,     \* the parkers a Broadcast has taken and not yet swapped
    ready,      \* the Parker whose goroutine a Broadcast is about to ready
    firing,     \* parkers whose callback is about to swap
    cbReady     \* parkers whose callback is about to ready the goroutine

sigVars == <<state, g, pool, list, waiters>>
cbVars  == <<firing, cbReady>>
bcVars  == <<stolen, ready>>
vars == <<lk, cond, pc, par, armed, done, sigVars, bcVars, cbVars>>

Goto(p, label) == pc' = [pc EXCEPT ![p] = label]

\* Somebody can still reach k: its owner, the list, a Broadcast, a callback.
Referenced(k) ==
    \/ \E p \in Procs : par[p] = k \/ ready[p] = k \/ Contains(stolen[p], k)
    \/ Contains(list, k)
    \/ k \in firing \cup cbReady

-----------------------------------------------------------------------------
(***************************************************************************)
(* Wait.                                                                   *)
(***************************************************************************)

\* Register: a Parker from the pool, as Reset left it, or a new one (which
\* may be storage the collector reclaimed from an unreachable Parker).
Register(p) ==
    /\ pc[p] = "out" /\ lk = None /\ ~cond
    /\ lk' = p
    /\ \E k \in Parkers :
        /\ \/ k \in pool /\ UNCHANGED <<state, g>>
           \/ /\ k \notin pool /\ ~Referenced(k)
              /\ state' = [state EXCEPT ![k] = "init"]
              /\ g' = [g EXCEPT ![k] = None]
        /\ pool' = pool \ {k}
        /\ par' = [par EXCEPT ![p] = k]
        /\ list' = Append(list, k)
    /\ Goto(p, "registered")
    /\ UNCHANGED <<cond, armed, done, waiters, bcVars, cbVars>>

\* Mutation: the lock is released without counting the waiter.
UnlockUncounted(p) ==
    /\ pc[p] = "registered"
    /\ lk' = None
    /\ Goto(p, "unlocked")
    /\ UNCHANGED <<cond, par, armed, done, sigVars, bcVars, cbVars>>

\* waiters.Add(1), and only then unlock().
Unlock(p) ==
    /\ pc[p] = "registered"
    /\ waiters' = waiters + 1
    /\ lk' = None
    /\ Goto(p, "unlocked")
    /\ UNCHANGED <<cond, par, armed, done, state, g, pool, list, bcVars, cbVars>>

\* Mutation: no callback is ever armed.
NoAfterFunc(p) ==
    /\ pc[p] = "unlocked"
    /\ Goto(p, "park")
    /\ UNCHANGED <<lk, cond, par, armed, done, sigVars, bcVars, cbVars>>

\* context.AfterFunc, skipped for a ctx that cannot be cancelled.
AfterFunc(p) ==
    /\ pc[p] = "unlocked"
    /\ \E cancellable \in {done[p], TRUE} : armed' = [armed EXCEPT ![p] = cancellable]
    /\ Goto(p, "park")
    /\ UNCHANGED <<lk, cond, par, done, sigVars, bcVars, cbVars>>

\* Mutation: the park does not notice an earlier wake.
ParkAnyway(p) ==
    /\ pc[p] = "park"
    /\ g' = [g EXCEPT ![par[p]] = p]
    /\ state' = [state EXCEPT ![par[p]] = "parked"]
    /\ Goto(p, "parked")
    /\ UNCHANGED <<lk, cond, par, armed, done, pool, list, waiters, bcVars, cbVars>>

\* gopark with parkerUnlockf: capture g, then CAS init -> parked; a failed
\* CAS aborts the park.
Park(p) ==
    /\ pc[p] = "park"
    /\ g' = [g EXCEPT ![par[p]] = p]
    /\ IF state[par[p]] = "init"
       THEN /\ state' = [state EXCEPT ![par[p]] = "parked"]
            /\ Goto(p, "parked")
       ELSE Goto(p, "unparked") /\ UNCHANGED state
    /\ UNCHANGED <<lk, cond, par, armed, done, pool, list, waiters, bcVars, cbVars>>

\* Mutation: the Parker is recycled although its callback has started.
CancelIgnored(p) ==
    /\ pc[p] = "unparked"
    /\ armed' = [armed EXCEPT ![p] = FALSE]
    /\ Goto(p, "release")
    /\ UNCHANGED <<lk, cond, par, done, sigVars, bcVars, cbVars>>

\* cancel() returns true unless the callback has been started.  A ctx that
\* never had a callback takes the same branch.
Cancel(p) ==
    /\ pc[p] = "unparked"
    /\ armed' = [armed EXCEPT ![p] = FALSE]
    /\ Goto(p, IF armed[p] \/ ~done[p] THEN "release" ELSE "detach")
    /\ UNCHANGED <<lk, cond, par, done, sigVars, bcVars, cbVars>>

\* Detach and the first half of Release take p off the list, if it is on it.
Unlist(p, label) ==
    /\ \/ ~Contains(list, par[p]) /\ UNCHANGED list
       \/ \E i \in 1..Len(list) :
            /\ list[i] = par[p] /\ \A j \in 1..(i - 1) : list[j] # par[p]
            /\ list' = RemoveAt(list, i)
    /\ Goto(p, label)
    /\ UNCHANGED <<lk, cond, armed, done, state, g, pool, waiters, bcVars, cbVars>>

Release(p) == pc[p] = "release" /\ Unlist(p, "put") /\ UNCHANGED par

Detach(p) == pc[p] = "detach" /\ Unlist(p, "leave") /\ par' = [par EXCEPT ![p] = None]

\* parkerPool.Put, which resets the Parker.
Put(p) ==
    /\ pc[p] = "put"
    /\ state' = [state EXCEPT ![par[p]] = "init"]
    /\ g' = [g EXCEPT ![par[p]] = None]
    /\ pool' = pool \cup {par[p]}
    /\ par' = [par EXCEPT ![p] = None]
    /\ Goto(p, "leave")
    /\ UNCHANGED <<lk, cond, armed, done, list, waiters, bcVars, cbVars>>

\* The deferred waiters.Add(-1).
Leave(p) ==
    /\ pc[p] = "leave"
    /\ waiters' = waiters - 1
    /\ done' = [done EXCEPT ![p] = FALSE]
    /\ Goto(p, "out")
    /\ UNCHANGED <<lk, cond, par, armed, state, g, pool, list, bcVars, cbVars>>

InWait == {"registered", "unlocked", "park", "parked", "unparked", "release",
           "detach", "put", "leave"}

-----------------------------------------------------------------------------
(***************************************************************************)
(* The context of a Wait and its callback, p.Wake.                         *)
(***************************************************************************)
CtxDone(p) ==
    /\ pc[p] \in InWait /\ ~done[p]
    /\ armed[p] \/ pc[p] \in {"registered", "unlocked"}     \* cancellable
    /\ done' = [done EXCEPT ![p] = TRUE]
    /\ UNCHANGED <<lk, cond, pc, par, armed, sigVars, bcVars, cbVars>>

\* The callback's goroutine starts: from here cancel() returns false.
Fire(p) ==
    /\ armed[p] /\ done[p]
    /\ armed' = [armed EXCEPT ![p] = FALSE]
    /\ firing' = firing \cup {par[p]}
    /\ UNCHANGED <<lk, cond, pc, par, done, sigVars, bcVars, cbReady>>

Swap(k) == state' = [state EXCEPT ![k] = "woken"]

Wake(k) ==
    /\ k \in firing
    /\ Swap(k)
    /\ firing' = firing \ {k}
    /\ cbReady' = IF state[k] = "parked" THEN cbReady \cup {k} ELSE cbReady
    /\ UNCHANGED <<lk, cond, pc, par, armed, done, g, pool, list, waiters, bcVars>>

\* goready on the goroutine a Parker has captured.
Goready(k) == pc' = [pc EXCEPT ![g[k]] = "unparked"]

WakeGoready(k) ==
    /\ k \in cbReady
    /\ Goready(k)
    /\ cbReady' = cbReady \ {k}
    /\ UNCHANGED <<lk, cond, par, armed, done, sigVars, bcVars, firing>>

-----------------------------------------------------------------------------
(***************************************************************************)
(* Broadcast and the callers of Signal.                                    *)
(***************************************************************************)

\* A mutator makes the condition true and signals when HasWaiters.
Mutate(p) ==
    /\ pc[p] = "out" /\ lk = None
    /\ cond' = TRUE
    /\ IF waiters > 0
       THEN lk' = p /\ Goto(p, "steal")
       ELSE UNCHANGED <<lk, pc>>
    /\ UNCHANGED <<par, armed, done, sigVars, bcVars, cbVars>>

\* Close sets closed under the lock, unlocks, and signals unconditionally.
Close(p) ==
    /\ pc[p] = "out" /\ lk = None
    /\ cond' = TRUE
    /\ Goto(p, "steal")
    /\ UNCHANGED <<lk, par, armed, done, sigVars, bcVars, cbVars>>

Take(p) ==
    /\ pc[p] = "out" /\ lk = None /\ cond
    /\ cond' = FALSE
    /\ UNCHANGED <<lk, pc, par, armed, done, sigVars, bcVars, cbVars>>

Steal(p) ==
    /\ pc[p] = "steal"
    /\ stolen' = [stolen EXCEPT ![p] = list]
    /\ list' = <<>>
    /\ Goto(p, "swap")
    /\ UNCHANGED <<lk, cond, par, armed, done, state, g, pool, waiters, ready, cbVars>>

BroadcastSwap(p) ==
    /\ pc[p] = "swap" /\ stolen[p] # <<>> /\ ready[p] = None
    /\ LET k == Head(stolen[p]) IN
        /\ Swap(k)
        /\ ready' = [ready EXCEPT ![p] = IF state[k] = "parked" THEN k ELSE None]
    /\ stolen' = [stolen EXCEPT ![p] = Tail(@)]
    /\ UNCHANGED <<lk, cond, pc, par, armed, done, g, pool, list, waiters, cbVars>>

BroadcastGoready(p) ==
    /\ ready[p] # None
    /\ Goready(ready[p])
    /\ ready' = [ready EXCEPT ![p] = None]
    /\ UNCHANGED <<lk, cond, par, armed, done, sigVars, stolen, cbVars>>

BroadcastEnd(p) ==
    /\ pc[p] = "swap" /\ stolen[p] = <<>> /\ ready[p] = None
    /\ lk' = IF lk = p THEN None ELSE lk
    /\ Goto(p, "out")
    /\ UNCHANGED <<cond, par, armed, done, sigVars, bcVars, cbVars>>

-----------------------------------------------------------------------------
Init ==
    /\ lk = None /\ cond = FALSE
    /\ pc = [p \in Procs |-> "out"]
    /\ par = [p \in Procs |-> None]
    /\ armed = [p \in Procs |-> FALSE] /\ done = [p \in Procs |-> FALSE]
    /\ state = [k \in Parkers |-> "init"] /\ g = [k \in Parkers |-> None]
    /\ pool = {} /\ list = <<>> /\ waiters = 0
    /\ stolen = [p \in Procs |-> <<>>] /\ ready = [p \in Procs |-> None]
    /\ firing = {} /\ cbReady = {}

\* The steps a goroutine takes by itself inside Wait or Broadcast.
Progress(p) ==
    \/ Unlock(p) \/ AfterFunc(p) \/ Park(p) \/ Cancel(p) \/ Release(p)
    \/ Detach(p) \/ Put(p) \/ Leave(p)
    \/ Steal(p) \/ BroadcastSwap(p) \/ BroadcastGoready(p) \/ BroadcastEnd(p)

Callback(k) == Wake(k) \/ WakeGoready(k)

Next ==
    \/ \E p \in Procs :
        Register(p) \/ Mutate(p) \/ Close(p) \/ Take(p) \/ CtxDone(p) \/ Fire(p) \/ Progress(p)
    \/ \E k \in Parkers : Callback(k)

\* Every runnable goroutine is scheduled, callbacks included.
Fairness ==
    /\ \A p \in Procs : WF_vars(Progress(p)) /\ WF_vars(Fire(p))
    /\ \A k \in Parkers : WF_vars(Callback(k))

Spec == Init /\ [][Next]_vars /\ Fairness

-----------------------------------------------------------------------------
\* goready is only ever called on a goroutine that is parked on that very
\* Parker, and by one caller at a time: the runtime throws on a goroutine
\* that is not waiting.
GoreadyOnParked ==
    /\ \A k \in cbReady \cup ({ready[p] : p \in Procs} \ {None}) :
        /\ g[k] # None
        /\ pc[g[k]] = "parked" /\ par[g[k]] = k
    /\ \A p \in Procs : ready[p] \notin cbReady
    /\ \A p, q \in Procs : ready[p] = ready[q] /\ ready[p] # None => p = q

\* A Parker in use is only woken for its owner's sake: its Broadcast took it
\* off the list, or its owner's ctx is done.  A callback left over from an
\* earlier Wait never wakes the goroutine that recycled the Parker.
NoStaleWake ==
    \A p \in Procs :
        par[p] # None /\ state[par[p]] = "woken" /\ Contains(list, par[p]) => done[p]

\* The two together: a Parker is readied only while parked and only for its
\* present owner, although Parkers are pooled and callbacks outlive a Wait.
WokenRightly == GoreadyOnParked /\ NoStaleWake

\* While the condition holds, a goroutine on the list that nobody has woken
\* has a Broadcast about to steal the list: no Signal is lost between the
\* unlock and the park, nor by the HasWaiters gate.
NoLostSignal ==
    \A p \in Procs :
        /\ cond /\ par[p] # None
        /\ Contains(list, par[p]) /\ state[par[p]] # "woken"
        => \E q \in Procs : pc[q] = "steal"

\* What a user of the Signal sees of each goroutine.
Waiter ==
    [p \in Procs |->
        IF pc[p] \notin InWait THEN "out"
        ELSE IF par[p] # None /\ Contains(list, par[p]) /\ state[par[p]] # "woken"
             THEN "waiting" ELSE "released"]

Contract == INSTANCE SignalSpec WITH waiter <- Waiter

\* The parkers implement the contract of a Signal: one Broadcast releases
\* every registered Wait at once, a ctx releases its own Wait only, and every
\* released Wait returns.
ImplementsSignal == Contract!Spec

\* A goroutine whose ctx is done leaves Wait.
CancelReturns == \A p \in Procs : done[p] ~> pc[p] = "out"
=============================================================================
