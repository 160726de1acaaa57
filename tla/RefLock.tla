------------------------------ MODULE RefLock ------------------------------
(***************************************************************************)
(* The advisory lock on one ref (pkg/oci/lock.go): goroutines of several   *)
(* client processes acquire and release it, an operator breaks it, and a   *)
(* garbage collector reclaims it.  The registry has no compare-and-swap:   *)
(* every call below is one step, and any actor may run between two calls.  *)
(*                                                                         *)
(* Time is relative: a lock carries the ticks it has left instead of an    *)
(* expiry date, so the state is finite without a bound on the clock.       *)
(***************************************************************************)
EXTENDS Naturals, FiniteSets

CONSTANTS
  Threads,    \* goroutines that push
  Clients,    \* processes; each has one heldLocks table
  ClientOf,   \* the process a goroutine runs in
  Ids,        \* lock ids, unique among the acquisitions still in sight
  TTL,        \* ticks a lock lives
  Collector,  \* the garbage collector
  NoId,       \* "no lock id": the tag is absent or a released tombstone
  Reserved,   \* lockReserved: an acquisition is in flight
  Faults      \* may a registry call fail, or take effect and lose its answer?

ASSUME ClientsAssumption == ClientOf \in [Threads -> Clients]
ASSUME IdsAssumption == NoId \notin Ids /\ Reserved \notin Ids /\ Reserved # NoId
ASSUME TTLAssumption == TTL \in Nat \ {0}
ASSUME CollectorAssumption == Collector \notin Threads
ASSUME FaultsAssumption == Faults \in BOOLEAN

VARIABLES
  tag,     \* the lock manifest published under LockTag(ref)
  held,    \* heldLocks[ref] of each process
  pc,      \* where each goroutine is in AcquireRefLock .. ReleaseRefLock
  mine,    \* the lock each goroutine is publishing or believes it holds
  gc,      \* the collector: where it is, and the manifest it resolved
  broken,  \* has the operator's break-lock read a live lock?
  stale,   \* actors whose last read of the tag a later write made stale
  stolen   \* goroutines whose confirmed live lock another actor replaced

vars == <<tag, held, pc, mine, gc, broken, stale, stolen>>

Actors == Threads \union {Collector}
Stages == {"idle", "wait", "check", "write", "confirm", "work", "tombstone"}
Acquiring == {"check", "write", "confirm"}
Holding == {"work", "tombstone"}

\* An absent tag and a tombstone are told apart by nobody: both read "not locked".
NoLock == [id |-> NoId, left |-> 0]
Lock == [id : Ids, left : 0 .. TTL] \union {NoLock}

TypeOK ==
  /\ tag \in Lock
  /\ held \in [Clients -> Ids \union {NoId, Reserved}]
  /\ pc \in [Threads -> Stages]
  /\ mine \in [Threads -> Lock]
  /\ gc \in [at : {"idle", "resolve", "delete"}, target : Lock]
  /\ broken \in BOOLEAN
  /\ stale \in SUBSET Actors
  /\ stolen \in SUBSET Threads

Init ==
  /\ tag = NoLock
  /\ held = [c \in Clients |-> NoId]
  /\ pc = [t \in Threads |-> "idle"]
  /\ mine = [t \in Threads |-> NoLock]
  /\ gc = [at |-> "idle", target |-> NoLock]
  /\ broken = FALSE
  /\ stale = {}
  /\ stolen = {}
-----------------------------------------------------------------------------
\* Mutants of the definitions below.
EternalLocked(lock) == lock.id # NoId
OwnReservationOnly(t) == held[ClientOf[t]] # Reserved
CheckSkipped == TRUE
AnyLockReadBack(t) == tag.id # NoId
Unclamped(lock) == [lock EXCEPT !.left = @ - 1]

\* lockStateByTag: a tombstone is not a lock, nor is an expired lock.
Locked(lock) == lock.id # NoId /\ lock.left > 0

\* heldLocks.LoadOrStore finds the slot empty.
Reservable(t) == held[ClientOf[t]] = NoId

\* What AcquireRefLock and IsLockReclaimable ask.
Unlocked == ~Locked(tag)

\* Ids nobody refers to any more: a new acquisition's id is none of the others.
FreshIds == Ids \ ({tag.id, gc.target.id}
                     \union {mine[t].id : t \in Threads}
                     \union {held[c] : c \in Clients})

\* AcquireRefLock's read-back.
StillMine(t) == Locked(tag) /\ tag.id = mine[t].id

\* verifyLockOwnership: an expired or released lock may be released again.
MayRelease(t) == Locked(tag) => held[ClientOf[t]] = tag.id

SetHeld(t, id) == held' = [held EXCEPT ![ClientOf[t]] = id]

\* The registry replaces the manifest: every earlier read of it is stale, and a
\* confirmed live lock of another goroutine is gone.
Publish(lock, by) ==
  /\ tag' = lock
  /\ stale' = Actors
  /\ stolen' = (stolen \union {u \in Threads : pc[u] \in Holding /\ StillMine(u)}) \ by

ReadTag(actor) == tag' = tag /\ stale' = stale \ {actor}

Leave(t, stage) ==
  /\ pc' = [pc EXCEPT ![t] = stage]
  /\ mine' = [mine EXCEPT ![t] = NoLock]
-----------------------------------------------------------------------------
\* AcquireRefLock reserves the in-process slot before it touches the registry.
Reserve(t, from) ==
  /\ pc[t] = from
  /\ Reservable(t)
  /\ SetHeld(t, Reserved)
  /\ pc' = [pc EXCEPT ![t] = "check"]
  /\ UNCHANGED <<tag, mine, gc, broken, stale, stolen>>

\* AcquireRefLockWithRetry, after ErrRefLocked: try again, or return because this
\* process holds the lock itself (not contention) or because the deadline passed.
Retry(t) == Reserve(t, "wait")

Refuse(t) ==
  /\ ~Reservable(t)
  /\ pc[t] = "wait"
  /\ pc' = [pc EXCEPT ![t] = "idle"]
  /\ UNCHANGED <<tag, held, mine, gc, broken, stale, stolen>>

GiveUp(t) ==
  /\ pc[t] = "wait"
  /\ pc' = [pc EXCEPT ![t] = "idle"]
  /\ UNCHANGED <<tag, held, mine, gc, broken, stale, stolen>>

\* The lock is free: choose an id and compute the expiry, before any write.
CheckFree(t) ==
  /\ pc[t] = "check"
  /\ Unlocked
  /\ \E i \in FreshIds : mine' = [mine EXCEPT ![t] = [id |-> i, left |-> TTL]]
  /\ pc' = [pc EXCEPT ![t] = "write"]
  /\ ReadTag(t)
  /\ UNCHANGED <<held, gc, broken, stolen>>

\* ErrRefLocked: give the reservation back and wait.
CheckBusy(t) ==
  /\ pc[t] = "check"
  /\ Locked(tag)
  /\ SetHeld(t, NoId)
  /\ pc' = [pc EXCEPT ![t] = "wait"]
  /\ UNCHANGED <<tag, mine, gc, broken, stale, stolen>>

WriteLock(t) ==
  /\ pc[t] = "write"
  /\ Publish(mine[t], {t})
  /\ pc' = [pc EXCEPT ![t] = "confirm"]
  /\ UNCHANGED <<held, mine, gc, broken>>

Confirm(t) ==
  /\ pc[t] = "confirm"
  /\ StillMine(t)
  /\ SetHeld(t, mine[t].id)
  /\ pc' = [pc EXCEPT ![t] = "work"]
  /\ UNCHANGED <<tag, mine, gc, broken, stale, stolen>>

\* Lost the race: the lock read back is another's, expired, or gone.
LoseRace(t) ==
  /\ pc[t] = "confirm"
  /\ ~StillMine(t)
  /\ SetHeld(t, NoId)
  /\ Leave(t, "wait")
  /\ UNCHANGED <<tag, gc, broken, stale, stolen>>

\* releaseRefLock, first half: verifyLockOwnership lets the release through.
Verify(t) ==
  /\ pc[t] = "work"
  /\ MayRelease(t)
  /\ pc' = [pc EXCEPT ![t] = "tombstone"]
  /\ ReadTag(t)
  /\ UNCHANGED <<held, mine, gc, broken, stolen>>

\* "it was taken over": the release is refused, and heldLocks keeps the entry.
RefuseRelease(t) ==
  /\ pc[t] = "work"
  /\ ~MayRelease(t)
  /\ Leave(t, "idle")
  /\ stolen' = stolen \ {t}
  /\ UNCHANGED <<tag, held, gc, broken, stale>>

\* releaseRefLock, second half.
Tombstone(t) ==
  /\ pc[t] = "tombstone"
  /\ Publish(NoLock, {t})
  /\ SetHeld(t, NoId)
  /\ Leave(t, "idle")
  /\ UNCHANGED <<gc, broken>>
-----------------------------------------------------------------------------
\* A call of the acquisition fails: the deferred cleanup drops the reservation.
\* The lock it may have published stays until it expires.
FailAcquire(t) ==
  /\ Faults
  /\ pc[t] \in Acquiring
  /\ SetHeld(t, NoId)
  /\ Leave(t, "idle")
  /\ \/ pc[t] = "write" /\ Publish(mine[t], {t})
     \/ UNCHANGED <<tag, stale, stolen>>
  /\ UNCHANGED <<gc, broken>>

\* A call of the release fails: heldLocks keeps the entry.
FailRelease(t) ==
  /\ Faults
  /\ pc[t] \in Holding
  /\ Leave(t, "idle")
  /\ \/ pc[t] = "tombstone" /\ Publish(NoLock, {t})
     \/ UNCHANGED <<tag, stale>> /\ stolen' = stolen \ {t}
  /\ UNCHANGED <<held, gc, broken>>

\* A process dies: its locks stay published, its heldLocks do not.
Crash(c) ==
  LET dead == {t \in Threads : ClientOf[t] = c} IN
  /\ held' = [held EXCEPT ![c] = NoId]
  /\ pc' = [t \in Threads |-> IF t \in dead THEN "idle" ELSE pc[t]]
  /\ mine' = [t \in Threads |-> IF t \in dead THEN NoLock ELSE mine[t]]
  /\ stolen' = stolen \ dead
  /\ UNCHANGED <<tag, gc, broken, stale>>

\* break-lock --force reads the lock, then writes a tombstone over whatever is there.
BreakRead ==
  /\ ~broken
  /\ Locked(tag)
  /\ broken' = TRUE
  /\ UNCHANGED <<tag, held, pc, mine, gc, stale, stolen>>

BreakWrite ==
  /\ broken
  /\ broken' = FALSE
  /\ Publish(NoLock, {})
  /\ UNCHANGED <<held, pc, mine, gc>>

\* gc: IsLockReclaimable, then DeleteTag, which resolves the tag once more and
\* deletes the manifest it found.
GcCheck ==
  /\ gc.at = "idle"
  /\ Unlocked
  /\ gc' = [gc EXCEPT !.at = "resolve"]
  /\ ReadTag(Collector)
  /\ UNCHANGED <<held, pc, mine, broken, stolen>>

GcResolve ==
  /\ gc.at = "resolve"
  /\ gc' = [at |-> "delete", target |-> tag]
  /\ UNCHANGED <<tag, held, pc, mine, broken, stale, stolen>>

GcDelete ==
  /\ gc.at = "delete"
  /\ gc' = [at |-> "idle", target |-> NoLock]
  /\ IF gc.target.id = tag.id
     THEN Publish(NoLock, {})
     ELSE UNCHANGED <<tag, stale, stolen>>
  /\ UNCHANGED <<held, pc, mine, broken>>

Older(lock) == [lock EXCEPT !.left = IF @ > 0 THEN @ - 1 ELSE 0]

Tick ==
  /\ tag.left > 0 \/ \E t \in Threads : mine[t].left > 0
  /\ tag' = Older(tag)
  /\ mine' = [t \in Threads |-> Older(mine[t])]
  /\ gc' = [gc EXCEPT !.target = Older(@)]
  /\ UNCHANGED <<held, pc, broken, stale, stolen>>
-----------------------------------------------------------------------------
\* The calls a running goroutine makes without being asked again.
Proceed(t) ==
  \/ Retry(t) \/ Refuse(t)
  \/ CheckFree(t) \/ CheckBusy(t)
  \/ WriteLock(t)
  \/ Confirm(t) \/ LoseRace(t)
  \/ Tombstone(t)

Next ==
  \/ \E t \in Threads :
       \/ Reserve(t, "idle") \/ GiveUp(t)
       \/ Proceed(t)
       \/ Verify(t) \/ RefuseRelease(t)
       \/ FailAcquire(t) \/ FailRelease(t)
  \/ \E c \in Clients : Crash(c)
  \/ BreakRead \/ BreakWrite
  \/ GcCheck \/ GcResolve \/ GcDelete
  \/ Tick

Spec == Init /\ [][Next]_vars

\* Clocks advance, running processes make their next call, and a waiter's timer
\* fires.  Nobody is obliged to push, to crash, to finish its push, to break a
\* lock or to collect garbage.
Fairness ==
  /\ WF_vars(Tick)
  /\ \A t \in Threads : WF_vars(Proceed(t))

FairSpec == Spec /\ Fairness
-----------------------------------------------------------------------------
\* Only one goroutine of a process is between its reservation and the end of its
\* release, and heldLocks records that goroutine's lock: what makes the ownership
\* check of a release meaningful (AcquireRefLock's LoadOrStore).
Busy(t) == pc[t] \in Acquiring \union Holding

HeldLocksOwned ==
  /\ \A t, u \in Threads : Busy(t) /\ Busy(u) /\ ClientOf[t] = ClientOf[u] => t = u
  /\ \A t \in Threads :
       /\ pc[t] \in Acquiring => held[ClientOf[t]] = Reserved
       /\ pc[t] \in Holding => held[ClientOf[t]] = mine[t].id

\* Two goroutines believe they hold a live lock only if a third party, or the
\* second of them, replaced the other's lock after it was confirmed: the
\* read-back catches every race that ends before it.
MutexUnlessStolen ==
  \A t, u \in Threads :
    /\ t # u
    /\ pc[t] \in Holding /\ mine[t].left > 0
    /\ pc[u] \in Holding /\ mine[u].left > 0
    => t \in stolen \/ u \in stolen

\* A live lock is overwritten by an acquirer, tombstoned by a releaser that does
\* not own it, or deleted by the collector only if the tag changed after that
\* actor's own check: nobody acts against a lock it could have seen.
TheftNeedsStaleRead ==
  /\ \A t \in Threads \ stale :
       /\ pc[t] = "write" => ~Locked(tag)
       /\ pc[t] = "tombstone" => (Locked(tag) => tag.id = mine[t].id)
  /\ Collector \notin stale /\ gc.at # "idle" => ~Locked(tag)

\* A waiter that retries does not find the ref locked for ever once every other
\* actor is quiet, whatever lock a crashed client left behind ("Without this the
\* TTL is decorative and a client that crashed mid-push wedges the ref").
OthersQuiet(t) ==
  /\ \A u \in Threads \ {t} : pc[u] = "idle"
  /\ ~broken /\ gc.at = "idle"

WaiterGetsIn ==
  \A t \in Threads : ~(<>[]OthersQuiet(t) /\ <>[](pc[t] \in {"wait", "check"}))
=============================================================================
