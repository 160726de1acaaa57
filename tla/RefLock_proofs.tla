--------------------------- MODULE RefLock_proofs ---------------------------
(***************************************************************************)
(* Proofs about RefLock, for any number of clients, goroutines and ids.    *)
(***************************************************************************)
EXTENDS RefLock, TLAPS

\* A goroutine has a lock of its own exactly from the choice of its id on.
MineWhileChosen ==
  \A t \in Threads :
    /\ pc[t] \in {"idle", "wait", "check"} => mine[t] = NoLock
    /\ pc[t] \in {"write", "confirm"} \union Holding => mine[t].id \in Ids

\* Ids identify acquisitions, and the published copy ages with the goroutine's.
IdsIdentify ==
  /\ \A t, u \in Threads : mine[t].id # NoId /\ mine[t].id = mine[u].id => t = u
  /\ \A t \in Threads : mine[t].id # NoId /\ tag.id = mine[t].id => tag.left = mine[t].left

\* A confirmed live lock that nobody took away is the published one.
HolderPublished ==
  /\ \A t \in stolen : pc[t] \in Holding
  /\ \A t \in Threads :
       pc[t] \in Holding /\ mine[t].left > 0 /\ t \notin stolen => tag.id = mine[t].id

IInv == TypeOK /\ HeldLocksOwned /\ MineWhileChosen /\ IdsIdentify
          /\ HolderPublished /\ TheftNeedsStaleRead

USE ClientsAssumption, IdsAssumption, TTLAssumption, CollectorAssumption

\* A fresh id belongs to nobody.
LEMMA FreshIdsAreFresh ==
  ASSUME NEW i \in FreshIds
  PROVE  /\ i \in Ids
         /\ i # tag.id
         /\ i # gc.target.id
         /\ \A t \in Threads : i # mine[t].id
BY DEF FreshIds

\* Ageing keeps a lock a lock, and a lock that is not live stays so.
LEMMA OlderLock ==
  ASSUME NEW lock \in Lock
  PROVE  /\ Older(lock) \in Lock
         /\ Older(lock).id = lock.id
         /\ lock.left = 0 => Older(lock).left = 0
         /\ lock.left > 0 => Older(lock).left = lock.left - 1
  <1>1. CASE lock = NoLock
    BY <1>1 DEF Older, Lock, NoLock
  <1>2. CASE lock \in [id : Ids, left : 0 .. TTL]
    BY <1>2 DEF Older, Lock
  <1>3. QED
    BY <1>1, <1>2 DEF Lock

\* Every lock value has a left field that counts ticks.
LEMMA LeftIsNat ==
  ASSUME NEW lock \in Lock
  PROVE  lock.left \in Nat /\ lock.left <= TTL /\ lock.id \in Ids \union {NoId}
BY DEF Lock, NoLock

\* Where every step keeps the variables in their types.
LEMMA TypeCorrect == TypeOK /\ [Next]_vars => TypeOK'
  <1> SUFFICES ASSUME TypeOK, [Next]_vars PROVE TypeOK'
    OBVIOUS
  <1> USE DEF TypeOK, Stages, SetHeld, Leave, ReadTag, Publish, Actors, Acquiring, Holding
  <1>0. NoLock \in Lock
    BY DEF Lock
  <1>1. ASSUME NEW t \in Threads, Reserve(t, "idle") \/ Retry(t) \/ Refuse(t) \/ GiveUp(t)
        PROVE  TypeOK'
    BY <1>1 DEF Reserve, Retry, Refuse, GiveUp
  <1>2. ASSUME NEW t \in Threads, CheckFree(t) PROVE TypeOK'
    <2>1. PICK i \in FreshIds : mine' = [mine EXCEPT ![t] = [id |-> i, left |-> TTL]]
      BY <1>2 DEF CheckFree
    <2>2. [id |-> i, left |-> TTL] \in Lock
      BY FreshIdsAreFresh DEF Lock
    <2>3. QED
      BY <1>2, <2>1, <2>2 DEF CheckFree
  <1>3. ASSUME NEW t \in Threads, CheckBusy(t) \/ WriteLock(t) \/ LoseRace(t)
        PROVE  TypeOK'
    BY <1>0, <1>3 DEF CheckBusy, WriteLock, LoseRace
  <1>4. ASSUME NEW t \in Threads, Confirm(t) PROVE TypeOK'
    BY <1>4, LeftIsNat DEF Confirm
  <1>5. ASSUME NEW t \in Threads, Verify(t) \/ RefuseRelease(t) \/ Tombstone(t)
        PROVE  TypeOK'
    BY <1>0, <1>5 DEF Verify, RefuseRelease, Tombstone
  <1>6. ASSUME NEW t \in Threads, FailAcquire(t) \/ FailRelease(t) PROVE TypeOK'
    BY <1>0, <1>6 DEF FailAcquire, FailRelease
  <1>7. ASSUME NEW c \in Clients, Crash(c) PROVE TypeOK'
    BY <1>0, <1>7 DEF Crash
  <1>8. CASE BreakRead \/ BreakWrite
    BY <1>0, <1>8 DEF BreakRead, BreakWrite
  <1>9. CASE GcCheck \/ GcResolve \/ GcDelete
    BY <1>0, <1>9 DEF GcCheck, GcResolve, GcDelete
  <1>10. CASE Tick
    BY <1>10, OlderLock DEF Tick
  <1>11. CASE UNCHANGED vars
    BY <1>11 DEF vars
  <1>12. QED
    BY <1>1, <1>2, <1>3, <1>4, <1>5, <1>6, <1>7, <1>8, <1>9, <1>10, <1>11
    DEF Next, Proceed

\* Every initial state is well typed.
LEMMA InitTyped == Init => TypeOK
  <1>0. NoLock \in Lock
    BY DEF Lock
  <1> SUFFICES ASSUME Init PROVE TypeOK
    OBVIOUS
  <1>1. tag \in Lock /\ gc \in [at : {"idle", "resolve", "delete"}, target : Lock]
    BY <1>0 DEF Init
  <1>2. held \in [Clients -> Ids \union {NoId, Reserved}]
    BY DEF Init
  <1>3. pc \in [Threads -> Stages] /\ mine \in [Threads -> Lock]
    BY <1>0 DEF Init, Stages
  <1>4. broken \in BOOLEAN /\ stale \in SUBSET Actors /\ stolen \in SUBSET Threads
    BY DEF Init
  <1>5. QED
    BY <1>1, <1>2, <1>3, <1>4 DEF TypeOK

\* The type invariant of the lock, for every value of the constants.
THEOREM TypeCorrectness == Spec => []TypeOK
  <1>1. QED
    BY InitTyped, TypeCorrect, PTL DEF Spec

\* HeldLocksOwned: only Reserve makes a goroutine busy, and only when the slot of
\* its process is empty.
LEMMA HeldLocksOwnedStep == IInv /\ [Next]_vars => HeldLocksOwned'
  <1> SUFFICES ASSUME IInv, [Next]_vars PROVE HeldLocksOwned'
    OBVIOUS
  <1> USE DEF IInv, TypeOK, HeldLocksOwned, Busy, MineWhileChosen, Acquiring, Holding,
              SetHeld, Leave, ReadTag, Publish
  <1>1. ASSUME NEW t \in Threads, Reserve(t, "idle") \/ Retry(t) \/ Refuse(t) \/ GiveUp(t)
        PROVE  HeldLocksOwned'
    BY <1>1 DEF Reserve, Retry, Refuse, GiveUp, Reservable
  <1>2. ASSUME NEW t \in Threads, CheckFree(t) \/ CheckBusy(t) \/ WriteLock(t)
        PROVE  HeldLocksOwned'
    BY <1>2 DEF CheckFree, CheckBusy, WriteLock
  <1>3. ASSUME NEW t \in Threads, Confirm(t) \/ LoseRace(t)
        PROVE  HeldLocksOwned'
    BY <1>3 DEF Confirm, LoseRace
  <1>4. ASSUME NEW t \in Threads, Verify(t) \/ RefuseRelease(t) \/ Tombstone(t)
        PROVE  HeldLocksOwned'
    BY <1>4 DEF Verify, RefuseRelease, Tombstone
  <1>5. ASSUME NEW t \in Threads, FailAcquire(t) \/ FailRelease(t)
        PROVE  HeldLocksOwned'
    BY <1>5 DEF FailAcquire, FailRelease
  <1>6. ASSUME NEW c \in Clients, Crash(c) PROVE HeldLocksOwned'
    BY <1>6 DEF Crash
  <1>7. CASE BreakRead \/ BreakWrite \/ GcCheck \/ GcResolve \/ GcDelete \/ UNCHANGED vars
    BY <1>7 DEF BreakRead, BreakWrite, GcCheck, GcResolve, GcDelete, vars
  <1>8. CASE Tick
    <2>1. \A t \in Threads : mine'[t].id = mine[t].id
      BY <1>8, OlderLock DEF Tick
    <2>2. QED
      BY <1>8, <2>1 DEF Tick
  <1>9. QED
    BY <1>1, <1>2, <1>3, <1>4, <1>5, <1>6, <1>7, <1>8 DEF Next, Proceed

\* The ids: a new one is fresh, and locks age together.
LEMMA IdsStep == IInv /\ [Next]_vars => MineWhileChosen' /\ IdsIdentify'
  <1> SUFFICES ASSUME IInv, [Next]_vars PROVE MineWhileChosen' /\ IdsIdentify'
    OBVIOUS
  <1> USE DEF IInv, TypeOK, MineWhileChosen, IdsIdentify, Acquiring, Holding,
              SetHeld, Leave, ReadTag, Publish, NoLock
  <1>1. ASSUME NEW t \in Threads, Reserve(t, "idle") \/ Retry(t) \/ Refuse(t) \/ GiveUp(t)
        PROVE  MineWhileChosen' /\ IdsIdentify'
    BY <1>1 DEF Reserve, Retry, Refuse, GiveUp
  <1>2. ASSUME NEW t \in Threads, CheckFree(t) PROVE MineWhileChosen' /\ IdsIdentify'
    <2>1. PICK i \in FreshIds : mine' = [mine EXCEPT ![t] = [id |-> i, left |-> TTL]]
      BY <1>2 DEF CheckFree
    <2>2. QED
      BY <1>2, <2>1, FreshIdsAreFresh DEF CheckFree
  <1>3. ASSUME NEW t \in Threads, CheckBusy(t) \/ WriteLock(t) \/ Confirm(t) \/ LoseRace(t)
        PROVE  MineWhileChosen' /\ IdsIdentify'
    BY <1>3 DEF CheckBusy, WriteLock, Confirm, LoseRace
  <1>4. ASSUME NEW t \in Threads, Verify(t) \/ RefuseRelease(t) \/ Tombstone(t)
        PROVE  MineWhileChosen' /\ IdsIdentify'
    BY <1>4 DEF Verify, RefuseRelease, Tombstone
  <1>5. ASSUME NEW t \in Threads, FailAcquire(t) \/ FailRelease(t)
        PROVE  MineWhileChosen' /\ IdsIdentify'
    BY <1>5 DEF FailAcquire, FailRelease
  <1>6. ASSUME NEW c \in Clients, Crash(c) PROVE MineWhileChosen' /\ IdsIdentify'
    BY <1>6 DEF Crash
  <1>7. CASE BreakRead \/ BreakWrite \/ GcCheck \/ GcResolve \/ GcDelete \/ UNCHANGED vars
    BY <1>7 DEF BreakRead, BreakWrite, GcCheck, GcResolve, GcDelete, vars
  <1>8. CASE Tick
    <2>1. \A lock \in Lock : Older(lock).id = lock.id
      BY OlderLock
    <2>2. \A t \in Threads : mine'[t] = Older(mine[t]) /\ mine'[t].id = mine[t].id
      BY <1>8, <2>1 DEF Tick
    <2>3. tag' = Older(tag) /\ tag'.id = tag.id /\ pc' = pc
      BY <1>8, <2>1 DEF Tick
    <2>4. \A a, b \in Lock : a.left = b.left => Older(a).left = Older(b).left
      BY OlderLock, LeftIsNat
    <2>5. Older(NoLock) = NoLock
      BY DEF Older
    <2>6. QED
      BY <2>2, <2>3, <2>4, <2>5
  <1>9. QED
    BY <1>1, <1>2, <1>3, <1>4, <1>5, <1>6, <1>7, <1>8 DEF Next, Proceed

\* A confirmed live lock stays published until Publish records it as stolen.
LEMMA HolderPublishedStep == IInv /\ [Next]_vars => HolderPublished'
  <1> SUFFICES ASSUME IInv, [Next]_vars PROVE HolderPublished'
    OBVIOUS
  <1> USE DEF IInv, TypeOK, HolderPublished, Acquiring, Holding, SetHeld, Leave, ReadTag
  <1>0. ASSUME NEW lock \in Lock, NEW by \in SUBSET Threads, Publish(lock, by),
               \A u \in Threads \ by : pc'[u] = pc[u] /\ mine'[u] = mine[u],
               \A t \in by : pc'[t] \notin Holding
        PROVE  HolderPublished'
    <2>1. ASSUME NEW u \in Threads \ by, pc[u] \in Holding, mine[u].left > 0, u \notin stolen
          PROVE  StillMine(u)
      BY <2>1 DEF StillMine, Locked, MineWhileChosen, IdsIdentify
    <2>2. \A u \in stolen' : pc'[u] \in Holding
      BY <1>0 DEF Publish
    <2>3. \A u \in Threads : pc'[u] \in Holding /\ mine'[u].left > 0 => u \in stolen'
      BY <1>0, <2>1 DEF Publish
    <2>4. QED
      BY <2>2, <2>3
  <1>1. ASSUME NEW t \in Threads, Reserve(t, "idle") \/ Retry(t) \/ Refuse(t) \/ GiveUp(t)
        PROVE  HolderPublished'
    BY <1>1 DEF Reserve, Retry, Refuse, GiveUp
  <1>2. ASSUME NEW t \in Threads, CheckFree(t) \/ CheckBusy(t) PROVE HolderPublished'
    BY <1>2 DEF CheckFree, CheckBusy
  <1>3. ASSUME NEW t \in Threads, WriteLock(t) PROVE HolderPublished'
    <2>1. mine[t] \in Lock /\ {t} \in SUBSET Threads /\ Publish(mine[t], {t})
      BY <1>3 DEF WriteLock
    <2>2. QED
      BY <1>0, <1>3, <2>1 DEF WriteLock
  <1>4. ASSUME NEW t \in Threads, Confirm(t) \/ LoseRace(t) PROVE HolderPublished'
    BY <1>4 DEF Confirm, LoseRace, StillMine
  <1>5. ASSUME NEW t \in Threads, Verify(t) \/ RefuseRelease(t) PROVE HolderPublished'
    BY <1>5 DEF Verify, RefuseRelease
  <1>6. NoLock \in Lock
    BY DEF Lock
  <1>7. ASSUME NEW t \in Threads, Tombstone(t) PROVE HolderPublished'
    <2>1. {t} \in SUBSET Threads /\ Publish(NoLock, {t})
      BY <1>7 DEF Tombstone
    <2>2. QED
      BY <1>0, <1>6, <1>7, <2>1 DEF Tombstone
  <1>8. ASSUME NEW t \in Threads, FailAcquire(t) PROVE HolderPublished'
    <2>1. mine[t] \in Lock /\ {t} \in SUBSET Threads
      OBVIOUS
    <2>2. CASE Publish(mine[t], {t})
      BY <1>0, <1>8, <2>1, <2>2 DEF FailAcquire
    <2>3. CASE UNCHANGED <<tag, stale, stolen>>
      BY <1>8, <2>3 DEF FailAcquire
    <2>4. QED
      BY <1>8, <2>2, <2>3 DEF FailAcquire
  <1>9. ASSUME NEW t \in Threads, FailRelease(t) PROVE HolderPublished'
    <2>1. CASE Publish(NoLock, {t})
      BY <1>0, <1>6, <1>9, <2>1 DEF FailRelease
    <2>2. CASE UNCHANGED <<tag, stale>> /\ stolen' = stolen \ {t}
      BY <1>9, <2>2 DEF FailRelease
    <2>3. QED
      BY <1>9, <2>1, <2>2 DEF FailRelease
  <1>10. ASSUME NEW c \in Clients, Crash(c) PROVE HolderPublished'
    BY <1>10 DEF Crash
  <1>11. CASE BreakWrite
    BY <1>0, <1>6, <1>11 DEF BreakWrite
  <1>12. CASE GcDelete
    <2>1. CASE Publish(NoLock, {})
      BY <1>0, <1>6, <1>12, <2>1 DEF GcDelete
    <2>2. CASE UNCHANGED <<tag, stale, stolen>>
      BY <1>12, <2>2 DEF GcDelete
    <2>3. QED
      BY <1>12, <2>1, <2>2 DEF GcDelete
  <1>13. CASE BreakRead \/ GcCheck \/ GcResolve \/ UNCHANGED vars
    BY <1>13 DEF BreakRead, GcCheck, GcResolve, vars
  <1>14. CASE Tick
    <2>1. \A lock \in Lock : Older(lock).id = lock.id /\ (Older(lock).left > 0 => lock.left > 0)
      BY OlderLock, LeftIsNat
    <2>2. QED
      BY <1>14, <2>1 DEF Tick
  <1>15. QED
    BY <1>1, <1>2, <1>3, <1>4, <1>5, <1>7, <1>8, <1>9, <1>10, <1>11, <1>12, <1>13, <1>14
    DEF Next, Proceed

\* An actor whose read is not stale still sees the tag it read.
LEMMA TheftStep == IInv /\ [Next]_vars => TheftNeedsStaleRead'
  <1> SUFFICES ASSUME IInv, [Next]_vars PROVE TheftNeedsStaleRead'
    OBVIOUS
  <1> USE DEF IInv, TypeOK, TheftNeedsStaleRead, SetHeld, Leave, ReadTag, Actors
  <1>0. ASSUME NEW lock, NEW by, Publish(lock, by) PROVE TheftNeedsStaleRead'
    BY <1>0 DEF Publish
  <1>1. ASSUME NEW t \in Threads, Reserve(t, "idle") \/ Retry(t) \/ Refuse(t) \/ GiveUp(t)
        PROVE  TheftNeedsStaleRead'
    BY <1>1 DEF Reserve, Retry, Refuse, GiveUp
  <1>2. ASSUME NEW t \in Threads, CheckFree(t) PROVE TheftNeedsStaleRead'
    <2>1. \A u \in Threads \ {t} : mine'[u] = mine[u] /\ pc'[u] = pc[u]
      BY <1>2 DEF CheckFree
    <2>2. QED
      BY <1>2, <2>1 DEF CheckFree, Unlocked
  <1>3. ASSUME NEW t \in Threads, CheckBusy(t) \/ Confirm(t) \/ LoseRace(t) \/ RefuseRelease(t)
        PROVE  TheftNeedsStaleRead'
    BY <1>3 DEF CheckBusy, Confirm, LoseRace, RefuseRelease
  <1>4. ASSUME NEW t \in Threads, Verify(t) PROVE TheftNeedsStaleRead'
    BY <1>4 DEF Verify, MayRelease, HeldLocksOwned, Holding
  <1>5. ASSUME NEW t \in Threads, WriteLock(t) \/ Tombstone(t) PROVE TheftNeedsStaleRead'
    BY <1>0, <1>5 DEF WriteLock, Tombstone
  <1>6. ASSUME NEW t \in Threads, FailAcquire(t) \/ FailRelease(t) PROVE TheftNeedsStaleRead'
    BY <1>0, <1>6 DEF FailAcquire, FailRelease
  <1>7. ASSUME NEW c \in Clients, Crash(c) PROVE TheftNeedsStaleRead'
    BY <1>7 DEF Crash
  <1>8. CASE BreakRead \/ GcCheck \/ GcResolve \/ UNCHANGED vars
    BY <1>8 DEF BreakRead, GcCheck, GcResolve, Unlocked, vars
  <1>9. CASE BreakWrite \/ GcDelete
    BY <1>0, <1>9 DEF BreakWrite, GcDelete
  <1>10. CASE Tick
    <2>1. \A lock \in Lock : Older(lock).id = lock.id /\ (Locked(Older(lock)) => Locked(lock))
      BY OlderLock, LeftIsNat DEF Locked
    <2>2. QED
      BY <1>10, <2>1 DEF Tick
  <1>11. QED
    BY <1>1, <1>2, <1>3, <1>4, <1>5, <1>6, <1>7, <1>8, <1>9, <1>10 DEF Next, Proceed

\* The inductive invariant: its parts lean on each other, so they are one.
LEMMA Inductive == Spec => []IInv
  <1>1. Init => IInv
    <2>1. Init => TypeOK
      BY InitTyped
    <2>2. Init => HeldLocksOwned /\ MineWhileChosen /\ IdsIdentify
                    /\ HolderPublished /\ TheftNeedsStaleRead
      BY DEF Init, HeldLocksOwned, Busy, Acquiring, Holding, MineWhileChosen, IdsIdentify,
             HolderPublished, TheftNeedsStaleRead, NoLock
    <2>3. QED
      BY <2>1, <2>2 DEF IInv
  <1>2. IInv /\ [Next]_vars => IInv'
    BY TypeCorrect, HeldLocksOwnedStep, IdsStep, HolderPublishedStep, TheftStep DEF IInv
  <1>3. QED
    BY <1>1, <1>2, PTL DEF Spec

\* heldLocks names the lock of the one goroutine of the process that is busy.
THEOREM HeldLocks == Spec => []HeldLocksOwned
  <1>1. IInv => HeldLocksOwned
    BY DEF IInv
  <1>2. QED
    BY <1>1, Inductive, PTL

\* Two live confirmed locks on one ref: one of them was taken away.
THEOREM Mutex == Spec => []MutexUnlessStolen
  <1>1. IInv => MutexUnlessStolen
    <2> SUFFICES ASSUME IInv,
                        NEW t \in Threads, NEW u \in Threads, t # u,
                        pc[t] \in Holding, mine[t].left > 0, t \notin stolen,
                        pc[u] \in Holding, mine[u].left > 0, u \notin stolen
                 PROVE  FALSE
      BY DEF MutexUnlessStolen
    <2>1. tag.id = mine[t].id /\ tag.id = mine[u].id /\ mine[t].id # NoId
      BY DEF IInv, HolderPublished, MineWhileChosen
    <2>2. QED
      BY <2>1 DEF IInv, IdsIdentify
  <1>2. QED
    BY <1>1, Inductive, PTL

\* Nobody acts against a live lock it could have seen.
THEOREM Theft == Spec => []TheftNeedsStaleRead
  <1>1. IInv => TheftNeedsStaleRead
    BY DEF IInv
  <1>2. QED
    BY <1>1, Inductive, PTL
=============================================================================
