-------------------------- MODULE PushBatch_proofs --------------------------
(***************************************************************************)
(* Proofs about PushBatch, for any clients, refs, commits, batches and     *)
(* failing calls.                                                          *)
(***************************************************************************)
EXTENDS PushBatch, TLAPS

USE AbsentAssumption, AncestorsAssumption, FreeAssumption

Places == {"idle", "work", "validate", "apply", "rollback", "index", "answer"}
Lines == {"none", "ok", "error", "stranded"}
Typed ==
  /\ setting \in DOMAIN Settings
  /\ index \in RefMap /\ tag \in RefMap
  /\ lock \in [Refs -> Clients \union {Free}]
  /\ pc \in [Clients -> Places]
  /\ batch \in [Clients -> Batch]
  /\ \A c \in Clients : pc[c] # "idle" => batch[c] \in Batches
  /\ known \in [Clients -> [Refs -> Value]]
  /\ stage \in [Clients -> [Refs -> Stages]]
  /\ report \in [Clients -> [Refs -> Lines]]
  /\ gone \in [Clients -> SUBSET Refs]
  /\ saved \in [Clients -> [Refs -> Snapshot]]
  /\ left \in 0 .. MaxBatches
  /\ before \in [Clients -> [index : RefMap, tag : RefMap]]

LEMMA SettingIsOne ==
  ASSUME setting \in DOMAIN Settings
  PROVE  /\ Workers \subseteq Clients /\ MaxBatches \in Nat
         /\ \A b \in Batches : b \in Batch
BY SettingsAssumption DEF Range, Workers, MaxBatches, Batches

LEMMA ValuesAreTyped ==
  ASSUME Typed, NEW c \in Clients, NEW r \in Refs
  PROVE  /\ SpecOf(c, r).to \in Value /\ SpecOf(c, r).lease \in Value \union {NoLease}
         /\ batch[c].refs \subseteq Refs
         /\ Absent \in Value /\ Unsaved \in Snapshot /\ SnapshotOf(c, r) \in Snapshot
         /\ saved[c][r].to \in Value
<1>1. batch[c] \in Batch /\ batch[c].spec \in [Refs -> PushSpec]
  BY DEF Typed, Batch
<1>2. batch[c].spec[r] \in PushSpec
  BY <1>1
<1>3. tag[r] \in Value /\ saved[c][r] \in Snapshot
  BY DEF Typed, RefMap
<1> QED
  BY <1>1, <1>2, <1>3 DEF Batch, PushSpec, SpecOf, Value, Unsaved, SnapshotOf, Snapshot

\* The steps that move one spec of a batch on and leave its client where it is.
SpecStep(c, r) ==
  \/ TakeLock(c, r) \/ LockRefused(c, r) \/ Accept(c, r) \/ Reject(c, r)
  \/ DryRunSpec(c, r) \/ Push(c, r) \/ PushFails(c, r)
  \/ StartDelete(c, r) \/ FinishDelete(c, r) \/ FailDelete(c, r)
  \/ AcceptDelete(c, r) \/ Apply(c, r) \/ Restore(c, r)

\* What such a step may change, and what it cannot.
LEMMA SpecFrame ==
  ASSUME Typed, NEW c \in Clients, NEW r \in Refs, SpecStep(c, r)
  PROVE  /\ UNCHANGED <<pc, batch, left, before>>
         /\ index' \in RefMap /\ tag' \in RefMap /\ lock' \in [Refs -> Clients \union {Free}]
         /\ known' \in [Clients -> [Refs -> Value]] /\ stage' \in [Clients -> [Refs -> Stages]]
         /\ report' \in [Clients -> [Refs -> Lines]]
         /\ gone' \in [Clients -> SUBSET Refs] /\ saved' \in [Clients -> [Refs -> Snapshot]]
         /\ \A q \in Refs \ {r} : index'[q] = index[q] /\ tag'[q] = tag[q] /\ lock'[q] = lock[q]
         /\ \A d \in Clients, q \in Refs : d # c \/ q # r =>
              /\ known'[d][q] = known[d][q] /\ stage'[d][q] = stage[d][q]
              /\ report'[d][q] = report[d][q] /\ saved'[d][q] = saved[d][q]
              /\ q \in gone'[d] <=> q \in gone[d]
<1> USE ValuesAreTyped DEF Advance, Report, Learn
<1>0. /\ {"locked", "valid", "deleting", "done"} \subseteq Stages
      /\ {"ok", "error", "stranded"} \subseteq Lines
  BY DEF Stages, Lines
<1>1. UNCHANGED <<pc, batch, left, before>>
  BY DEF SpecStep, TakeLock, LockRefused, Accept, Reject, DryRunSpec, Push, PushFails,
         StartDelete, FinishDelete, FailDelete, AcceptDelete, Apply, Restore
<1>2. index' = index \/ index' = [index EXCEPT ![r] = Absent]
  BY DEF SpecStep, TakeLock, LockRefused, Accept, Reject, DryRunSpec, Push, PushFails,
         StartDelete, FinishDelete, FailDelete, AcceptDelete, Apply, Restore, registry, Remove
<1>3. tag' = tag \/ \E v \in Value : tag' = [tag EXCEPT ![r] = v]
  BY DEF SpecStep, TakeLock, LockRefused, Accept, Reject, DryRunSpec, Push, PushFails,
         StartDelete, FinishDelete, FailDelete, AcceptDelete, Apply, Restore, registry, Remove
<1>4. lock' = lock \/ \E v \in Clients \union {Free} : lock' = [lock EXCEPT ![r] = v]
  BY DEF SpecStep, TakeLock, LockRefused, Accept, Reject, DryRunSpec, Push, PushFails,
         StartDelete, FinishDelete, FailDelete, AcceptDelete, Apply, Restore, registry, Unlock,
         Typed
<1>5. known' = known \/ \E v \in Value : known' = [known EXCEPT ![c][r] = v]
  BY DEF SpecStep, TakeLock, LockRefused, Accept, Reject, DryRunSpec, Push, PushFails,
         StartDelete, FinishDelete, FailDelete, AcceptDelete, Apply, Restore
<1>6. stage' = stage \/ \E v \in Stages : stage' = [stage EXCEPT ![c][r] = v]
  BY <1>0 DEF SpecStep, TakeLock, LockRefused, Accept, Reject, DryRunSpec, Push, PushFails,
         StartDelete, FinishDelete, FailDelete, AcceptDelete, Apply, Restore
<1>7. report' = report \/ \E v \in Lines : report' = [report EXCEPT ![c][r] = v]
  BY <1>0 DEF SpecStep, TakeLock, LockRefused, Accept, Reject, DryRunSpec, Push, PushFails,
         StartDelete, FinishDelete, FailDelete, AcceptDelete, Apply, Restore
<1>8. saved' = saved \/ \E v \in Snapshot : saved' = [saved EXCEPT ![c][r] = v]
  BY DEF SpecStep, TakeLock, LockRefused, Accept, Reject, DryRunSpec, Push, PushFails,
         StartDelete, FinishDelete, FailDelete, AcceptDelete, Apply, Restore
<1>9. gone' = gone \/ gone' = [gone EXCEPT ![c] = @ \union {r}]
  BY DEF SpecStep, TakeLock, LockRefused, Accept, Reject, DryRunSpec, Push, PushFails,
         StartDelete, FinishDelete, FailDelete, AcceptDelete, Apply, Restore
<1> HIDE DEF Advance, Report, Learn
<1>10. index' \in RefMap /\ \A q \in Refs \ {r} : index'[q] = index[q]
  <2>1. index \in [Refs -> Value] /\ Absent \in Value
    BY DEF Typed, RefMap, Value
  <2> QED
    BY <1>2, <2>1 DEF RefMap
<1>11. tag' \in RefMap /\ \A q \in Refs \ {r} : tag'[q] = tag[q]
  <2>1. tag \in [Refs -> Value]
    BY DEF Typed, RefMap
  <2>2. CASE tag' = tag
    BY <2>1, <2>2 DEF RefMap
  <2>3. ASSUME NEW v \in Value, tag' = [tag EXCEPT ![r] = v]
        PROVE  tag' \in RefMap /\ \A q \in Refs \ {r} : tag'[q] = tag[q]
    BY <2>1, <2>3 DEF RefMap
  <2> QED
    BY <1>3, <2>2, <2>3
<1>12. lock' \in [Refs -> Clients \union {Free}] /\ \A q \in Refs \ {r} : lock'[q] = lock[q]
  BY <1>4 DEF Typed
<1>13. /\ gone' \in [Clients -> SUBSET Refs]
       /\ \A d \in Clients, q \in Refs : d # c \/ q # r => (q \in gone'[d] <=> q \in gone[d])
  <2>1. gone \in [Clients -> SUBSET Refs]
    BY DEF Typed
  <2>2. CASE gone' = gone
    BY <2>1, <2>2
  <2>3. CASE gone' = [gone EXCEPT ![c] = @ \union {r}]
    BY <2>1, <2>3
  <2> QED
    BY <1>9, <2>2, <2>3
<1>14. /\ known' \in [Clients -> [Refs -> Value]]
       /\ \A d \in Clients, q \in Refs : d # c \/ q # r => known'[d][q] = known[d][q]
  <2>1. known \in [Clients -> [Refs -> Value]]
    BY DEF Typed
  <2>2. CASE known' = known
    BY <2>1, <2>2
  <2>3. ASSUME NEW v \in Value, known' = [known EXCEPT ![c][r] = v]
        PROVE  /\ known' \in [Clients -> [Refs -> Value]]
               /\ \A d \in Clients, q \in Refs : d # c \/ q # r => known'[d][q] = known[d][q]
    BY <2>1, <2>3
  <2> QED
    BY <1>5, <2>2, <2>3
<1>15. /\ stage' \in [Clients -> [Refs -> Stages]]
       /\ \A d \in Clients, q \in Refs : d # c \/ q # r => stage'[d][q] = stage[d][q]
  <2>1. stage \in [Clients -> [Refs -> Stages]]
    BY DEF Typed
  <2>2. CASE stage' = stage
    BY <2>1, <2>2
  <2>3. ASSUME NEW v \in Stages, stage' = [stage EXCEPT ![c][r] = v]
        PROVE  /\ stage' \in [Clients -> [Refs -> Stages]]
               /\ \A d \in Clients, q \in Refs : d # c \/ q # r => stage'[d][q] = stage[d][q]
    BY <2>1, <2>3
  <2> QED
    BY <1>6, <2>2, <2>3
<1>16. /\ report' \in [Clients -> [Refs -> Lines]]
       /\ \A d \in Clients, q \in Refs : d # c \/ q # r => report'[d][q] = report[d][q]
  <2>1. report \in [Clients -> [Refs -> Lines]]
    BY DEF Typed
  <2>2. CASE report' = report
    BY <2>1, <2>2
  <2>3. ASSUME NEW v \in Lines, report' = [report EXCEPT ![c][r] = v]
        PROVE  /\ report' \in [Clients -> [Refs -> Lines]]
               /\ \A d \in Clients, q \in Refs : d # c \/ q # r => report'[d][q] = report[d][q]
    BY <2>1, <2>3
  <2> QED
    BY <1>7, <2>2, <2>3
<1>17. /\ saved' \in [Clients -> [Refs -> Snapshot]]
       /\ \A d \in Clients, q \in Refs : d # c \/ q # r => saved'[d][q] = saved[d][q]
  <2>1. saved \in [Clients -> [Refs -> Snapshot]]
    BY DEF Typed
  <2>2. CASE saved' = saved
    BY <2>1, <2>2
  <2>3. ASSUME NEW v \in Snapshot, saved' = [saved EXCEPT ![c][r] = v]
        PROVE  /\ saved' \in [Clients -> [Refs -> Snapshot]]
               /\ \A d \in Clients, q \in Refs : d # c \/ q # r => saved'[d][q] = saved[d][q]
    BY <2>1, <2>3
  <2> QED
    BY <1>8, <2>2, <2>3
<1> QED
  BY <1>1, <1>10, <1>11, <1>12, <1>13, <1>14, <1>15, <1>16, <1>17

\* The steps that end a phase of a batch, or begin or end the batch.
BatchStep(c) ==
  \/ \E b \in Batches : Start(c, b)
  \/ WorkersDone(c) \/ Validated(c) \/ RolledBack(c) \/ Applied(c)
  \/ UpdateIndex(c) \/ UpdateFails(c) \/ Answer(c)
  \/ \E r \in Refs : ApplyFails(c, r)

LEMMA Steps ==
  ASSUME Typed, Next
  PROVE  /\ setting' = setting
         /\ \E c \in Clients : c \in Workers /\ (BatchStep(c) \/ \E r \in Refs : SpecStep(c, r))
<1>1. PICK c \in Workers : Proceed(c) \/ \E b \in Batches : Start(c, b)
  BY DEF Next
<1>2. c \in Clients
  BY <1>1, SettingIsOne DEF Typed
<1>3. BatchStep(c) \/ \E r \in Refs : SpecStep(c, r)
  BY <1>1 DEF Proceed, BatchStep, SpecStep
<1> QED
  BY <1>1, <1>2, <1>3 DEF Next

\* Whatever another client does, a client's own variables stay.
LEMMA BatchFrame ==
  ASSUME Typed, NEW c \in Clients, BatchStep(c)
  PROVE  \A d \in Clients \ {c} :
           /\ pc'[d] = pc[d] /\ batch'[d] = batch[d] /\ known'[d] = known[d]
           /\ stage'[d] = stage[d] /\ report'[d] = report[d] /\ gone'[d] = gone[d]
           /\ saved'[d] = saved[d] /\ before'[d] = before[d]
<1> USE DEF Goto
<1>1. ASSUME NEW b \in Batches, Start(c, b)
      PROVE  \A d \in Clients \ {c} :
               /\ pc'[d] = pc[d] /\ batch'[d] = batch[d] /\ known'[d] = known[d]
               /\ stage'[d] = stage[d] /\ report'[d] = report[d] /\ gone'[d] = gone[d]
               /\ saved'[d] = saved[d] /\ before'[d] = before[d]
  BY <1>1 DEF Start, Typed
<1>2. CASE WorkersDone(c) \/ Applied(c) \/ Answer(c) \/ \E r \in Refs : ApplyFails(c, r)
  BY <1>2 DEF WorkersDone, Applied, Answer, ApplyFails, session, Typed
<1>3. CASE Validated(c) \/ RolledBack(c)
  BY <1>3 DEF Validated, RolledBack, Typed
<1>4. CASE UpdateIndex(c) \/ UpdateFails(c)
  BY <1>4 DEF UpdateIndex, UpdateFails, Typed
<1> QED
  BY <1>1, <1>2, <1>3, <1>4 DEF BatchStep

LEMMA TypedStep == Typed /\ [Next]_vars => Typed'
<1> SUFFICES ASSUME Typed, [Next]_vars
             PROVE  Typed'
  OBVIOUS
<1>1. CASE UNCHANGED vars
  BY <1>1 DEF Typed, vars, registry, session, MaxBatches, Batches
<1>2. CASE Next
  <2>0. setting' = setting /\ MaxBatches' = MaxBatches /\ Batches' = Batches
    BY <1>2, Steps DEF MaxBatches, Batches
  <2>1. ASSUME NEW c \in Clients, NEW r \in Refs, SpecStep(c, r) PROVE Typed'
    BY <2>0, <2>1, SpecFrame DEF Typed
  <2>2. ASSUME NEW c \in Clients, NEW b \in Batches, Start(c, b) PROVE Typed'
    <3> USE DEF Typed
    <3>1. left' \in 0 .. MaxBatches
      BY <2>2, SettingIsOne DEF Start
    <3>2. /\ batch' \in [Clients -> Batch] /\ pc' \in [Clients -> Places]
          /\ \A d \in Clients : pc'[d] # "idle" => batch'[d] \in Batches
      BY <2>2, SettingIsOne DEF Start, Goto, Places
    <3>3. known' \in [Clients -> [Refs -> Value]]
      BY <2>2 DEF Start, RefMap
    <3>4. [r \in Refs |-> IF r \in b.refs THEN "todo" ELSE "done"] \in [Refs -> Stages]
      BY DEF Stages
    <3>5. [r \in Refs |-> "none"] \in [Refs -> Lines]
      BY DEF Lines
    <3>6. [r \in Refs |-> Unsaved] \in [Refs -> Snapshot]
      BY DEF Unsaved, Snapshot, Value
    <3>7. /\ stage' \in [Clients -> [Refs -> Stages]] /\ report' \in [Clients -> [Refs -> Lines]]
          /\ gone' \in [Clients -> SUBSET Refs] /\ saved' \in [Clients -> [Refs -> Snapshot]]
      BY <2>2, <3>4, <3>5, <3>6 DEF Start
    <3>8. before' \in [Clients -> [index : RefMap, tag : RefMap]]
      BY <2>2 DEF Start
    <3> QED
      BY <2>0, <2>2, <3>1, <3>2, <3>3, <3>7, <3>8 DEF Start, registry
  <2>3. ASSUME NEW c \in Clients, WorkersDone(c) \/ Applied(c) PROVE Typed'
    BY <2>0, <2>3 DEF WorkersDone, Applied, Goto, Places, registry, session, Typed
  <2>4. ASSUME NEW c \in Clients, Answer(c) PROVE Typed'
    <3>1. lock' \in [Refs -> Clients \union {Free}]
      BY <2>4 DEF Answer, Unlocked, Typed
    <3> QED
      BY <2>0, <2>4, <3>1 DEF Answer, Goto, Places, session, Typed
  <2>5. ASSUME NEW c \in Clients, NEW new \in [Refs -> Lines],
               report' = [report EXCEPT ![c] = new], Goto(c, pc'[c]), pc[c] # "idle",
               pc'[c] \in Places,
               UNCHANGED <<lock, tag, batch, stage, gone, saved, left, before>>,
               index' \in RefMap, known' \in [Clients -> [Refs -> Value]]
        PROVE  Typed'
    BY <2>0, <2>5 DEF Goto, Typed
  <2>6. ASSUME NEW c \in Clients, Validated(c) PROVE Typed'
    <3> DEFINE new == [r \in Refs |->
                         IF r \notin batch[c].refs THEN "none"
                         ELSE IF SomeError(c) THEN "error"
                         ELSE IF Dry(c) THEN "ok" ELSE "none"]
    <3>1. new \in [Refs -> Lines] /\ report' = [report EXCEPT ![c] = new]
      BY <2>6 DEF Validated, Lines
    <3> HIDE DEF new
    <3> QED
      BY <2>5, <2>6, <3>1 DEF Validated, Goto, Places, registry, Typed
  <2>7. ASSUME NEW c \in Clients, RolledBack(c) PROVE Typed'
    <3> DEFINE new == [r \in Refs |-> IF r \in batch[c].refs /\ report[c][r] = "none"
                                     THEN "error" ELSE report[c][r]]
    <3>1. new \in [Refs -> Lines] /\ report' = [report EXCEPT ![c] = new]
      BY <2>7 DEF RolledBack, Lines, Typed
    <3> HIDE DEF new
    <3> QED
      BY <2>5, <2>7, <3>1 DEF RolledBack, Goto, Places, registry, Typed
  <2>8. ASSUME NEW c \in Clients, UpdateIndex(c) \/ UpdateFails(c) PROVE Typed'
    <3>1. Overlaid(c) \in [Refs -> Value]
      BY DEF Overlaid, Typed, Value, RefMap
    <3>2. index' \in RefMap /\ known' \in [Clients -> [Refs -> Value]]
      <4>1. CASE UpdateIndex(c)
        BY <3>1, <4>1 DEF UpdateIndex, Typed, RefMap
      <4>2. CASE UpdateFails(c)
        BY <4>2 DEF UpdateFails, registry, Typed
      <4> QED
        BY <2>8, <4>1, <4>2
    <3>3. \E new \in [Refs -> Lines] : report' = [report EXCEPT ![c] = new]
      <4>1. /\ [r \in Refs |-> IF r \in batch[c].refs THEN "ok" ELSE "none"] \in [Refs -> Lines]
            /\ [r \in Refs |-> IF r \in batch[c].refs THEN "error" ELSE "none"] \in [Refs -> Lines]
            /\ report[c] \in [Refs -> Lines] /\ Unlisted(c) \in [Refs -> Lines]
        BY DEF Lines, Unlisted, Typed
      <4> QED
        BY <2>8, <4>1 DEF UpdateIndex, UpdateFails
    <3> QED
      BY <2>5, <2>8, <3>2, <3>3 DEF UpdateIndex, UpdateFails, Goto, Places, registry, Typed
  <2>9. ASSUME NEW c \in Clients, NEW r \in Refs, ApplyFails(c, r) PROVE Typed'
    <3>1. tag' \in RefMap
      BY <2>9, ValuesAreTyped DEF ApplyFails, Typed, RefMap
    <3> QED
      BY <2>0, <2>9, <3>1 DEF ApplyFails, Goto, Places, session, Typed
  <2> QED
    BY <1>2, <2>1, <2>2, <2>3, <2>4, <2>6, <2>7, <2>8, <2>9, Steps DEF BatchStep
<1> QED
  BY <1>1, <1>2
-----------------------------------------------------------------------------
\* Where a client is tells where its specs are.
Fits(c, r) ==
  /\ stage[c][r] # "done" => r \in batch[c].refs
  /\ stage[c][r] \in {"todo", "locked"} => pc[c] \in {"work", "validate"}
  /\ stage[c][r] = "locked" => ~Deletes(c, r)
  /\ stage[c][r] = "deleting" => pc[c] = "work" /\ Deletes(c, r) /\ r \in gone[c]
  /\ stage[c][r] = "valid" => pc[c] # "work" \/ ~Deletes(c, r)
  /\ pc[c] = "work" => ~Atomic(c)
  /\ pc[c] \in {"validate", "apply", "rollback"} => Atomic(c)
  /\ pc[c] \in {"apply", "rollback", "index"} => ~Dry(c)
  /\ pc[c] = "index" => stage[c][r] = "done"
  /\ pc[c] = "validate" /\ stage[c][r] = "done" /\ r \in batch[c].refs => report[c][r] = "error"
  /\ r \in gone[c] => r \in batch[c].refs /\ Deletes(c, r) /\ ~Dry(c)
  /\ report[c][r] # "none" \/ saved[c][r].there => r \in batch[c].refs
AllFit == \A c \in Clients, r \in Refs : Fits(c, r)

LEMMA FitsStep == Typed /\ Typed' /\ AllFit /\ [Next]_vars => AllFit'
<1> SUFFICES ASSUME Typed, Typed', AllFit, [Next]_vars, NEW d \in Clients, NEW q \in Refs
             PROVE  Fits(d, q)'
  BY DEF AllFit
<1> USE DEF Deletes, SpecOf, Atomic, Dry
<1>0. Fits(d, q) /\ stage[d][q] \in Stages
  BY DEF AllFit, Typed
<1>1. CASE UNCHANGED vars
  BY <1>0, <1>1 DEF Fits, vars, registry, session
<1>2. ASSUME NEW c \in Clients, NEW r \in Refs, SpecStep(c, r), d # c \/ q # r
      PROVE  Fits(d, q)'
  BY <1>0, <1>2, SpecFrame DEF Fits
<1>3. CASE \E c \in Clients : c # d /\ BatchStep(c)
  BY <1>0, <1>3, BatchFrame DEF Fits
<1>4. CASE SpecStep(d, q)
  <2>0. UNCHANGED <<pc, batch>>
    BY <1>4, SpecFrame
  <2> USE DEF Advance, Report, Typed
  <2>1. CASE TakeLock(d, q) \/ LockRefused(d, q)
    BY <1>0, <2>0, <2>1 DEF Fits, TakeLock, LockRefused
  <2>2. CASE Accept(d, q) \/ Reject(d, q)
    BY <1>0, <2>0, <2>2 DEF Fits, Accept, Reject
  <2>3. CASE DryRunSpec(d, q)
    BY <1>0, <2>0, <2>3 DEF Fits, DryRunSpec
  <2>4. CASE Push(d, q) \/ PushFails(d, q)
    BY <1>0, <2>0, <2>4 DEF Fits, Push, PushFails
  <2>5. CASE StartDelete(d, q)
    BY <1>0, <2>0, <2>5 DEF Fits, StartDelete, Removes
  <2>6. CASE FinishDelete(d, q) \/ FailDelete(d, q)
    BY <1>0, <2>0, <2>6 DEF Fits, FinishDelete, FailDelete
  <2>7. CASE AcceptDelete(d, q)
    BY <1>0, <2>0, <2>7 DEF Fits, AcceptDelete
  <2>8. CASE Apply(d, q)
    BY <1>0, <2>0, <2>8 DEF Fits, Apply
  <2>9. CASE Restore(d, q)
    BY <1>0, <2>0, <2>9 DEF Fits, Restore, ToRestore, Unsaved
  <2> QED
    BY <1>4, <2>1, <2>2, <2>3, <2>4, <2>5, <2>6, <2>7, <2>8, <2>9 DEF SpecStep
<1>5. CASE BatchStep(d)
  <2> USE DEF Goto, Typed
  <2>1. CASE \E b \in Batches : Start(d, b)
    BY <1>0, <2>1 DEF Fits, Start, Unsaved
  <2>2. CASE WorkersDone(d) \/ Applied(d)
    BY <1>0, <2>2 DEF Fits, WorkersDone, Applied, AllDone, session
  <2>3. CASE Validated(d)
    <3>1. report'[d][q] # "none" => q \in batch[d].refs
      BY <2>3 DEF Validated
    <3>2. /\ stage[d][q] \in {"valid", "done"} /\ pc[d] = "validate"
          /\ pc'[d] \in {"answer", "apply"} /\ (Dry(d) => pc'[d] = "answer")
          /\ UNCHANGED <<batch, stage, gone, saved>>
      BY <1>0, <2>3 DEF Validated, Fits
    <3> QED
      BY <1>0, <3>1, <3>2 DEF Fits
  <2>4. CASE RolledBack(d)
    BY <1>0, <2>4 DEF Fits, RolledBack, Stages
  <2>5. CASE UpdateIndex(d) \/ UpdateFails(d)
    BY <1>0, <2>5 DEF Fits, UpdateIndex, UpdateFails, Unlisted
  <2>6. CASE Answer(d)
    BY <1>0, <2>6 DEF Fits, Answer, session
  <2>7. CASE \E r \in Refs : ApplyFails(d, r)
    BY <1>0, <2>7 DEF Fits, ApplyFails, session
  <2> QED
    BY <1>5, <2>1, <2>2, <2>3, <2>4, <2>5, <2>6, <2>7 DEF BatchStep
<1> QED
  BY <1>1, <1>2, <1>3, <1>4, <1>5, Steps
-----------------------------------------------------------------------------
\* A lock is held by a batch under way: by an atomic one to its end, by a worker while its
\* spec is locked or valid.
LockFits(c, r) ==
  lock[r] = c =>
    /\ pc[c] # "idle" /\ ~Dry(c)
    /\ ~Atomic(c) => pc[c] = "work" /\ stage[c][r] \in {"locked", "valid"}
LocksFit == \A c \in Clients, r \in Refs : LockFits(c, r)

LEMMA LocksStep == Typed /\ Typed' /\ AllFit /\ LocksFit /\ [Next]_vars => LocksFit'
<1> SUFFICES ASSUME Typed, Typed', AllFit, LocksFit, [Next]_vars,
                    NEW d \in Clients, NEW q \in Refs
             PROVE  LockFits(d, q)'
  BY DEF LocksFit
<1> USE DEF Atomic, Dry
<1>0. LockFits(d, q) /\ Fits(d, q)
  BY DEF AllFit, LocksFit
<1>1. CASE UNCHANGED vars
  BY <1>0, <1>1 DEF LockFits, vars, registry, session
<1>2. ASSUME NEW c \in Clients, NEW r \in Refs, SpecStep(c, r), q # r
      PROVE  LockFits(d, q)'
  BY <1>0, <1>2, SpecFrame DEF LockFits
<1>3. ASSUME NEW c \in Clients, SpecStep(c, q), c # d PROVE LockFits(d, q)'
  <2>1. lock'[q] = d => lock[q] = d
    BY <1>3 DEF SpecStep, TakeLock, LockRefused, Accept, Reject, DryRunSpec, Push, PushFails,
         StartDelete, FinishDelete, FailDelete, AcceptDelete, Apply, Restore, registry,
         Unlock, Typed
  <2> QED
    BY <1>0, <1>3, <2>1, SpecFrame DEF LockFits
<1>4. CASE SpecStep(d, q)
  <2>0. UNCHANGED <<pc, batch>>
    BY <1>4, SpecFrame
  <2> USE DEF Advance, Typed
  <2>1. CASE TakeLock(d, q)
    BY <1>0, <2>0, <2>1 DEF LockFits, TakeLock, Fits
  <2>2. CASE Reject(d, q)
    BY <1>0, <2>0, <2>2 DEF LockFits, Reject
  <2>3. CASE Push(d, q) \/ PushFails(d, q)
    BY <1>0, <2>0, <2>3 DEF LockFits, Push, PushFails, Unlock
  <2>4. CASE Accept(d, q) \/ Restore(d, q)
    BY <1>0, <2>0, <2>4 DEF LockFits, Accept, Restore, registry
  <2>5. CASE LockRefused(d, q) \/ DryRunSpec(d, q) \/ StartDelete(d, q) \/ FinishDelete(d, q)
               \/ FailDelete(d, q) \/ AcceptDelete(d, q) \/ Apply(d, q)
    <3>1. lock' = lock
      BY <2>5 DEF LockRefused, DryRunSpec, StartDelete, FinishDelete, FailDelete, AcceptDelete,
           Apply, registry
    <3>2. lock[q] = d => Atomic(d)
      BY <1>0, <2>5 DEF LockFits, Fits, LockRefused, DryRunSpec, StartDelete, FinishDelete,
           FailDelete, AcceptDelete, Apply
    <3> QED
      BY <1>0, <2>0, <3>1, <3>2 DEF LockFits
  <2> QED
    BY <1>4, <2>1, <2>2, <2>3, <2>4, <2>5 DEF SpecStep
<1>5. ASSUME NEW c \in Clients, BatchStep(c), c # d PROVE LockFits(d, q)'
  <2>1. lock'[q] = d => lock[q] = d
    BY <1>5 DEF BatchStep, Start, WorkersDone, Validated, RolledBack, Applied, UpdateIndex,
         UpdateFails, Answer, Unlocked, ApplyFails, registry, Typed
  <2> QED
    BY <1>0, <1>5, <2>1, BatchFrame DEF LockFits
<1>6. CASE BatchStep(d)
  <2> USE DEF Goto, Typed
  <2>1. CASE \E b \in Batches : Start(d, b)
    BY <1>0, <2>1 DEF LockFits, Start, registry
  <2>2. CASE WorkersDone(d) \/ Applied(d)
    BY <1>0, <2>2 DEF LockFits, Fits, WorkersDone, Applied, AllDone, session, registry
  <2>3. CASE Validated(d) \/ RolledBack(d)
    BY <1>0, <2>3 DEF LockFits, Fits, Validated, RolledBack, registry
  <2>4. CASE UpdateIndex(d) \/ UpdateFails(d)
    BY <1>0, <2>4 DEF LockFits, UpdateIndex, UpdateFails, registry
  <2>5. CASE Answer(d)
    BY <1>0, <2>5 DEF LockFits, Answer, Unlocked, session
  <2>6. CASE \E r \in Refs : ApplyFails(d, r)
    BY <1>0, <2>6 DEF LockFits, Fits, ApplyFails, session
  <2> QED
    BY <1>6, <2>1, <2>2, <2>3, <2>4, <2>5, <2>6 DEF BatchStep
<1> QED
  BY <1>1, <1>2, <1>3, <1>4, <1>5, <1>6, Steps
-----------------------------------------------------------------------------
LEMMA SpecPlace ==
  ASSUME Typed, AllFit, NEW c \in Clients, NEW r \in Refs, SpecStep(c, r)
  PROVE  pc[c] \in {"work", "validate", "apply", "rollback"}
BY DEF AllFit, Fits, SpecStep, TakeLock, LockRefused, Accept, Reject, DryRunSpec, Push,
       PushFails, StartDelete, FinishDelete, FailDelete, AcceptDelete, Apply, Restore

LEMMA AloneAtWork ==
  ASSUME Typed, Next, NEW c \in Clients, Alone(c)
  PROVE  BatchStep(c) \/ \E r \in Refs : SpecStep(c, r)
BY Steps DEF Alone

\* Who is alone stays alone.
LEMMA AloneStays ==
  ASSUME Typed, [Next]_vars, NEW c \in Clients
  PROVE  Alone(c)' <=> Alone(c)
<1>1. setting' = setting
  BY Steps DEF vars
<1> QED
  BY <1>1 DEF Alone, Workers

\* What a batch has done to a ref it reports, or is about to report, as done.
Own(c, r) ==
  /\ tag[r] = SpecOf(c, r).to
  /\ IF Deletes(c, r) THEN r \in gone[c] ELSE known[c][r] = SpecOf(c, r).to

OkFits(c, r) ==
  Alone(c) /\ ~Dry(c) =>
    /\ pc[c] \in {"work", "index"} /\ ~Atomic(c) /\ report[c][r] = "ok" =>
         stage[c][r] = "done" /\ Own(c, r)
    /\ pc[c] \in {"apply", "index"} /\ Atomic(c) /\ r \in batch[c].refs
         /\ stage[c][r] = "done" => Own(c, r)
    /\ pc[c] \in {"validate", "apply", "rollback"} => report[c][r] # "ok"
    /\ pc[c] = "answer" /\ report[c][r] = "ok" =>
         index[r] = SpecOf(c, r).to /\ tag[r] = SpecOf(c, r).to
OksFit == \A c \in Clients, r \in Refs : OkFits(c, r)

LEMMA OksStep == Typed /\ Typed' /\ AllFit /\ AllFit' /\ OksFit /\ [Next]_vars => OksFit'
<1> SUFFICES ASSUME Typed, Typed', AllFit, AllFit', OksFit, [Next]_vars,
                    NEW c \in Clients, NEW q \in Refs, Alone(c)
             PROVE  OkFits(c, q)'
  BY AloneStays DEF OksFit, OkFits
<1> USE DEF Atomic, Dry, Deletes, SpecOf
<1>0. OkFits(c, q) /\ Fits(c, q) /\ Fits(c, q)' /\ SpecOf(c, q).to \in Value
  BY ValuesAreTyped DEF AllFit, OksFit
<1>1. CASE UNCHANGED vars
  BY <1>0, <1>1 DEF OkFits, Own, vars, registry, session
<1>2. ASSUME NEW r \in Refs, SpecStep(c, r), q # r
      PROVE  OkFits(c, q)'
  <2>1. pc[c] # "answer"
    BY <1>2, SpecPlace
  <2> QED
    BY <1>0, <1>2, <2>1, SpecFrame DEF OkFits, Own
<1>3. CASE SpecStep(c, q)
  <2>0. UNCHANGED <<pc, batch>> /\ pc[c] # "answer"
    BY <1>3, SpecFrame, SpecPlace
  <2> USE DEF Advance, Report, Learn, Typed, RefMap
  <2>1. CASE TakeLock(c, q) \/ LockRefused(c, q)
    BY <1>0, <2>0, <2>1 DEF OkFits, TakeLock, LockRefused
  <2>2. CASE Accept(c, q) \/ Reject(c, q)
    BY <1>0, <2>0, <2>2 DEF OkFits, Fits, Accept, Reject
  <2>3. CASE DryRunSpec(c, q)
    BY <1>0, <2>0, <2>3 DEF OkFits, DryRunSpec
  <2>4. CASE Push(c, q)
    BY <1>0, <2>0, <2>4 DEF OkFits, Own, Fits, Push
  <2>5. CASE PushFails(c, q)
    BY <1>0, <2>0, <2>5 DEF OkFits, Fits, PushFails
  <2>6. CASE StartDelete(c, q)
    BY <1>0, <2>0, <2>6 DEF OkFits, StartDelete, Removes, Fits
  <2>7. CASE FinishDelete(c, q)
    BY <1>0, <2>0, <2>7 DEF OkFits, Own, Fits, FinishDelete, Remove
  <2>8. CASE FailDelete(c, q)
    BY <1>0, <2>0, <2>8 DEF OkFits, Fits, FailDelete
  <2>9. CASE AcceptDelete(c, q)
    BY <1>0, <2>0, <2>9 DEF OkFits, Fits, AcceptDelete
  <2>10. CASE Apply(c, q)
    BY <1>0, <2>0, <2>10 DEF OkFits, Own, Fits, Apply, Remove
  <2>11. CASE Restore(c, q)
    BY <1>0, <2>0, <2>11 DEF OkFits, Restore
  <2> QED
    BY <1>3, <2>1, <2>2, <2>3, <2>4, <2>5, <2>6, <2>7, <2>8, <2>9, <2>10, <2>11 DEF SpecStep
<1>4. CASE BatchStep(c)
  <2> USE DEF Goto, Typed
  <2>1. CASE \E b \in Batches : Start(c, b)
    BY <1>0, <2>1 DEF OkFits, Start
  <2>2. CASE WorkersDone(c) \/ Applied(c)
    BY <1>0, <2>2 DEF OkFits, Own, Fits, WorkersDone, Applied, AllDone, session, registry
  <2>3. CASE Validated(c)
    BY <1>0, <2>3 DEF OkFits, Own, Fits, Validated, SomeError, registry
  <2>4. CASE RolledBack(c)
    BY <1>0, <2>4 DEF OkFits, Fits, RolledBack, registry
  <2>5. CASE UpdateIndex(c)
    <3>1. report'[c][q] = "ok" /\ ~Dry(c) => Own(c, q)
      BY <1>0, <2>5 DEF OkFits, Fits, UpdateIndex
    <3>2. Own(c, q) => index'[q] = SpecOf(c, q).to
      BY <1>0, <2>5 DEF Own, Fits, UpdateIndex, Overlaid
    <3> QED
      BY <1>0, <2>5, <3>1, <3>2 DEF OkFits, Own, UpdateIndex
  <2>6. CASE UpdateFails(c)
    <3>1. report'[c][q] # "ok" /\ pc'[c] = "answer"
      BY <1>0, <2>6 DEF UpdateFails, Unlisted
    <3> QED
      BY <3>1 DEF OkFits
  <2>7. CASE Answer(c)
    BY <2>7 DEF OkFits, Answer
  <2>8. CASE \E r \in Refs : ApplyFails(c, r)
    BY <1>0, <2>8 DEF OkFits, ApplyFails, session
  <2> QED
    BY <1>4, <2>1, <2>2, <2>3, <2>4, <2>5, <2>6, <2>7, <2>8 DEF BatchStep
<1> QED
  BY <1>1, <1>2, <1>3, <1>4, AloneAtWork
-----------------------------------------------------------------------------
\* Where the tags of an atomic batch are, and what brings them back.
RestoreFits(c, r) ==
  /\ Alone(c) /\ Atomic(c) /\ ~Dry(c) /\ {"answer", "index"} \intersect Faults = {}
  /\ r \in batch[c].refs /\ ~Deletes(c, r)
  => /\ pc[c] \in {"validate", "apply", "rollback"} =>
          /\ saved[c][r].there => saved[c][r].to = before[c].tag[r]
          /\ ~saved[c][r].there /\ report[c][r] # "stranded" => tag[r] = before[c].tag[r]
     /\ pc[c] \in {"validate", "apply"} => report[c][r] # "stranded"
     /\ pc[c] = "validate" \/ (pc[c] = "apply" /\ stage[c][r] = "valid") => ~saved[c][r].there
     /\ pc[c] = "answer" /\ SomeError(c) =>
          tag[r] = before[c].tag[r] \/ report[c][r] = "stranded"
RestoresFit == \A c \in Clients, r \in Refs : RestoreFits(c, r)

LEMMA RestoresStep ==
  Typed /\ Typed' /\ AllFit /\ AllFit' /\ RestoresFit /\ [Next]_vars => RestoresFit'
<1>f. ASSUME Typed, [Next]_vars PROVE Faults' = Faults
  BY <1>f, Steps DEF vars, Faults
<1> SUFFICES ASSUME Typed, Typed', AllFit, AllFit', RestoresFit, [Next]_vars,
                    NEW c \in Clients, NEW q \in Refs, Alone(c),
                    {"answer", "index"} \intersect Faults = {}
             PROVE  RestoreFits(c, q)'
  BY <1>f, AloneStays DEF RestoresFit, RestoreFits
<1> USE DEF Atomic, Dry, Deletes, SpecOf
<1>0. /\ RestoreFits(c, q) /\ Fits(c, q) /\ Fits(c, q)'
      /\ "answer" \notin Faults /\ "index" \notin Faults
  BY DEF AllFit, RestoresFit
<1>1. CASE UNCHANGED vars
  BY <1>0, <1>1 DEF RestoreFits, SomeError, vars, registry, session
<1>2. ASSUME NEW r \in Refs, SpecStep(c, r), q # r
      PROVE  RestoreFits(c, q)'
  <2>1. pc[c] # "answer"
    BY <1>2, SpecPlace
  <2> QED
    BY <1>0, <1>2, <2>1, SpecFrame DEF RestoreFits
<1>3. CASE SpecStep(c, q)
  <2>0. UNCHANGED <<pc, batch, before>> /\ pc[c] # "answer"
    BY <1>3, SpecFrame, SpecPlace
  <2> USE DEF Advance, Report, Typed, RefMap
  <2>1. CASE Apply(c, q)
    BY <1>0, <2>0, <2>1 DEF RestoreFits, Apply, SnapshotOf
  <2>2. CASE Restore(c, q)
    BY <1>0, <2>0, <2>2 DEF RestoreFits, Restore, ToRestore, Unsaved
  <2>3. CASE LockRefused(c, q) \/ Reject(c, q)
    <3>1. tag' = tag /\ saved' = saved
      BY <2>3 DEF LockRefused, Reject, registry
    <3>2. report'[c][q] = "error" /\ stage'[c][q] = "done"
      BY <2>3 DEF LockRefused, Reject
    <3>3. pc[c] \notin {"apply", "rollback"}
      BY <1>0, <2>3 DEF Fits, LockRefused, Reject
    <3> QED
      BY <1>0, <2>0, <3>1, <3>2, <3>3 DEF RestoreFits
  <2>4. CASE TakeLock(c, q) \/ Accept(c, q) \/ AcceptDelete(c, q)
    <3>1. tag' = tag /\ saved' = saved /\ report' = report
      BY <2>4 DEF TakeLock, Accept, AcceptDelete, registry
    <3>2. pc[c] # "apply"
      BY <1>0, <2>4 DEF Fits, TakeLock, Accept, AcceptDelete
    <3> QED
      BY <1>0, <2>0, <3>1, <3>2 DEF RestoreFits
  <2>5. CASE DryRunSpec(c, q) \/ Push(c, q) \/ PushFails(c, q) \/ StartDelete(c, q)
               \/ FinishDelete(c, q) \/ FailDelete(c, q)
    <3>1. pc[c] = "work"
      BY <1>0, <2>5 DEF Fits, DryRunSpec, Push, PushFails, StartDelete, FinishDelete, FailDelete
    <3> QED
      BY <1>0, <2>0, <3>1 DEF RestoreFits, Fits
  <2> QED
    BY <1>3, <2>1, <2>2, <2>3, <2>4, <2>5 DEF SpecStep
<1>4. CASE BatchStep(c)
  <2> USE DEF Goto, Typed
  <2>1. CASE \E b \in Batches : Start(c, b)
    BY <1>0, <2>1 DEF RestoreFits, Start, Unsaved, registry
  <2>2. CASE WorkersDone(c) \/ Applied(c)
    BY <1>0, <2>2 DEF RestoreFits, Fits, WorkersDone, Applied, session, registry
  <2>3. CASE Validated(c)
    BY <1>0, <2>3 DEF RestoreFits, Validated, SomeError, registry
  <2>4. CASE RolledBack(c)
    BY <1>0, <2>4 DEF RestoreFits, RolledBack, ToRestore, registry
  <2>5. CASE UpdateIndex(c)
    <3>1. Atomic(c) => ~SomeError(c)' /\ pc'[c] = "answer"
      BY <2>5 DEF UpdateIndex, SomeError
    <3> QED
      BY <2>5, <3>1 DEF RestoreFits, UpdateIndex
  <2>6. CASE UpdateFails(c)
    BY <1>0, <2>6 DEF UpdateFails
  <2>7. CASE Answer(c)
    BY <2>7 DEF RestoreFits, Answer
  <2>8. CASE \E r \in Refs : ApplyFails(c, r)
    <3>1. PICK r \in Refs : ApplyFails(c, r)
      BY <2>8
    <3>2. UNCHANGED session /\ before' = before /\ pc[c] = "apply" /\ pc'[c] = "rollback"
      BY <3>1 DEF ApplyFails
    <3>3. ~Deletes(c, q) => tag'[q] = tag[q]
      BY <1>0, <3>1 DEF ApplyFails, RefMap
    <3> QED
      BY <1>0, <3>2, <3>3 DEF RestoreFits, session
  <2> QED
    BY <1>4, <2>1, <2>2, <2>3, <2>4, <2>5, <2>6, <2>7, <2>8 DEF BatchStep
<1> QED
  BY <1>1, <1>2, <1>3, <1>4, AloneAtWork
-----------------------------------------------------------------------------
\* What the checks have let through, measured against the index the batch began with.
Checked(c, r) ==
  LET old == before[c].index[r] IN
  /\ SpecOf(c, r).lease \in {NoLease, old}
  /\ \/ SpecOf(c, r).force
     \/ old \in {Absent, SpecOf(c, r).to}
     \/ old \in Ancestors[SpecOf(c, r).to]

\* A client's listing is what it began with, and what it did since.
KnownFits(c, r) ==
  pc[c] \in {"work", "validate", "apply", "index"} =>
    /\ \/ known[c][r] = before[c].index[r]
       \/ Deletes(c, r) /\ r \in gone[c]
       \/ ~Deletes(c, r) /\ known[c][r] = SpecOf(c, r).to /\ Checked(c, r)
    /\ stage[c][r] # "done" => known[c][r] = before[c].index[r]
    /\ ~Deletes(c, r) =>
         /\ stage[c][r] = "valid" => Checked(c, r)
         /\ ~Atomic(c) /\ report[c][r] = "ok" => Checked(c, r)
         /\ pc[c] \in {"apply", "index"} /\ Atomic(c) /\ r \in batch[c].refs => Checked(c, r)
KnownFit == \A c \in Clients, r \in Refs : KnownFits(c, r)

LEMMA CheckedStays ==
  ASSUME NEW c \in Clients, NEW r \in Refs, batch'[c] = batch[c], before'[c] = before[c]
  PROVE  Checked(c, r)' <=> Checked(c, r)
BY DEF Checked, SpecOf

LEMMA KnownStep == Typed /\ Typed' /\ AllFit /\ AllFit' /\ KnownFit /\ [Next]_vars => KnownFit'
<1> SUFFICES ASSUME Typed, Typed', AllFit, AllFit', KnownFit, [Next]_vars,
                    NEW d \in Clients, NEW q \in Refs
             PROVE  KnownFits(d, q)'
  BY DEF KnownFit
<1> USE DEF Atomic, Dry, Deletes, SpecOf
<1>0. KnownFits(d, q) /\ Fits(d, q) /\ Fits(d, q)' /\ SpecOf(d, q).to \in Value
  BY ValuesAreTyped DEF AllFit, KnownFit
<1>1. CASE UNCHANGED vars
  BY <1>0, <1>1 DEF KnownFits, Checked, vars, registry, session
<1>2. ASSUME NEW c \in Clients, NEW r \in Refs, SpecStep(c, r), d # c \/ q # r
      PROVE  KnownFits(d, q)'
  <2>1. pc'[d] = pc[d] /\ batch'[d] = batch[d] /\ before'[d] = before[d]
    BY <1>2, SpecFrame
  <2>2. /\ known'[d][q] = known[d][q] /\ stage'[d][q] = stage[d][q]
        /\ report'[d][q] = report[d][q]
        /\ q \in gone'[d] <=> q \in gone[d]
    BY <1>2, SpecFrame
  <2> QED
    BY <1>0, <2>1, <2>2, CheckedStays DEF KnownFits
<1>3. CASE \E c \in Clients : c # d /\ BatchStep(c)
  BY <1>0, <1>3, BatchFrame, CheckedStays DEF KnownFits
<1>4. CASE SpecStep(d, q)
  <2>0. UNCHANGED <<pc, batch, before>> /\ (Checked(d, q)' <=> Checked(d, q))
    BY <1>4, SpecFrame, CheckedStays
  <2> USE DEF Advance, Report, Learn, Typed
  <2>1. CASE TakeLock(d, q)
    BY <1>0, <2>0, <2>1 DEF KnownFits, TakeLock
  <2>2. CASE LockRefused(d, q)
    BY <1>0, <2>0, <2>2 DEF KnownFits, LockRefused
  <2>3. CASE Accept(d, q)
    <3>1. known[d][q] = before[d].index[q] \/ pc[d] \notin {"work", "validate", "apply", "index"}
      BY <1>0, <2>3 DEF KnownFits, Accept
    <3>2. known[d][q] = before[d].index[q] => Checked(d, q)
      BY <2>3 DEF Accept, Accepts, LeaseHolds, Forwards, Checked
    <3>3. /\ known' = known /\ report' = report /\ gone' = gone
          /\ stage'[d][q] = "valid"
      BY <2>3 DEF Accept
    <3> QED
      BY <1>0, <2>0, <3>1, <3>2, <3>3 DEF KnownFits
  <2>4. CASE Reject(d, q)
    BY <1>0, <2>0, <2>4 DEF KnownFits, Reject
  <2>5. CASE DryRunSpec(d, q)
    BY <1>0, <2>0, <2>5 DEF KnownFits, Fits, DryRunSpec
  <2>6. CASE Push(d, q)
    <3>1. /\ known'[d][q] = SpecOf(d, q).to /\ stage'[d][q] = "done" /\ gone' = gone
          /\ stage[d][q] = "valid" /\ pc[d] = "work"
      BY <2>6 DEF Push
    <3>2. ~Deletes(d, q) /\ ~Atomic(d)
      BY <1>0, <3>1 DEF Fits
    <3> QED
      BY <1>0, <2>0, <3>1, <3>2 DEF KnownFits
  <2>7. CASE PushFails(d, q)
    BY <1>0, <2>0, <2>7 DEF KnownFits, PushFails
  <2>8. CASE StartDelete(d, q)
    <3>1. /\ Deletes(d, q) /\ known' = known
          /\ stage[d][q] # "done" /\ q \in gone'[d]
      BY <2>8 DEF StartDelete, Removes
    <3>2. pc[d] \in {"work", "validate", "apply", "index"} => known[d][q] = before[d].index[q]
      BY <1>0, <3>1 DEF KnownFits
    <3> QED
      BY <1>0, <2>0, <3>1, <3>2 DEF KnownFits
  <2>9. CASE FinishDelete(d, q)
    <3>1. /\ stage'[d][q] = "done" /\ gone' = gone /\ stage[d][q] = "deleting"
      BY <2>9 DEF FinishDelete
    <3>2. Deletes(d, q) /\ q \in gone[d]
      BY <1>0, <3>1 DEF Fits
    <3> QED
      BY <1>0, <2>0, <3>1, <3>2 DEF KnownFits
  <2>10. CASE FailDelete(d, q)
    <3>1. /\ stage'[d][q] = "done" /\ gone' = gone /\ known' = known /\ stage[d][q] = "deleting"
      BY <2>10 DEF FailDelete
    <3>2. Deletes(d, q) /\ q \in gone[d]
      BY <1>0, <3>1 DEF Fits
    <3> QED
      BY <1>0, <2>0, <3>1, <3>2 DEF KnownFits
  <2>11. CASE AcceptDelete(d, q)
    BY <1>0, <2>0, <2>11 DEF KnownFits, AcceptDelete
  <2>12. CASE Apply(d, q)
    <3>1. /\ stage'[d][q] = "done" /\ report' = report /\ stage[d][q] = "valid"
          /\ pc[d] = "apply"
      BY <2>12 DEF Apply
    <3>2. IF Deletes(d, q) THEN q \in gone'[d] ELSE known'[d][q] = SpecOf(d, q).to
      BY <2>12 DEF Apply
    <3>3. ~Deletes(d, q) => Checked(d, q)
      BY <1>0, <3>1 DEF KnownFits
    <3> QED
      BY <1>0, <2>0, <3>1, <3>2, <3>3 DEF KnownFits
  <2>13. CASE Restore(d, q)
    BY <1>0, <2>0, <2>13 DEF KnownFits, Restore
  <2> QED
    BY <1>4, <2>1, <2>2, <2>3, <2>4, <2>5, <2>6, <2>7, <2>8, <2>9, <2>10, <2>11, <2>12, <2>13
       DEF SpecStep
<1>5. CASE BatchStep(d)
  <2> USE DEF Goto, Typed
  <2>1. CASE \E b \in Batches : Start(d, b)
    <3>1. /\ known'[d] = index /\ before'[d].index = index /\ report'[d][q] = "none"
          /\ stage'[d][q] # "valid" /\ pc'[d] \in {"work", "validate"}
      BY <2>1 DEF Start
    <3> QED
      BY <3>1 DEF KnownFits
  <2>2. CASE WorkersDone(d) \/ Applied(d)
    BY <1>0, <2>2 DEF KnownFits, Checked, Fits, WorkersDone, Applied, session
  <2>3. CASE Validated(d)
    <3>1. /\ UNCHANGED <<batch, known, stage, gone, before>>
          /\ pc[d] = "validate" /\ Atomic(d) /\ pc'[d] \in {"answer", "apply"}
      BY <1>0, <2>3 DEF Validated, Fits
    <3>2. pc'[d] = "apply" /\ q \in batch[d].refs => stage[d][q] = "valid"
      BY <1>0, <2>3 DEF Validated, SomeError, Fits
    <3> QED
      BY <1>0, <3>1, <3>2 DEF KnownFits, Checked
  <2>4. CASE RolledBack(d) \/ UpdateIndex(d) \/ UpdateFails(d) \/ Answer(d)
              \/ \E r \in Refs : ApplyFails(d, r)
    BY <2>4 DEF KnownFits, RolledBack, UpdateIndex, UpdateFails, Answer, ApplyFails
  <2> QED
    BY <1>5, <2>1, <2>2, <2>3, <2>4 DEF BatchStep
<1> QED
  BY <1>1, <1>2, <1>3, <1>4, <1>5, Steps
-----------------------------------------------------------------------------
Inv == Typed /\ AllFit /\ LocksFit /\ OksFit /\ RestoresFit /\ KnownFit

LEMMA Initially == Init => Inv
<1> SUFFICES ASSUME Init PROVE Inv
  OBVIOUS
<1> USE DEF Init
<1>1. Typed
  <2>1. MaxBatches \in Nat
    BY SettingIsOne
  <2>2. EmptyBatch \in Batch /\ Nowhere \in RefMap /\ Unsaved \in Snapshot
    BY DEF EmptyBatch, Batch, PushSpec, Nowhere, RefMap, Unsaved, Snapshot, Value
  <2>3. \A c \in Clients : pc[c] = "idle"
    OBVIOUS
  <2>4. /\ [r \in Refs |-> "done"] \in [Refs -> Stages]
        /\ [r \in Refs |-> "none"] \in [Refs -> Lines] /\ "idle" \in Places
    BY DEF Stages, Lines, Places
  <2>5. Nowhere \in [Refs -> Value]
    BY <2>2 DEF RefMap
  <2> QED
    BY <2>1, <2>2, <2>3, <2>4, <2>5 DEF Typed
<1>2. /\ \A c \in Clients : pc[c] = "idle" /\ gone[c] = {}
      /\ \A c \in Clients, r \in Refs :
           stage[c][r] = "done" /\ report[c][r] = "none" /\ ~saved[c][r].there
      /\ \A r \in Refs : lock[r] = Free
  BY DEF Unsaved
<1> HIDE DEF Init
<1>3. AllFit
  BY <1>2 DEF AllFit, Fits
<1>4. LocksFit
  BY <1>2 DEF LocksFit, LockFits
<1>5. OksFit
  BY <1>2 DEF OksFit, OkFits
<1>6. RestoresFit
  BY <1>2 DEF RestoresFit, RestoreFits
<1>7. KnownFit
  BY <1>2 DEF KnownFit, KnownFits
<1> QED
  BY <1>1, <1>3, <1>4, <1>5, <1>6, <1>7 DEF Inv

LEMMA InvStep == Inv /\ [Next]_vars => Inv'
BY TypedStep, FitsStep, LocksStep, OksStep, RestoresStep, KnownStep DEF Inv

LEMMA InvHolds == Spec => []Inv
BY Initially, InvStep, PTL DEF Spec

\* The client, the registry and the reports keep their types, and what a batch counts as
\* deleted is a deletion it asked for and carries out.
THEOREM TypeCorrectness == Spec => []TypeOK
<1>1. Typed /\ AllFit => TypeOK
  <2> SUFFICES ASSUME Typed, AllFit PROVE TypeOK
    OBVIOUS
  <2>1. \A c \in Clients : \A r \in gone[c] :
          r \in batch[c].refs /\ batch[c].spec[r].to = Absent /\ ~batch[c].dry
    BY DEF Typed, AllFit, Fits, Deletes, SpecOf, Dry
  <2> QED
    BY <2>1 DEF Typed, TypeOK, RefMap, Places, Lines
<1> QED
  BY <1>1, InvHolds, PTL DEF Inv

\* No batch leaves a lock behind, whichever way it ends, for any clients and failing
\* calls: who holds a lock has a spec under it at work, or an atomic batch on its way.
THEOREM NoLockIsLeft == Spec => []LocksReturned
<1>1. Inv => LocksReturned
  BY DEF Inv, LocksFit, LockFits, LocksReturned
<1> QED
  BY <1>1, InvHolds, PTL

\* Whatever fails, what git is told succeeded is published, under the tag and in the
\* index, as long as no other client is at work.
THEOREM OkMeansPublished == Spec => []OkIsPublished
<1>1. Inv => OkIsPublished
  BY DEF Inv, OksFit, OkFits, OkIsPublished
<1> QED
  BY <1>1, InvHolds, PTL

\* A failed atomic batch puts back every tag it moved, or names the one it could not.
THEOREM RollbackHolds == Spec => []RollbackRestores
<1>1. Typed => \A c \in Clients : batch[c].refs \subseteq Refs
  BY DEF Typed, Batch
<1>2. Inv => RollbackRestores
  BY <1>1 DEF Inv, RestoresFit, RestoreFits, RollbackRestores, Failed
<1> QED
  BY <1>2, InvHolds, PTL

\* Who leaves "index" has updated the index, or failed to.
LEMMA IndexSteps ==
  ASSUME Typed, [Next]_vars, NEW c \in Clients, pc[c] = "index", pc'[c] # "index"
  PROVE  UpdateIndex(c) \/ UpdateFails(c)
<1>1. Next
  BY DEF vars
<1>2. PICK d \in Clients : BatchStep(d) \/ \E r \in Refs : SpecStep(d, r)
  BY <1>1, Steps
<1>3. BatchStep(d)
  BY <1>2, SpecFrame
<1>4. d = c
  BY <1>3, BatchFrame
<1> QED
  BY <1>3, <1>4 DEF BatchStep, Start, WorkersDone, Validated, RolledBack, Applied, Answer,
       ApplyFails

\* The index update moves no ref back that nobody else's update preceded, unless forced:
\* the listing it lays over the index holds what the batch began with or what passed the
\* fast-forward check against that.
THEOREM UpdatesGoForward == Spec => UnracedIsFastForward
<1> DEFINE A(c) == pc[c] = "index" /\ pc'[c] # "index" =>
       \A r \in Refs :
         /\ index[r] # Absent /\ index'[r] \notin {index[r], Absent}
         /\ before[c].index[r] = index[r]
         => SpecOf(c, r).force \/ index[r] \in Ancestors[index'[r]]
<1>1. Inv /\ [Next]_vars => \A c \in Clients : A(c)
  <2> SUFFICES ASSUME Inv, [Next]_vars, NEW c \in Clients, NEW r \in Refs,
                      pc[c] = "index", pc'[c] # "index", index[r] # Absent,
                      index'[r] \notin {index[r], Absent}, before[c].index[r] = index[r]
               PROVE  SpecOf(c, r).force \/ index[r] \in Ancestors[index'[r]]
    OBVIOUS
  <2>1. UpdateIndex(c)
    BY IndexSteps DEF Inv, UpdateFails, registry
  <2>2. r \notin gone[c] /\ known[c][r] = index'[r] /\ known[c][r] # index[r]
    BY <2>1 DEF UpdateIndex, Overlaid
  <2>3. known[c][r] = SpecOf(c, r).to /\ Checked(c, r)
    BY <2>2 DEF Inv, KnownFit, KnownFits
  <2> QED
    BY <2>2, <2>3 DEF Checked
<1> QED
  BY <1>1, InvHolds, PTL DEF Spec, UnracedIsFastForward

\* Nor does it publish over anything but what the lease of the pushed spec expects.
THEOREM LeasesHold == Spec => UnracedKeepsLease
<1> DEFINE A(c) == pc[c] = "index" /\ pc'[c] # "index" =>
       \A r \in Refs :
         /\ report'[c][r] = "ok" /\ ~Deletes(c, r) /\ SpecOf(c, r).lease # NoLease
         /\ before[c].index[r] = index[r]
         => index[r] = SpecOf(c, r).lease
<1>1. Inv /\ [Next]_vars => \A c \in Clients : A(c)
  <2> SUFFICES ASSUME Inv, [Next]_vars, NEW c \in Clients, NEW r \in Refs,
                      pc[c] = "index", pc'[c] # "index", report'[c][r] = "ok",
                      ~Deletes(c, r), SpecOf(c, r).lease # NoLease,
                      before[c].index[r] = index[r]
               PROVE  index[r] = SpecOf(c, r).lease
    OBVIOUS
  <2>1. Typed
    BY DEF Inv
  <2>2. UpdateIndex(c)
    <3>1. UpdateFails(c) => report'[c][r] # "ok"
      BY <2>1 DEF UpdateFails, Unlisted, Typed
    <3> QED
      BY <2>1, <3>1, IndexSteps
  <2>3. IF Atomic(c) THEN r \in batch[c].refs ELSE report[c][r] = "ok"
    BY <2>1, <2>2 DEF UpdateIndex, Typed
  <2>4. Checked(c, r)
    BY <2>3 DEF Inv, KnownFit, KnownFits
  <2> QED
    BY <2>4 DEF Checked
<1> QED
  BY <1>1, InvHolds, PTL DEF Spec, UnracedKeepsLease
=============================================================================
