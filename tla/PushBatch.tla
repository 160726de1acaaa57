----------------------------- MODULE PushBatch -----------------------------
(***************************************************************************)
(* The helper's push (pkg/helper/helper.go): a batch of specs, pushed by   *)
(* handlePushBatch with a worker per spec or by handlePushBatchAtomic in   *)
(* phases, against ref locks, ref tags and the ref index.                  *)
(*                                                                         *)
(* The index is what RefIndex shows: an update is one step that lays the   *)
(* caller's refs over the published ones.  A ref lock is who holds it.     *)
(* Who pushes what, and which calls fail, is a setting, chosen once for a  *)
(* behaviour.                                                              *)
(***************************************************************************)
EXTENDS Naturals, FiniteSets, Functions

CONSTANTS
  Clients,   \* helper processes
  Refs,      \* destination refs
  Commits,   \* commits a ref may point at
  Absent,    \* no such ref; as a spec's source, its deletion
  NoLease,   \* the spec carries no --force-with-lease
  Ancestors, \* the commits a commit strictly descends from
  Free,      \* nobody holds the lock
  Settings   \* the settings to choose from, numbered

ASSUME AbsentAssumption == {Absent, NoLease} \intersect Commits = {} /\ NoLease # Absent
ASSUME AncestorsAssumption == Ancestors \in [Commits -> SUBSET Commits]
ASSUME FreeAssumption == Free \notin Clients

Value == Commits \union {Absent}
RefMap == [Refs -> Value]

\* A spec "[+]src:dst": to is the commit src resolves to, Absent for ":dst".  lease is
\* what "option cas" said dst must hold.
PushSpec == [to : Value, force : BOOLEAN, lease : Value \union {NoLease}]
Batch == [refs : SUBSET Refs, spec : [Refs -> PushSpec], atomic : BOOLEAN, dry : BOOLEAN]

Fault == {"push", "answer", "delete", "restore", "index"}

\* clients: those at work.  batches: what they may be given.  max: bound on the batches
\* pushed in a behaviour.  faults: which registry calls may fail, and how.
Setting == [clients : SUBSET Clients, batches : SUBSET Batch, max : Nat,
            faults : SUBSET Fault]

ASSUME SettingsAssumption ==
  \A s \in Range(Settings) :
    /\ s.clients \subseteq Clients /\ s.faults \subseteq Fault /\ s.max \in Nat
    /\ \A b \in s.batches : b \in Batch

VARIABLES
  setting, \* the setting of this behaviour
  index,   \* the published refs
  tag,     \* the commit under each ref's tag
  lock,    \* who holds each ref's lock
  pc,      \* where each client is in its batch
  batch,   \* the batch it pushes
  known,   \* remoteRefs, richRemoteRefs: its listing, kept up by its own pushes
  stage,   \* where each spec is
  report,  \* what git will be told of each spec
  gone,    \* deletedRefs
  saved,   \* atomic: the tags to roll back, and what they held
  left,    \* batches still to come (bound)
  before   \* the tags and the index when the batch started

registry == <<index, tag, lock>>
session == <<batch, known, stage, report, gone, saved>>
vars == <<setting, registry, pc, session, left, before>>

Workers == Settings[setting].clients
Batches == Settings[setting].batches
MaxBatches == Settings[setting].max
Faults == Settings[setting].faults

Stages == {"todo", "locked", "valid", "deleting", "done"}
Snapshot == [there : BOOLEAN, to : Value]

TypeOK ==
  /\ setting \in DOMAIN Settings
  /\ index \in RefMap /\ tag \in RefMap
  /\ lock \in [Refs -> Clients \union {Free}]
  /\ pc \in [Clients -> {"idle", "work", "validate", "apply", "rollback",
                         "index", "answer"}]
  /\ \A c \in Clients : pc[c] # "idle" => batch[c] \in Batches
  /\ known \in [Clients -> RefMap]
  /\ stage \in [Clients -> [Refs -> Stages]]
  /\ report \in [Clients -> [Refs -> {"none", "ok", "error", "stranded"}]]
  /\ gone \in [Clients -> SUBSET Refs]
  /\ \A c \in Clients : \A r \in gone[c] :
       r \in batch[c].refs /\ batch[c].spec[r].to = Absent /\ ~batch[c].dry
  /\ saved \in [Clients -> [Refs -> Snapshot]]
  /\ left \in 0 .. MaxBatches
  /\ before \in [Clients -> [index : RefMap, tag : RefMap]]

Nowhere == [r \in Refs |-> Absent]
Unsaved == [there |-> FALSE, to |-> Absent]
EmptyBatch == [refs |-> {}, spec |-> [r \in Refs |->
                 [to |-> Absent, force |-> FALSE, lease |-> NoLease]],
               atomic |-> FALSE, dry |-> FALSE]

\* A repository at rest.
Init ==
  /\ setting \in DOMAIN Settings
  /\ index \in RefMap
  /\ tag = index
  /\ lock = [r \in Refs |-> Free]
  /\ pc = [c \in Clients |-> "idle"]
  /\ batch = [c \in Clients |-> EmptyBatch]
  /\ known = [c \in Clients |-> Nowhere]
  /\ stage = [c \in Clients |-> [r \in Refs |-> "done"]]
  /\ report = [c \in Clients |-> [r \in Refs |-> "none"]]
  /\ gone = [c \in Clients |-> {}]
  /\ saved = [c \in Clients |-> [r \in Refs |-> Unsaved]]
  /\ left = MaxBatches
  /\ before = [c \in Clients |-> [index |-> Nowhere, tag |-> Nowhere]]
-----------------------------------------------------------------------------
SpecOf(c, r) == batch[c].spec[r]
Deletes(c, r) == SpecOf(c, r).to = Absent
Atomic(c) == batch[c].atomic
Dry(c) == batch[c].dry
SomeError(c) == \E r \in Refs : report[c][r] = "error"

\* Mutants of the definitions below.
AlwaysAccepts(c, r) == TRUE
LeaseForced(c, r) == SpecOf(c, r).force \/ SpecOf(c, r).lease \in {NoLease, known[c][r]}
UnforgottenOks(c) == report[c]
KeptLocks(c) == lock
ExistedBefore(c) == {r \in Refs : saved[c][r].there /\ saved[c][r].to # Absent}
AllReported(c) == \A r \in Refs : report[c][r] # "none"

\* The lease is held against the listing, forced or not.
LeaseHolds(c, r) == SpecOf(c, r).lease \in {NoLease, known[c][r]}

\* So is the fast-forward check: forced, new, unchanged, or an ancestor of what is pushed.
Forwards(c, r) ==
  LET old == known[c][r] IN
  \/ SpecOf(c, r).force
  \/ old \in {Absent, SpecOf(c, r).to}
  \/ old \in Ancestors[SpecOf(c, r).to]

Accepts(c, r) == LeaseHolds(c, r) /\ Forwards(c, r)

LockFree(r) == lock[r] = Free
AllDone(c) == \A r \in Refs : stage[c][r] = "done"

\* A deletion that is carried out: not in a dry run.
Removes(c, r) == Deletes(c, r) /\ ~Dry(c)

\* SnapshotRefTag.
SnapshotOf(c, r) == [there |-> TRUE, to |-> tag[r]]

ToRestore(c) == {r \in Refs : saved[c][r].there}

\* The refs argument of the update - the client's listing, with the refs that are new
\* in the index - laid over the index, without what the batch deleted.
Overlaid(c) ==
  [r \in Refs |-> IF r \in gone[c] THEN Absent
                  ELSE IF known[c][r] # Absent THEN known[c][r]
                  ELSE index[r]]

\* A failed index update turns every "ok" into an error.
Unlisted(c) == [r \in Refs |-> IF report[c][r] = "ok" THEN "error" ELSE report[c][r]]

Unlocked(c) == [r \in Refs |-> IF lock[r] = c THEN Free ELSE lock[r]]

Goto(c, at) == pc' = [pc EXCEPT ![c] = at]
Advance(c, r, s) == stage' = [stage EXCEPT ![c][r] = s]
Report(c, r, line) == report' = [report EXCEPT ![c][r] = line]
Learn(c, r, v) == known' = [known EXCEPT ![c][r] = v]
-----------------------------------------------------------------------------
\* git lists the remote and sends a batch of push lines.
Start(c, b) ==
  /\ pc[c] = "idle"
  /\ left > 0
  /\ left' = left - 1
  /\ batch' = [batch EXCEPT ![c] = b]
  /\ known' = [known EXCEPT ![c] = index]
  /\ stage' = [stage EXCEPT ![c] = [r \in Refs |-> IF r \in b.refs THEN "todo" ELSE "done"]]
  /\ report' = [report EXCEPT ![c] = [r \in Refs |-> "none"]]
  /\ gone' = [gone EXCEPT ![c] = {}]
  /\ saved' = [saved EXCEPT ![c] = [r \in Refs |-> Unsaved]]
  /\ before' = [before EXCEPT ![c] = [index |-> index, tag |-> tag]]
  /\ Goto(c, IF b.atomic THEN "validate" ELSE "work")
  /\ UNCHANGED registry

\* AcquireRefLock; a dry run takes none.
TakeLock(c, r) ==
  /\ pc[c] \in {"work", "validate"}
  /\ stage[c][r] = "todo"
  /\ ~Deletes(c, r)
  /\ \/ Dry(c) /\ UNCHANGED lock
     \/ ~Dry(c) /\ LockFree(r) /\ lock' = [lock EXCEPT ![r] = c]
  /\ Advance(c, r, "locked")
  /\ UNCHANGED <<index, tag, pc, batch, known, report, gone, saved, left, before>>

LockRefused(c, r) ==
  /\ pc[c] \in {"work", "validate"}
  /\ stage[c][r] = "todo"
  /\ ~Deletes(c, r) /\ ~Dry(c)
  /\ ~LockFree(r)
  /\ Advance(c, r, "done")
  /\ Report(c, r, "error")
  /\ UNCHANGED <<registry, pc, batch, known, gone, saved, left, before>>

Accept(c, r) ==
  /\ stage[c][r] = "locked"
  /\ Accepts(c, r)
  /\ Advance(c, r, "valid")
  /\ UNCHANGED <<registry, pc, batch, known, report, gone, saved, left, before>>

\* A worker's locks end with it; an atomic batch keeps its locks to the end.
Reject(c, r) ==
  /\ stage[c][r] = "locked"
  /\ ~Accepts(c, r)
  /\ Advance(c, r, "done")
  /\ Report(c, r, "error")
  /\ lock' = IF Atomic(c) \/ Dry(c) THEN lock ELSE [lock EXCEPT ![r] = Free]
  /\ UNCHANGED <<index, tag, pc, batch, known, gone, saved, left, before>>
-----------------------------------------------------------------------------
\* handlePushBatch: the workers, one per spec, in any order.
Unlock(c, r) == lock' = [lock EXCEPT ![r] = IF @ = c THEN Free ELSE @]

DryRunSpec(c, r) ==
  /\ pc[c] = "work"
  /\ Dry(c)
  /\ \/ stage[c][r] = "valid"
     \/ stage[c][r] = "todo" /\ Deletes(c, r) /\ ~Removes(c, r)
  /\ Advance(c, r, "done")
  /\ Report(c, r, "ok")
  /\ UNCHANGED <<registry, pc, batch, known, gone, saved, left, before>>

Push(c, r) ==
  /\ pc[c] = "work"
  /\ stage[c][r] = "valid"
  /\ ~Dry(c)
  /\ tag' = [tag EXCEPT ![r] = SpecOf(c, r).to]
  /\ Learn(c, r, SpecOf(c, r).to)
  /\ Report(c, r, "ok")
  /\ Unlock(c, r)
  /\ Advance(c, r, "done")
  /\ UNCHANGED <<index, pc, batch, gone, saved, left, before>>

\* "push": nothing was tagged; "answer": the tag moved and the answer was lost.
PushFails(c, r) ==
  /\ pc[c] = "work"
  /\ stage[c][r] = "valid"
  /\ ~Dry(c)
  /\ \/ "push" \in Faults /\ UNCHANGED tag
     \/ "answer" \in Faults /\ tag' = [tag EXCEPT ![r] = SpecOf(c, r).to]
  /\ Report(c, r, "error")
  /\ Unlock(c, r)
  /\ Advance(c, r, "done")
  /\ UNCHANGED <<index, pc, batch, known, gone, saved, left, before>>

\* A deletion goes into deletedRefs first, then needs the index lock, of which this
\* process holds at most one: a second deletion in flight is refused, not queued.
StartDelete(c, r) ==
  /\ pc[c] = "work"
  /\ stage[c][r] = "todo"
  /\ Removes(c, r)
  /\ gone' = [gone EXCEPT ![c] = @ \union {r}]
  /\ IF \E q \in Refs : stage[c][q] = "deleting"
     THEN Advance(c, r, "done") /\ Report(c, r, "error")
     ELSE Advance(c, r, "deleting") /\ UNCHANGED report
  /\ UNCHANGED <<registry, pc, batch, known, saved, left, before>>

\* DeleteRef.
Remove(r) ==
  /\ index' = [index EXCEPT ![r] = Absent]
  /\ tag' = [tag EXCEPT ![r] = Absent]

FinishDelete(c, r) ==
  /\ stage[c][r] = "deleting"
  /\ Remove(r)
  /\ Learn(c, r, Absent)
  /\ Report(c, r, "ok")
  /\ Advance(c, r, "done")
  /\ UNCHANGED <<lock, pc, batch, gone, saved, left, before>>

FailDelete(c, r) ==
  /\ "delete" \in Faults
  /\ stage[c][r] = "deleting"
  /\ \/ UNCHANGED tag
     \/ tag' = [tag EXCEPT ![r] = Absent]
  /\ Report(c, r, "error")
  /\ Advance(c, r, "done")
  /\ UNCHANGED <<index, lock, pc, batch, known, gone, saved, left, before>>

\* The index is updated whatever the workers report.
WorkersDone(c) ==
  /\ pc[c] = "work"
  /\ AllDone(c)
  /\ Goto(c, IF Dry(c) THEN "answer" ELSE "index")
  /\ UNCHANGED <<registry, session, left, before>>
-----------------------------------------------------------------------------
\* handlePushBatchAtomic, phase 1: a deletion is not validated.
AcceptDelete(c, r) ==
  /\ pc[c] = "validate"
  /\ stage[c][r] = "todo"
  /\ Deletes(c, r)
  /\ Advance(c, r, "valid")
  /\ UNCHANGED <<registry, pc, batch, known, report, gone, saved, left, before>>

\* Phase 2: one refusal refuses all.  A dry run ends here.
Validated(c) ==
  /\ pc[c] = "validate"
  /\ \A r \in batch[c].refs : stage[c][r] \in {"valid", "done"}
  /\ report' = [report EXCEPT ![c] = [r \in Refs |->
       IF r \notin batch[c].refs THEN "none"
       ELSE IF SomeError(c) THEN "error"
       ELSE IF Dry(c) THEN "ok" ELSE "none"]]
  /\ Goto(c, IF SomeError(c) \/ Dry(c) THEN "answer" ELSE "apply")
  /\ UNCHANGED <<registry, batch, known, stage, gone, saved, left, before>>

\* Phase 3.  Deletions leave the index at once; a push remembers its tag first.
Apply(c, r) ==
  /\ pc[c] = "apply"
  /\ stage[c][r] = "valid"
  /\ Advance(c, r, "done")
  /\ UNCHANGED <<lock, pc, batch, report, left, before>>
  /\ \/ /\ Deletes(c, r)
        /\ Remove(r)
        /\ Learn(c, r, Absent)
        /\ gone' = [gone EXCEPT ![c] = @ \union {r}]
        /\ UNCHANGED saved
     \/ /\ ~Deletes(c, r)
        /\ saved' = [saved EXCEPT ![c][r] = SnapshotOf(c, r)]
        /\ tag' = [tag EXCEPT ![r] = SpecOf(c, r).to]
        /\ Learn(c, r, SpecOf(c, r).to)
        /\ UNCHANGED <<index, gone>>

ApplyFails(c, r) ==
  /\ pc[c] = "apply"
  /\ stage[c][r] = "valid"
  /\ \/ Deletes(c, r) /\ "delete" \in Faults
        /\ tag' \in {tag, [tag EXCEPT ![r] = Absent]}
     \/ ~Deletes(c, r) /\ "push" \in Faults /\ UNCHANGED tag
     \/ ~Deletes(c, r) /\ "answer" \in Faults
        /\ tag' = [tag EXCEPT ![r] = SpecOf(c, r).to]
  /\ Goto(c, "rollback")
  /\ UNCHANGED <<index, lock, session, left, before>>

\* RestoreRefTag, for each tag the batch moved.
Restore(c, r) ==
  /\ pc[c] = "rollback"
  /\ r \in ToRestore(c)
  /\ saved' = [saved EXCEPT ![c][r] = Unsaved]
  /\ \/ tag' = [tag EXCEPT ![r] = saved[c][r].to] /\ UNCHANGED report
     \/ "restore" \in Faults /\ UNCHANGED tag /\ Report(c, r, "stranded")
  /\ UNCHANGED <<index, lock, pc, batch, known, stage, gone, left, before>>

RolledBack(c) ==
  /\ pc[c] = "rollback"
  /\ ToRestore(c) = {}
  /\ report' = [report EXCEPT ![c] = [r \in Refs |->
       IF r \in batch[c].refs /\ @[r] = "none" THEN "error" ELSE @[r]]]
  /\ Goto(c, "answer")
  /\ UNCHANGED <<registry, batch, known, stage, gone, saved, left, before>>

Applied(c) ==
  /\ pc[c] = "apply"
  /\ AllDone(c)
  /\ Goto(c, "index")
  /\ UNCHANGED <<registry, session, left, before>>
-----------------------------------------------------------------------------
\* The end of both: refresh the listing, update the index, settle the reports.
UpdateIndex(c) ==
  /\ pc[c] = "index"
  /\ index' = Overlaid(c)
  /\ known' = [known EXCEPT ![c] = Overlaid(c)]
  /\ report' = [report EXCEPT ![c] =
       IF Atomic(c)
       THEN [r \in Refs |-> IF r \in batch[c].refs THEN "ok" ELSE "none"]
       ELSE @]
  /\ Goto(c, "answer")
  /\ UNCHANGED <<tag, lock, batch, stage, gone, saved, left, before>>

\* Nothing is undone: the tags stay where the batch put them.
UpdateFails(c) ==
  /\ pc[c] = "index"
  /\ "index" \in Faults
  /\ report' = [report EXCEPT ![c] =
       IF Atomic(c)
       THEN [r \in Refs |-> IF r \in batch[c].refs THEN "error" ELSE "none"]
       ELSE Unlisted(c)]
  /\ Goto(c, "answer")
  /\ UNCHANGED <<registry, batch, known, stage, gone, saved, left, before>>

\* The results go to git, and an atomic batch's locks are released.
Answer(c) ==
  /\ pc[c] = "answer"
  /\ lock' = IF Atomic(c) THEN Unlocked(c) ELSE lock
  /\ Goto(c, "idle")
  /\ UNCHANGED <<index, tag, session, left, before>>
-----------------------------------------------------------------------------
Proceed(c) ==
  \/ \E r \in Refs :
       \/ TakeLock(c, r) \/ LockRefused(c, r) \/ Accept(c, r) \/ Reject(c, r)
       \/ DryRunSpec(c, r) \/ Push(c, r) \/ PushFails(c, r)
       \/ StartDelete(c, r) \/ FinishDelete(c, r) \/ FailDelete(c, r)
       \/ AcceptDelete(c, r) \/ Apply(c, r) \/ ApplyFails(c, r) \/ Restore(c, r)
  \/ WorkersDone(c) \/ Validated(c) \/ RolledBack(c) \/ Applied(c)
  \/ UpdateIndex(c) \/ UpdateFails(c) \/ Answer(c)

Next ==
  /\ \E c \in Workers : Proceed(c) \/ \E b \in Batches : Start(c, b)
  /\ UNCHANGED setting

Spec == Init /\ [][Next]_vars

\* A helper that has a batch works on it until git has its answer.
FairSpec == Spec /\ \A c \in Clients : WF_vars(Proceed(c) /\ UNCHANGED setting)
-----------------------------------------------------------------------------
Failed(c) == pc[c] = "answer" /\ Atomic(c) /\ ~Dry(c) /\ SomeError(c)
Alone(c) == Workers = {c}

\* A spec git is told succeeded is published under its tag and in the index, and a
\* deletion gone from both, unless another client changed it since: the index update
\* comes after the tags and takes every "ok" back when it fails (handlePushBatch's
\* held-back reports).
OkIsPublished ==
  \A c \in Clients, r \in Refs :
    pc[c] = "answer" /\ Alone(c) /\ ~Dry(c) /\ report[c][r] = "ok"
      => index[r] = SpecOf(c, r).to /\ tag[r] = SpecOf(c, r).to

\* A failed atomic batch leaves every tag it pushed where it was, or says which one it
\* could not put back, with no other client at work - unless a tag moved and its answer
\* was lost, or it was the index update that failed: then nothing is rolled back.
RollbackRestores ==
  \A c \in Clients : Failed(c) /\ Alone(c) /\ {"answer", "index"} \intersect Faults = {} =>
    \A r \in batch[c].refs :
      ~Deletes(c, r) /\ tag[r] # before[c].tag[r] => report[c][r] = "stranded"

\* No batch leaves a lock behind, whichever way it ends.
LocksReturned == \A c \in Clients : pc[c] = "idle" => \A r \in Refs : lock[r] # c

\* An index update that nobody else's update preceded moves refs forward, unless forced.
UnracedIsFastForward ==
  [][\A c \in Clients : pc[c] = "index" /\ pc'[c] # "index" =>
       \A r \in Refs :
         /\ index[r] # Absent /\ index'[r] \notin {index[r], Absent}
         /\ before[c].index[r] = index[r]
         => SpecOf(c, r).force \/ index[r] \in Ancestors[index'[r]]]_vars

\* Nor does it replace anything but what a lease expects, force or no force.
UnracedKeepsLease ==
  [][\A c \in Clients : pc[c] = "index" /\ pc'[c] # "index" =>
       \A r \in Refs :
         /\ report'[c][r] = "ok" /\ ~Deletes(c, r) /\ SpecOf(c, r).lease # NoLease
         /\ before[c].index[r] = index[r]
         => index[r] = SpecOf(c, r).lease]_vars

\* git gets an answer to every batch: no order of workers, refusals and failures leaves
\* one waiting.
BatchesAreAnswered == \A c \in Clients : pc[c] # "idle" ~> pc[c] = "idle"

\* A push git is told succeeded, unforced, never takes another developer's published
\* commits off the ref it pushed ("Acquire distributed ref lock to prevent
\* multi-developer race conditions", helper.go:2056).
FastForward ==
  [][\A c \in Clients : pc[c] = "index" /\ pc'[c] # "index" =>
       \A r \in Refs :
         /\ report'[c][r] = "ok" /\ ~Deletes(c, r) /\ ~SpecOf(c, r).force
         /\ index[r] \notin {Absent, index'[r]}
         => index[r] \in Ancestors[index'[r]]]_vars
=============================================================================
