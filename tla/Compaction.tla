----------------------------- MODULE Compaction -----------------------------
(***************************************************************************)
(* Compaction (pkg/gc/gc.go) among pushes: the commit manifests each push  *)
(* publishes, the pack bases their packfiles were cut against, the chain   *)
(* that repeats those bases beside the ref index, and the run that makes   *)
(* every ref self-contained and prunes what no ref needs.                  *)
(*                                                                         *)
(* A packfile is its bases: it holds what its commit reaches and they do   *)
(* not; a manifest is its bases and its LFS layers.  An index update lays  *)
(* the caller's refs over the index in one step (RefIndex), and a ref lock *)
(* is held until it is released (RefLock).  Who runs beside whom, and      *)
(* whether calls fail, is a setting, chosen once for a behaviour.          *)
(*                                                                         *)
(* pruned and forgone are history variables: no step depends on them.      *)
(***************************************************************************)
EXTENDS PackGraph, Naturals, Sequences, FiniteSets, Functions

CONSTANTS
  Pushers,   \* clients that push
  Refs,
  Large,     \* the commits that bring in a Git LFS object
  Main,      \* the ref the repository starts with
  Trunk,     \* the commits pushed to it so far, one push each
  GC,        \* the collector, as the holder of a lock
  Free,
  Settings   \* the settings to choose from

\* pushes, deletes, runs: bounds on the pushes, deletions and compactions that begin.
\* alone: no push is under way while a compaction runs.  faults: reads of the index
\* fail, and clients stop anywhere.
Setting == [pushes : Nat, deletes : Nat, runs : Nat, alone : BOOLEAN, faults : BOOLEAN]

ASSUME LargeAssumption == Large \subseteq Commits
ASSUME TrunkAssumption ==
  /\ Trunk \in Seq(Commits) \ {<<>>}
  /\ \A i, j \in DOMAIN Trunk : i < j => Trunk[i] \in Ancestors[Trunk[j]]
ASSUME RefsAssumption == Main \in Refs
ASSUME ClientsAssumption == GC \notin Pushers /\ Free \notin Pushers \union {GC}
ASSUME SettingsAssumption == Settings \subseteq Setting

VARIABLES
  setting,  \* the setting of this behaviour
  index,    \* _refs: the tip of each published ref
  tag,      \* each ref's own manifest, and its tip
  manifest, \* the commit manifests the registry serves
  chain,    \* the pack chain published with the index
  lock,     \* who holds each ref's lock
  push,     \* where each pusher is, and with what
  gc,       \* where the run is, and with what
  pushes, deletes, runs, \* how many began (bounds)
  done,     \* the refs this run rewrote
  pruned,   \* the commits pruned since a run last published a new chain
  forgone   \* the LFS objects some push had no copy of, or a rewritten manifest left out

history == <<pruned, forgone>>
vars == <<setting, index, tag, manifest, chain, lock, push, gc, pushes, deletes, runs, done,
          pruned, forgone>>

MaxPushes == setting.pushes
MaxDeletes == setting.deletes
MaxRuns == setting.runs
Alone == setting.alone
Faults == setting.faults

\* f over g, and f with x set to v.
Over(f, g) == [x \in DOMAIN f \union DOMAIN g |-> IF x \in DOMAIN f THEN f[x] ELSE g[x]]
Put(f, x, v) == [y \in DOMAIN f \union {x} |-> IF y = x THEN v ELSE f[y]]
Bases == SUBSET Commits
Manifest == [bases : Bases, lfs : SUBSET Large]
Tips(f) == Partial(f, Refs, Commits)

NoPush == [at |-> "idle"]
NoRun == [at |-> "idle"]
NoChain == [c \in {} |-> {}]

TypeOK ==
  /\ setting \in Settings
  /\ Tips(index)
  /\ Partial(tag, Refs, [tip : Commits, manifest : Manifest])
  /\ Partial(manifest, Commits, Manifest) /\ Partial(chain, Commits, Bases)
  /\ \A c \in DOMAIN manifest : manifest[c].bases \subseteq Ancestors[c]
  /\ lock \in [Refs -> Pushers \union {GC, Free}]
  /\ \A p \in Pushers : push[p] # NoPush =>
       /\ push[p].at \in {"lock", "check", "cut", "commit", "tag", "unlock", "index"}
       /\ push[p].ref \in Refs /\ push[p].to \in Commits
       /\ Tips(push[p].known) /\ push[p].bases \in Bases /\ push[p].local \subseteq Large
  /\ gc # NoRun =>
       /\ gc.at \in {"list", "take", "check", "commit", "tag", "unlock", "prune"}
       /\ Tips(gc.refs) /\ Tips(gc.latest)
       /\ gc.before \subseteq Commits /\ gc.todo \subseteq Refs /\ gc.quiet \in BOOLEAN
  /\ pushes \in 0 .. MaxPushes /\ deletes \in 0 .. MaxDeletes /\ runs \in 0 .. MaxRuns
  /\ done \subseteq Refs /\ pruned \subseteq Commits /\ forgone \subseteq Large

Last == Trunk[Len(Trunk)]
TrunkBases(i) == IF i = 1 THEN {} ELSE {Trunk[i - 1]}
TrunkEdges ==
  [c \in Range(Trunk) |-> TrunkBases(CHOOSE i \in DOMAIN Trunk : Trunk[i] = c)]

\* Mutant of the definition below.
TipOnly(c, bases, local) == [bases |-> bases, lfs |-> Large \intersect {c} \intersect local]

\* What a push publishes for c: ScanLFSPointers scans just what the packfile carries, and
\* an object that is not in the pusher's own LFS store is skipped with a warning.
Pushed(c, bases, local) ==
  [bases |-> bases, lfs |-> Large \intersect Packed(c, bases) \intersect local]
Skipped(c, bases, local) == (Large \intersect Packed(c, bases)) \ local

\* The repository after the pushes of Trunk, by clients with the LFS objects of local.
Init == \E local \in SUBSET Large :
  /\ setting \in Settings
  /\ index = [r \in {Main} |-> Last]
  /\ tag = [r \in {Main} |-> [tip |-> Last, manifest |-> Pushed(Last, TrunkEdges[Last], local)]]
  /\ manifest = [c \in Range(Trunk) |-> Pushed(c, TrunkEdges[c], local)]
  /\ chain = TrunkEdges
  /\ lock = [r \in Refs |-> Free]
  /\ push = [p \in Pushers |-> NoPush]
  /\ gc = NoRun
  /\ pushes = 0 /\ deletes = 0 /\ runs = 0 /\ done = {}
  /\ pruned = {}
  /\ forgone = UNION {Skipped(c, TrunkEdges[c], local) : c \in Range(Trunk)}
-----------------------------------------------------------------------------
KnownTips(known) == Range(known)
KeptBy(run) == Range(run.refs)

\* Mutants of the definitions below.
AnyPublished(known, c) == {b \in KnownTips(known) : b # c /\ b \in DOMAIN manifest}
NeverMoved(r) == FALSE
KeepOldBases(c) == [bases |-> manifest[c].bases, lfs |-> {}]
AlwaysQuiet(run) == run

\* packBases: published tips, behind the commit, that the registry serves.
PackBases(known, c) ==
  {b \in KnownTips(known) : b \in Ancestors[c] /\ b \in DOMAIN manifest}

\* refTipMoved: an unreadable ref counts as moved.
TipMoved(r) == ~(r \in DOMAIN tag /\ tag[r].tip = gc.refs[r])

\* A consolidated packfile is cut against nothing, and its manifest lists no other layer
\* but the pack index.
Consolidated(c) == [bases |-> {}, lfs |-> {}]

Prunable(t) == t \notin KeptBy(gc)

\* A run that had to leave a ref alone is not quiet, and prunes nothing.
AfterConflict(run) == [run EXCEPT !.quiet = FALSE]

PusherAt(p, at) == push[p].at = at
PushGoto(p, at) == push' = [push EXCEPT ![p].at = at]
PushEnds(p) == push' = [push EXCEPT ![p] = NoPush]
RunAt(at) == gc.at = at
-----------------------------------------------------------------------------
\* handlePushBatch for one spec, by a process of its own.
BeginPush(p, r, c) ==
  /\ PusherAt(p, "idle")
  /\ pushes < MaxPushes
  /\ Alone => gc = NoRun
  /\ r \in DOMAIN index => index[r] # c
  /\ pushes' = pushes + 1
  /\ push' = [push EXCEPT ![p] =
       [at |-> "lock", ref |-> r, to |-> c, known |-> index, bases |-> {}, local |-> {}]]
  /\ UNCHANGED <<index, tag, manifest, chain, lock, gc, deletes, runs, done, history>>

LockRef(p) ==
  /\ PusherAt(p, "lock")
  /\ LET r == push[p].ref IN
     \/ lock[r] = Free /\ lock' = [lock EXCEPT ![r] = p] /\ PushGoto(p, "check")
     \/ lock[r] # Free /\ UNCHANGED lock /\ PushEnds(p)
  /\ UNCHANGED <<index, tag, manifest, chain, gc, pushes, deletes, runs, done, history>>

\* The fast-forward check; a forced push passes it.
CheckForward(p, force) ==
  /\ PusherAt(p, "check")
  /\ LET r == push[p].ref
         forward == r \in DOMAIN push[p].known =>
                      push[p].known[r] \in Ancestors[push[p].to] \union {push[p].to} IN
     \/ (force \/ forward) /\ PushGoto(p, "cut") /\ UNCHANGED lock
     \/ ~force /\ ~forward /\ PushEnds(p) /\ lock' = [lock EXCEPT ![r] = Free]
  /\ UNCHANGED <<index, tag, manifest, chain, gc, pushes, deletes, runs, done, history>>

\* packBases; of the LFS objects in the pack, uploadLFSObjects finds those in local.
CutPack(p) ==
  /\ PusherAt(p, "cut")
  /\ LET bases == PackBases(push[p].known, push[p].to) IN
     \E local \in SUBSET (Large \intersect Packed(push[p].to, bases)) :
       push' = [push EXCEPT ![p].bases = bases, ![p].local = local, ![p].at = "commit"]
  /\ UNCHANGED <<index, tag, manifest, chain, lock, gc, pushes, deletes, runs, done, history>>

\* pushCommitArtifacts, in a process that has not pushed this commit before.
PushCommit(p) ==
  /\ PusherAt(p, "commit")
  /\ LET c == push[p].to IN
     /\ manifest' = Put(manifest, c, Pushed(c, push[p].bases, push[p].local))
     /\ forgone' = forgone \union Skipped(c, push[p].bases, push[p].local)
  /\ PushGoto(p, "tag")
  /\ UNCHANGED <<index, tag, chain, lock, gc, pushes, deletes, runs, done, pruned>>

PushTag(p) ==
  /\ PusherAt(p, "tag")
  /\ LET c == push[p].to
         m == Pushed(c, push[p].bases, push[p].local) IN
     tag' = Put(tag, push[p].ref, [tip |-> c, manifest |-> m])
  /\ PushGoto(p, "unlock")
  /\ UNCHANGED <<index, manifest, chain, lock, gc, pushes, deletes, runs, done, history>>

UnlockRef(p) ==
  /\ PusherAt(p, "unlock")
  /\ lock' = [lock EXCEPT ![push[p].ref] = Free]
  /\ PushGoto(p, "index")
  /\ UNCHANGED <<index, tag, manifest, chain, gc, pushes, deletes, runs, done, history>>

\* The push's listing, its own ref moved, is laid over the index; its edge joins the
\* chain, unless that cannot be read or published (packChainLayer).
UpdateIndex(p) ==
  /\ PusherAt(p, "index")
  /\ index' = Put(Over(push[p].known, index), push[p].ref, push[p].to)
  /\ \/ chain' = Put(chain, push[p].to, push[p].bases)
     \/ Faults /\ chain' \in {Put(NoChain, push[p].to, push[p].bases), NoChain}
  /\ PushEnds(p)
  /\ UNCHANGED <<tag, manifest, lock, gc, pushes, deletes, runs, done, history>>

\* The process dies; its lock is free once its TTL has passed.
PushStops(p) ==
  /\ Faults
  /\ push[p] # NoPush
  /\ lock' = [lock EXCEPT ![push[p].ref] = IF @ = p THEN Free ELSE @]
  /\ PushEnds(p)
  /\ UNCHANGED <<index, tag, manifest, chain, gc, pushes, deletes, runs, done, history>>

\* DeleteRef.
Delete(r) ==
  /\ deletes < MaxDeletes
  /\ Alone => gc = NoRun
  /\ r \in DOMAIN index
  /\ deletes' = deletes + 1
  /\ index' = Restrict(index, DOMAIN index \ {r})
  /\ tag' = Restrict(tag, DOMAIN tag \ {r})
  /\ UNCHANGED chain \/ (Faults /\ chain' = NoChain)
  /\ UNCHANGED <<manifest, lock, push, gc, pushes, runs, done, history>>
-----------------------------------------------------------------------------
\* gc.Run: the index, then the tags.
ReadIndex ==
  /\ RunAt("idle")
  /\ runs < MaxRuns
  /\ Alone => \A p \in Pushers : push[p] = NoPush
  /\ DOMAIN index # {}
  /\ runs' = runs + 1
  /\ gc' = [at |-> "list", refs |-> index, before |-> {}, todo |-> DOMAIN index,
            ref |-> Main, quiet |-> TRUE, latest |-> index]
  /\ done' = {}
  /\ UNCHANGED <<index, tag, manifest, chain, lock, push, pushes, deletes, history>>

ListTags ==
  /\ RunAt("list")
  /\ gc' = [gc EXCEPT !.before = DOMAIN manifest, !.at = "take"]
  /\ UNCHANGED <<index, tag, manifest, chain, lock, push, pushes, deletes, runs, done, history>>

\* One ref after another; a locked one is left alone.
TakeRef(r) ==
  /\ RunAt("take")
  /\ r \in gc.todo
  /\ \/ /\ lock[r] = Free
        /\ lock' = [lock EXCEPT ![r] = GC]
        /\ gc' = [gc EXCEPT !.todo = @ \ {r}, !.ref = r, !.at = "check"]
     \/ /\ lock[r] # Free
        /\ gc' = [AfterConflict(gc) EXCEPT !.todo = @ \ {r}]
        /\ UNCHANGED lock
  /\ UNCHANGED <<index, tag, manifest, chain, push, pushes, deletes, runs, done, history>>

CheckTip ==
  /\ RunAt("check")
  /\ \/ /\ TipMoved(gc.ref)
        /\ gc' = [AfterConflict(gc) EXCEPT !.at = "unlock"]
     \/ /\ ~TipMoved(gc.ref)
        /\ gc' = [gc EXCEPT !.at = "commit"]
  /\ UNCHANGED <<index, tag, manifest, chain, lock, push, pushes, deletes, runs, done, history>>

\* consolidateRef: the commit manifest, then the ref's.
RewriteCommit ==
  /\ RunAt("commit")
  /\ LET c == gc.refs[gc.ref] IN
     /\ manifest' = Put(manifest, c, Consolidated(c))
     /\ forgone' = forgone \union (Large \intersect Reach(c))
  /\ gc' = [gc EXCEPT !.at = "tag"]
  /\ UNCHANGED <<index, tag, chain, lock, push, pushes, deletes, runs, done, pruned>>

RewriteTag ==
  /\ RunAt("tag")
  /\ LET c == gc.refs[gc.ref] IN
     tag' = Put(tag, gc.ref, [tip |-> c, manifest |-> Consolidated(c)])
  /\ done' = done \union {gc.ref}
  /\ gc' = [gc EXCEPT !.at = "unlock"]
  /\ UNCHANGED <<index, manifest, chain, lock, push, pushes, deletes, runs, history>>

ReleaseRef ==
  /\ RunAt("unlock")
  /\ lock' = [lock EXCEPT ![gc.ref] = Free]
  /\ gc' = [gc EXCEPT !.at = "take"]
  /\ UNCHANGED <<index, tag, manifest, chain, push, pushes, deletes, runs, done, history>>

\* What changed since the opening read; when the index cannot be read again, latest
\* stays the opening read.
Reread ==
  /\ RunAt("take") /\ gc.todo = {}
  /\ LET run == IF index = gc.refs THEN gc ELSE AfterConflict(gc) IN
     \/ gc' = [run EXCEPT !.latest = index, !.at = "prune"]
     \/ Faults /\ gc' = [AfterConflict(gc) EXCEPT !.at = "prune"]
  /\ UNCHANGED <<index, tag, manifest, chain, lock, push, pushes, deletes, runs, done, history>>

Prune(t) ==
  /\ RunAt("prune") /\ gc.quiet
  /\ t \in gc.before /\ Prunable(t)
  /\ manifest' = Restrict(manifest, DOMAIN manifest \ {t})
  /\ gc' = [gc EXCEPT !.before = @ \ {t}]
  /\ pruned' = pruned \union {t}
  /\ UNCHANGED <<index, tag, chain, lock, push, pushes, deletes, runs, done, forgone>>

\* The reset chain holds what this run published.
Republish ==
  /\ RunAt("prune")
  /\ gc.quiet => \A t \in gc.before : ~Prunable(t)
  /\ index' = Over(gc.latest, index)
  /\ \/ chain' = [c \in {gc.refs[r] : r \in done} |-> Consolidated(c).bases]
     \/ Faults /\ chain' = NoChain
  /\ gc' = NoRun
  /\ done' = {} /\ pruned' = {}
  /\ UNCHANGED <<tag, manifest, lock, push, pushes, deletes, runs, forgone>>

\* A failed step ends the run, and so does a crash.
RunStops ==
  /\ Faults
  /\ gc # NoRun
  /\ lock' = [r \in Refs |-> IF lock[r] = GC THEN Free ELSE lock[r]]
  /\ gc' = NoRun
  /\ done' = {}
  /\ UNCHANGED <<index, tag, manifest, chain, push, pushes, deletes, runs, history>>
-----------------------------------------------------------------------------
Pushing(p) ==
  \/ \E r \in Refs, c \in Commits : BeginPush(p, r, c)
  \/ LockRef(p) \/ \E force \in BOOLEAN : CheckForward(p, force)
  \/ CutPack(p) \/ PushCommit(p) \/ PushTag(p) \/ UnlockRef(p) \/ UpdateIndex(p)
  \/ PushStops(p)

Collecting ==
  \/ ReadIndex \/ ListTags \/ (\E r \in Refs : TakeRef(r)) \/ CheckTip
  \/ RewriteCommit \/ RewriteTag \/ ReleaseRef \/ Reread
  \/ (\E t \in Commits : Prune(t)) \/ Republish \/ RunStops

Next ==
  /\ Collecting \/ (\E p \in Pushers : Pushing(p)) \/ \E r \in Refs : Delete(r)
  /\ UNCHANGED setting

Spec == Init /\ [][Next]_vars
-----------------------------------------------------------------------------
\* The manifests a commit resolves to (resolveCommitManifest): its own, or that of a ref
\* that is published at it.
Resolved(c) ==
  IF c \in DOMAIN manifest THEN {manifest[c]}
  ELSE {tag[r].manifest :
          r \in {x \in DOMAIN index \intersect DOMAIN tag : index[x] = c /\ tag[x].tip = c}}

\* Where the published chain leads from c: resolvePackGraph starts from all of it.
Hinted(c) ==
  LET closed == {S \in SUBSET Commits :
        c \in S /\ \A d \in S \intersect DOMAIN chain : chain[d] \subseteq S} IN
  {d \in Commits : \A S \in closed : d \in S}

\* Where a clone comes to from B by the bases annotated on the manifests it reads.
Walked(B) ==
  LET closed == {S \in SUBSET Commits :
        B \subseteq S /\ \A d \in S : \A m \in Resolved(d) : m.bases \subseteq S} IN
  {c \in Commits : \A S \in closed : c \in S}

\* What it finds no manifest for: any such commit ends it.
Missing(B) == {c \in Walked(B) : Resolved(c) = {}}

\* A clone of r succeeds when no chain can be read, and with the chain as it is.
FetchableUnhinted(r) == Missing({index[r]}) = {}
Fetchable(r) == Missing(Hinted(index[r])) = {}

\* The LFS objects a clone of r comes by.
LFSFetched(r) == UNION {m.lfs : m \in UNION {Resolved(c) : c \in Walked({index[r]})}}

\* With compaction run while nobody pushes, and stopping anywhere, the pack bases of every
\* published ref are served, transitively (the invariant a writer must maintain,
\* FORMAT.md:299-302); and a clone of it, which starts from everything the chain names,
\* misses nothing but what runs have pruned since one of them last replaced the chain:
\* nothing at all, unless a run is between its first deletion and its end or stopped there.
Closed ==
  Alone => \A r \in DOMAIN index :
    FetchableUnhinted(r) /\ Missing(Hinted(index[r])) \subseteq pruned

\* The chain is a hint: one "that is stale, truncated, or absent costs round trips and never
\* correctness" (helper.go:861-862).  With compaction run while nobody pushes, what can be
\* cloned without the chain can be cloned with it.
ChainIsOnlyAHint ==
  Alone => \A r \in DOMAIN index : FetchableUnhinted(r) => Fetchable(r)

\* Every LFS object of a ref's history comes with a clone of the ref, unless a push that
\* packed its pointer had no copy of it or a compaction has rewritten a manifest over it:
\* the pointer is in one of the packs, and that pack's manifest lists the object ("a fetch
\* that skips this produces a clone that looks complete, passes fsck, and is wrong in the
\* only way that matters", helper.go:1567-1569).
LFSKept ==
  \A r \in DOMAIN index : FetchableUnhinted(r) =>
    Large \intersect Reach(index[r]) \subseteq LFSFetched(r) \union forgone

\* Consolidation first, deletion second (FORMAT.md:744-745): a run that prunes has
\* rewritten every ref it read as self-contained, and the index has not moved between
\* its two readings.
PrunesAfterConsolidation ==
  [][\A t \in Commits : Prune(t) => done = DOMAIN gc.refs /\ gc.latest = gc.refs]_vars

\* However pushes interleave, consolidation never rewinds a ref that was pushed while it
\* ran: the tip is re-read under the ref's lock.
TagsNotRewound ==
  [][\A r \in DOMAIN tag : Collecting => r \in DOMAIN tag' /\ tag'[r].tip = tag[r].tip]_vars
=============================================================================
