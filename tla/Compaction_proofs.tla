------------------------- MODULE Compaction_proofs -------------------------
(***************************************************************************)
(* Proofs about Compaction, for any history, any number of pushers and     *)
(* refs, any setting, and any number of runs.                              *)
(***************************************************************************)
EXTENDS Compaction, TLAPS, FiniteSetTheorems, WellFoundedInduction

USE HistoryAssumption, LargeAssumption, RefsAssumption, ClientsAssumption, SettingsAssumption

TipMaps == UNION {[D -> Commits] : D \in SUBSET Refs}
PushStages == {"lock", "check", "cut", "commit", "tag", "unlock", "index"}
RunStages == {"list", "take", "check", "commit", "tag", "unlock", "prune"}
PushRecord ==
  [at : PushStages, ref : Refs, to : Commits, known : TipMaps, bases : SUBSET Commits,
   local : SUBSET Large]
RunRecord ==
  [at : RunStages, refs : TipMaps, before : SUBSET Commits, todo : SUBSET Refs,
   ref : Refs, quiet : BOOLEAN, latest : TipMaps]

TagRecord == [tip : Commits, manifest : Manifest]

Shapes ==
  /\ setting \in Settings
  /\ index \in TipMaps
  /\ Partial(tag, Refs, TagRecord)
  /\ Partial(manifest, Commits, Manifest)
  /\ Partial(chain, Commits, Bases)
  /\ lock \in [Refs -> Pushers \union {GC, Free}]
  /\ push \in [Pushers -> PushRecord \union {NoPush}]
  /\ gc \in RunRecord \union {NoRun}
  /\ pushes \in 0 .. MaxPushes /\ deletes \in 0 .. MaxDeletes /\ runs \in 0 .. MaxRuns

\* What a push or a manifest is cut against is behind its commit.
Cut ==
  /\ \A c \in DOMAIN manifest : manifest[c].bases \subseteq Ancestors[c]
  /\ \A p \in Pushers : push[p] # NoPush => push[p].bases \subseteq Ancestors[push[p].to]

\* Who works on a ref has its lock.
HasLock == {"check", "cut", "commit", "tag", "unlock"}
Owned ==
  /\ \A p \in Pushers : push[p].at \in HasLock => lock[push[p].ref] = p
  /\ gc.at \in HasLock => lock[gc.ref] = GC

\* A run rewrites a ref at the tip that it read.
TipHolds ==
  gc.at \in {"commit", "tag"} /\ gc.ref \in DOMAIN tag => tag[gc.ref].tip = gc.refs[gc.ref]

\* A run that has left no ref alone has rewritten those it is through with.
Current == IF gc.at \in {"check", "commit", "tag"} THEN {gc.ref} ELSE {}
Through ==
  IF gc = NoRun THEN done = {} ELSE
    /\ gc.todo \subseteq DOMAIN gc.refs /\ done \subseteq DOMAIN gc.refs
    /\ gc.at \in HasLock => gc.ref \in DOMAIN gc.refs
    /\ gc.quiet => DOMAIN gc.refs \subseteq done \union gc.todo \union Current
    /\ gc.at = "prune" => gc.todo = {} /\ (gc.quiet => gc.latest = gc.refs)

\* The history variables.
Marks == pruned \subseteq Commits /\ forgone \subseteq Large

Inv == Shapes /\ Marks /\ Cut /\ Owned /\ TipHolds /\ Through
-----------------------------------------------------------------------------
LEMMA TipMapIsTips == \A f : f \in TipMaps <=> Tips(f)
BY DEF TipMaps, Tips, Partial

LEMMA PutFits ==
  ASSUME NEW S, NEW T, NEW f, Partial(f, S, T), NEW x \in S, NEW v \in T
  PROVE  Partial(Put(f, x, v), S, T)
BY DEF Partial, Put

LEMMA OverFits ==
  ASSUME NEW S, NEW T, NEW f, NEW g, Partial(f, S, T), Partial(g, S, T)
  PROVE  Partial(Over(f, g), S, T)
BY DEF Partial, Over

LEMMA RestrictFits ==
  ASSUME NEW S, NEW T, NEW f, NEW x, Partial(f, S, T)
  PROVE  Partial(Restrict(f, DOMAIN f \ {x}), S, T)
BY DEF Partial, Restrict

LEMMA PushedFits ==
  ASSUME NEW c \in Commits, NEW b \in SUBSET Commits, NEW local
  PROVE  Pushed(c, b, local) \in Manifest /\ Pushed(c, b, local).bases = b
BY DEF Pushed, Manifest, Bases

LEMMA ConsolidatedFits ==
  ASSUME NEW c
  PROVE  Consolidated(c) \in Manifest /\ Consolidated(c).bases = {}
BY DEF Consolidated, Manifest, Bases

LEMMA NoChainFits == Partial(NoChain, Commits, Bases) /\ DOMAIN NoChain = {}
BY DEF NoChain, Partial

LEMMA AfterConflictFits ==
  ASSUME gc \in RunRecord
  PROVE  /\ AfterConflict(gc) \in RunRecord /\ ~AfterConflict(gc).quiet
         /\ AfterConflict(gc).at = gc.at /\ AfterConflict(gc).refs = gc.refs
         /\ AfterConflict(gc).todo = gc.todo /\ AfterConflict(gc).ref = gc.ref
BY DEF AfterConflict, RunRecord

\* The stages tell what is there to work with.
LEMMA AtWork ==
  ASSUME Shapes
  PROVE  /\ \A p \in Pushers : push[p].at # "idle" <=> push[p] \in PushRecord
         /\ \A p \in Pushers : push[p] # NoPush <=> push[p] \in PushRecord
         /\ gc.at # "idle" <=> gc \in RunRecord
         /\ gc # NoRun <=> gc \in RunRecord
BY DEF Shapes, PushRecord, RunRecord, NoPush, NoRun, PushStages, RunStages

LEMMA TrunkEdgesFit ==
  /\ \A c \in Range(Trunk) :
       c \in Commits /\ TrunkEdges[c] \subseteq Commits /\ TrunkEdges[c] \subseteq Ancestors[c]
  /\ DOMAIN TrunkEdges = Range(Trunk)
  /\ Last \in Range(Trunk)
<1> USE TrunkAssumption
<1>1. ASSUME NEW c \in Range(Trunk)
      PROVE  c \in Commits /\ TrunkEdges[c] \subseteq Commits /\ TrunkEdges[c] \subseteq Ancestors[c]
  <2> DEFINE i == CHOOSE i \in DOMAIN Trunk : Trunk[i] = c
  <2>1. i \in DOMAIN Trunk /\ Trunk[i] = c
    BY DEF Range
  <2>2. TrunkEdges[c] = TrunkBases(i)
    BY DEF TrunkEdges
  <2> HIDE DEF i
  <2>3. Trunk \in Seq(Commits) /\ DOMAIN Trunk = 1 .. Len(Trunk) /\ Len(Trunk) \in Nat
    OBVIOUS
  <2>4. c \in Commits
    BY <2>1, <2>3
  <2>5. CASE i = 1
    BY <2>2, <2>4, <2>5 DEF TrunkBases
  <2>6. CASE i # 1
    <3>1. i - 1 \in DOMAIN Trunk /\ i - 1 < i /\ TrunkBases(i) = {Trunk[i - 1]}
      BY <2>1, <2>3, <2>6 DEF TrunkBases
    <3>2. Trunk[i - 1] \in Ancestors[c] /\ Trunk[i - 1] \in Commits
      BY <2>1, <2>3, <3>1
    <3> QED
      BY <2>2, <2>4, <3>1, <3>2
  <2> QED
    BY <2>5, <2>6
<1>2. DOMAIN TrunkEdges = Range(Trunk)
  BY DEF TrunkEdges
<1>3. Len(Trunk) \in DOMAIN Trunk
  OBVIOUS
<1> QED
  BY <1>1, <1>2, <1>3 DEF Last, Range
-----------------------------------------------------------------------------
\* The repository as the pushes of Trunk left it.
AsPushed(local) ==
  /\ manifest = [c \in Range(Trunk) |-> Pushed(c, TrunkEdges[c], local)]
  /\ tag = [r \in {Main} |-> [tip |-> Last, manifest |-> Pushed(Last, TrunkEdges[Last], local)]]
  /\ forgone = UNION {Skipped(c, TrunkEdges[c], local) : c \in Range(Trunk)}

LEMMA InitIsPushed == Init => \E local \in SUBSET Large : AsPushed(local)
BY DEF Init, AsPushed

LEMMA InvInit == Init => Inv
<1> SUFFICES ASSUME Init PROVE Inv
  OBVIOUS
<1> PICK local \in SUBSET Large : AsPushed(local)
  BY InitIsPushed
<1>0. setting \in Setting
  BY DEF Init
<1>1. index \in TipMaps
  BY TrunkEdgesFit DEF Init, TipMaps
<1>2. Partial(chain, Commits, Bases)
  BY TrunkEdgesFit DEF Init, Partial, Bases, TrunkEdges
<1>3. \A c \in Range(Trunk) : /\ Pushed(c, TrunkEdges[c], local) \in Manifest
                              /\ Pushed(c, TrunkEdges[c], local).bases = TrunkEdges[c]
  BY TrunkEdgesFit, PushedFits
<1>4. Partial(tag, Refs, TagRecord)
  BY <1>3, TrunkEdgesFit DEF AsPushed, Partial, TagRecord
<1>5. Partial(manifest, Commits, Manifest)
  BY <1>3, TrunkEdgesFit DEF AsPushed, Partial
<1>6. Shapes
  BY <1>0, <1>1, <1>2, <1>4, <1>5
     DEF Init, Shapes, Setting, MaxPushes, MaxDeletes, MaxRuns
<1>7. Cut
  BY <1>3, TrunkEdgesFit DEF Init, AsPushed, Cut
<1>8. Owned /\ TipHolds /\ Through
  BY DEF Init, Owned, TipHolds, Through, HasLock, NoPush, NoRun
<1>9. Marks
  BY DEF Init, AsPushed, Skipped, Marks
<1> QED
  BY <1>6, <1>7, <1>8, <1>9 DEF Inv
-----------------------------------------------------------------------------
\* A push goes on with what it has, or ends.
LEMMA PushGoesOn ==
  ASSUME Shapes, NEW p \in Pushers, push[p] # NoPush, NEW at \in PushStages, PushGoto(p, at)
  PROVE  /\ push' \in [Pushers -> PushRecord \union {NoPush}]
         /\ push'[p] = [push[p] EXCEPT !.at = at] /\ push'[p] \in PushRecord
         /\ push'[p].at = at /\ push'[p].ref = push[p].ref
         /\ \A q \in Pushers \ {p} : push'[q] = push[q]
BY AtWork DEF Shapes, PushGoto, PushRecord

LEMMA PushHasEnded ==
  ASSUME Shapes, NEW p \in Pushers, PushEnds(p)
  PROVE  /\ push' \in [Pushers -> PushRecord \union {NoPush}]
         /\ push'[p] = NoPush
         /\ \A q \in Pushers \ {p} : push'[q] = push[q]
BY DEF Shapes, PushEnds

LEMMA ShapesStep == ASSUME Shapes, Through, [Next]_vars PROVE Shapes'
<1>0. index \in TipMaps /\ Tips(index) /\ setting \in Setting
  BY TipMapIsTips DEF Shapes
<1>1. CASE UNCHANGED vars
  BY <1>1 DEF vars, Shapes, MaxPushes, MaxDeletes, MaxRuns
<1>2. CASE Next
  <2> DEFINE Rest == /\ setting \in Settings
                     /\ lock \in [Refs -> Pushers \union {GC, Free}]
                     /\ push \in [Pushers -> PushRecord \union {NoPush}]
                     /\ gc \in RunRecord \union {NoRun}
                     /\ pushes \in 0 .. MaxPushes /\ deletes \in 0 .. MaxDeletes
                     /\ runs \in 0 .. MaxRuns
             Maps == /\ index \in TipMaps
                     /\ Partial(tag, Refs, TagRecord)
                     /\ Partial(manifest, Commits, Manifest)
                     /\ Partial(chain, Commits, Bases)
  <2>0. setting' = setting
    BY <1>2 DEF Next
  <2>1. (UNCHANGED <<index, tag, manifest, chain>> => Maps') /\ (Maps' /\ Rest' => Shapes')
    BY DEF Shapes
  <2>2. ASSUME UNCHANGED <<pushes, deletes, runs>>
        PROVE  /\ UNCHANGED <<lock, gc>> /\ push' \in [Pushers -> PushRecord \union {NoPush}] => Rest'
               /\ UNCHANGED <<lock, push>> /\ gc' \in RunRecord \union {NoRun} => Rest'
    BY <2>0, <2>2 DEF Shapes, MaxPushes, MaxDeletes, MaxRuns
  <2>3. ASSUME NEW p \in Pushers, NEW r \in Refs, NEW c \in Commits, BeginPush(p, r, c)
        PROVE  Shapes'
    <3>1. push' \in [Pushers -> PushRecord \union {NoPush}]
      BY <1>0, <2>3 DEF BeginPush, Shapes, PushRecord, PushStages
    <3>2. pushes' \in 0 .. MaxPushes
      BY <1>0, <2>3 DEF BeginPush, Shapes, MaxPushes, Setting
    <3>3. Rest'
      BY <2>0, <2>3, <3>1, <3>2 DEF BeginPush, Shapes, MaxPushes, MaxDeletes, MaxRuns
    <3> QED
      BY <2>1, <2>3, <3>3 DEF BeginPush
  <2>4. ASSUME NEW p \in Pushers, LockRef(p) PROVE Shapes'
    <3>1. push[p] \in PushRecord
      BY <2>4, AtWork DEF LockRef, PusherAt
    <3>2. PushGoto(p, "check") \/ PushEnds(p)
      BY <2>4 DEF LockRef
    <3>3. push' \in [Pushers -> PushRecord \union {NoPush}]
      BY <3>1, <3>2, PushGoesOn, PushHasEnded, AtWork DEF PushStages
    <3>4. lock' \in [Refs -> Pushers \union {GC, Free}]
      BY <2>4 DEF LockRef, Shapes
    <3> QED
      BY <2>0, <2>1, <2>4, <3>3, <3>4 DEF LockRef, Shapes, MaxPushes, MaxDeletes, MaxRuns
  <2>5. ASSUME NEW p \in Pushers, NEW force \in BOOLEAN, CheckForward(p, force) PROVE Shapes'
    <3>1. push[p] \in PushRecord
      BY <2>5, AtWork DEF CheckForward, PusherAt
    <3>2. PushGoto(p, "cut") \/ PushEnds(p)
      BY <2>5 DEF CheckForward
    <3>3. push' \in [Pushers -> PushRecord \union {NoPush}]
      BY <3>1, <3>2, PushGoesOn, PushHasEnded, AtWork DEF PushStages
    <3>4. lock' \in [Refs -> Pushers \union {GC, Free}]
      BY <2>5 DEF CheckForward, Shapes
    <3> QED
      BY <2>0, <2>1, <2>5, <3>3, <3>4 DEF CheckForward, Shapes, MaxPushes, MaxDeletes, MaxRuns
  <2>6. ASSUME NEW p \in Pushers, CutPack(p) PROVE Shapes'
    <3>1. push[p] \in PushRecord
      BY <2>6, AtWork DEF CutPack, PusherAt
    <3>2. PackBases(push[p].known, push[p].to) \subseteq Commits
      BY <3>1 DEF PackBases, PushRecord
    <3>3. PICK local \in SUBSET Large : push' = [push EXCEPT
            ![p].bases = PackBases(push[p].known, push[p].to), ![p].local = local, ![p].at = "commit"]
      BY <2>6 DEF CutPack
    <3>4. push' \in [Pushers -> PushRecord \union {NoPush}]
      BY <3>1, <3>2, <3>3 DEF Shapes, PushRecord, PushStages
    <3> QED
      BY <2>1, <2>2, <2>6, <3>4 DEF CutPack
  <2>7. ASSUME NEW p \in Pushers, PushCommit(p) \/ PushTag(p) PROVE Shapes'
    <3>1. push[p] \in PushRecord
      BY <2>7, AtWork DEF PushCommit, PushTag, PusherAt
    <3>2. /\ push[p].ref \in Refs /\ push[p].to \in Commits
          /\ Pushed(push[p].to, push[p].bases, push[p].local) \in Manifest
      BY <3>1, PushedFits DEF PushRecord
    <3>6. [tip |-> push[p].to, manifest |-> Pushed(push[p].to, push[p].bases, push[p].local)]
            \in TagRecord
      BY <3>2 DEF TagRecord
    <3>3. push' \in [Pushers -> PushRecord \union {NoPush}]
      BY <2>7, <3>1, PushGoesOn, AtWork DEF PushCommit, PushTag, PushStages
    <3>4. Partial(manifest', Commits, Manifest)
      BY <2>7, <3>2, PutFits DEF PushCommit, PushTag, Shapes
    <3>5. Partial(tag', Refs, TagRecord)
      BY <2>7, <3>2, <3>6, PutFits DEF PushCommit, PushTag, Shapes
    <3> QED
      BY <2>1, <2>2, <2>7, <3>3, <3>4, <3>5 DEF PushCommit, PushTag, Shapes
  <2>8. ASSUME NEW p \in Pushers, UnlockRef(p) PROVE Shapes'
    <3>1. push' \in [Pushers -> PushRecord \union {NoPush}]
      BY <2>8, PushGoesOn, AtWork DEF UnlockRef, PusherAt, PushStages
    <3>2. lock' \in [Refs -> Pushers \union {GC, Free}]
      BY <2>8 DEF UnlockRef, Shapes
    <3> QED
      BY <2>0, <2>1, <2>8, <3>1, <3>2 DEF UnlockRef, Shapes, MaxPushes, MaxDeletes, MaxRuns
  <2>9. ASSUME NEW p \in Pushers, UpdateIndex(p) PROVE Shapes'
    <3>1. push[p] \in PushRecord
      BY <2>9, AtWork DEF UpdateIndex, PusherAt
    <3>2. /\ push[p].ref \in Refs /\ push[p].to \in Commits /\ push[p].bases \in Bases
          /\ Tips(push[p].known)
      BY <3>1, TipMapIsTips DEF PushRecord, Bases
    <3>3. Tips(index')
      BY <1>0, <2>9, <3>2, OverFits, PutFits DEF UpdateIndex, Tips
    <3>4. Partial(chain', Commits, Bases)
      BY <2>9, <3>2, PutFits, NoChainFits DEF UpdateIndex, Shapes
    <3>5. Maps'
      BY <2>9, <3>3, <3>4, TipMapIsTips DEF UpdateIndex, Shapes
    <3> QED
      BY <2>1, <2>2, <2>9, <3>5, PushHasEnded DEF UpdateIndex
  <2>10. ASSUME NEW p \in Pushers, PushStops(p) PROVE Shapes'
    <3>1. push' \in [Pushers -> PushRecord \union {NoPush}]
      BY <2>10, PushHasEnded DEF PushStops
    <3>2. lock' \in [Refs -> Pushers \union {GC, Free}]
      BY <2>10 DEF PushStops, Shapes
    <3> QED
      BY <2>0, <2>1, <2>10, <3>1, <3>2 DEF PushStops, Shapes, MaxPushes, MaxDeletes, MaxRuns
  <2>11. ASSUME NEW r \in Refs, Delete(r) PROVE Shapes'
    <3>1. Tips(index')
      BY <1>0, <2>11, RestrictFits DEF Delete, Tips
    <3>2. Partial(tag', Refs, TagRecord)
      BY <2>11, RestrictFits DEF Delete, Shapes
    <3>3. Maps'
      BY <2>11, <3>1, <3>2, TipMapIsTips, NoChainFits DEF Delete, Shapes
    <3>4. deletes' \in 0 .. MaxDeletes
      BY <1>0, <2>11 DEF Delete, Shapes, MaxDeletes, Setting
    <3>5. Rest'
      BY <2>0, <2>11, <3>4 DEF Delete, Shapes, MaxPushes, MaxDeletes, MaxRuns
    <3> QED
      BY <2>1, <3>3, <3>5
  <2>12. CASE ReadIndex
    <3>1. gc' \in RunRecord
      BY <1>0, <2>12 DEF ReadIndex, RunRecord, RunStages, Tips, Partial
    <3>2. runs' \in 0 .. MaxRuns
      BY <1>0, <2>12 DEF ReadIndex, Shapes, MaxRuns, Setting
    <3>3. Rest'
      BY <2>0, <2>12, <3>1, <3>2 DEF ReadIndex, Shapes, MaxPushes, MaxDeletes, MaxRuns
    <3> QED
      BY <2>1, <2>12, <3>3 DEF ReadIndex
  <2>13. CASE ListTags \/ CheckTip \/ Reread
    <3>1. gc \in RunRecord
      BY <2>13, AtWork DEF ListTags, CheckTip, Reread, RunAt
    <3>2. DOMAIN manifest \subseteq Commits
      BY DEF Shapes, Partial
    <3>3. gc' \in RunRecord
      <4>1. ListTags => gc' \in RunRecord
        BY <3>1, <3>2 DEF ListTags, RunRecord, RunStages
      <4>2. CheckTip => gc' \in RunRecord
        BY <3>1, AfterConflictFits DEF CheckTip, RunRecord, RunStages
      <4>3. Reread => gc' \in RunRecord
        <5> DEFINE left == AfterConflict(gc)
        <5>1. left \in RunRecord
          BY <3>1, AfterConflictFits
        <5>2. Reread => \/ gc' = [gc EXCEPT !.latest = index, !.at = "prune"]
                        \/ gc' = [left EXCEPT !.latest = index, !.at = "prune"]
                        \/ gc' = [left EXCEPT !.at = "prune"]
          BY DEF Reread
        <5> HIDE DEF left
        <5>3. CASE gc' = [gc EXCEPT !.latest = index, !.at = "prune"]
          BY <1>0, <3>1, <5>3 DEF RunRecord, RunStages
        <5>4. CASE gc' = [left EXCEPT !.latest = index, !.at = "prune"]
          BY <1>0, <5>1, <5>4 DEF RunRecord, RunStages
        <5>5. CASE gc' = [left EXCEPT !.at = "prune"]
          BY <5>1, <5>5 DEF RunRecord, RunStages
        <5> QED
          BY <5>2, <5>3, <5>4, <5>5
      <4> QED
        BY <2>13, <4>1, <4>2, <4>3
    <3> QED
      BY <2>1, <2>2, <2>13, <3>3 DEF ListTags, CheckTip, Reread
  <2>14. ASSUME NEW r \in Refs, TakeRef(r) PROVE Shapes'
    <3>1. gc \in RunRecord
      BY <2>14, AtWork DEF TakeRef, RunAt
    <3>2. gc' \in RunRecord
      <4> DEFINE left == AfterConflict(gc)
      <4>1. left \in RunRecord
        BY <3>1, AfterConflictFits
      <4>2. \/ gc' = [gc EXCEPT !.todo = @ \ {r}, !.ref = r, !.at = "check"]
            \/ gc' = [left EXCEPT !.todo = @ \ {r}]
        BY <2>14 DEF TakeRef
      <4> HIDE DEF left
      <4>3. CASE gc' = [gc EXCEPT !.todo = @ \ {r}, !.ref = r, !.at = "check"]
        BY <3>1, <4>3 DEF RunRecord, RunStages
      <4>4. CASE gc' = [left EXCEPT !.todo = @ \ {r}]
        BY <4>1, <4>4 DEF RunRecord
      <4> QED
        BY <4>2, <4>3, <4>4
    <3>3. lock' \in [Refs -> Pushers \union {GC, Free}]
      BY <2>14 DEF TakeRef, Shapes
    <3> QED
      BY <2>0, <2>1, <2>14, <3>2, <3>3 DEF TakeRef, Shapes, MaxPushes, MaxDeletes, MaxRuns
  <2>15. CASE RewriteCommit \/ RewriteTag
    <3>1. gc \in RunRecord
      BY <2>15, AtWork DEF RewriteCommit, RewriteTag, RunAt
    <3>2. gc' \in RunRecord
      BY <2>15, <3>1 DEF RewriteCommit, RewriteTag, RunRecord, RunStages
    <3>3. gc.refs[gc.ref] \in Commits /\ gc.ref \in Refs
      <4>1. gc.ref \in DOMAIN gc.refs /\ Tips(gc.refs)
        BY <2>15, <3>1, AtWork, TipMapIsTips
           DEF RewriteCommit, RewriteTag, RunAt, Through, HasLock, RunRecord
      <4> QED
        BY <4>1 DEF Tips, Partial
    <3>7. [tip |-> gc.refs[gc.ref], manifest |-> Consolidated(gc.refs[gc.ref])]
            \in TagRecord
      BY <3>3, ConsolidatedFits DEF TagRecord
    <3>4. Partial(manifest', Commits, Manifest)
      BY <2>15, <3>3, PutFits, ConsolidatedFits DEF RewriteCommit, RewriteTag, Shapes
    <3>5. Partial(tag', Refs, TagRecord)
      BY <2>15, <3>3, <3>7, PutFits DEF RewriteCommit, RewriteTag, Shapes
    <3>6. Maps'
      BY <2>15, <3>4, <3>5 DEF RewriteCommit, RewriteTag, Shapes
    <3> QED
      BY <2>1, <2>2, <2>15, <3>2, <3>6 DEF RewriteCommit, RewriteTag
  <2>16. CASE ReleaseRef
    <3>1. gc \in RunRecord
      BY <2>16, AtWork DEF ReleaseRef, RunAt
    <3>2. gc' \in RunRecord
      BY <2>16, <3>1 DEF ReleaseRef, RunRecord, RunStages
    <3>3. lock' \in [Refs -> Pushers \union {GC, Free}]
      BY <2>16 DEF ReleaseRef, Shapes
    <3> QED
      BY <2>0, <2>1, <2>16, <3>2, <3>3 DEF ReleaseRef, Shapes, MaxPushes, MaxDeletes, MaxRuns
  <2>17. ASSUME NEW t \in Commits, Prune(t) PROVE Shapes'
    <3>1. gc \in RunRecord
      BY <2>17, AtWork DEF Prune, RunAt
    <3>2. gc' \in RunRecord
      BY <2>17, <3>1 DEF Prune, RunRecord, RunStages
    <3>3. Partial(manifest', Commits, Manifest)
      BY <2>17, RestrictFits DEF Prune, Shapes
    <3>4. Maps'
      BY <2>17, <3>3 DEF Prune, Shapes
    <3> QED
      BY <2>1, <2>2, <2>17, <3>2, <3>4 DEF Prune
  <2>18. CASE Republish
    <3>1. gc \in RunRecord /\ done \subseteq DOMAIN gc.refs
      BY <2>18, AtWork DEF Republish, RunAt, Through
    <3>2. Tips(gc.refs) /\ Tips(gc.latest)
      BY <3>1, TipMapIsTips DEF RunRecord
    <3>3. Tips(index')
      BY <1>0, <2>18, <3>2, OverFits DEF Republish, Tips
    <3>4. Partial(chain', Commits, Bases)
      <4>1. Partial([c \in {gc.refs[r] : r \in done} |-> Consolidated(c).bases], Commits, Bases)
        BY <3>1, <3>2 DEF Consolidated, Partial, Tips, Bases
      <4> QED
        BY <2>18, <4>1, NoChainFits DEF Republish
    <3>5. Maps'
      BY <2>18, <3>3, <3>4, TipMapIsTips DEF Republish, Shapes
    <3> QED
      BY <2>1, <2>2, <2>18, <3>5 DEF Republish
  <2>19. CASE RunStops
    <3>1. lock' \in [Refs -> Pushers \union {GC, Free}]
      BY <2>19 DEF RunStops, Shapes
    <3> QED
      BY <2>0, <2>1, <2>19, <3>1 DEF RunStops, Shapes, MaxPushes, MaxDeletes, MaxRuns
  <2> QED
    BY <1>2, <2>3, <2>4, <2>5, <2>6, <2>7, <2>8, <2>9, <2>10, <2>11, <2>12, <2>13, <2>14,
       <2>15, <2>16, <2>17, <2>18, <2>19 DEF Next, Pushing, Collecting
<1> QED
  BY <1>1, <1>2
LEMMA CutStep == ASSUME Shapes, Cut, [Next]_vars PROVE Cut'
<1> DEFINE HasCut(p) == push[p] # NoPush => push[p].bases \subseteq Ancestors[push[p].to]
           Manifests == \A c \in DOMAIN manifest : manifest[c].bases \subseteq Ancestors[c]
<1>0. /\ Manifests' /\ (\A p \in Pushers : HasCut(p)') => Cut'
      /\ UNCHANGED manifest => Manifests'
      /\ \A p \in Pushers : push'[p] = push[p] => HasCut(p)'
  BY DEF Cut
<1>1. CASE UNCHANGED vars
  BY <1>1 DEF vars, Cut
<1>2. ASSUME NEW p \in Pushers, Pushing(p) PROVE Cut'
  <2>1. ASSUME push[p] # NoPush, NEW at \in PushStages, PushGoto(p, at)
        PROVE  \A q \in Pushers : HasCut(q)'
    <3>1. push'[p] = [push[p] EXCEPT !.at = at] /\ push[p] \in PushRecord
      BY <2>1, PushGoesOn, AtWork
    <3>2. HasCut(p)'
      BY <2>1, <3>1 DEF Cut, PushRecord
    <3>3. \A q \in Pushers \ {p} : push'[q] = push[q]
      BY <2>1, PushGoesOn
    <3> QED
      BY <1>0, <3>2, <3>3
  <2>2. ASSUME PushEnds(p) PROVE \A q \in Pushers : HasCut(q)'
    BY <1>0, <2>2, PushHasEnded
  <2>3. ASSUME NEW r \in Refs, NEW c \in Commits, BeginPush(p, r, c) PROVE Cut'
    <3>1. push'[p].bases = {} /\ \A q \in Pushers \ {p} : push'[q] = push[q]
      BY <2>3 DEF BeginPush, Shapes
    <3> QED
      BY <1>0, <2>3, <3>1 DEF BeginPush
  <2>4. CASE LockRef(p)
    BY <1>0, <2>1, <2>2, <2>4 DEF LockRef, PusherAt, NoPush, PushStages
  <2>5. ASSUME NEW force \in BOOLEAN, CheckForward(p, force) PROVE Cut'
    BY <1>0, <2>1, <2>2, <2>5 DEF CheckForward, PusherAt, NoPush, PushStages
  <2>6. CASE CutPack(p)
    <3>1. push[p] \in PushRecord
      BY <2>6, AtWork DEF CutPack, PusherAt
    <3>2. /\ push'[p].bases = PackBases(push[p].known, push[p].to) /\ push'[p].to = push[p].to
          /\ \A q \in Pushers \ {p} : push'[q] = push[q]
      BY <2>6, <3>1 DEF CutPack, Shapes, PushRecord
    <3> QED
      BY <1>0, <2>6, <3>2 DEF CutPack, PackBases
  <2>7. CASE PushCommit(p)
    <3>1. push[p] \in PushRecord /\ push[p] # NoPush
      BY <2>7, AtWork DEF PushCommit, PusherAt
    <3>2. push[p].to \in Commits /\ push[p].bases \in SUBSET Commits
      BY <3>1 DEF PushRecord
    <3>3. Pushed(push[p].to, push[p].bases, push[p].local).bases \subseteq Ancestors[push[p].to]
      BY <3>1, <3>2, PushedFits DEF Cut
    <3>4. Manifests'
      BY <2>7, <3>3 DEF PushCommit, Put, Cut
    <3> QED
      BY <1>0, <2>1, <2>7, <3>1, <3>4 DEF PushCommit, PushStages
  <2>8. CASE PushTag(p) \/ UnlockRef(p)
    BY <1>0, <2>1, <2>8 DEF PushTag, UnlockRef, PusherAt, NoPush, PushStages
  <2>9. CASE UpdateIndex(p) \/ PushStops(p)
    BY <1>0, <2>2, <2>9 DEF UpdateIndex, PushStops
  <2> QED
    BY <1>2, <2>3, <2>4, <2>5, <2>6, <2>7, <2>8, <2>9 DEF Pushing
<1>3. ASSUME UNCHANGED push, Manifests' PROVE Cut'
  BY <1>0, <1>3
<1>4. ASSUME NEW r \in Refs, Delete(r) PROVE Cut'
  BY <1>0, <1>3, <1>4 DEF Delete
<1>5. CASE Collecting
  <2>1. CASE RewriteCommit
    <3>1. Manifests'
      BY <2>1, ConsolidatedFits DEF RewriteCommit, Put, Cut
    <3> QED
      BY <1>3, <2>1, <3>1 DEF RewriteCommit
  <2>2. ASSUME NEW t \in Commits, Prune(t) PROVE Cut'
    <3>1. Manifests'
      BY <2>2 DEF Prune, Restrict, Cut
    <3> QED
      BY <1>3, <2>2, <3>1 DEF Prune
  <2>3. ASSUME UNCHANGED <<push, manifest>> PROVE Cut'
    BY <1>0, <1>3, <2>3
  <2>4. CASE ReadIndex \/ ListTags \/ CheckTip \/ RewriteTag \/ ReleaseRef \/ Reread
               \/ Republish \/ RunStops \/ \E r \in Refs : TakeRef(r)
    BY <2>3, <2>4 DEF ReadIndex, ListTags, CheckTip, RewriteTag, ReleaseRef, Reread,
         Republish, RunStops, TakeRef
  <2> QED
    BY <1>5, <2>1, <2>2, <2>4 DEF Collecting
<1> QED
  BY <1>1, <1>2, <1>4, <1>5 DEF Next

\* What the run's steps leave of what it knows.
LEMMA RunGoesOn ==
  ASSUME Shapes, gc # NoRun
  PROVE  /\ ListTags \/ RewriteCommit \/ RewriteTag \/ ReleaseRef \/ (\E t \in Commits : Prune(t)) =>
              /\ gc' \in RunRecord /\ gc'.refs = gc.refs /\ gc'.todo = gc.todo
              /\ gc'.ref = gc.ref /\ gc'.quiet = gc.quiet /\ gc'.latest = gc.latest
         /\ ListTags => gc.at = "list" /\ gc'.at = "take"
         /\ RewriteCommit => gc.at = "commit" /\ gc'.at = "tag"
         /\ RewriteTag => gc.at = "tag" /\ gc'.at = "unlock"
         /\ ReleaseRef => gc.at = "unlock" /\ gc'.at = "take"
         /\ (\E t \in Commits : Prune(t)) => gc.at = "prune" /\ gc'.at = "prune"
<1>0. gc \in RunRecord /\ DOMAIN manifest \subseteq Commits
  BY AtWork DEF Shapes, Partial
<1> DEFINE Kept == /\ gc' \in RunRecord /\ gc'.refs = gc.refs /\ gc'.todo = gc.todo
                   /\ gc'.ref = gc.ref /\ gc'.quiet = gc.quiet /\ gc'.latest = gc.latest
<1>1. ListTags => Kept /\ gc.at = "list" /\ gc'.at = "take"
  BY <1>0 DEF ListTags, RunAt, RunRecord, RunStages
<1>2. RewriteCommit => Kept /\ gc.at = "commit" /\ gc'.at = "tag"
  BY <1>0 DEF RewriteCommit, RunAt, RunRecord, RunStages
<1>3. RewriteTag => Kept /\ gc.at = "tag" /\ gc'.at = "unlock"
  BY <1>0 DEF RewriteTag, RunAt, RunRecord, RunStages
<1>4. ReleaseRef => Kept /\ gc.at = "unlock" /\ gc'.at = "take"
  BY <1>0 DEF ReleaseRef, RunAt, RunRecord, RunStages
<1>5. ASSUME NEW t \in Commits, Prune(t) PROVE Kept /\ gc.at = "prune" /\ gc'.at = "prune"
  BY <1>0, <1>5 DEF Prune, RunAt, RunRecord, RunStages
<1> QED
  BY <1>1, <1>2, <1>3, <1>4, <1>5

LEMMA RefTaken ==
  ASSUME Shapes, NEW r \in Refs, TakeRef(r)
  PROVE  /\ gc.at = "take" /\ gc # NoRun /\ gc' \in RunRecord /\ r \in gc.todo
         /\ gc'.refs = gc.refs /\ gc'.todo = gc.todo \ {r}
         /\ \/ gc'.at = "check" /\ gc'.ref = r /\ gc'.quiet = gc.quiet /\ lock' = [lock EXCEPT ![r] = GC]
            \/ gc'.at = "take" /\ ~gc'.quiet /\ lock' = lock
<1> DEFINE left == AfterConflict(gc)
<1>1. gc \in RunRecord /\ gc.at = "take" /\ r \in gc.todo
  BY AtWork DEF TakeRef, RunAt
<1>2. left \in RunRecord /\ ~left.quiet /\ left.at = gc.at /\ left.refs = gc.refs /\ left.todo = gc.todo
  BY <1>1, AfterConflictFits
<1>3. \/ gc' = [gc EXCEPT !.todo = @ \ {r}, !.ref = r, !.at = "check"] /\ lock' = [lock EXCEPT ![r] = GC]
      \/ gc' = [left EXCEPT !.todo = @ \ {r}] /\ lock' = lock
  BY DEF TakeRef
<1> HIDE DEF left
<1>4. CASE gc' = [gc EXCEPT !.todo = @ \ {r}, !.ref = r, !.at = "check"] /\ lock' = [lock EXCEPT ![r] = GC]
  BY <1>1, <1>4, AtWork DEF RunRecord, RunStages
<1>5. CASE gc' = [left EXCEPT !.todo = @ \ {r}] /\ lock' = lock
  BY <1>1, <1>2, <1>5, AtWork DEF RunRecord, RunStages
<1> QED
  BY <1>3, <1>4, <1>5

LEMMA TipChecked ==
  ASSUME Shapes, CheckTip
  PROVE  /\ gc.at = "check" /\ gc # NoRun /\ gc' \in RunRecord
         /\ gc'.refs = gc.refs /\ gc'.todo = gc.todo /\ gc'.ref = gc.ref
         /\ \/ gc'.at = "unlock" /\ ~gc'.quiet
            \/ gc'.at = "commit" /\ gc'.quiet = gc.quiet /\ ~TipMoved(gc.ref)
<1> DEFINE left == AfterConflict(gc)
<1>1. gc \in RunRecord /\ gc.at = "check"
  BY AtWork DEF CheckTip, RunAt
<1>2. left \in RunRecord /\ ~left.quiet /\ left.refs = gc.refs /\ left.todo = gc.todo /\ left.ref = gc.ref
  BY <1>1, AfterConflictFits
<1>3. \/ gc' = [left EXCEPT !.at = "unlock"]
      \/ gc' = [gc EXCEPT !.at = "commit"] /\ ~TipMoved(gc.ref)
  BY DEF CheckTip
<1> HIDE DEF left
<1> QED
  BY <1>1, <1>2, <1>3, AtWork DEF RunRecord, RunStages

LEMMA IndexReread ==
  ASSUME Shapes, Reread
  PROVE  /\ gc.at = "take" /\ gc.todo = {} /\ gc # NoRun /\ gc' \in RunRecord /\ gc'.at = "prune"
         /\ gc'.refs = gc.refs /\ gc'.todo = gc.todo
         /\ gc'.quiet => gc.quiet /\ gc'.latest = gc.refs
<1> DEFINE left == AfterConflict(gc)
<1>1. gc \in RunRecord /\ gc.at = "take" /\ gc.todo = {} /\ index \in TipMaps
  BY AtWork DEF Reread, RunAt, Shapes
<1>2. left \in RunRecord /\ ~left.quiet /\ left.refs = gc.refs /\ left.todo = gc.todo
  BY <1>1, AfterConflictFits
<1>3. \/ gc' = [gc EXCEPT !.latest = index, !.at = "prune"] /\ index = gc.refs
      \/ gc' = [left EXCEPT !.latest = index, !.at = "prune"]
      \/ gc' = [left EXCEPT !.at = "prune"]
  BY DEF Reread
<1> HIDE DEF left
<1>4. CASE gc' = [gc EXCEPT !.latest = index, !.at = "prune"] /\ index = gc.refs
  BY <1>1, <1>4, AtWork DEF RunRecord, RunStages
<1>5. CASE gc' = [left EXCEPT !.latest = index, !.at = "prune"]
  BY <1>1, <1>2, <1>5, AtWork DEF RunRecord, RunStages
<1>6. CASE gc' = [left EXCEPT !.at = "prune"]
  BY <1>1, <1>2, <1>6, AtWork DEF RunRecord, RunStages
<1> QED
  BY <1>3, <1>4, <1>5, <1>6

LEMMA ThroughStep == ASSUME Shapes, Through, [Next]_vars PROVE Through'
<1>0. NoRun \notin RunRecord /\ NoRun.at = "idle" /\ "idle" \notin HasLock
  BY DEF NoRun, RunRecord, RunStages, HasLock
<1>1. ASSUME UNCHANGED <<gc, done>> PROVE Through'
  BY <1>1 DEF Through, Current
<1>2. CASE UNCHANGED vars \/ (\E p \in Pushers : Pushing(p)) \/ \E r \in Refs : Delete(r)
  BY <1>1, <1>2 DEF vars, Pushing, Delete, BeginPush, LockRef, CheckForward, CutPack, PushCommit,
       PushTag, UnlockRef, UpdateIndex, PushStops
<1>3. CASE ReadIndex
  <2>1. /\ gc' \in [at : {"list"}, refs : {index}, before : {{}}, todo : {DOMAIN index}, ref : {Main},
                    quiet : {TRUE}, latest : {index}]
        /\ done' = {}
    BY <1>3 DEF ReadIndex
  <2> QED
    BY <2>1 DEF Through, HasLock
<1>4. CASE ListTags \/ ReleaseRef
  <2>1. gc # NoRun /\ gc.at \in {"list", "unlock"} /\ done' = done
    BY <1>0, <1>4 DEF ListTags, ReleaseRef, RunAt
  <2> QED
    BY <1>0, <1>4, <2>1, RunGoesOn DEF Through, Current, HasLock
<1>5. ASSUME NEW r \in Refs, TakeRef(r) PROVE Through'
  <2>1. done' = done
    BY <1>5 DEF TakeRef
  <2> QED
    BY <1>0, <1>5, <2>1, RefTaken DEF Through, Current, HasLock
<1>6. CASE CheckTip
  <2>1. done' = done
    BY <1>6 DEF CheckTip
  <2> QED
    BY <1>0, <1>6, <2>1, TipChecked DEF Through, Current, HasLock
<1>7. CASE RewriteCommit
  <2>1. gc # NoRun /\ done' = done
    BY <1>0, <1>7 DEF RewriteCommit, RunAt
  <2> QED
    BY <1>0, <1>7, <2>1, RunGoesOn DEF Through, Current, HasLock
<1>8. CASE RewriteTag
  <2>1. gc # NoRun /\ done' = done \union {gc.ref}
    BY <1>0, <1>8 DEF RewriteTag, RunAt
  <2> QED
    BY <1>0, <1>8, <2>1, RunGoesOn DEF Through, Current, HasLock
<1>9. CASE Reread
  <2>1. done' = done
    BY <1>9 DEF Reread
  <2> QED
    BY <1>0, <1>9, <2>1, IndexReread DEF Through, Current, HasLock
<1>10. ASSUME NEW t \in Commits, Prune(t) PROVE Through'
  <2>1. gc # NoRun /\ done' = done
    BY <1>0, <1>10 DEF Prune, RunAt
  <2> QED
    BY <1>0, <1>10, <2>1, RunGoesOn DEF Through, Current, HasLock
<1>11. CASE Republish \/ RunStops
  BY <1>11 DEF Republish, RunStops, Through
<1> QED
  BY <1>2, <1>3, <1>4, <1>5, <1>6, <1>7, <1>8, <1>9, <1>10, <1>11 DEF Next, Collecting
LEMMA OwnedStep == ASSUME Shapes, Owned, [Next]_vars PROVE Owned'
<1> DEFINE Mine(p) == push[p].at \in HasLock => lock[push[p].ref] = p
           Its == gc.at \in HasLock => lock[gc.ref] = GC
<1>0. /\ (\A p \in Pushers : Mine(p)') /\ Its' => Owned'
      /\ (\A p \in Pushers : Mine(p)) /\ Its
      /\ NoPush.at \notin HasLock /\ NoRun.at \notin HasLock
  BY DEF Owned, NoPush, NoRun, HasLock
<1>1. ASSUME UNCHANGED <<lock, gc, push>> PROVE Owned'
  BY <1>1 DEF Owned
<1>2. CASE UNCHANGED vars \/ \E r \in Refs : Delete(r)
  BY <1>1, <1>2 DEF vars, Delete
<1>3. ASSUME NEW p \in Pushers, Pushing(p) PROVE Owned'
  <2>1. ASSUME push[p] # NoPush, NEW at \in PushStages, PushGoto(p, at), UNCHANGED <<lock, gc>>,
               at \in HasLock => push[p].at \in HasLock
        PROVE  Owned'
    <3>1. push'[p].at = at /\ push'[p].ref = push[p].ref
      BY <2>1, PushGoesOn
    <3>4. \A q \in Pushers \ {p} : push'[q] = push[q]
      BY <2>1, PushGoesOn
    <3>2. \A q \in Pushers \ {p} : Mine(q)'
      BY <1>0, <2>1, <3>4
    <3>3. Mine(p)' /\ Its'
      BY <1>0, <2>1, <3>1
    <3> QED
      BY <1>0, <3>2, <3>3
  <2>2. ASSUME PushEnds(p), UNCHANGED gc,
               \A r \in Refs : lock'[r] = lock[r] \/ lock[r] = p
        PROVE  Owned'
    <3>1. \A q \in Pushers \ {p} : Mine(q)'
      <4>1. ASSUME NEW q \in Pushers \ {p}, push[q].at \in HasLock PROVE push[q].ref \in Refs
        BY <1>0, <4>1, AtWork DEF PushRecord, Shapes
      <4> QED
        BY <1>0, <2>2, <4>1, PushHasEnded
    <3>2. Its'
      <4>1. gc.at \in HasLock => gc.ref \in Refs
        BY <1>0, AtWork DEF RunRecord, Shapes
      <4> QED
        BY <1>0, <2>2, <4>1
    <3> QED
      BY <1>0, <2>2, <3>1, <3>2, PushHasEnded
  <2>3. ASSUME NEW r \in Refs, NEW c \in Commits, BeginPush(p, r, c) PROVE Owned'
    <3>1. /\ push'[p].at = "lock" /\ \A q \in Pushers \ {p} : push'[q] = push[q]
          /\ UNCHANGED <<lock, gc>>
      BY <2>3 DEF BeginPush, Shapes
    <3> QED
      BY <1>0, <3>1 DEF HasLock
  <2>4. CASE LockRef(p)
    <3>1. push[p] # NoPush /\ push[p] \in PushRecord /\ push[p].ref \in Refs
      BY <2>4, AtWork DEF LockRef, PusherAt, PushRecord
    <3>2. CASE PushEnds(p) /\ UNCHANGED lock
      BY <2>2, <2>4, <3>2 DEF LockRef
    <3>3. CASE /\ lock[push[p].ref] = Free /\ lock' = [lock EXCEPT ![push[p].ref] = p]
               /\ PushGoto(p, "check")
      <4>1. /\ push'[p].ref = push[p].ref /\ push'[p].at = "check"
            /\ \A q \in Pushers \ {p} : push'[q] = push[q]
        BY <3>1, <3>3, PushGoesOn DEF PushStages
      <4>2. lock'[push[p].ref] = p /\ \A r \in Refs \ {push[p].ref} : lock'[r] = lock[r]
        BY <3>1, <3>3 DEF Shapes
      <4>3. \A q \in Pushers \ {p} : Mine(q)'
        <5>1. ASSUME NEW q \in Pushers \ {p}, push[q].at \in HasLock
              PROVE  push[q].ref \in Refs /\ push[q].ref # push[p].ref
          BY <1>0, <3>3, <5>1, AtWork DEF PushRecord
        <5> QED
          BY <1>0, <4>1, <4>2, <5>1
      <4>4. Its'
        <5>1. gc.at \in HasLock => gc.ref \in Refs /\ gc.ref # push[p].ref
          BY <1>0, <3>3, AtWork DEF RunRecord
        <5> QED
          BY <1>0, <2>4, <4>2, <5>1 DEF LockRef
      <4> QED
        BY <1>0, <4>1, <4>2, <4>3, <4>4
    <3> QED
      BY <2>4, <3>2, <3>3 DEF LockRef
  <2>5. ASSUME NEW force \in BOOLEAN, CheckForward(p, force) PROVE Owned'
    <3>1. push[p] # NoPush /\ push[p].at = "check" /\ lock[push[p].ref] = p
      BY <1>0, <2>5 DEF CheckForward, PusherAt, NoPush, HasLock
    <3>2. CASE PushGoto(p, "cut") /\ UNCHANGED lock
      BY <2>1, <2>5, <3>1, <3>2 DEF CheckForward, PushStages, HasLock
    <3>3. CASE PushEnds(p) /\ lock' = [lock EXCEPT ![push[p].ref] = Free]
      BY <2>2, <2>5, <3>1, <3>3 DEF CheckForward, Shapes
    <3> QED
      BY <2>5, <3>2, <3>3 DEF CheckForward
  <2>6. CASE CutPack(p)
    <3>1. push[p] \in PushRecord /\ push[p].at = "cut"
      BY <2>6, AtWork DEF CutPack, PusherAt
    <3>2. /\ push'[p].ref = push[p].ref /\ push'[p].at = "commit"
          /\ \A q \in Pushers \ {p} : push'[q] = push[q]
      BY <2>6, <3>1 DEF CutPack, Shapes, PushRecord
    <3> QED
      BY <1>0, <2>6, <3>1, <3>2 DEF CutPack, HasLock
  <2>7. CASE PushCommit(p) \/ PushTag(p)
    BY <2>1, <2>7 DEF PushCommit, PushTag, PusherAt, NoPush, PushStages, HasLock
  <2>8. CASE UnlockRef(p)
    <3>1. push[p] # NoPush /\ push[p].at = "unlock" /\ lock[push[p].ref] = p
      BY <1>0, <2>8 DEF UnlockRef, PusherAt, NoPush, HasLock
    <3>2. push'[p].at = "index" /\ \A q \in Pushers \ {p} : push'[q] = push[q]
      BY <2>8, <3>1, PushGoesOn DEF UnlockRef, PushStages
    <3>3. \A r \in Refs : lock'[r] = lock[r] \/ lock[r] = p
      BY <2>8, <3>1 DEF UnlockRef, Shapes
    <3>4. \A q \in Pushers \ {p} : Mine(q)'
      <4>1. ASSUME NEW q \in Pushers \ {p}, push[q].at \in HasLock PROVE push[q].ref \in Refs
        BY <1>0, <4>1, AtWork DEF PushRecord, Shapes
      <4> QED
        BY <1>0, <3>2, <3>3, <4>1
    <3>5. Its'
      <4>1. gc.at \in HasLock => gc.ref \in Refs
        BY <1>0, AtWork DEF RunRecord, Shapes
      <4> QED
        BY <1>0, <2>8, <3>3, <4>1 DEF UnlockRef
    <3> QED
      BY <1>0, <3>2, <3>4, <3>5 DEF HasLock
  <2>9. CASE UpdateIndex(p)
    BY <2>2, <2>9 DEF UpdateIndex
  <2>10. CASE PushStops(p)
    BY <2>2, <2>10 DEF PushStops, Shapes
  <2> QED
    BY <1>3, <2>3, <2>4, <2>5, <2>6, <2>7, <2>8, <2>9, <2>10 DEF Pushing
<1>4. CASE Collecting
  <2>0. UNCHANGED push
    BY <1>4 DEF Collecting, ReadIndex, ListTags, TakeRef, CheckTip, RewriteCommit, RewriteTag,
         ReleaseRef, Reread, Prune, Republish, RunStops
  <2>1. ASSUME UNCHANGED lock, gc'.at \in HasLock => gc.at \in HasLock /\ gc'.ref = gc.ref
        PROVE  Owned'
    BY <1>0, <2>0, <2>1
  <2>2. ASSUME Its', \A r \in Refs : lock'[r] = lock[r] \/ lock[r] \in {GC, Free}
        PROVE  Owned'
    <3>1. \A q \in Pushers : push[q].at \in HasLock => push[q].ref \in Refs
      BY <1>0, AtWork DEF PushRecord, Shapes
    <3> QED
      BY <1>0, <2>0, <2>2, <3>1
  <2>3. CASE ReadIndex
    <3>1. gc'.at = "list"
      BY <2>3 DEF ReadIndex
    <3> QED
      BY <2>1, <2>3, <3>1 DEF ReadIndex, HasLock
  <2>4. CASE ListTags \/ RewriteCommit \/ RewriteTag \/ \E t \in Commits : Prune(t)
    <3>1. gc # NoRun /\ UNCHANGED lock
      BY <1>0, <2>4, AtWork DEF ListTags, RewriteCommit, RewriteTag, Prune, RunAt
    <3> QED
      BY <2>1, <2>4, <3>1, RunGoesOn DEF HasLock
  <2>5. ASSUME NEW r \in Refs, TakeRef(r) PROVE Owned'
    <3>1. lock[r] = Free \/ lock' = lock
      BY <2>5 DEF TakeRef
    <3>2. lock' = lock \/ lock' = [lock EXCEPT ![r] = GC]
      BY <2>5, RefTaken
    <3>3. \A s \in Refs : lock'[s] = lock[s] \/ lock[s] \in {GC, Free}
      BY <3>1, <3>2 DEF Shapes
    <3>4. Its'
      BY <2>5, RefTaken DEF Shapes, HasLock
    <3> QED
      BY <2>2, <3>3, <3>4
  <2>6. CASE CheckTip
    BY <2>1, <2>6, TipChecked DEF CheckTip, HasLock
  <2>7. CASE ReleaseRef
    <3>1. gc # NoRun /\ gc.at = "unlock" /\ lock[gc.ref] = GC
      BY <1>0, <2>7 DEF ReleaseRef, RunAt, NoRun, HasLock
    <3>2. Its'
      BY <2>7, <3>1, RunGoesOn DEF HasLock
    <3>3. \A r \in Refs : lock'[r] = lock[r] \/ lock[r] \in {GC, Free}
      BY <2>7, <3>1 DEF ReleaseRef, Shapes
    <3> QED
      BY <2>2, <3>2, <3>3
  <2>8. CASE Reread
    BY <2>1, <2>8, IndexReread DEF Reread, HasLock
  <2>9. CASE Republish
    BY <1>0, <2>1, <2>9 DEF Republish
  <2>10. CASE RunStops
    <3>1. \A r \in Refs : lock'[r] = lock[r] \/ lock[r] \in {GC, Free}
      BY <2>10 DEF RunStops
    <3> QED
      BY <1>0, <2>2, <2>10, <3>1 DEF RunStops
  <2> QED
    BY <1>4, <2>3, <2>4, <2>5, <2>6, <2>7, <2>8, <2>9, <2>10 DEF Collecting
<1> QED
  BY <1>2, <1>3, <1>4 DEF Next
LEMMA TipHoldsStep ==
  ASSUME Shapes, Owned, Through, TipHolds, [Next]_vars
  PROVE  TipHolds'
<1>0. NoRun.at = "idle" /\ (gc.at \in {"commit", "tag"} => gc \in RunRecord /\ gc.ref \in Refs)
  BY AtWork DEF NoRun, RunRecord, Shapes
<1>1. ASSUME UNCHANGED <<gc, tag>> PROVE TipHolds'
  BY <1>1 DEF TipHolds
<1>2. ASSUME gc'.at \notin {"commit", "tag"} PROVE TipHolds'
  BY <1>2 DEF TipHolds
<1>3. CASE UNCHANGED vars
  BY <1>1, <1>3 DEF vars
<1>4. ASSUME NEW p \in Pushers, Pushing(p) PROVE TipHolds'
  <2>1. CASE PushTag(p)
    <3>1. push[p].at = "tag" /\ lock[push[p].ref] = p /\ gc' = gc
      BY <2>1 DEF PushTag, PusherAt, Owned, HasLock
    <3>2. gc.at \in {"commit", "tag"} => push[p].ref # gc.ref
      BY <3>1 DEF Owned, HasLock
    <3>3. \A r \in DOMAIN tag' : r # push[p].ref => r \in DOMAIN tag /\ tag'[r] = tag[r]
      BY <2>1 DEF PushTag, Put
    <3> QED
      BY <3>1, <3>2, <3>3 DEF TipHolds
  <2> QED
    BY <1>1, <1>4, <2>1 DEF Pushing, BeginPush, LockRef, CheckForward, CutPack, PushCommit,
         UnlockRef, UpdateIndex, PushStops
<1>5. ASSUME NEW r \in Refs, Delete(r) PROVE TipHolds'
  BY <1>5 DEF Delete, Restrict, TipHolds
<1>6. CASE ReadIndex
  <2>1. gc'.at = "list"
    BY <1>6 DEF ReadIndex
  <2> QED
    BY <1>2, <2>1
<1>7. CASE ListTags \/ RewriteTag \/ ReleaseRef \/ \E t \in Commits : Prune(t)
  <2>1. gc # NoRun
    BY <1>0, <1>7 DEF ListTags, RewriteTag, ReleaseRef, Prune, RunAt
  <2> QED
    BY <1>2, <1>7, <2>1, RunGoesOn
<1>8. ASSUME NEW r \in Refs, TakeRef(r) PROVE TipHolds'
  BY <1>2, <1>8, RefTaken
<1>9. CASE CheckTip
  <2>1. UNCHANGED tag
    BY <1>9 DEF CheckTip
  <2> QED
    BY <1>2, <1>9, <2>1, TipChecked DEF TipHolds, TipMoved
<1>10. CASE RewriteCommit
  <2>1. gc # NoRun /\ UNCHANGED tag
    BY <1>0, <1>10 DEF RewriteCommit, RunAt
  <2> QED
    BY <1>10, <2>1, RunGoesOn DEF TipHolds
<1>11. CASE Reread
  BY <1>2, <1>11, IndexReread
<1>12. CASE Republish \/ RunStops
  BY <1>0, <1>2, <1>12 DEF Republish, RunStops
<1> QED
  BY <1>3, <1>4, <1>5, <1>6, <1>7, <1>8, <1>9, <1>10, <1>11, <1>12 DEF Next, Collecting

LEMMA MarksStep == ASSUME Shapes, Marks, Through, [Next]_vars PROVE Marks'
<1>1. CASE UNCHANGED <<pruned, forgone>>
  BY <1>1 DEF Marks
<1>2. ASSUME NEW p \in Pushers, PushCommit(p) PROVE Marks'
  BY <1>2 DEF PushCommit, Skipped, Marks
<1>3. CASE RewriteCommit
  BY <1>3 DEF RewriteCommit, Marks
<1>4. ASSUME NEW t \in Commits, Prune(t) PROVE Marks'
  BY <1>4 DEF Prune, Marks
<1>5. CASE Republish
  BY <1>5 DEF Republish, Marks
<1> QED
  BY <1>1, <1>2, <1>3, <1>4, <1>5 DEF Next, vars, history, Pushing, Collecting, Delete, BeginPush,
     LockRef, CheckForward, CutPack, PushTag, UnlockRef, UpdateIndex, PushStops, ReadIndex, ListTags,
     TakeRef, CheckTip, RewriteTag, ReleaseRef, Reread, RunStops

LEMMA InvStep == ASSUME Inv, [Next]_vars PROVE Inv'
BY ShapesStep, MarksStep, CutStep, OwnedStep, TipHoldsStep, ThroughStep DEF Inv
-----------------------------------------------------------------------------
\* The published maps, the records of pushes and of runs keep their types, and no manifest
\* is cut against anything but history.
THEOREM TypeCorrectness == Spec => []TypeOK
<1>1. Inv => TypeOK
  <2> SUFFICES ASSUME Inv PROVE TypeOK
    OBVIOUS
  <2>1. /\ setting \in Settings /\ Tips(index)
        /\ Partial(tag, Refs, [tip : Commits, manifest : Manifest])
        /\ Partial(manifest, Commits, Manifest) /\ Partial(chain, Commits, Bases)
        /\ lock \in [Refs -> Pushers \union {GC, Free}]
        /\ pushes \in 0 .. MaxPushes /\ deletes \in 0 .. MaxDeletes /\ runs \in 0 .. MaxRuns
    BY TipMapIsTips DEF Inv, Shapes, TagRecord
  <2>2. \A c \in DOMAIN manifest : manifest[c].bases \subseteq Ancestors[c]
    BY DEF Inv, Cut
  <2>3. ASSUME NEW p \in Pushers, push[p] # NoPush
        PROVE  /\ push[p].at \in PushStages /\ push[p].ref \in Refs /\ push[p].to \in Commits
               /\ Tips(push[p].known) /\ push[p].bases \in Bases /\ push[p].local \subseteq Large
    <3>1. push[p] \in PushRecord
      BY <2>3, AtWork DEF Inv
    <3> QED
      BY <3>1, TipMapIsTips DEF PushRecord, Bases
  <2>4. ASSUME gc # NoRun
        PROVE  /\ gc.at \in RunStages /\ Tips(gc.refs) /\ Tips(gc.latest)
               /\ gc.before \subseteq Commits /\ gc.todo \subseteq Refs /\ gc.quiet \in BOOLEAN
    <3>1. gc \in RunRecord
      BY <2>4, AtWork DEF Inv
    <3> QED
      BY <3>1, TipMapIsTips DEF RunRecord
  <2>6. pruned \subseteq Commits /\ forgone \subseteq Large
    BY DEF Inv, Marks
  <2>5. done \subseteq Refs
    <3>1. CASE gc = NoRun
      BY <3>1 DEF Inv, Through
    <3>2. CASE gc # NoRun
      BY <2>4, <3>2 DEF Inv, Through, Tips, Partial
    <3> QED
      BY <3>1, <3>2
  <2> QED
    BY <2>1, <2>2, <2>3, <2>4, <2>5, <2>6 DEF TypeOK, PushStages, RunStages
<1> QED
  BY <1>1, InvInit, InvStep, PTL DEF Spec

\* No run takes a push back under its ref's tag, however pushes, deletions and crashes
\* interleave: the tip that it checked stays what it was while it holds the ref's lock.
THEOREM NoRefIsRewound == Spec => TagsNotRewound
<1>1. ASSUME Inv, [Next]_vars, NEW r \in DOMAIN tag, Collecting
      PROVE  r \in DOMAIN tag' /\ tag'[r].tip = tag[r].tip
  <2>1. CASE RewriteTag
    <3>1. gc.at = "tag"
      BY <2>1 DEF RewriteTag, RunAt
    <3>2. gc.ref \in DOMAIN tag => tag[gc.ref].tip = gc.refs[gc.ref]
      BY <1>1, <3>1 DEF Inv, TipHolds
    <3>3. /\ DOMAIN tag' = DOMAIN tag \union {gc.ref}
          /\ \A s \in DOMAIN tag' : tag'[s] = IF s = gc.ref
               THEN [tip |-> gc.refs[gc.ref], manifest |-> Consolidated(gc.refs[gc.ref])]
               ELSE tag[s]
      BY <2>1 DEF RewriteTag, Put
    <3> QED
      BY <1>1, <3>2, <3>3
  <2>2. CASE UNCHANGED tag
    BY <2>2
  <2> QED
    BY <1>1, <2>1, <2>2 DEF Collecting, ReadIndex, ListTags, TakeRef, CheckTip, RewriteCommit,
         ReleaseRef, Reread, Prune, Republish, RunStops
<1>2. Inv /\ [Next]_vars => \A r \in DOMAIN tag : Collecting =>
        r \in DOMAIN tag' /\ tag'[r].tip = tag[r].tip
  BY <1>1
<1> QED
  BY <1>2, InvInit, InvStep, PTL DEF Spec, TagsNotRewound

\* A run that prunes has rewritten every ref of its reading, and has read the same again.
THEOREM PruningComesLast == Spec => PrunesAfterConsolidation
<1>1. ASSUME Inv, NEW t \in Commits, Prune(t)
      PROVE  done = DOMAIN gc.refs /\ gc.latest = gc.refs
  <2>1. gc.at = "prune" /\ gc.quiet /\ gc # NoRun
    BY <1>1 DEF Prune, RunAt, NoRun
  <2> QED
    BY <1>1, <2>1 DEF Inv, Through, Current
<1>2. Inv /\ [Next]_vars => \A t \in Commits : Prune(t) => done = DOMAIN gc.refs /\ gc.latest = gc.refs
  BY <1>1
<1> QED
  BY <1>2, InvInit, InvStep, PTL DEF Spec, PrunesAfterConsolidation
-----------------------------------------------------------------------------
(***************************************************************************)
(* Closed.  With nobody pushing beside it, a run finds the index as it     *)
(* left it, every tip is served through, a push takes up what is served    *)
(* and adds to it, and only pruning takes manifests away: then the tips,   *)
(* each of them rewritten without bases, are whole by themselves.  What    *)
(* the chain names was served when it was published, and whatever of it is *)
(* not served any more was pruned since the chain was last replaced.       *)
(***************************************************************************)
\* With each commit that has a manifest, S holds its bases.
Whole(S) == \A c \in S \intersect DOMAIN manifest : manifest[c].bases \subseteq S

\* The commits that are served with everything they rest on, and those of which every
\* missing one was pruned.
Served == UNION {S \in SUBSET DOMAIN manifest : Whole(S)}
Standing == UNION {S \in SUBSET (DOMAIN manifest \union pruned) : Whole(S)}

ChainStands == Alone => \A c \in DOMAIN chain : chain[c] \subseteq Standing

RunIsAlone ==
  Alone /\ gc # NoRun =>
    /\ \A p \in Pushers : push[p] = NoPush
    /\ gc.refs = index /\ gc.latest = index

TipsAreServed == Alone => Range(index) \subseteq Served

\* What a push works with, at each of its stages.
Backed(p) ==
  push[p] # NoPush =>
    /\ Range(push[p].known) \subseteq Served
    /\ push[p].at \in {"commit", "tag", "unlock", "index"} => push[p].bases \subseteq Served
    /\ push[p].at \in {"tag", "unlock", "index"} => push[p].to \in Served
PushesAreBacked == Alone => \A p \in Pushers : Backed(p)

\* The refs whose commit manifests this run has rewritten.
Rewritten == done \union IF gc.at = "tag" THEN {gc.ref} ELSE {}
StandsAlone(c) == c \in DOMAIN manifest /\ manifest[c].bases = {}
RewrittenStand ==
  Alone /\ gc # NoRun => \A r \in Rewritten : StandsAlone(gc.refs[r])

ClosedInv ==
  RunIsAlone /\ TipsAreServed /\ PushesAreBacked /\ RewrittenStand /\ ChainStands

LEMMA ServedIsWhole ==
  /\ Served \subseteq DOMAIN manifest
  /\ \A c \in Served : manifest[c].bases \subseteq Served
  /\ \A S \in SUBSET DOMAIN manifest : Whole(S) => S \subseteq Served
BY DEF Served, Whole

\* A manifest whose bases are served is served, and takes nothing from the others.
LEMMA ServedGrows ==
  ASSUME NEW c, NEW m, m.bases \subseteq Served, manifest' = Put(manifest, c, m)
  PROVE  Served \subseteq Served' /\ c \in Served'
<1>1. PICK S : S = Served \union {c}
  OBVIOUS
<1>2. S \subseteq DOMAIN manifest'
  BY <1>1, ServedIsWhole DEF Put
<1>3. \A d \in S : manifest'[d].bases \subseteq S
  BY <1>1, ServedIsWhole DEF Put
<1>4. S \subseteq Served'
  BY <1>2, <1>3 DEF Served, Whole
<1> QED
  BY <1>1, <1>4

LEMMA ServedSame == UNCHANGED manifest => Served' = Served
BY DEF Served, Whole

LEMMA StandingIsWhole ==
  /\ Standing \subseteq DOMAIN manifest \union pruned
  /\ \A c \in Standing \intersect DOMAIN manifest : manifest[c].bases \subseteq Standing
  /\ \A S \in SUBSET (DOMAIN manifest \union pruned) : Whole(S) => S \subseteq Standing
  /\ Served \subseteq Standing
BY DEF Standing, Served, Whole

LEMMA StandingGrows ==
  ASSUME NEW c, NEW m, m.bases \subseteq Standing, manifest' = Put(manifest, c, m), pruned' = pruned
  PROVE  Standing \subseteq Standing'
<1>1. PICK S : S = Standing \union {c}
  OBVIOUS
<1>2. S \subseteq DOMAIN manifest' \union pruned'
  BY <1>1, StandingIsWhole DEF Put
<1>3. \A d \in S \intersect DOMAIN manifest' : manifest'[d].bases \subseteq S
  BY <1>1, StandingIsWhole DEF Put
<1>4. S \subseteq Standing'
  BY <1>2, <1>3 DEF Standing, Whole
<1> QED
  BY <1>1, <1>4

LEMMA ClosedInit == Init => ClosedInv
<1> SUFFICES ASSUME Init PROVE ClosedInv
  OBVIOUS
<1> PICK local \in SUBSET Large : AsPushed(local)
  BY InitIsPushed
<1>1. \A c \in Range(Trunk) : manifest[c].bases = TrunkEdges[c]
  BY TrunkEdgesFit, PushedFits DEF AsPushed
<1>2. \A c \in Range(Trunk) : TrunkEdges[c] \subseteq Range(Trunk)
  <2> SUFFICES ASSUME NEW c \in Range(Trunk) PROVE TrunkEdges[c] \subseteq Range(Trunk)
    OBVIOUS
  <2>1. PICK i \in DOMAIN Trunk : TrunkEdges[c] = TrunkBases(i)
    <3>1. (CHOOSE i \in DOMAIN Trunk : Trunk[i] = c) \in DOMAIN Trunk
      BY DEF Range
    <3> QED
      BY <3>1 DEF TrunkEdges
  <2>2. Trunk \in Seq(Commits) /\ DOMAIN Trunk = 1 .. Len(Trunk) /\ Len(Trunk) \in Nat
    BY TrunkAssumption
  <2>3. i # 1 => i - 1 \in DOMAIN Trunk
    BY <2>1, <2>2
  <2> QED
    BY <2>1, <2>3 DEF TrunkBases, Range
<1>3. Whole(Range(Trunk))
  BY <1>1, <1>2 DEF Whole
<1>4. Range(Trunk) \subseteq Served
  BY <1>3, ServedIsWhole DEF AsPushed
<1>5. Range(index) \subseteq Served
  BY <1>4, TrunkEdgesFit DEF Init, Range
<1>6. ChainStands
  BY <1>2, <1>4, TrunkEdgesFit, StandingIsWhole DEF Init, ChainStands
<1> QED
  BY <1>5, <1>6
     DEF Init, ClosedInv, RunIsAlone, TipsAreServed, PushesAreBacked, Backed, RewrittenStand

\* Past its opening read, a run's steps leave the index, and what the run knows of it.
LEMMA RunKeeps ==
  ASSUME Shapes, Collecting, ~ReadIndex, ~Republish, ~RunStops
  PROVE  /\ gc # NoRun /\ UNCHANGED <<index, push>>
         /\ gc'.refs = gc.refs /\ gc'.latest \in {gc.latest, index}
<1>0. gc \in RunRecord => gc # NoRun
  BY AtWork
<1>1. CASE ListTags \/ RewriteCommit \/ RewriteTag \/ ReleaseRef \/ \E t \in Commits : Prune(t)
  <2>1. gc.at # "idle"
    BY <1>1 DEF ListTags, RewriteCommit, RewriteTag, ReleaseRef, Prune, RunAt
  <2>2. gc # NoRun
    BY <2>1, AtWork
  <2> QED
    BY <1>1, <2>2, RunGoesOn DEF ListTags, RewriteCommit, RewriteTag, ReleaseRef, Prune
<1>2. CASE CheckTip
  <2>1. gc # NoRun /\ gc'.refs = gc.refs /\ gc \in RunRecord
    BY <1>2, TipChecked, AtWork
  <2> QED
    BY <1>2, <2>1 DEF CheckTip, AfterConflict, RunRecord
<1>3. ASSUME NEW r \in Refs, TakeRef(r) PROVE gc # NoRun /\ UNCHANGED <<index, push>>
                 /\ gc'.refs = gc.refs /\ gc'.latest \in {gc.latest, index}
  <2>1. gc # NoRun /\ gc'.refs = gc.refs /\ gc \in RunRecord
    BY <1>3, RefTaken, AtWork
  <2> QED
    BY <1>3, <2>1 DEF TakeRef, AfterConflict, RunRecord
<1>4. CASE Reread
  <2>1. gc # NoRun /\ gc'.refs = gc.refs /\ gc \in RunRecord
    BY <1>4, IndexReread, AtWork
  <2> QED
    BY <1>4, <2>1 DEF Reread, AfterConflict, RunRecord
<1> QED
  BY <1>1, <1>2, <1>3, <1>4 DEF Collecting

LEMMA RunIsAloneStep ==
  ASSUME Shapes, RunIsAlone, [Next]_vars
  PROVE  RunIsAlone'
<1>0. Alone' = Alone
  BY DEF Next, vars, Alone
<1>1. CASE UNCHANGED vars
  BY <1>1 DEF vars, RunIsAlone, Alone
<1>2. ASSUME NEW p \in Pushers, Pushing(p) PROVE RunIsAlone'
  <2>1. gc' = gc
    BY <1>2 DEF Pushing, BeginPush, LockRef, CheckForward, CutPack, PushCommit, PushTag,
         UnlockRef, UpdateIndex, PushStops
  <2>2. Alone => gc = NoRun
    <3>1. push[p] = NoPush => (\E r \in Refs, c \in Commits : BeginPush(p, r, c))
      BY <1>2 DEF Pushing, LockRef, CheckForward, CutPack, PushCommit, PushTag, UnlockRef,
           UpdateIndex, PushStops, PusherAt, NoPush
    <3> QED
      BY <3>1 DEF RunIsAlone, BeginPush
  <2> QED
    BY <1>0, <2>1, <2>2 DEF RunIsAlone
<1>3. ASSUME NEW r \in Refs, Delete(r) PROVE RunIsAlone'
  BY <1>0, <1>3 DEF Delete, RunIsAlone
<1>4. CASE Collecting
  <2>1. CASE ReadIndex
    <3>1. /\ gc' \in [at : {"list"}, refs : {index}, before : {{}}, todo : {DOMAIN index},
                      ref : {Main}, quiet : {TRUE}, latest : {index}]
          /\ UNCHANGED <<index, push>>
      BY <2>1 DEF ReadIndex
    <3> QED
      BY <1>0, <2>1, <3>1 DEF RunIsAlone, ReadIndex
  <2>2. CASE Republish \/ RunStops
    BY <2>2 DEF Republish, RunStops, RunIsAlone
  <2> QED
    BY <1>0, <1>4, <2>1, <2>2, RunKeeps DEF RunIsAlone
<1> QED
  BY <1>1, <1>2, <1>3, <1>4 DEF Next

\* Rewritten manifests keep, while nobody pushes: only another rewriting touches them, and
\* pruning keeps the tips of the run's reading.
LEMMA RewrittenStandStep ==
  ASSUME Inv, RunIsAlone, RewrittenStand, [Next]_vars
  PROVE  RewrittenStand'
<1>0. Alone' = Alone /\ NoRun.at = "idle" /\ Shapes /\ Through
  BY DEF Next, vars, Alone, NoRun, Inv
<1>1. ASSUME UNCHANGED <<gc, done, manifest>> PROVE RewrittenStand'
  BY <1>0, <1>1 DEF RewrittenStand, Rewritten, StandsAlone
<1>2. ASSUME NEW p \in Pushers, Pushing(p) PROVE RewrittenStand'
  <2>1. UNCHANGED <<gc, done>>
    BY <1>2 DEF Pushing, BeginPush, LockRef, CheckForward, CutPack, PushCommit, PushTag,
         UnlockRef, UpdateIndex, PushStops
  <2>2. CASE PushCommit(p)
    <3>1. push[p] # NoPush
      BY <2>2 DEF PushCommit, PusherAt, NoPush
    <3> QED
      BY <1>0, <2>1, <3>1 DEF RunIsAlone, RewrittenStand
  <2>3. CASE UNCHANGED manifest
    BY <1>1, <2>1, <2>3
  <2> QED
    BY <1>2, <2>2, <2>3 DEF Pushing, BeginPush, LockRef, CheckForward, CutPack, PushTag,
         UnlockRef, UpdateIndex, PushStops
<1>3. CASE UNCHANGED vars \/ \E r \in Refs : Delete(r)
  BY <1>1, <1>3 DEF vars, Delete
<1>4. CASE ReadIndex
  <2>1. gc'.at = "list" /\ done' = {}
    BY <1>4 DEF ReadIndex
  <2> QED
    BY <2>1 DEF RewrittenStand, Rewritten
<1>5. CASE Republish \/ RunStops
  BY <1>5 DEF Republish, RunStops, RewrittenStand
<1>6. ASSUME gc # NoRun, UNCHANGED manifest, gc'.refs = gc.refs, Rewritten' \subseteq Rewritten
      PROVE  RewrittenStand'
  BY <1>0, <1>6 DEF RewrittenStand, StandsAlone
<1>7. CASE ListTags \/ ReleaseRef \/ RewriteTag
  <2>1. gc # NoRun
    BY <1>0, <1>7 DEF ListTags, ReleaseRef, RewriteTag, RunAt
  <2>2. Rewritten' \subseteq Rewritten /\ UNCHANGED manifest
    BY <1>0, <1>7, <2>1, RunGoesOn DEF Rewritten, ListTags, ReleaseRef, RewriteTag
  <2> QED
    BY <1>0, <1>6, <1>7, <2>1, <2>2, RunGoesOn
<1>8. ASSUME NEW r \in Refs, TakeRef(r) PROVE RewrittenStand'
  <2>1. Rewritten' \subseteq Rewritten /\ UNCHANGED manifest
    BY <1>0, <1>8, RefTaken DEF Rewritten, TakeRef
  <2> QED
    BY <1>0, <1>6, <1>8, <2>1, RefTaken
<1>9. CASE CheckTip
  <2>1. Rewritten' \subseteq Rewritten /\ UNCHANGED manifest
    BY <1>0, <1>9, TipChecked DEF Rewritten, CheckTip
  <2> QED
    BY <1>0, <1>6, <1>9, <2>1, TipChecked
<1>10. CASE Reread
  <2>1. Rewritten' \subseteq Rewritten /\ UNCHANGED manifest
    BY <1>0, <1>10, IndexReread DEF Rewritten, Reread
  <2> QED
    BY <1>0, <1>6, <1>10, <2>1, IndexReread
<1>11. CASE RewriteCommit
  <2>1. gc # NoRun /\ done' = done
    BY <1>0, <1>11 DEF RewriteCommit, RunAt
  <2>2. /\ gc.at = "commit" /\ gc'.at = "tag" /\ gc'.ref = gc.ref /\ gc'.refs = gc.refs
    BY <1>0, <1>11, <2>1, RunGoesOn
  <2>3. Rewritten' = Rewritten \union {gc.ref}
    BY <2>1, <2>2 DEF Rewritten
  <2>4. manifest' = Put(manifest, gc.refs[gc.ref], Consolidated(gc.refs[gc.ref]))
    BY <1>11 DEF RewriteCommit
  <2>5. \A c : StandsAlone(c) => StandsAlone(c)'
    BY <2>4, ConsolidatedFits DEF StandsAlone, Put
  <2>6. StandsAlone(gc.refs[gc.ref])'
    BY <2>2, <2>4, ConsolidatedFits DEF StandsAlone, Put
  <2> QED
    BY <1>0, <2>1, <2>2, <2>3, <2>5, <2>6 DEF RewrittenStand
<1>12. ASSUME NEW t \in Commits, Prune(t) PROVE RewrittenStand'
  <2>1. gc # NoRun /\ done' = done
    BY <1>0, <1>12 DEF Prune, RunAt
  <2>2. gc.at = "prune" /\ gc'.at = "prune" /\ gc'.refs = gc.refs
    BY <1>0, <1>12, <2>1, RunGoesOn
  <2>3. Rewritten' = Rewritten /\ Rewritten \subseteq DOMAIN gc.refs
    BY <1>0, <2>1, <2>2 DEF Rewritten, Through
  <2>4. t \notin Range(gc.refs) /\ manifest' = Restrict(manifest, DOMAIN manifest \ {t})
    BY <1>12 DEF Prune, Prunable, KeptBy
  <2>5. \A c \in Range(gc.refs) : StandsAlone(c) => StandsAlone(c)'
    BY <2>4 DEF StandsAlone, Restrict
  <2> QED
    BY <1>0, <2>1, <2>2, <2>3, <2>5 DEF RewrittenStand, Range
<1> QED
  BY <1>2, <1>3, <1>4, <1>5, <1>7, <1>8, <1>9, <1>10, <1>11, <1>12 DEF Next, Collecting

\* What is served stays served at every step but a pruning one.
LEMMA ServedStays ==
  ASSUME Inv, ClosedInv, Alone, [Next]_vars, ~\E t \in Commits : Prune(t)
  PROVE  Served \subseteq Served'
<1>0. NoPush.at = "idle" /\ Shapes
  BY DEF NoPush, Inv
<1>1. CASE UNCHANGED manifest
  BY <1>1, ServedSame
<1>2. ASSUME NEW p \in Pushers, PushCommit(p) PROVE Served \subseteq Served'
  <2>1. push[p] \in PushRecord /\ push[p].at = "commit" /\ push[p] # NoPush
    BY <1>0, <1>2, AtWork DEF PushCommit, PusherAt
  <2>2. push[p].bases \subseteq Served
    BY <2>1 DEF ClosedInv, PushesAreBacked, Backed
  <2>3. Pushed(push[p].to, push[p].bases, push[p].local).bases \subseteq Served
    BY <2>1, <2>2, PushedFits DEF PushRecord
  <2> QED
    BY <1>2, <2>3, ServedGrows DEF PushCommit
<1>3. CASE RewriteCommit
  BY <1>3, ConsolidatedFits, ServedGrows DEF RewriteCommit
<1> QED
  BY <1>1, <1>2, <1>3 DEF Next, vars, Pushing, Collecting, Delete, BeginPush, LockRef, CheckForward,
     CutPack, PushTag, UnlockRef, UpdateIndex, PushStops, ReadIndex, ListTags, TakeRef, CheckTip,
     RewriteTag, ReleaseRef, Reread, Republish, RunStops

\* A run that prunes has made every tip stand alone, and no tip goes.
LEMMA PruningSparesTips ==
  ASSUME Inv, ClosedInv, Alone, NEW t \in Commits, Prune(t)
  PROVE  UNCHANGED <<index, push>> /\ Range(index) \subseteq Served'
<1>0. gc # NoRun /\ gc.at = "prune" /\ gc.quiet
  BY DEF Prune, RunAt, NoRun
<1>1. DOMAIN gc.refs \subseteq done /\ gc.refs = index
  BY <1>0 DEF Inv, Through, Current, ClosedInv, RunIsAlone
<1>2. \A c \in Range(index) : StandsAlone(c)
  BY <1>0, <1>1 DEF ClosedInv, RewrittenStand, Rewritten, Range
<1>3. manifest' = Restrict(manifest, DOMAIN manifest \ {t}) /\ t \notin Range(index)
  BY <1>1 DEF Prune, Prunable, KeptBy
<1>4. \A c \in Range(index) : c \in DOMAIN manifest' /\ manifest'[c].bases = {}
  BY <1>2, <1>3 DEF StandsAlone, Restrict
<1>5. PICK S : S = Range(index)
  OBVIOUS
<1>6. S \subseteq Served'
  BY <1>4, <1>5 DEF Served, Whole
<1> QED
  BY <1>5, <1>6 DEF Prune

LEMMA TipsAreServedStep ==
  ASSUME Inv, ClosedInv, [Next]_vars
  PROVE  TipsAreServed'
<1> SUFFICES ASSUME Alone PROVE Range(index)' \subseteq Served'
  BY DEF Next, vars, Alone, TipsAreServed
<1>0. Range(index) \subseteq Served /\ Shapes /\ NoPush.at = "idle"
  BY DEF ClosedInv, TipsAreServed, Inv, NoPush
<1>1. CASE \E t \in Commits : Prune(t)
  BY <1>1, PruningSparesTips DEF Range
<1>2. CASE ~\E t \in Commits : Prune(t)
  <2>1. Served \subseteq Served'
    BY <1>2, ServedStays
  <2>2. CASE UNCHANGED index
    BY <1>0, <2>1, <2>2 DEF Range
  <2>3. ASSUME NEW p \in Pushers, UpdateIndex(p) PROVE Range(index)' \subseteq Served'
    <3>1. push[p] # NoPush /\ push[p].at = "index"
      BY <1>0, <2>3 DEF UpdateIndex, PusherAt
    <3>2. Range(push[p].known) \subseteq Served /\ push[p].to \in Served
      BY <3>1 DEF ClosedInv, PushesAreBacked, Backed
    <3>3. Range(index)' \subseteq Range(push[p].known) \union Range(index) \union {push[p].to}
      BY <2>3 DEF UpdateIndex, Put, Over, Range
    <3> QED
      BY <1>0, <2>1, <3>2, <3>3
  <2>4. ASSUME NEW r \in Refs, Delete(r) PROVE Range(index)' \subseteq Served'
    <3>1. Range(index)' \subseteq Range(index)
      BY <2>4 DEF Delete, Restrict, Range
    <3> QED
      BY <1>0, <2>1, <3>1
  <2>5. CASE Republish
    <3>1. gc # NoRun /\ index' = Over(gc.latest, index)
      BY <2>5 DEF Republish, RunAt, NoRun
    <3>2. gc.latest = index
      BY <3>1 DEF ClosedInv, RunIsAlone
    <3>3. Range(index)' \subseteq Range(index)
      BY <3>1, <3>2 DEF Over, Range
    <3> QED
      BY <1>0, <2>1, <3>3
  <2> QED
    BY <1>2, <2>2, <2>3, <2>4, <2>5 DEF Next, vars, Pushing, Collecting, BeginPush, LockRef,
       CheckForward, CutPack, PushCommit, PushTag, UnlockRef, PushStops, ReadIndex, ListTags,
       TakeRef, CheckTip, RewriteCommit, RewriteTag, ReleaseRef, Reread, RunStops
<1> QED
  BY <1>1, <1>2

LEMMA PushesAreBackedStep ==
  ASSUME Inv, ClosedInv, [Next]_vars
  PROVE  PushesAreBacked'
<1> SUFFICES ASSUME Alone, NEW q \in Pushers PROVE Backed(q)'
  BY DEF Next, vars, Alone, PushesAreBacked
<1>0. Range(index) \subseteq Served /\ Backed(q) /\ Shapes /\ NoPush.at = "idle"
  BY DEF ClosedInv, TipsAreServed, PushesAreBacked, Inv, NoPush
<1>1. ASSUME NEW t \in Commits, Prune(t) PROVE Backed(q)'
  <2>1. push[q] = NoPush
    BY <1>1 DEF Prune, RunAt, NoRun, ClosedInv, RunIsAlone
  <2> QED
    BY <1>1, <2>1, PruningSparesTips DEF Backed
<1>2. ASSUME ~\E t \in Commits : Prune(t) PROVE Backed(q)'
  <2>1. Served \subseteq Served'
    BY <1>2, ServedStays
  <2>2. CASE push'[q] = push[q]
    BY <1>0, <2>1, <2>2 DEF Backed
  <2>3. CASE push'[q] = NoPush
    BY <2>3 DEF Backed
  <2>4. CASE \E r \in Refs, c \in Commits : BeginPush(q, r, c)
    <3>1. push'[q].known = index /\ push'[q].at = "lock"
      BY <1>0, <2>4 DEF BeginPush, Shapes
    <3> QED
      BY <1>0, <2>1, <3>1 DEF Backed
  <2>5. ASSUME NEW at \in {"check", "cut", "unlock", "index"}, PushGoto(q, at), push[q] # NoPush,
               \/ at \in {"check", "cut"}
               \/ push[q].at \in {"tag", "unlock", "index"}
        PROVE  Backed(q)'
    <3>1. /\ push'[q].at = at /\ push'[q].known = push[q].known
          /\ push'[q].bases = push[q].bases /\ push'[q].to = push[q].to
      BY <1>0, <2>5, AtWork DEF PushGoto, Shapes, PushRecord
    <3> QED
      BY <1>0, <2>1, <2>5, <3>1 DEF Backed
  <2>6. CASE LockRef(q) \/ \E force \in BOOLEAN : CheckForward(q, force)
    <3>1. push[q] # NoPush
      BY <1>0, <2>6 DEF LockRef, CheckForward, PusherAt
    <3>2. PushGoto(q, "check") \/ PushGoto(q, "cut") \/ PushEnds(q)
      BY <2>6 DEF LockRef, CheckForward
    <3> QED
      BY <1>0, <2>3, <2>5, <3>1, <3>2, PushHasEnded
  <2>7. CASE CutPack(q)
    <3>1. push[q] # NoPush /\ push[q] \in PushRecord
      BY <1>0, <2>7, AtWork DEF CutPack, PusherAt
    <3>2. /\ push'[q].at = "commit" /\ push'[q].known = push[q].known
          /\ push'[q].bases = PackBases(push[q].known, push[q].to)
      BY <1>0, <2>7, <3>1 DEF CutPack, Shapes, PushRecord
    <3>3. push'[q].bases \subseteq Range(push[q].known)
      BY <3>2 DEF PackBases, KnownTips
    <3> QED
      BY <1>0, <2>1, <3>1, <3>2, <3>3 DEF Backed
  <2>8. CASE PushCommit(q)
    <3>1. push[q] # NoPush /\ push[q] \in PushRecord /\ push[q].at = "commit"
      BY <1>0, <2>8, AtWork DEF PushCommit, PusherAt
    <3>2. /\ push'[q].at = "tag" /\ push'[q].known = push[q].known
          /\ push'[q].bases = push[q].bases /\ push'[q].to = push[q].to
      BY <1>0, <2>8, <3>1 DEF PushCommit, PushGoto, Shapes, PushRecord
    <3>3. push[q].bases \subseteq Served /\ Range(push[q].known) \subseteq Served
      BY <1>0, <3>1 DEF Backed
    <3>4. Pushed(push[q].to, push[q].bases, push[q].local).bases \subseteq Served
      BY <3>1, <3>3, PushedFits DEF PushRecord
    <3>5. push[q].to \in Served'
      BY <2>8, <3>4, ServedGrows DEF PushCommit
    <3> QED
      BY <2>1, <3>2, <3>3, <3>5 DEF Backed
  <2>9. CASE PushTag(q) \/ UnlockRef(q)
    <3>1. /\ push[q] # NoPush /\ push[q].at \in {"tag", "unlock", "index"}
          /\ PushGoto(q, "unlock") \/ PushGoto(q, "index")
      BY <1>0, <2>9 DEF PushTag, UnlockRef, PusherAt
    <3> QED
      BY <2>5, <3>1
  <2>10. CASE UpdateIndex(q) \/ PushStops(q)
    BY <1>0, <2>3, <2>10, PushHasEnded DEF UpdateIndex, PushStops
  <2>11. ASSUME NEW p \in Pushers \ {q}, Pushing(p) PROVE push'[q] = push[q]
    <3>1. CASE CutPack(p)
      BY <1>0, <2>11, <3>1 DEF CutPack, Shapes
    <3>2. CASE ~CutPack(p)
      BY <1>0, <2>11, <3>2 DEF Pushing, BeginPush, LockRef, CheckForward, PushCommit, PushTag,
         UnlockRef, UpdateIndex, PushStops, PushGoto, PushEnds, Shapes
    <3> QED
      BY <3>1, <3>2
  <2>12. CASE UNCHANGED push
    BY <2>2, <2>12
  <2>13. Collecting \/ (\E r \in Refs : Delete(r)) \/ UNCHANGED vars => UNCHANGED push
    BY DEF vars, Delete, Collecting, ReadIndex, ListTags, TakeRef, CheckTip, RewriteCommit,
       RewriteTag, ReleaseRef, Reread, Prune, Republish, RunStops
  <2>14. CASE Pushing(q)
    BY <2>4, <2>6, <2>7, <2>8, <2>9, <2>10, <2>14 DEF Pushing
  <2> QED
    BY <2>2, <2>11, <2>12, <2>13, <2>14 DEF Next
<1> QED
  BY <1>1, <1>2

\* What stands keeps standing until a chain is republished: pruning moves a commit from the
\* served ones to the pruned ones.
LEMMA StandingStays ==
  ASSUME Inv, ClosedInv, Alone, [Next]_vars, ~Republish
  PROVE  Standing \subseteq Standing'
<1>0. NoPush.at = "idle" /\ Shapes
  BY DEF NoPush, Inv
<1>1. CASE UNCHANGED <<manifest, pruned>>
  BY <1>1 DEF Standing, Whole
<1>2. ASSUME NEW p \in Pushers, PushCommit(p) PROVE Standing \subseteq Standing'
  <2>1. push[p] \in PushRecord /\ push[p].at = "commit" /\ push[p] # NoPush
    BY <1>0, <1>2, AtWork DEF PushCommit, PusherAt
  <2>2. push[p].bases \subseteq Standing
    BY <2>1, StandingIsWhole DEF ClosedInv, PushesAreBacked, Backed
  <2>3. Pushed(push[p].to, push[p].bases, push[p].local).bases \subseteq Standing
    BY <2>1, <2>2, PushedFits DEF PushRecord
  <2> QED
    BY <1>2, <2>3, StandingGrows DEF PushCommit
<1>3. CASE RewriteCommit
  BY <1>3, ConsolidatedFits, StandingGrows DEF RewriteCommit
<1>4. ASSUME NEW t \in Commits, Prune(t) PROVE Standing \subseteq Standing'
  <2>1. manifest' = Restrict(manifest, DOMAIN manifest \ {t}) /\ pruned' = pruned \union {t}
    BY <1>4 DEF Prune
  <2>2. PICK S : S = Standing
    OBVIOUS
  <2>3. S \subseteq DOMAIN manifest' \union pruned'
    BY <2>1, <2>2, StandingIsWhole DEF Restrict
  <2>4. \A c \in S \intersect DOMAIN manifest' : manifest'[c].bases \subseteq S
    BY <2>1, <2>2, StandingIsWhole DEF Restrict
  <2>5. S \subseteq Standing'
    BY <2>3, <2>4 DEF Standing, Whole
  <2> QED
    BY <2>2, <2>5
<1> QED
  BY <1>1, <1>2, <1>3, <1>4 DEF Next, vars, history, Pushing, Collecting, Delete, BeginPush, LockRef,
     CheckForward, CutPack, PushTag, UnlockRef, UpdateIndex, PushStops, ReadIndex, ListTags, TakeRef,
     CheckTip, RewriteTag, ReleaseRef, Reread, RunStops

LEMMA ChainStandsStep ==
  ASSUME Inv, ClosedInv, [Next]_vars
  PROVE  ChainStands'
<1> SUFFICES ASSUME Alone, NEW c \in DOMAIN chain' PROVE chain'[c] \subseteq Standing'
  BY DEF Next, vars, Alone, ChainStands
<1>0. NoPush.at = "idle" /\ Shapes /\ \A d \in DOMAIN chain : chain[d] \subseteq Standing
  BY DEF NoPush, Inv, ClosedInv, ChainStands
<1>1. CASE Republish
  BY <1>1, NoChainFits, ConsolidatedFits DEF Republish
<1>2. CASE ~Republish
  <2>1. Standing \subseteq Standing'
    BY <1>2, StandingStays
  <2>2. CASE UNCHANGED chain \/ chain' = NoChain
    BY <1>0, <2>1, <2>2, NoChainFits
  <2>3. ASSUME NEW p \in Pushers, UpdateIndex(p) PROVE chain'[c] \subseteq Standing'
    <3>1. push[p] # NoPush /\ push[p].at = "index"
      BY <1>0, <2>3 DEF UpdateIndex, PusherAt
    <3>2. push[p].bases \subseteq Standing
      BY <3>1, StandingIsWhole DEF ClosedInv, PushesAreBacked, Backed
    <3>3. \/ chain' = Put(chain, push[p].to, push[p].bases)
          \/ chain' = Put(NoChain, push[p].to, push[p].bases)
          \/ chain' = NoChain
      BY <2>3 DEF UpdateIndex
    <3>4. chain'[c] \subseteq Standing
      BY <1>0, <3>2, <3>3, NoChainFits DEF Put
    <3> QED
      BY <2>1, <3>4
  <2> QED
    BY <1>2, <2>2, <2>3 DEF Next, vars, Pushing, Collecting, Delete, BeginPush, LockRef,
       CheckForward, CutPack, PushCommit, PushTag, UnlockRef, PushStops, ReadIndex, ListTags,
       TakeRef, CheckTip, RewriteCommit, RewriteTag, ReleaseRef, Reread, Prune, RunStops
<1> QED
  BY <1>1, <1>2

LEMMA ClosedStep == ASSUME Inv, ClosedInv, [Next]_vars PROVE ClosedInv'
BY RunIsAloneStep, TipsAreServedStep, PushesAreBackedStep, RewrittenStandStep, ChainStandsStep
   DEF ClosedInv, Inv

\* A reader comes from B to the bases of whatever it comes to, and leaves no set that holds
\* B and is closed that way.
LEMMA WalkedIsLeast ==
  ASSUME NEW B \in SUBSET Commits, Shapes
  PROVE  /\ B \subseteq Walked(B)
         /\ \A c \in Walked(B) : \A m \in Resolved(c) : m.bases \subseteq Walked(B)
         /\ \A S \in SUBSET Commits :
              B \subseteq S /\ (\A d \in S : \A m \in Resolved(d) : m.bases \subseteq S)
                => Walked(B) \subseteq S
<1>1. B \subseteq Walked(B)
  BY DEF Walked
<1>2. ASSUME NEW S \in SUBSET Commits, B \subseteq S,
             \A d \in S : \A m \in Resolved(d) : m.bases \subseteq S
      PROVE  Walked(B) \subseteq S
  BY <1>2 DEF Walked
<1>3. ASSUME NEW c \in Walked(B), NEW m \in Resolved(c), NEW b \in m.bases
      PROVE  b \in Walked(B)
  <2>1. m \in Manifest
    BY DEF Resolved, Shapes, Partial, TagRecord
  <2>2. b \in Commits
    BY <2>1 DEF Manifest, Bases
  <2>3. ASSUME NEW S \in SUBSET Commits, B \subseteq S,
               \A d \in S : \A n \in Resolved(d) : n.bases \subseteq S
        PROVE  b \in S
    <3>1. c \in S
      BY <1>2, <2>3
    <3> QED
      BY <2>3, <3>1
  <2> QED
    BY <2>2, <2>3 DEF Walked
<1> QED
  BY <1>1, <1>2, <1>3

\* After every step of any number of pushes, deletions and compactions that stop anywhere,
\* as long as nobody pushes during one: everything a published ref rests on is served, and
\* what a clone that follows the chain finds missing was pruned since the chain was last
\* replaced.
THEOREM RefsCanBeFetched == Spec => []Closed
<1>1. Init => Inv /\ ClosedInv
  BY InvInit, ClosedInit
<1>2. Inv /\ ClosedInv /\ [Next]_vars => (Inv /\ ClosedInv)'
  BY InvStep, ClosedStep
<1>3. Inv /\ ClosedInv => Closed
  <2> SUFFICES ASSUME Inv, ClosedInv, Alone, NEW r \in DOMAIN index
               PROVE  FetchableUnhinted(r) /\ Missing(Hinted(index[r])) \subseteq pruned
    BY DEF Closed
  <2>0. Shapes /\ DOMAIN manifest \subseteq Commits /\ pruned \subseteq Commits
    BY DEF Inv, Shapes, Marks, Partial
  <2>1. \A x \in DOMAIN index : index[x] \in Served /\ index[x] \in DOMAIN manifest
    BY ServedIsWhole DEF ClosedInv, TipsAreServed, Range
  <2>2. /\ \A c \in DOMAIN manifest : Resolved(c) = {manifest[c]}
        /\ \A c : c \notin DOMAIN manifest => Resolved(c) = {}
    BY <2>1 DEF Resolved
  <2>3. FetchableUnhinted(r)
    <3> DEFINE B == {index[r]}
    <3>1. Served \in SUBSET Commits /\ B \in SUBSET Commits /\ B \subseteq Served
      BY <2>0, <2>1, ServedIsWhole
    <3>2. \A d \in Served : \A m \in Resolved(d) : m.bases \subseteq Served
      BY <2>2, ServedIsWhole
    <3> HIDE DEF B
    <3>3. Walked(B) \subseteq Served
      BY <2>0, <3>1, <3>2, WalkedIsLeast
    <3>4. Missing(B) = {}
      BY <2>2, <3>3, ServedIsWhole DEF Missing
    <3> QED
      BY <3>4 DEF FetchableUnhinted, B
  <2>4. Missing(Hinted(index[r])) \subseteq pruned
    <3> DEFINE B == Hinted(index[r])
    <3>1. Standing \in SUBSET Commits /\ index[r] \in Standing
      BY <2>0, <2>1, StandingIsWhole
    <3>2. \A d \in Standing \intersect DOMAIN chain : chain[d] \subseteq Standing
      BY DEF ClosedInv, ChainStands
    <3>3. B \subseteq Standing /\ B \in SUBSET Commits
      BY <3>1, <3>2 DEF Hinted
    <3>4. \A d \in Standing : \A m \in Resolved(d) : m.bases \subseteq Standing
      BY <2>2, StandingIsWhole
    <3> HIDE DEF B
    <3>5. Walked(B) \subseteq Standing
      BY <2>0, <3>1, <3>3, <3>4, WalkedIsLeast
    <3>6. Missing(B) \subseteq pruned
      BY <2>2, <3>5, StandingIsWhole DEF Missing
    <3> QED
      BY <3>6 DEF B
  <2> QED
    BY <2>3, <2>4
<1> QED
  BY <1>1, <1>2, <1>3, PTL DEF Spec
-----------------------------------------------------------------------------
(***************************************************************************)
(* LFSKept.  A manifest lists the objects whose pointers its packfile      *)
(* brings in, but for those that are given up with it.  An object of the   *)
(* tip's history is then found by going down the bases: a commit that the  *)
(* reader comes to and that reaches the object, and no base of which does, *)
(* has it in its packfile.                                                 *)
(***************************************************************************)
\* But for given, m lists all that its packfile for c brings in.
Lists(m, c, given) == Large \intersect Packed(c, m.bases) \subseteq m.lfs \union given

CommitsList == \A c \in DOMAIN manifest : Lists(manifest[c], c, forgone)
TagsList ==
  \A r \in DOMAIN tag :
    /\ Lists(tag[r].manifest, tag[r].tip, forgone)
    /\ tag[r].manifest.bases \subseteq Ancestors[tag[r].tip]
PushesForgo ==
  \A p \in Pushers :
    push[p].at = "tag" => Skipped(push[p].to, push[p].bases, push[p].local) \subseteq forgone
RunForgoes == gc.at = "tag" => Large \intersect Reach(gc.refs[gc.ref]) \subseteq forgone

LFSInv == CommitsList /\ TagsList /\ PushesForgo /\ RunForgoes

LEMMA PushedLists ==
  ASSUME NEW c, NEW bases, NEW local, NEW given, Skipped(c, bases, local) \subseteq given
  PROVE  Lists(Pushed(c, bases, local), c, given) /\ Pushed(c, bases, local).bases = bases
BY DEF Pushed, Skipped, Lists

LEMMA ConsolidatedLists ==
  ASSUME NEW c, NEW given, Large \intersect Reach(c) \subseteq given
  PROVE  Lists(Consolidated(c), c, given)
BY DEF Packed, Consolidated, Lists

LEMMA ListsMore ==
  ASSUME NEW m, NEW c, NEW given, NEW more, given \subseteq more, Lists(m, c, given)
  PROVE  Lists(m, c, more)
BY DEF Lists

LEMMA LFSInit == Init => LFSInv
<1> SUFFICES ASSUME Init PROVE LFSInv
  OBVIOUS
<1> PICK local \in SUBSET Large : AsPushed(local)
  BY InitIsPushed
<1>1. ASSUME NEW c \in Range(Trunk)
      PROVE  /\ Lists(Pushed(c, TrunkEdges[c], local), c, forgone)
             /\ Pushed(c, TrunkEdges[c], local).bases \subseteq Ancestors[c]
  <2>1. Skipped(c, TrunkEdges[c], local) \subseteq forgone
    BY DEF AsPushed
  <2> QED
    BY <2>1, PushedLists, TrunkEdgesFit
<1>2. CommitsList
  BY <1>1 DEF AsPushed, CommitsList
<1>3. TagsList
  BY <1>1, TrunkEdgesFit DEF AsPushed, TagsList
<1>4. PushesForgo /\ RunForgoes
  BY DEF Init, PushesForgo, RunForgoes, NoPush, NoRun
<1> QED
  BY <1>2, <1>3, <1>4 DEF LFSInv

\* What is given up stays given up.
LEMMA ForgoneGrows == [Next]_vars => forgone \subseteq forgone'
BY DEF Next, vars, history, Pushing, Collecting, Delete, BeginPush, LockRef, CheckForward, CutPack,
   PushCommit, PushTag, UnlockRef, UpdateIndex, PushStops, ReadIndex, ListTags, TakeRef, CheckTip,
   RewriteCommit, RewriteTag, ReleaseRef, Reread, Prune, Republish, RunStops

LEMMA CommitsListStep ==
  ASSUME CommitsList, [Next]_vars
  PROVE  CommitsList'
<1>0. \A m, c : Lists(m, c, forgone) => Lists(m, c, forgone')
  BY ForgoneGrows, ListsMore
<1>1. CASE UNCHANGED manifest
  BY <1>0, <1>1 DEF CommitsList
<1>2. ASSUME NEW d, NEW m, manifest' = Put(manifest, d, m), Lists(m, d, forgone')
      PROVE  CommitsList'
  BY <1>0, <1>2 DEF CommitsList, Put
<1>3. ASSUME NEW p \in Pushers, PushCommit(p) PROVE CommitsList'
  <2> DEFINE m == Pushed(push[p].to, push[p].bases, push[p].local)
  <2>1. Skipped(push[p].to, push[p].bases, push[p].local) \subseteq forgone'
    BY <1>3 DEF PushCommit
  <2>2. Lists(m, push[p].to, forgone')
    BY <2>1, PushedLists
  <2>3. manifest' = Put(manifest, push[p].to, m)
    BY <1>3 DEF PushCommit
  <2> QED
    BY <1>2, <2>2, <2>3
<1>4. CASE RewriteCommit
  <2>1. Large \intersect Reach(gc.refs[gc.ref]) \subseteq forgone'
    BY <1>4 DEF RewriteCommit
  <2>2. Lists(Consolidated(gc.refs[gc.ref]), gc.refs[gc.ref], forgone')
    BY <2>1, ConsolidatedLists
  <2>3. manifest' = Put(manifest, gc.refs[gc.ref], Consolidated(gc.refs[gc.ref]))
    BY <1>4 DEF RewriteCommit
  <2> QED
    BY <1>2, <2>2, <2>3
<1>5. ASSUME NEW t \in Commits, Prune(t) PROVE CommitsList'
  BY <1>0, <1>5 DEF Prune, Restrict, CommitsList
<1> QED
  BY <1>1, <1>3, <1>4, <1>5 DEF Next, vars, Pushing, Collecting, Delete, BeginPush, LockRef,
     CheckForward, CutPack, PushTag, UnlockRef, UpdateIndex, PushStops, ReadIndex, ListTags, TakeRef,
     CheckTip, RewriteTag, ReleaseRef, Reread, Republish, RunStops

LEMMA TagsListStep ==
  ASSUME Inv, LFSInv, [Next]_vars
  PROVE  TagsList'
<1>0. (\A m, c : Lists(m, c, forgone) => Lists(m, c, forgone')) /\ TagsList
  BY ForgoneGrows, ListsMore DEF LFSInv
<1>1. CASE UNCHANGED tag
  BY <1>0, <1>1 DEF TagsList
<1>2. ASSUME NEW r, NEW c, NEW m, tag' = Put(tag, r, [tip |-> c, manifest |-> m]),
             Lists(m, c, forgone'), m.bases \subseteq Ancestors[c]
      PROVE  TagsList'
  BY <1>0, <1>2 DEF TagsList, Put
<1>3. ASSUME NEW p \in Pushers, PushTag(p) PROVE TagsList'
  <2> DEFINE m == Pushed(push[p].to, push[p].bases, push[p].local)
  <2>1. push[p].at = "tag" /\ push[p] # NoPush
    BY <1>3 DEF PushTag, PusherAt, NoPush
  <2>2. Skipped(push[p].to, push[p].bases, push[p].local) \subseteq forgone'
    BY <2>1, ForgoneGrows DEF LFSInv, PushesForgo
  <2>3. Lists(m, push[p].to, forgone') /\ m.bases = push[p].bases
    BY <2>2, PushedLists
  <2>4. push[p].bases \subseteq Ancestors[push[p].to]
    BY <2>1 DEF Inv, Cut
  <2>5. tag' = Put(tag, push[p].ref, [tip |-> push[p].to, manifest |-> m])
    BY <1>3 DEF PushTag
  <2> HIDE DEF m
  <2> QED
    BY <1>2, <2>3, <2>4, <2>5
<1>4. CASE RewriteTag
  <2> DEFINE c == gc.refs[gc.ref]
             m == Consolidated(c)
  <2>1. gc.at = "tag"
    BY <1>4 DEF RewriteTag, RunAt
  <2>2. Large \intersect Reach(c) \subseteq forgone'
    BY <2>1, ForgoneGrows DEF LFSInv, RunForgoes
  <2>3. Lists(m, c, forgone') /\ m.bases = {}
    BY <2>2, ConsolidatedLists, ConsolidatedFits
  <2>4. tag' = Put(tag, gc.ref, [tip |-> c, manifest |-> m])
    BY <1>4 DEF RewriteTag
  <2> HIDE DEF c, m
  <2> QED
    BY <1>2, <2>3, <2>4
<1>5. ASSUME NEW r \in Refs, Delete(r) PROVE TagsList'
  BY <1>0, <1>5 DEF Delete, Restrict, TagsList
<1> QED
  BY <1>1, <1>3, <1>4, <1>5 DEF Next, vars, Pushing, Collecting, BeginPush, LockRef, CheckForward,
     CutPack, PushCommit, UnlockRef, UpdateIndex, PushStops, ReadIndex, ListTags, TakeRef, CheckTip,
     RewriteCommit, ReleaseRef, Reread, Prune, Republish, RunStops

LEMMA PushesForgoStep ==
  ASSUME Inv, LFSInv, [Next]_vars, NEW q \in Pushers, push'[q].at = "tag"
  PROVE  Skipped(push'[q].to, push'[q].bases, push'[q].local) \subseteq forgone'
<1>0. Shapes /\ NoPush.at = "idle" /\ forgone \subseteq forgone'
  BY ForgoneGrows DEF Inv, NoPush
<1>1. CASE push'[q] = push[q]
  BY <1>0, <1>1 DEF LFSInv, PushesForgo
<1>2. CASE PushCommit(q)
  <2>1. push[q] \in PushRecord /\ push[q] # NoPush
    BY <1>0, <1>2, AtWork DEF PushCommit, PusherAt
  <2>2. push'[q] = [push[q] EXCEPT !.at = "tag"]
    BY <1>0, <1>2, <2>1, PushGoesOn DEF PushCommit, PushStages
  <2>3. push'[q].to = push[q].to /\ push'[q].bases = push[q].bases /\ push'[q].local = push[q].local
    BY <2>1, <2>2 DEF PushRecord
  <2> QED
    BY <1>2, <2>3 DEF PushCommit
<1>3. CASE Pushing(q) /\ ~PushCommit(q)
  <2>1. ASSUME NEW at \in PushStages, at # "tag", PushGoto(q, at), push[q] # NoPush PROVE FALSE
    BY <1>0, <2>1, PushGoesOn
  <2>2. ASSUME PushEnds(q) PROVE FALSE
    BY <1>0, <2>2, PushHasEnded
  <2>3. ASSUME NEW r \in Refs, NEW c \in Commits, BeginPush(q, r, c) PROVE FALSE
    BY <1>0, <2>3 DEF BeginPush, Shapes
  <2>4. CASE CutPack(q)
    <3>1. push'[q].at = "commit"
      BY <1>0, <2>4, AtWork DEF CutPack, PusherAt, Shapes, PushRecord
    <3> QED
      BY <3>1
  <2>5. CASE LockRef(q) \/ (\E force \in BOOLEAN : CheckForward(q, force)) \/ PushTag(q)
             \/ UnlockRef(q)
    BY <1>0, <2>1, <2>2, <2>5
       DEF LockRef, CheckForward, PushTag, UnlockRef, PusherAt, PushStages
  <2>6. CASE UpdateIndex(q) \/ PushStops(q)
    BY <2>2, <2>6 DEF UpdateIndex, PushStops
  <2> QED
    BY <1>3, <2>3, <2>4, <2>5, <2>6 DEF Pushing
<1>4. ASSUME NEW p \in Pushers \ {q}, Pushing(p) PROVE push'[q] = push[q]
  <2>1. CASE CutPack(p)
    BY <1>0, <1>4, <2>1 DEF CutPack, Shapes
  <2>2. CASE ~CutPack(p)
    BY <1>0, <1>4, <2>2 DEF Pushing, BeginPush, LockRef, CheckForward, PushCommit, PushTag,
       UnlockRef, UpdateIndex, PushStops, PushGoto, PushEnds, Shapes
  <2> QED
    BY <2>1, <2>2
<1>5. Collecting \/ (\E r \in Refs : Delete(r)) \/ UNCHANGED vars => UNCHANGED push
  BY DEF vars, Delete, Collecting, ReadIndex, ListTags, TakeRef, CheckTip, RewriteCommit,
     RewriteTag, ReleaseRef, Reread, Prune, Republish, RunStops
<1> QED
  BY <1>1, <1>2, <1>3, <1>4, <1>5 DEF Next

LEMMA RunForgoesStep ==
  ASSUME Inv, LFSInv, [Next]_vars
  PROVE  RunForgoes'
<1>0. Shapes /\ NoRun.at = "idle" /\ forgone \subseteq forgone'
  BY ForgoneGrows DEF Inv, NoRun
<1>1. CASE UNCHANGED gc
  BY <1>0, <1>1 DEF LFSInv, RunForgoes
<1>2. ASSUME gc'.at # "tag" PROVE RunForgoes'
  BY <1>2 DEF RunForgoes
<1>3. CASE RewriteCommit
  <2>1. gc # NoRun
    BY <1>0, <1>3 DEF RewriteCommit, RunAt
  <2>2. gc'.refs = gc.refs /\ gc'.ref = gc.ref
    BY <1>0, <1>3, <2>1, RunGoesOn
  <2> QED
    BY <1>3, <2>2 DEF RewriteCommit, RunForgoes
<1>4. CASE ReadIndex
  <2>1. gc'.at = "list"
    BY <1>4 DEF ReadIndex
  <2> QED
    BY <1>2, <2>1
<1>5. CASE ListTags \/ RewriteTag \/ ReleaseRef \/ \E t \in Commits : Prune(t)
  <2>1. gc # NoRun
    BY <1>0, <1>5 DEF ListTags, RewriteTag, ReleaseRef, Prune, RunAt
  <2> QED
    BY <1>0, <1>2, <1>5, <2>1, RunGoesOn
<1>6. CASE CheckTip \/ Reread \/ \E r \in Refs : TakeRef(r)
  BY <1>0, <1>2, <1>6, TipChecked, IndexReread, RefTaken
<1>7. CASE Republish \/ RunStops
  BY <1>0, <1>2, <1>7 DEF Republish, RunStops
<1> QED
  BY <1>1, <1>3, <1>4, <1>5, <1>6, <1>7 DEF Next, vars, Pushing, Collecting, Delete, BeginPush,
     LockRef, CheckForward, CutPack, PushCommit, PushTag, UnlockRef, UpdateIndex, PushStops

LEMMA LFSStep == ASSUME Inv, LFSInv, [Next]_vars PROVE LFSInv'
<1>1. PushesForgo'
  BY PushesForgoStep DEF PushesForgo
<1>2. CommitsList' /\ TagsList' /\ RunForgoes'
  BY CommitsListStep, TagsListStep, RunForgoesStep DEF LFSInv
<1> QED
  BY <1>1, <1>2 DEF LFSInv

\* Some commit of a nonempty set has no other of the set behind it: histories are finite.
LEMMA EarliestCommit ==
  ASSUME NEW T \in SUBSET Commits, T # {}
  PROVE  \E c \in T : \A b \in T : b \notin Ancestors[c]
<1> DEFINE H == {Ancestors[c] : c \in T}
           Smaller == StrictSubsetOrdering(Commits)
<1>1. H # {} /\ H \subseteq FiniteSubsetsOf(Commits)
  BY FiniteHistory DEF FiniteSubsetsOf
<1>2. IsWellFoundedOn(Smaller, FiniteSubsetsOf(Commits))
  BY FS_StrictSubsetOrderingWellFounded
<1> HIDE DEF H, Smaller
<1>3. PICK h \in H : \A g \in H : ~(<<g, h>> \in Smaller)
  BY <1>1, <1>2, WFMin
<1>4. PICK c \in T : h = Ancestors[c]
  BY DEF H
<1>5. ASSUME NEW b \in T, b \in Ancestors[c] PROVE FALSE
  <2>1. Ancestors[b] \subseteq Ancestors[c] /\ Ancestors[b] # Ancestors[c]
    BY <1>5
  <2>2. <<Ancestors[b], Ancestors[c]>> \in Smaller
    BY <2>1 DEF Smaller, StrictSubsetOrdering
  <2> QED
    BY <1>3, <1>4, <2>2 DEF H
<1> QED
  BY <1>5

\* After any pushes, deletions and compactions, whoever runs beside whom and wherever they
\* stop: a clone comes by every LFS object of its ref's history, but for those that a push
\* had no copy of and those in the history of a tip that a compaction has rewritten.
THEOREM LFSObjectsComeAlong == Spec => []LFSKept
<1>1. Init => Inv /\ LFSInv
  BY InvInit, LFSInit
<1>2. Inv /\ LFSInv /\ [Next]_vars => (Inv /\ LFSInv)'
  BY InvStep, LFSStep
<1>3. Inv /\ LFSInv => LFSKept
  <2> SUFFICES ASSUME Inv, LFSInv, NEW r \in DOMAIN index, FetchableUnhinted(r),
                      NEW x \in Large \intersect Reach(index[r])
               PROVE  x \in LFSFetched(r) \union forgone
    BY DEF LFSKept
  <2> DEFINE R == Walked({index[r]})
             T == {c \in R : x \in Reach(c)}
  <2>0. Shapes /\ index[r] \in Commits
    BY DEF Inv, Shapes, TipMaps
  <2>1. /\ R \subseteq Commits /\ index[r] \in R
        /\ \A c \in R : \A m \in Resolved(c) : m.bases \subseteq R
    BY <2>0, WalkedIsLeast DEF Walked
  <2>2. \A c \in R : Resolved(c) # {}
    BY DEF FetchableUnhinted, Missing
  <2>3. LFSFetched(r) = UNION {m.lfs : m \in UNION {Resolved(c) : c \in R}}
    BY DEF LFSFetched
  <2>4. ASSUME NEW c, NEW m \in Resolved(c)
        PROVE  Lists(m, c, forgone) /\ m.bases \subseteq Ancestors[c]
    BY DEF Resolved, LFSInv, CommitsList, TagsList, Inv, Cut
  <2> HIDE DEF R
  <2>5. T \in SUBSET Commits /\ T # {}
    BY <2>1
  <2>6. PICK c \in T : \A b \in T : b \notin Ancestors[c]
    BY <2>5, EarliestCommit
  <2>7. PICK m \in Resolved(c) : m.bases \subseteq R
    BY <2>1, <2>2
  <2>8. x \notin ReachAll(m.bases)
    BY <2>4, <2>6, <2>7 DEF ReachAll
  <2>9. x \in m.lfs \union forgone
    BY <2>4, <2>6, <2>8 DEF Lists, Packed
  <2>10. m.lfs \subseteq LFSFetched(r)
    BY <2>3, <2>6
  <2> QED
    BY <2>9, <2>10
<1> QED
  BY <1>1, <1>2, <1>3, PTL DEF Spec
=============================================================================
