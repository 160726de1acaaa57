--------------------------- MODULE Readers_proofs ---------------------------
(***************************************************************************)
(* Proofs about Fetch and Hydrate, for any history, any registry, any      *)
(* chain, and any number of fetches that git asks for and that fail on the *)
(* way.                                                                    *)
(***************************************************************************)
EXTENDS Readers, Sequences, TLAPS, FiniteSetTheorems, WellFoundedInduction

USE HistoryAssumption, TreeAssumption

Stages == {"none", "packed", "done"}
Typed ==
  /\ setting \in DOMAIN Settings
  /\ bases \in Graphs
  /\ commits \subseteq Commits
  /\ wants \subseteq Commits
  /\ stage \in [Commits -> Stages]

\* What the walk keeps is true of the registry and of the repository.
Walked ==
  /\ satisfied \subseteq commits
  /\ DOMAIN graph \subseteq DOMAIN bases
  /\ \A c \in DOMAIN graph : graph[c] = bases[c]

\* A packfile brings the commit it is for.
Brought == \A c \in Commits : stage[c] # "none" => c \in commits

Closes == Typed /\ Walked /\ Brought /\ LocalIsClosed

\* Every packfile was cut against what its commit descends from.
Sensible == \A c \in DOMAIN bases : bases[c] \subseteq Ancestors[c]

LEMMA SettingIsOne ==
  ASSUME Typed
  PROVE  /\ Partial(bases, Commits, SUBSET Commits)
         /\ \A S \in Wants : S \subseteq Commits
         /\ (Snapshots => Sensible)
<1>1. Settings[setting] \in Range(Settings)
  BY DEF Typed, Range
<1> QED
  BY <1>1, SettingsAssumption DEF Typed, Graphs, Wants, Snapshots, Sensible

LEMMA ReachOfUnion ==
  ASSUME NEW S, NEW T
  PROVE  /\ ReachAll(S \union T) = ReachAll(S) \union ReachAll(T)
         /\ TreesOf(S \union T) = TreesOf(S) \union TreesOf(T)
BY DEF ReachAll, TreesOf

LEMMA ReachIsClosed ==
  ASSUME NEW c \in Commits
  PROVE  ReachAll(Reach(c)) = Reach(c) /\ Reach(c) \subseteq Commits /\ c \in Reach(c)
<1>1. \A b \in Reach(c) : Reach(b) \subseteq Reach(c) /\ b \in Reach(b)
  BY DEF Reach
<1> QED
  BY <1>1 DEF Reach, ReachAll

\* Who is imported has its bases at hand: it is in a level behind which all is imported.
LEMMA BasesAtHand ==
  ASSUME Typed, Walked, Brought, NEW c \in Commits, ImportPack(c)
  PROVE  bases[c] \subseteq commits /\ c \in DOMAIN bases /\ bases[c] \subseteq Commits
<1>1. PICK n \in 0 .. Cardinality(DOMAIN graph) :
        FirstLevels(graph, n) \subseteq Imported /\ c \in Ready(graph, FirstLevels(graph, n))
  BY DEF ImportPack, InLevel
<1>2. c \in DOMAIN graph /\ graph[c] \ satisfied \subseteq Imported
  BY <1>1 DEF Ready
<1>3. DOMAIN graph \subseteq Commits /\ bases[c] \subseteq Commits
  BY <1>2, SettingIsOne DEF Walked, Partial
<1>4. Imported \subseteq commits
  BY <1>3 DEF Imported, Brought
<1> QED
  BY <1>2, <1>3, <1>4 DEF Walked

LEMMA ClosesInit == Init => Closes
<1> SUFFICES ASSUME Init PROVE Closes
  OBVIOUS
<1>1. Typed
  BY DEF Init, Typed, Graphs, Stages
<1>2. Walked /\ Brought
  BY DEF Init, Walked, Brought
<1>3. LocalIsClosed
  BY DEF Init, LocalIsClosed, ReachAll, TreesOf
<1> QED
  BY <1>1, <1>2, <1>3 DEF Closes

LEMMA ClosesStep ==
  ASSUME Closes, [Next]_vars
  PROVE  Closes'
<1> USE DEF Closes
<1>0. /\ Partial(bases, Commits, SUBSET Commits) /\ \A S \in Wants : S \subseteq Commits
      /\ Snapshots => Sensible
  BY SettingIsOne
<1>1. CASE UNCHANGED vars
  BY <1>1 DEF vars, registry, local, walk, Typed, Walked, Brought, LocalIsClosed, Graphs,
       Snapshots, ReachAll, TreesOf
<1>2. CASE Next
  <2>0. /\ setting' = setting /\ bases' = bases
    BY <1>2 DEF Next, Step, Begin, TakeSnapshot, SnapshotsTaken, BeginWalk, SkipLocal, Resolve,
         NotServed, NextLevel, Order, ImportPack, ImportLFS, Finish, TransferFails, registry
  <2>1. ASSUME UNCHANGED <<commits, objects, wants, graph, satisfied, stage>>
        PROVE  Closes'
    BY <2>0, <2>1 DEF Typed, Walked, Brought, LocalIsClosed, Graphs, Snapshots, ReachAll, TreesOf
  <2>2. ASSUME NEW S \in Wants, NEW d1 \in BOOLEAN, Begin(S, d1) PROVE Closes'
    <3>1. Typed'
      BY <1>0, <2>0, <2>2 DEF Begin, local, registry, Typed, Graphs, Stages
    <3>2. Walked' /\ Brought'
      BY <2>0, <2>2 DEF Begin, Walked, Brought
    <3> QED
      BY <2>0, <2>2, <3>1, <3>2 DEF Begin, local, LocalIsClosed, Snapshots, ReachAll, TreesOf
  <2>3. ASSUME NEW c \in Commits, TakeSnapshot(c) PROVE Closes'
    <3>1. Snapshots /\ UNCHANGED <<wants, graph, satisfied, stage>> /\ commits' = commits \union {c}
      BY <2>3 DEF TakeSnapshot, SnapshotsFound, walk
    <3>2. Typed' /\ Walked' /\ Brought'
      BY <2>0, <3>1 DEF Typed, Walked, Brought, Graphs
    <3> QED
      BY <2>0, <3>1, <3>2 DEF LocalIsClosed, Snapshots
  <2>4. CASE SnapshotsTaken \/ BeginWalk \/ NextLevel \/ Order \/ Finish \/ TransferFails
               \/ \E c \in Commits : NotServed(c)
    BY <2>1, <2>4 DEF SnapshotsTaken, BeginWalk, NextLevel, Order, Finish, TransferFails,
         NotServed, local, walk
  <2>5. ASSUME NEW c \in Commits, SkipLocal(c) PROVE Closes'
    <3>1. UNCHANGED <<commits, objects, wants, graph, stage>> /\ satisfied' \subseteq commits
      BY <2>5 DEF SkipLocal, local, Walked
    <3> QED
      BY <2>0, <3>1 DEF Typed, Walked, Brought, LocalIsClosed, Graphs, Snapshots, ReachAll, TreesOf
  <2>6. ASSUME NEW c \in Commits, Resolve(c) PROVE Closes'
    <3>1. UNCHANGED <<commits, objects, wants, satisfied, stage>> /\ c \in DOMAIN bases
      BY <2>6 DEF Resolve, local
    <3>3. /\ DOMAIN graph' = DOMAIN graph \union {c}
          /\ \A b \in DOMAIN graph' : graph'[b] = IF b = c THEN bases[c] ELSE graph[b]
      BY <2>6 DEF Resolve, Declared
    <3>4. Typed' /\ Brought' /\ LocalIsClosed'
      BY <2>0, <3>1 DEF Typed, Brought, LocalIsClosed, Graphs, Snapshots, ReachAll, TreesOf
    <3>5. Walked'
      BY <2>0, <3>1, <3>3 DEF Walked
    <3> QED
      BY <3>4, <3>5
  <2>7. ASSUME NEW c \in Commits, ImportPack(c) PROVE Closes'
    <3> DEFINE b == bases[c]
    <3>1. b \subseteq commits /\ c \in DOMAIN bases /\ b \subseteq Commits
      BY <2>7, BasesAtHand
    <3>2. /\ UNCHANGED <<wants, graph, satisfied>> /\ stage' = [stage EXCEPT ![c] = "packed"]
          /\ commits' = commits \union (Reach(c) \ ReachAll(b))
          /\ objects' = objects \union (TreesOf(Reach(c)) \ TreesOf(ReachAll(b)))
      BY <2>7 DEF ImportPack, Packed, PackedObjects
    <3> HIDE DEF b
    <3>3. ~Snapshots => ReachAll(b) \subseteq commits /\ TreesOf(ReachAll(b)) \subseteq objects
      BY <3>1 DEF LocalIsClosed, ReachAll, TreesOf
    <3>4. c \in commits'
      <4>1. CASE ~Snapshots
        BY <3>2, <3>3, <4>1, ReachIsClosed
      <4>2. CASE Snapshots
        <5>1. b \subseteq Ancestors[c]
          BY <1>0, <3>1, <4>2 DEF Sensible, b
        <5>2. c \notin ReachAll(b)
          BY <3>1, <5>1 DEF ReachAll, Reach
        <5> QED
          BY <3>2, <5>2, ReachIsClosed
      <4> QED
        BY <4>1, <4>2
    <3>5. Typed'
      BY <2>0, <3>2, ReachIsClosed DEF Typed, Graphs, Stages
    <3>6. Walked' /\ Brought'
      BY <2>0, <3>2, <3>4 DEF Walked, Brought, Typed
    <3>7. ASSUME ~Snapshots
          PROVE  ReachAll(commits') = commits' /\ TreesOf(commits') = objects'
      <4>1. commits' = commits \union Reach(c) /\ objects' = objects \union TreesOf(Reach(c))
        BY <3>2, <3>3, <3>7
      <4>2. ReachAll(commits) = commits /\ TreesOf(commits) = objects
        BY <3>7 DEF LocalIsClosed
      <4>3. ReachAll(commits') = ReachAll(commits) \union ReachAll(Reach(c))
        BY <4>1, ReachOfUnion
      <4>4. TreesOf(commits') = TreesOf(commits) \union TreesOf(Reach(c))
        BY <4>1, ReachOfUnion
      <4> QED
        BY <4>1, <4>2, <4>3, <4>4, ReachIsClosed
    <3>8. Snapshots' <=> Snapshots
      BY <2>0 DEF Snapshots
    <3>9. LocalIsClosed'
      BY <3>7, <3>8 DEF LocalIsClosed, ReachAll, TreesOf
    <3> QED
      BY <3>5, <3>6, <3>9
  <2>8. ASSUME NEW c \in Commits, ImportLFS(c) PROVE Closes'
    <3>1. /\ UNCHANGED <<commits, objects, wants, graph, satisfied>> /\ stage[c] = "packed"
          /\ stage' = [stage EXCEPT ![c] = "done"]
      BY <2>8 DEF ImportLFS
    <3>2. Typed' /\ Brought'
      BY <2>0, <3>1 DEF Typed, Brought, Graphs, Stages
    <3> QED
      BY <2>0, <3>1, <3>2 DEF Walked, LocalIsClosed, Snapshots, ReachAll, TreesOf
  <2> QED
    BY <1>2, <2>2, <2>3, <2>4, <2>5, <2>6, <2>7, <2>8 DEF Next, Step
<1> QED
  BY <1>1, <1>2
-----------------------------------------------------------------------------
\* Without snapshots what is at hand is whole, commits and trees, for any registry and
\* however the fetches before ended: a packfile adds just what its bases leave out.
THEOREM LocalStaysClosed == Spec => []LocalIsClosed
<1>1. Closes => LocalIsClosed
  BY DEF Closes
<1> QED
  BY <1>1, ClosesInit, ClosesStep, PTL DEF Spec

\* No packfile is imported before what it was cut against is at hand.
THEOREM BasesComeFirst == Spec => ImportsAfterBases
<1>1. Closes => \A c \in Commits : ImportPack(c) => bases[c] \subseteq commits
  BY BasesAtHand DEF Closes
<1>2. Closes /\ [Next]_vars => Closes'
  BY ClosesStep
<1> QED
  BY <1>1, <1>2, ClosesInit, PTL DEF Spec, ImportsAfterBases
\* What is missing behind a commit at hand is missing behind a shallow one, or behind a
\* snapshot whose commit becomes shallow when the tips have theirs.
Marked(a) == \E b \in shallow : a \in Ancestors[b]
Pending(a) == pc = "begin" /\ SnapshotsFound /\ \E b \in wants \intersect commits : a \in Ancestors[b]
Gaps == ~Faults =>
  \A c \in commits : \A a \in Ancestors[c] \ commits : Marked(a) \/ Pending(a)

LEMMA GapsInit == Init => Gaps
BY DEF Init, Gaps

LEMMA GapsStep ==
  ASSUME Closes, Gaps, [Next]_vars
  PROVE  Gaps'
<1> USE DEF Gaps
<1>1. CASE UNCHANGED vars
  BY <1>1 DEF vars, registry, local, walk, Faults, Snapshots, SnapshotsFound, Marked, Pending
<1>2. CASE Next
  <2>0. /\ setting' = setting /\ bases' = bases /\ wants \subseteq Commits /\ commits \subseteq Commits
        /\ Faults' = Faults /\ Snapshots' = Snapshots
    BY <1>2 DEF Next, Step, Begin, TakeSnapshot, SnapshotsTaken, BeginWalk, SkipLocal, Resolve,
         NotServed, NextLevel, Order, ImportPack, ImportLFS, Finish, TransferFails, registry,
         Faults, Snapshots, Closes, Typed
  <2> SUFFICES ASSUME ~Faults,
                      NEW x \in commits', NEW a \in Ancestors[x], a \notin commits'
               PROVE  (Marked(a) \/ Pending(a))'
    BY <2>0
  <2>1. ASSUME pc # "begin", commits' = commits, shallow \subseteq shallow'
        PROVE  Marked(a)'
    BY <2>1 DEF Marked, Pending
  <2>2. ASSUME NEW S \in Wants, NEW d1 \in BOOLEAN, Begin(S, d1) PROVE Marked(a)'
    BY <2>1, <2>2 DEF Begin, local
  <2>3. ASSUME NEW c \in Commits, TakeSnapshot(c) PROVE (Marked(a) \/ Pending(a))'
    <3>1. /\ pc = "begin" /\ SnapshotsFound /\ c \in wants /\ commits' = commits \union {c}
          /\ UNCHANGED <<shallow, pc, wants, depth1>>
      BY <2>3 DEF TakeSnapshot
    <3>2. pc' = "begin" /\ SnapshotsFound'
      BY <2>0, <3>1 DEF SnapshotsFound
    <3>3. CASE x = c
      BY <3>1, <3>2, <3>3 DEF Pending
    <3>4. CASE x \in commits
      BY <3>1, <3>2, <3>4 DEF Marked, Pending
    <3> QED
      BY <3>1, <3>3, <3>4
  <2>4. CASE SnapshotsTaken
    <3>1. commits' = commits /\ shallow' = shallow \union Boundary(wants)
      BY <2>4 DEF SnapshotsTaken
    <3>2. Marked(a) \/ Pending(a)
      BY <3>1
    <3> QED
      BY <3>1, <3>2 DEF Marked, Pending, Boundary
  <2>5. CASE BeginWalk
    BY <2>5 DEF BeginWalk, local, Marked, Pending
  <2>6. CASE NextLevel \/ Order \/ Finish
    BY <2>1, <2>6 DEF NextLevel, LevelDone, Walking, Order, Finish, local
  <2>7. ASSUME NEW c \in Commits, SkipLocal(c) \/ Resolve(c) \/ NotServed(c) \/ ImportLFS(c)
        PROVE  Marked(a)'
    BY <2>1, <2>7 DEF SkipLocal, Resolve, NotServed, ImportLFS, Walking, local
  <2>8. ASSUME NEW c \in Commits, ImportPack(c) PROVE Marked(a)'
    <3>1. /\ pc = "import" /\ shallow' = shallow
          /\ commits' = commits \union (Reach(c) \ ReachAll(bases[c]))
      BY <2>8 DEF ImportPack, Packed
    <3>2. bases[c] \subseteq commits
      BY <2>8, BasesAtHand DEF Closes
    <3>3. PICK y \in commits : a \in Ancestors[y]
      <4>1. CASE x \in commits
        BY <4>1
      <4>2. CASE x \in Reach(c)
        <5>1. a \in Reach(c)
          BY <4>2 DEF Reach
        <5>2. PICK y \in bases[c] : a \in Reach(y)
          BY <3>1, <5>1 DEF ReachAll
        <5> QED
          BY <3>1, <3>2, <5>2 DEF Reach
      <4> QED
        BY <3>1, <4>1, <4>2
    <3>4. Marked(a)
      BY <3>1, <3>3 DEF Pending
    <3> QED
      BY <3>1, <3>4 DEF Marked
  <2>9. ~TransferFails
    BY DEF TransferFails
  <2> QED
    BY <1>2, <2>2, <2>3, <2>4, <2>5, <2>6, <2>7, <2>8, <2>9 DEF Next, Step
<1> QED
  BY <1>1, <1>2

\* Where no transfer fails, a walk that stops at what is local leaves no gap but one that
\* is recorded, snapshots or not, and whatever the chain says.
THEOREM GapsAreRecorded == Spec => []GapsAreShallow
<1>1. Gaps => GapsAreShallow
  BY DEF Gaps, GapsAreShallow, Marked, Pending
<1>2. Closes /\ Gaps /\ [Next]_vars => Closes' /\ Gaps'
  BY ClosesStep, GapsStep
<1> QED
  BY <1>1, <1>2, ClosesInit, GapsInit, PTL DEF Spec
-----------------------------------------------------------------------------
\* Whatever git asked for is in the walk; what the walk is through with is at hand or
\* resolved, and what it resolved is imported before the fetch succeeds.
Asked ==
  /\ pc \in {"resolve", "import"} => wants \subseteq seen
  /\ pc = "resolve" => frontier \subseteq seen /\ seen \ frontier \subseteq satisfied \union DOMAIN graph
  /\ pc = "import" => seen \subseteq satisfied \union DOMAIN graph
  /\ pc = "ok" => wants \subseteq commits

LEMMA AskedInit == Init => Asked
BY DEF Init, Asked

LEMMA AskedStep == ASSUME Closes, Asked, [Next]_vars PROVE Asked'
<1> USE DEF Asked
<1>1. CASE UNCHANGED vars
  BY <1>1 DEF vars, registry, local, walk
<1>2. ASSUME NEW S \in Wants, NEW d1 \in BOOLEAN, Begin(S, d1) PROVE Asked'
  BY <1>2 DEF Begin
<1>3. ASSUME NEW c \in Commits, TakeSnapshot(c) PROVE Asked'
  BY <1>3 DEF TakeSnapshot
<1>4. CASE SnapshotsTaken
  BY <1>4 DEF SnapshotsTaken
<1>5. CASE BeginWalk
  <2>1. wants \subseteq Hints(wants)
    BY DEF Hints, Closes, Typed
  <2> QED
    BY <1>5, <2>1 DEF BeginWalk, Fails
<1>6. ASSUME NEW c \in Commits, SkipLocal(c) \/ NotServed(c) PROVE Asked'
  BY <1>6 DEF SkipLocal, NotServed, Walking, Fails, local, walk
<1>7. ASSUME NEW c \in Commits, Resolve(c) PROVE Asked'
  <2>1. DOMAIN graph' = DOMAIN graph \union {c}
    BY <1>7 DEF Resolve
  <2> QED
    BY <1>7, <2>1 DEF Resolve, Walking, local
<1>8. CASE NextLevel
  <2>1. pc = "resolve" /\ seen \subseteq satisfied \union DOMAIN graph
    BY <1>8 DEF NextLevel, LevelDone, Walking
  <2> QED
    BY <1>8, <2>1 DEF NextLevel, Fails, Unseen, local
<1>9. CASE Order
  <2>1. pc = "resolve" /\ seen \subseteq satisfied \union DOMAIN graph
    BY <1>9 DEF Order, LevelDone, Walking
  <2> QED
    BY <1>9, <2>1 DEF Order, Fails, local, walk
<1>10. ASSUME NEW c \in Commits, ImportPack(c) \/ ImportLFS(c) PROVE Asked'
  BY <1>10 DEF ImportPack, ImportLFS
<1>11. CASE Finish
  <2>1. Imported = DOMAIN graph /\ pc = "import" /\ pc' = "ok" /\ UNCHANGED <<commits, wants>>
    BY <1>11 DEF Finish
  <2>2. DOMAIN graph \subseteq Commits
    BY SettingIsOne DEF Closes, Walked, Partial
  <2>3. DOMAIN graph \subseteq commits /\ satisfied \subseteq commits
    BY <2>1, <2>2 DEF Closes, Walked, Brought, Imported
  <2> QED
    BY <2>1, <2>3
<1>12. CASE TransferFails
  BY <1>12 DEF TransferFails, Fails
<1> QED
  BY <1>1, <1>2, <1>3, <1>4, <1>5, <1>6, <1>7, <1>8, <1>9, <1>10, <1>11, <1>12 DEF Next, Step

\* A fetch that succeeds leaves all it was asked for, and the whole of it unless tips carry
\* snapshots, after any number of fetches that failed anywhere.
THEOREM WhatWasAskedForIsThere == Spec => []FetchedIsWhole
<1>1. Init => Closes /\ Asked
  BY ClosesInit, AskedInit
<1>2. Closes /\ Asked /\ [Next]_vars => (Closes /\ Asked)'
  BY ClosesStep, AskedStep
<1>3. Closes /\ Asked => FetchedIsWhole
  BY DEF Closes, Asked, LocalIsClosed, FetchedIsWhole, ReachAll, TreesOf
<1> QED
  BY <1>1, <1>2, <1>3, PTL DEF Spec

\* What the walk keeps to: it looks at what it has queued, and it never queues more than it may.
\* The trees of an imported packfile are at hand before the LFS objects they point at.
InBounds ==
  /\ shallow \subseteq commits
  /\ objects \subseteq Objects /\ lfs \subseteq Pointers \intersect objects
  /\ chain \in Chains /\ fetches \in 0 .. MaxFetches /\ depth1 \in BOOLEAN
  /\ pc \in {"idle", "begin", "resolve", "import", "ok", "failed"}
  /\ frontier \subseteq seen /\ seen \subseteq Commits
  /\ DOMAIN graph \subseteq seen /\ satisfied \subseteq seen
  /\ graph = [c \in DOMAIN graph |-> graph[c]]
  /\ pc = "begin" => DOMAIN graph = {} /\ satisfied = {}
  /\ pc = "resolve" => ~TooMany(seen)
  /\ \A c \in Commits : stage[c] # "none" => PackedObjects(c, bases[c]) \subseteq objects

LEMMA InBoundsInit == Init => InBounds
<1> SUFFICES ASSUME Init PROVE InBounds
  OBVIOUS
<1>1. MaxFetches \in Nat
  <2>1. Settings[setting] \in Range(Settings)
    BY DEF Init, Range
  <2> QED
    BY <2>1, SettingsAssumption DEF MaxFetches
<1> QED
  <2>1. \A c \in Commits : stage[c] = "none"
    BY DEF Init
  <2>2. graph = [c \in DOMAIN graph |-> graph[c]] /\ DOMAIN graph = {}
    BY DEF Init
  <2>3. fetches \in 0 .. MaxFetches
    BY <1>1 DEF Init
  <2> QED
    BY <2>1, <2>2, <2>3 DEF Init, InBounds

LEMMA InBoundsStep == ASSUME Closes, Asked, InBounds, [Next]_vars PROVE InBounds'
<1> USE DEF InBounds
<1>0. MaxFetches \in Nat /\ MaxFetches' = MaxFetches /\ bases' = bases /\ chain' = chain
      /\ (MaxNodes' = MaxNodes)
  <2>1. Settings[setting] \in Range(Settings)
    BY DEF Range, Closes, Typed
  <2>2. UNCHANGED <<setting, bases, chain>>
    BY DEF Next, Step, Begin, TakeSnapshot, SnapshotsTaken, BeginWalk, SkipLocal, Resolve,
         NotServed, NextLevel, Order, ImportPack, ImportLFS, Finish, TransferFails, registry, vars
  <2> QED
    BY <2>1, <2>2, SettingsAssumption DEF MaxFetches, MaxNodes
<1>1. CASE UNCHANGED vars
  BY <1>0, <1>1 DEF vars, registry, local, walk, PackedObjects, TooMany
<1>2. ASSUME NEW S \in Wants, NEW d1 \in BOOLEAN, Begin(S, d1) PROVE InBounds'
  BY <1>0, <1>2 DEF Begin, local
<1>3. ASSUME NEW c \in Commits, TakeSnapshot(c) PROVE InBounds'
  BY <1>0, <1>3 DEF TakeSnapshot, walk, PackedObjects
<1>4. CASE SnapshotsTaken
  BY <1>0, <1>4 DEF SnapshotsTaken, Boundary, walk, PackedObjects
<1>5. CASE BeginWalk
  <2>1. Hints(wants) \subseteq Commits
    BY DEF Hints
  <2>2. pc' \in {"resolve", "failed"} /\ (pc' = "resolve" => ~TooMany(seen)')
    BY <1>0, <1>5 DEF BeginWalk, Fails, TooMany
  <2>3. UNCHANGED <<local, depth1, graph, satisfied, stage, fetches, wants>> /\ seen' \subseteq Commits
        /\ frontier' = seen'
    BY <1>5, <2>1 DEF BeginWalk
  <2>4. DOMAIN graph = {} /\ satisfied = {}
    BY <1>5 DEF BeginWalk
  <2> QED
    BY <1>0, <2>2, <2>3, <2>4 DEF local, PackedObjects
<1>6. ASSUME NEW c \in Commits, SkipLocal(c) \/ NotServed(c) PROVE InBounds'
  BY <1>0, <1>6 DEF SkipLocal, NotServed, Walking, Fails, local, walk, PackedObjects, TooMany
<1>7. ASSUME NEW c \in Commits, Resolve(c) PROVE InBounds'
  <2>1. DOMAIN graph' = DOMAIN graph \union {c} /\ graph' = [b \in DOMAIN graph' |-> graph'[b]]
    BY <1>7 DEF Resolve
  <2> QED
    BY <1>0, <1>7, <2>1 DEF Resolve, Walking, local, PackedObjects, TooMany
<1>8. CASE NextLevel
  <2>1. Behind \subseteq Commits
    BY SettingIsOne DEF Behind, Closes, Walked, Partial
  <2>2. frontier' \subseteq seen' /\ seen' \subseteq Commits /\ seen \subseteq seen'
    BY <1>8, <2>1 DEF NextLevel, Unseen
  <2>3. pc' \in {"resolve", "failed"} /\ (pc' = "resolve" => ~TooMany(seen)')
    BY <1>0, <1>8 DEF NextLevel, LevelDone, Walking, Fails, TooMany
  <2> QED
    BY <1>0, <1>8, <2>1, <2>2, <2>3 DEF NextLevel, local, PackedObjects
<1>9. CASE Order
  BY <1>0, <1>9 DEF Order, LevelDone, Walking, Fails, local, walk, PackedObjects
<1>10. ASSUME NEW c \in Commits, ImportPack(c) PROVE InBounds'
  <2>1. PackedObjects(c, bases[c]) \subseteq Objects
    BY ReachIsClosed DEF PackedObjects, TreesOf
  <2>2. objects \subseteq objects'
    BY <1>10 DEF ImportPack
  <2> QED
    BY <1>0, <1>10, <2>1, <2>2 DEF ImportPack, PackedObjects
<1>11. ASSUME NEW c \in Commits, ImportLFS(c) PROVE InBounds'
  BY <1>0, <1>11 DEF ImportLFS, PackedObjects, Closes, Typed
<1>12. CASE Finish
  <2>1. wants \subseteq commits
    BY <1>12, AskedStep DEF Finish, Asked
  <2> QED
    BY <1>0, <1>12, <2>1 DEF Finish, Boundary, walk, PackedObjects
<1>13. CASE TransferFails
  BY <1>0, <1>13 DEF TransferFails, Fails, local, walk, PackedObjects
<1> QED
  BY <1>1, <1>2, <1>3, <1>4, <1>5, <1>6, <1>7, <1>8, <1>9, <1>10, <1>11, <1>12, <1>13 DEF Next, Step

\* Every state of the repository and of a walk is well-typed: Fetch.  The walk is at no more
\* commits than maxPackGraphNodes, it stays in what it has queued, and only commits at hand are
\* recorded as shallow.
THEOREM FetchTypes ==
  ASSUME IsFiniteSet(Commits)
  PROVE  Spec => []TypeOK
<1>1. Init => Closes /\ Asked /\ InBounds
  BY ClosesInit, AskedInit, InBoundsInit
<1>2. Closes /\ Asked /\ InBounds /\ [Next]_vars => (Closes /\ Asked /\ InBounds)'
  BY ClosesStep, AskedStep, InBoundsStep
<1>3. Closes /\ Asked /\ InBounds => TypeOK
  <2> SUFFICES ASSUME Closes, Asked, InBounds PROVE TypeOK
    OBVIOUS
  <2>1. Partial(graph, seen, SUBSET Commits)
    <3>1. \A c \in DOMAIN graph : graph[c] \in SUBSET Commits
      BY SettingIsOne DEF Closes, Walked, Partial
    <3> QED
      BY <3>1 DEF InBounds, Partial
  <2>2. pc = "resolve" => Cardinality(seen) <= MaxNodes
    <3>1. seen \subseteq Commits
      BY DEF InBounds
    <3>2. Cardinality(seen) \in Nat
      BY <3>1, FS_Subset, FS_CardinalityType
    <3>3. MaxNodes \in Nat
      <4>1. Settings[setting] \in Range(Settings)
        BY DEF Closes, Typed, Range
      <4> QED
        BY <4>1, SettingsAssumption DEF MaxNodes
    <3> QED
      BY <3>2, <3>3 DEF InBounds, TooMany
  <2>3. satisfied \subseteq seen \intersect commits
    BY DEF Closes, Walked, InBounds
  <2>4. /\ setting \in DOMAIN Settings /\ bases \in Graphs /\ commits \subseteq Commits
        /\ wants \subseteq Commits /\ stage \in [Commits -> {"none", "packed", "done"}]
    BY DEF Closes, Typed, Stages
  <2> QED
    BY <2>1, <2>2, <2>3, <2>4 DEF InBounds, TypeOK
<1> QED
  BY <1>1, <1>2, <1>3, PTL DEF Spec
-----------------------------------------------------------------------------
(***************************************************************************)
(* Hydration.  The walk ends when whatever it came to has been resolved    *)
(* and names nothing new; every packfile of it is imported.  A commit the  *)
(* tips reach is then in one of them: going down the bases, it is in the   *)
(* packfile of a commit that reaches it while none of its bases does.      *)
(***************************************************************************)
InLevels(c) == \E i \in DOMAIN levels : c \in levels[i]
HasIts(c) == Packed(c, bases[c]) \subseteq store

HydrateInv ==
  /\ bases \in HydrateGraphs /\ chain \in HydrateChains
  /\ levels \in Seq(SUBSET Commits)
  /\ tips \subseteq seen /\ seen \subseteq Commits /\ behind \subseteq Commits
  /\ pc = "walk" =>
       /\ \A c \in seen : InLevels(c) \/ c \in behind
       /\ \A c \in seen : c \in frontier \/ c \in behind \/ bases[c] \subseteq seen
       /\ \A c \in seen : c \in frontier \/ c \in behind \/ c \in DOMAIN bases
  /\ pc \in {"import", "done"} =>
       /\ \A c \in seen : c \in DOMAIN bases /\ bases[c] \subseteq seen
       /\ \A c \in seen : InLevels(c) \/ HasIts(c)
  /\ pc = "done" => levels = <<>>

\* The two walks read the same graph.
LEMMA SameGraph ==
  /\ \A S : H!ReachAll(S) = ReachAll(S)
  /\ \A c, b : H!Packed(c, b) = Packed(c, b)
BY DEF H!ReachAll, ReachAll, H!Reach, Reach, H!Packed, Packed

LEMMA HydrateInit == H!Init => HydrateInv
<1> SUFFICES ASSUME H!Init PROVE HydrateInv
  OBVIOUS
<1>1. tips \in HydrateTips /\ tips \subseteq Commits
  BY HydrateAssumption DEF H!Init
<1>2. levels \in Seq(SUBSET Commits) /\ \A c \in seen : InLevels(c)
  BY <1>1 DEF H!Init, InLevels
<1> QED
  BY <1>1, <1>2 DEF H!Init, HydrateInv

LEMMA HydrateGoesOn == ASSUME HydrateInv, [H!Next]_H!vars PROVE HydrateInv'
<1>0. /\ \A c \in DOMAIN bases : bases[c] \subseteq Commits
      /\ \A c \in DOMAIN chain : chain[c] \subseteq Commits
  BY HydrateAssumption DEF Partial, HydrateInv
<1>1. CASE UNCHANGED H!vars
  BY <1>1 DEF HydrateInv, H!vars, H!registry, InLevels, HasIts
<1>2. ASSUME NEW c \in Commits, H!Resolve(c) PROVE HydrateInv'
  <2>1. /\ pc = "walk" /\ c \in DOMAIN bases
        /\ UNCHANGED <<bases, chain, tips, pc, levels, store>>
        /\ frontier' = frontier \ {c} /\ seen' = seen \union H!NamedBy(c)
        /\ behind' = behind \union (H!NamedBy(c) \ seen)
    BY <1>2 DEF H!Resolve, H!ServedAs, H!registry, H!New
  <2>2. bases[c] \subseteq H!NamedBy(c) /\ H!NamedBy(c) \subseteq Commits
    BY <1>0, <2>1 DEF H!NamedBy, H!Hints
  <2> HIDE DEF H!NamedBy
  <2>3. \A d : InLevels(d)' <=> InLevels(d)
    BY <2>1 DEF InLevels
  <2> QED
    BY <2>1, <2>2, <2>3 DEF HydrateInv
<1>3. ASSUME NEW c \in Commits, H!NotServed(c) PROVE HydrateInv'
  BY <1>3 DEF HydrateInv, H!NotServed, H!registry
<1>4. CASE H!NextLevel
  <2>1. /\ pc = "walk" /\ frontier = {} /\ UNCHANGED <<bases, chain, tips, seen, store>>
        /\ behind' = {}
    BY <1>4 DEF H!NextLevel, H!registry
  <2>2. CASE behind = {}
    <3>1. pc' = "import" /\ UNCHANGED <<levels, frontier>>
      BY <1>4, <2>2 DEF H!NextLevel
    <3> QED
      BY <2>1, <2>2, <3>1 DEF HydrateInv, InLevels
  <2>3. CASE behind # {}
    <3>1. pc' = pc /\ levels' = Append(levels, behind) /\ frontier' = behind
      BY <1>4, <2>3 DEF H!NextLevel
    <3>2. levels \in Seq(SUBSET Commits) /\ levels' \in Seq(SUBSET Commits)
      BY <3>1 DEF HydrateInv
    <3>3. \A c : InLevels(c) \/ c \in behind => InLevels(c)'
      <4>1. /\ Len(levels) \in Nat /\ DOMAIN levels = 1 .. Len(levels)
            /\ DOMAIN levels' = 1 .. Len(levels) + 1
            /\ levels'[Len(levels) + 1] = behind
            /\ \A i \in DOMAIN levels : levels'[i] = levels[i]
        BY <3>1, <3>2
      <4> QED
        BY <4>1 DEF InLevels
    <3> QED
      BY <2>1, <3>1, <3>2, <3>3 DEF HydrateInv
  <2> QED
    BY <2>2, <2>3
<1>5. ASSUME NEW c \in Commits, H!Import(c) PROVE HydrateInv'
  <2>1. /\ pc = "import" /\ UNCHANGED <<bases, chain, tips, pc, behind, seen>>
        /\ store' = store \union Packed(c, bases[c])
    BY <1>5, SameGraph DEF H!Import, H!registry
  <2>2. levels # <<>> /\ levels' = [levels EXCEPT ![Len(levels)] = levels[Len(levels)] \ {c}]
    BY <1>5 DEF H!Import
  <2>3. /\ levels \in Seq(SUBSET Commits) /\ levels' \in Seq(SUBSET Commits)
        /\ DOMAIN levels' = DOMAIN levels
    BY <2>2 DEF HydrateInv
  <2>4. \A d : InLevels(d) => InLevels(d)' \/ d = c
    BY <2>2, <2>3 DEF InLevels
  <2>5. HasIts(c)' /\ \A d : HasIts(d) => HasIts(d)'
    BY <2>1 DEF HasIts
  <2> QED
    BY <2>1, <2>3, <2>4, <2>5 DEF HydrateInv
<1>6. CASE H!LevelImported
  <2>1. pc = "import" /\ UNCHANGED <<bases, chain, tips, behind, seen, store>>
    BY <1>6 DEF H!LevelImported, H!registry
  <2>2. CASE levels = <<>>
    BY <1>6, <2>1, <2>2 DEF H!LevelImported, HydrateInv, InLevels, HasIts
  <2>3. CASE levels # <<>>
    <3>1. /\ levels[Len(levels)] = {} /\ pc' = pc
          /\ levels' = SubSeq(levels, 1, Len(levels) - 1)
      BY <1>6, <2>3 DEF H!LevelImported
    <3>2. /\ levels' \in Seq(SUBSET Commits)
          /\ DOMAIN levels = 1 .. Len(levels) /\ DOMAIN levels' = 1 .. Len(levels) - 1
          /\ Len(levels) \in Nat \ {0}
          /\ \A i \in DOMAIN levels' : levels'[i] = levels[i]
      BY <2>3, <3>1 DEF HydrateInv
    <3>3. ASSUME NEW c, NEW i \in DOMAIN levels, c \in levels[i] PROVE InLevels(c)'
      <4>1. i # Len(levels)
        BY <3>1, <3>3
      <4>2. i \in DOMAIN levels'
        BY <3>2, <4>1
      <4> QED
        BY <3>2, <3>3, <4>2 DEF InLevels
    <3>4. \A c : InLevels(c) => InLevels(c)'
      BY <3>3 DEF InLevels
    <3> QED
      BY <2>1, <3>1, <3>2, <3>4 DEF HydrateInv, HasIts
  <2> QED
    BY <2>2, <2>3
<1> QED
  BY <1>1, <1>2, <1>3, <1>4, <1>5, <1>6 DEF H!Next

\* Some commit of a nonempty set has no other of the set behind it: histories are finite.
LEMMA EarliestCommit ==
  ASSUME NEW T \in SUBSET Commits, T # {}
  PROVE  \E c \in T : \A b \in T : b \notin Ancestors[c]
<1> DEFINE Histories == {Ancestors[c] : c \in T}
           Smaller == StrictSubsetOrdering(Commits)
<1>1. Histories # {} /\ Histories \subseteq FiniteSubsetsOf(Commits)
  BY FiniteHistory DEF FiniteSubsetsOf
<1>2. IsWellFoundedOn(Smaller, FiniteSubsetsOf(Commits))
  BY FS_StrictSubsetOrderingWellFounded
<1> HIDE DEF Histories, Smaller
<1>3. PICK h \in Histories : \A g \in Histories : ~(<<g, h>> \in Smaller)
  BY <1>1, <1>2, WFMin
<1>4. PICK c \in T : h = Ancestors[c]
  BY DEF Histories
<1>5. ASSUME NEW b \in T, b \in Ancestors[c] PROVE FALSE
  <2>1. Ancestors[b] \subseteq Ancestors[c] /\ Ancestors[b] # Ancestors[c]
    BY <1>5
  <2>2. <<Ancestors[b], Ancestors[c]>> \in Smaller
    BY <2>1 DEF Smaller, StrictSubsetOrdering
  <2> QED
    BY <1>3, <1>4, <2>2 DEF Histories
<1> QED
  BY <1>5

LEMMA HydratedHasAll == HydrateInv => H!HydratedIsWhole
<1> SUFFICES ASSUME HydrateInv, pc = "done", H!Sensible, NEW t \in tips, NEW x \in Reach(t)
             PROVE  x \in store
  BY SameGraph DEF H!HydratedIsWhole, ReachAll
<1>1. /\ seen \subseteq Commits /\ t \in seen
      /\ \A c \in seen : c \in DOMAIN bases /\ bases[c] \subseteq seen /\ HasIts(c)
  BY DEF HydrateInv, InLevels
<1> DEFINE T == {c \in seen : x \in Reach(c)}
<1>2. PICK c \in T : \A b \in T : b \notin Ancestors[c]
  <2>1. T \in SUBSET Commits /\ T # {}
    BY <1>1
  <2> QED
    BY <2>1, EarliestCommit
<1>3. bases[c] \subseteq Ancestors[c] /\ bases[c] \subseteq seen
  BY <1>1 DEF H!Sensible
<1>4. x \notin ReachAll(bases[c])
  BY <1>2, <1>3 DEF ReachAll
<1> QED
  BY <1>1, <1>4 DEF HasIts, Packed

\* What a compaction repacks is the whole history of every tip, for any registry whose
\* packfiles were cut against history, and whatever its chain hints at.
THEOREM WhatIsRepackedIsWhole == ReadersSpec => []HydratedIsWhole
<1> DEFINE Hydrating == reader = "hydrate" => HydrateInv
<1>1. InitFetch \/ InitHydrate => Hydrating
  BY HydrateInit DEF InitFetch, InitHydrate
<1>2. Hydrating /\ [FetchStep \/ HydrateStep]_allVars => Hydrating'
  <2> SUFFICES ASSUME Hydrating, [FetchStep \/ HydrateStep]_allVars, reader' = "hydrate"
               PROVE  HydrateInv'
    OBVIOUS
  <2>1. HydrateInv
    BY DEF FetchStep, HydrateStep, allVars
  <2>2. [H!Next]_H!vars
    BY DEF FetchStep, HydrateStep, allVars, vars, registry, walk, hydration, H!vars, H!registry
  <2> QED
    BY <2>1, <2>2, HydrateGoesOn
<1>3. Hydrating => HydratedIsWhole
  BY HydratedHasAll DEF HydratedIsWhole
<1> QED
  BY <1>1, <1>2, <1>3, PTL DEF ReadersSpec
-----------------------------------------------------------------------------
\* No commit is in two levels of a walk: what is behind a level is what no level has.
Apart ==
  /\ pc \in {"walk", "import", "done", "failed"}
  /\ tips \in HydrateTips /\ tagged \subseteq tips /\ store \subseteq Commits
  /\ frontier \subseteq seen /\ behind \subseteq seen
  /\ pc = "walk" =>
       /\ \A i \in DOMAIN levels : levels[i] \subseteq seen /\ levels[i] \intersect behind = {}
       /\ \A i, j \in DOMAIN levels : i < j => levels[i] \intersect levels[j] = {}

LEMMA ApartInit == H!Init => Apart
BY HydrateAssumption DEF H!Init, Apart

LEMMA ApartStep == ASSUME HydrateInv, Apart, [H!Next]_H!vars PROVE Apart'
<1> USE DEF Apart
<1>1. CASE UNCHANGED H!vars
  BY <1>1 DEF H!vars, H!registry
<1>2. ASSUME NEW c \in Commits, H!Resolve(c) PROVE Apart'
  BY <1>2 DEF H!Resolve, H!New, H!registry
<1>3. ASSUME NEW c \in Commits, H!NotServed(c) PROVE Apart'
  BY <1>3 DEF H!NotServed, H!registry
<1>4. CASE H!NextLevel
  <2>1. pc = "walk" /\ behind' = {} /\ UNCHANGED <<tips, tagged, seen, store>>
    BY <1>4 DEF H!NextLevel, H!registry
  <2>2. CASE behind = {}
    BY <1>4, <2>1, <2>2 DEF H!NextLevel
  <2>3. CASE behind # {}
    <3>1. pc' = pc /\ levels' = Append(levels, behind) /\ frontier' = behind
      BY <1>4, <2>3 DEF H!NextLevel
    <3>2. /\ Len(levels) \in Nat /\ DOMAIN levels = 1 .. Len(levels)
          /\ DOMAIN levels' = 1 .. Len(levels) + 1
          /\ levels'[Len(levels) + 1] = behind
          /\ \A i \in DOMAIN levels : levels'[i] = levels[i]
      BY <3>1 DEF HydrateInv
    <3>3. \A i \in DOMAIN levels' : levels'[i] \subseteq seen
      BY <2>1, <3>2
    <3>4. ASSUME NEW i \in DOMAIN levels', NEW j \in DOMAIN levels', i < j
          PROVE  levels'[i] \intersect levels'[j] = {}
      <4>1. i \in DOMAIN levels /\ (j \in DOMAIN levels \/ j = Len(levels) + 1)
        BY <3>2, <3>4
      <4> QED
        BY <2>1, <3>2, <3>4, <4>1
    <3> QED
      BY <2>1, <3>1, <3>3, <3>4
  <2> QED
    BY <2>2, <2>3
<1>5. ASSUME NEW c \in Commits, H!Import(c) PROVE Apart'
  <2>1. pc = "import" /\ UNCHANGED <<tips, tagged, pc, frontier, behind, seen>>
    BY <1>5 DEF H!Import, H!registry
  <2>2. store' \subseteq Commits
    BY <1>5, SameGraph, ReachIsClosed DEF H!Import, Packed
  <2> QED
    BY <2>1, <2>2
<1>6. CASE H!LevelImported
  BY <1>6 DEF H!LevelImported, H!registry
<1> QED
  BY <1>1, <1>2, <1>3, <1>4, <1>5, <1>6 DEF H!Next

\* Every state of a hydration is well-typed: Hydrate.  No manifest is resolved twice, since no
\* commit is in two levels of the walk.
THEOREM HydrationTypes == ReadersSpec => [](reader = "hydrate" => H!TypeOK)
<1> DEFINE Hydrating == reader = "hydrate" => HydrateInv /\ Apart
<1>1. InitFetch \/ InitHydrate => Hydrating
  BY HydrateInit, ApartInit DEF InitFetch, InitHydrate
<1>2. Hydrating /\ [FetchStep \/ HydrateStep]_allVars => Hydrating'
  <2> SUFFICES ASSUME Hydrating, [FetchStep \/ HydrateStep]_allVars, reader' = "hydrate"
               PROVE  (HydrateInv /\ Apart)'
    OBVIOUS
  <2>1. reader = "hydrate" /\ [H!Next]_H!vars
    BY DEF FetchStep, HydrateStep, allVars, hydration, vars, registry, walk, H!vars, H!registry
  <2> QED
    BY <2>1, HydrateGoesOn, ApartStep
<1>3. Hydrating => (reader = "hydrate" => H!TypeOK)
  <2> SUFFICES ASSUME HydrateInv, Apart PROVE H!TypeOK
    OBVIOUS
  <2>1. \A i, j \in DOMAIN levels : i < j /\ pc = "walk" => levels[i] \intersect levels[j] = {}
    BY DEF Apart
  <2> QED
    BY <2>1 DEF HydrateInv, Apart, H!TypeOK
<1> QED
  BY <1>1, <1>2, <1>3, PTL DEF ReadersSpec
=============================================================================
