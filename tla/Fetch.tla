------------------------------- MODULE Fetch -------------------------------
(***************************************************************************)
(* The helper's fetch (handleFetchBatch, pkg/helper/helper.go): resolve    *)
(* the pack-base graph level by level, then import it bases first, into a  *)
(* repository that earlier fetches left behind, whole or not.              *)
(*                                                                         *)
(* The registry does not change while a fetch runs, and need not make      *)
(* sense: a base may be missing, or the graph a cycle.  A level's workers  *)
(* are one action each, in any order; a failure ends the fetch with what   *)
(* the others imported kept.  What the registry holds and what may fail is *)
(* a setting, chosen once for a behaviour.                                 *)
(***************************************************************************)
EXTENDS PackGraph, Naturals, FiniteSets, Functions

CONSTANTS
  Objects,
  Tree,       \* the objects of each commit's tree
  Pointers,   \* the objects that are Git LFS pointers
  Chains,     \* the pack chains the registry may publish
  Settings    \* the settings to choose from, numbered

ASSUME TreeAssumption == Tree \in [Commits -> SUBSET Objects] /\ Pointers \subseteq Objects

\* graphs: the registry's commit manifests, bases by commit.  wants: what git may ask for.
\* snapshots: do tips carry a snapshot layer?  nodes: maxPackGraphNodes.  fetches: bound
\* on the fetches in a behaviour.  faults: may a transfer fail?  A registry whose tips carry
\* snapshots holds what pushes put there: packs cut against history (Compaction).
ASSUME SettingsAssumption ==
  \A s \in Range(Settings) :
    /\ \A g \in s.graphs : Partial(g, Commits, SUBSET Commits)
    /\ s.wants \subseteq (SUBSET Commits) \ {{}}
    /\ s.nodes \in Nat /\ s.fetches \in Nat
    /\ s.snapshots \in BOOLEAN /\ s.faults \in BOOLEAN
    /\ s.snapshots => \A g \in s.graphs : \A c \in DOMAIN g : g[c] \subseteq Ancestors[c]
ASSUME ChainsAssumption == \A g \in Chains : Partial(g, Commits, SUBSET Commits)

VARIABLES
  setting,  \* the setting of this behaviour
  bases,    \* registry: the pack bases each commit manifest names
  chain,    \* registry: the published pack chain
  commits,  \* local: the commits in the object store
  objects,  \* local: the trees' objects
  lfs,      \* local: the LFS objects stored
  shallow,  \* local: $GIT_DIR/shallow
  pc,
  wants,    \* the commits git asked for
  depth1,   \* git asked for depth 1
  frontier, \* resolvePackGraph: the level being resolved
  seen,     \* every commit it has queued
  graph,    \* packGraph.bases: what it resolved
  satisfied,\* packGraph.satisfied
  stage,    \* how far the import of each commit is
  fetches   \* how many began (bound)

registry == <<bases, chain>>
local == <<commits, objects, lfs, shallow>>
walk == <<frontier, seen, graph, satisfied, stage>>
vars == <<setting, registry, local, pc, wants, depth1, walk, fetches>>

Graphs == Settings[setting].graphs
Wants == Settings[setting].wants
Snapshots == Settings[setting].snapshots
MaxNodes == Settings[setting].nodes
MaxFetches == Settings[setting].fetches
Faults == Settings[setting].faults

TypeOK ==
  /\ setting \in DOMAIN Settings
  /\ bases \in Graphs /\ chain \in Chains
  /\ commits \subseteq Commits /\ shallow \subseteq commits
  /\ objects \subseteq Objects /\ lfs \subseteq Pointers \intersect objects
  /\ pc \in {"idle", "begin", "resolve", "import", "ok", "failed"}
  /\ wants \subseteq Commits /\ depth1 \in BOOLEAN
  /\ frontier \subseteq seen /\ seen \subseteq Commits
  /\ Partial(graph, seen, SUBSET Commits)
  /\ satisfied \subseteq seen \intersect commits
  /\ stage \in [Commits -> {"none", "packed", "done"}]
  /\ pc = "resolve" => Cardinality(seen) <= MaxNodes
  /\ fetches \in 0 .. MaxFetches

Init ==
  /\ setting \in DOMAIN Settings
  /\ bases \in Graphs /\ chain \in Chains
  /\ commits = {} /\ objects = {} /\ lfs = {} /\ shallow = {}
  /\ pc = "idle" /\ wants = {} /\ depth1 = FALSE
  /\ frontier = {} /\ seen = {} /\ graph = <<>> /\ satisfied = {}
  /\ stage = [c \in Commits |-> "none"]
  /\ fetches = 0
-----------------------------------------------------------------------------
TreesOf(S) == UNION {Tree[c] : c \in S}

\* Mutants of the definitions below.
AnyOrder(g, done) == DOMAIN g \ done
AllOrdered(g) == DOMAIN g
BelievesChain(c) == IF c \in DOMAIN chain THEN chain[c] ELSE bases[c]
NotWritten(S) == {}

\* The tree objects in the packfile cut for c against b.
PackedObjects(c, b) == TreesOf(Reach(c)) \ TreesOf(ReachAll(b))

\* A registry manifest's pack-bases annotation.
Declared(c) == bases[c]

Unseen(S) == S \ seen
TooMany(S) == Cardinality(S) > MaxNodes

\* importOrder: the commits that may be imported once done are.
Ready(g, done) == {c \in DOMAIN g \ done : g[c] \ satisfied \subseteq done}

\* The commits in the first n levels of importOrder, and all that it gets to.
FirstLevels(g, n) ==
  LET D[i \in Nat] == IF i = 0 THEN {} ELSE D[i - 1] \union Ready(g, D[i - 1])
  IN  D[n]
Ordered(g) == FirstLevels(g, Cardinality(DOMAIN g))

\* What a walk that follows the chain never leaves: it does not look behind what is local.
FollowsChain(T) == \A c \in T \ commits : c \in DOMAIN chain => chain[c] \subseteq T

\* The chain's hints for S, and theirs.
Hints(S) == {c \in Commits : \A T \in SUBSET Commits : S \subseteq T /\ FollowsChain(T) => c \in T}

Imported == {c \in DOMAIN graph : stage[c] = "done"}

\* The level being imported: the levels before it are done.
InLevel(c) ==
  \E n \in 0 .. Cardinality(DOMAIN graph) :
    /\ FirstLevels(graph, n) \subseteq Imported
    /\ c \in Ready(graph, FirstLevels(graph, n))

\* ShallowBoundary at depth 1.
Boundary(S) == {c \in S : Ancestors[c] # {}}

Fails == pc' = "failed"
-----------------------------------------------------------------------------
\* git asks for some commits.
Begin(S, d1) ==
  /\ pc \in {"idle", "ok", "failed"}
  /\ fetches < MaxFetches
  /\ fetches' = fetches + 1
  /\ wants' = S /\ depth1' = d1
  /\ graph' = <<>> /\ satisfied' = {}
  /\ stage' = [c \in Commits |-> "none"]
  /\ frontier' = {} /\ seen' = {}
  /\ pc' = "begin"
  /\ UNCHANGED <<registry, local>>

SnapshotsFound == depth1 /\ Snapshots /\ wants \subseteq DOMAIN bases

\* fetchFromSnapshots: a depth-1 fetch takes every tip's snapshot, or none.
TakeSnapshot(c) ==
  /\ pc = "begin"
  /\ SnapshotsFound
  /\ c \in wants \ commits
  /\ commits' = commits \union {c}
  /\ objects' = objects \union Tree[c]
  /\ UNCHANGED <<registry, lfs, shallow, pc, wants, depth1, walk, fetches>>

SnapshotsTaken ==
  /\ pc = "begin"
  /\ SnapshotsFound
  /\ wants \subseteq commits
  /\ shallow' = shallow \union Boundary(wants)
  /\ pc' = "ok"
  /\ UNCHANGED <<registry, commits, objects, lfs, wants, depth1, walk, fetches>>

\* The chain's hints join the first level.
BeginWalk ==
  /\ pc = "begin"
  /\ ~SnapshotsFound
  /\ frontier' = Hints(wants) /\ seen' = Hints(wants)
  /\ IF TooMany(Hints(wants)) THEN Fails ELSE pc' = "resolve"
  /\ UNCHANGED <<registry, local, wants, depth1, graph, satisfied, stage, fetches>>

Walking == pc = "resolve"

\* A worker of the level: a commit at hand needs neither its pack nor its bases.
SkipLocal(c) ==
  /\ Walking
  /\ c \in frontier /\ c \notin satisfied /\ c \in commits
  /\ satisfied' = satisfied \union {c}
  /\ UNCHANGED <<registry, local, pc, wants, depth1, frontier, seen, graph, stage, fetches>>

Resolve(c) ==
  /\ Walking
  /\ c \in frontier \ DOMAIN graph /\ c \notin commits
  /\ c \in DOMAIN bases
  /\ graph' = [b \in DOMAIN graph \union {c} |-> IF b = c THEN Declared(c) ELSE graph[b]]
  /\ UNCHANGED <<registry, local, pc, wants, depth1, frontier, seen, satisfied, stage, fetches>>

NotServed(c) ==
  /\ Walking
  /\ c \in frontier /\ c \notin commits
  /\ c \notin DOMAIN bases
  /\ Fails
  /\ UNCHANGED <<registry, local, wants, depth1, walk, fetches>>

LevelDone == Walking /\ frontier \subseteq satisfied \union DOMAIN graph
Behind == UNION {graph[c] : c \in frontier \intersect DOMAIN graph}

NextLevel ==
  /\ LevelDone
  /\ Unseen(Behind) # {}
  /\ IF TooMany(seen \union Behind)
     THEN Fails /\ UNCHANGED <<frontier, seen>>
     ELSE frontier' = Unseen(Behind) /\ seen' = seen \union Behind /\ UNCHANGED pc
  /\ UNCHANGED <<registry, local, wants, depth1, graph, satisfied, stage, fetches>>

\* What cannot be ordered is a cycle.
Order ==
  /\ LevelDone
  /\ Unseen(Behind) = {}
  /\ IF Ordered(graph) = DOMAIN graph THEN pc' = "import" ELSE Fails
  /\ UNCHANGED <<registry, local, wants, depth1, walk, fetches>>
-----------------------------------------------------------------------------
\* importCommitArtifacts: the packfile, then the LFS layers beside it.
ImportPack(c) ==
  /\ pc = "import"
  /\ InLevel(c) /\ stage[c] = "none"
  /\ commits' = commits \union Packed(c, bases[c])
  /\ objects' = objects \union PackedObjects(c, bases[c])
  /\ stage' = [stage EXCEPT ![c] = "packed"]
  /\ UNCHANGED <<registry, lfs, shallow, pc, wants, depth1, frontier, seen, graph,
                 satisfied, fetches>>

ImportLFS(c) ==
  /\ pc = "import"
  /\ stage[c] = "packed"
  /\ lfs' = lfs \union (Pointers \intersect PackedObjects(c, bases[c]))
  /\ stage' = [stage EXCEPT ![c] = "done"]
  /\ UNCHANGED <<registry, commits, objects, shallow, pc, wants, depth1, frontier, seen,
                 graph, satisfied, fetches>>

\* recordShallowBoundary.
Finish ==
  /\ pc = "import"
  /\ Imported = DOMAIN graph
  /\ shallow' = IF depth1 THEN shallow \union Boundary(wants) ELSE shallow
  /\ pc' = "ok"
  /\ UNCHANGED <<registry, commits, objects, lfs, wants, depth1, walk, fetches>>

TransferFails ==
  /\ Faults
  /\ pc \in {"begin", "resolve", "import"}
  /\ Fails
  /\ UNCHANGED <<registry, local, wants, depth1, walk, fetches>>
-----------------------------------------------------------------------------
Step ==
  \/ SnapshotsTaken \/ BeginWalk \/ NextLevel \/ Order \/ Finish
  \/ \E c \in Commits :
       TakeSnapshot(c) \/ SkipLocal(c) \/ Resolve(c) \/ NotServed(c) \/ ImportPack(c) \/ ImportLFS(c)

Next ==
  /\ \/ \E S \in Wants, d1 \in BOOLEAN : Begin(S, d1)
     \/ Step \/ TransferFails
  /\ UNCHANGED setting

Spec == Init /\ [][Next]_vars
-----------------------------------------------------------------------------
\* A packfile is imported once everything it was cut against is at hand ("finish
\* importing it, before importing the packfile that depends on it", FORMAT.md:318).
ImportsAfterBases ==
  [][\A c \in Commits : ImportPack(c) => bases[c] \subseteq commits]_vars

\* Without snapshots, a commit at hand has its whole history at hand, however the fetches
\* before it ended and whatever the registry's graph: skipping what is local rests on it.
LocalIsClosed ==
  ~Snapshots => ReachAll(commits) = commits /\ TreesOf(commits) = objects

\* While no transfer fails, what is missing behind a commit at hand is missing behind a
\* shallow one: a walk that stops at what is local ("a commit already on disk needs neither
\* its pack nor the bases behind it", helper.go:810-811) leaves no gap but a recorded one.
GapsAreShallow ==
  pc # "begin" /\ ~Faults => \A c \in commits : \A a \in Ancestors[c] \ commits :
    \E b \in shallow : a \in Ancestors[b]

\* A fetch that succeeds leaves every commit it was asked for and, snapshots apart, its
\* whole history with all the trees - whatever the chain says, whatever the registry's
\* graph, and whatever earlier fetches left behind.
FetchedIsWhole ==
  pc = "ok" =>
    /\ wants \subseteq commits
    /\ ~Snapshots => /\ ReachAll(wants) \subseteq commits
                     /\ TreesOf(ReachAll(wants)) \subseteq objects
=============================================================================
