------------------------------ MODULE Readers ------------------------------
(***************************************************************************)
(* The two that read the pack-base graph of one registry: a client that    *)
(* fetches, and a compaction that hydrates its scratch repository.  They   *)
(* walk the same manifests and the same chain under different rules; a     *)
(* behaviour has one of them.  The registry, the place in the code and the *)
(* frontier of the walk are shared variables.                              *)
(***************************************************************************)
EXTENDS Fetch

CONSTANTS
  HydrateGraphs, HydrateChains,
  HydrateTips

ASSUME HydrateAssumption ==
  /\ HydrateTips \subseteq SUBSET Commits
  /\ \A g \in HydrateGraphs \union HydrateChains : Partial(g, Commits, SUBSET Commits)

VARIABLES
  reader,  \* "fetch" or "hydrate"
  tips, tagged, levels, behind, store

hydration == <<tips, tagged, levels, behind, store>>
allVars == <<reader, vars, hydration>>

H == INSTANCE Hydrate WITH
       Graphs <- HydrateGraphs, Chains <- HydrateChains, Tips <- HydrateTips

InitFetch ==
  /\ reader = "fetch" /\ Init
  /\ tips = {} /\ tagged = {} /\ levels = <<>> /\ behind = {} /\ store = {}

InitHydrate ==
  /\ reader = "hydrate" /\ H!Init
  /\ setting = 1 /\ fetches = 0
  /\ commits = {} /\ objects = {} /\ lfs = {} /\ shallow = {}
  /\ wants = {} /\ depth1 = FALSE
  /\ graph = <<>> /\ satisfied = {} /\ stage = [c \in Commits |-> "none"]

FetchStep == reader = "fetch" /\ Next /\ UNCHANGED <<reader, hydration>>

HydrateStep ==
  /\ reader = "hydrate" /\ H!Next
  /\ UNCHANGED <<reader, setting, local, wants, depth1, graph, satisfied, stage, fetches>>

\* A fetch's workers and gc.Run go on until they have an answer.
GoOn ==
  \/ reader = "fetch" /\ Step /\ UNCHANGED <<reader, hydration, setting>>
  \/ HydrateStep

ReadersSpec ==
  (InitFetch \/ InitHydrate) /\ [][FetchStep \/ HydrateStep]_allVars /\ WF_allVars(GoOn)
-----------------------------------------------------------------------------
\* What a compaction repacks is all there: "the consolidated packfile would silently
\* omit history" (gc.go:78-79).
HydratedIsWhole == reader = "hydrate" => H!HydratedIsWhole

\* A fetch ends, and so does a hydration, whatever the registry's graph: a cycle is
\* reported, never waited on.
WalksEnd == pc \in {"begin", "walk"} ~> pc \in {"ok", "done", "failed"}
=============================================================================
