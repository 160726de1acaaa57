------------------------------ MODULE Hydrate ------------------------------
(***************************************************************************)
(* Compaction's own fetch (pkg/gc/hydrate.go): the packfiles of every ref, *)
(* imported into a scratch repository, from the registry alone.  It walks  *)
(* the pack-base graph breadth first and imports the deepest level first.  *)
(*                                                                         *)
(* The order within a level is the order of a Go map for the tips and of   *)
(* commit ids behind them: any order.                                      *)
(***************************************************************************)
EXTENDS PackGraph, Naturals, Sequences

CONSTANTS
  Graphs,  \* the registry's commit manifests: bases by commit
  Chains,  \* the pack chains it may publish
  Tips     \* the sets of ref tips it may have

VARIABLES
  bases,    \* registry: the pack bases each commit manifest names
  chain,    \* registry: the published pack chain
  tips,     \* registry: the tips of the refs
  tagged,   \* registry: those under an annotated tag, with a tag object
  pc,
  levels,   \* manifestOrder: the levels walked so far
  frontier, \* what is left of the level being resolved
  behind,   \* what the level names
  seen,
  store     \* the commits in the scratch repository

registry == <<bases, chain, tips, tagged>>
vars == <<registry, pc, levels, frontier, behind, seen, store>>

TypeOK ==
  /\ bases \in Graphs /\ chain \in Chains
  /\ tips \in Tips /\ tagged \subseteq tips
  /\ pc \in {"walk", "import", "done", "failed"}
  /\ levels \in Seq(SUBSET Commits)
  /\ \A i, j \in DOMAIN levels : i < j /\ pc = "walk" => levels[i] \intersect levels[j] = {}
  /\ frontier \subseteq seen /\ behind \subseteq seen /\ seen \subseteq Commits
  /\ store \subseteq Commits

Init ==
  /\ bases \in Graphs /\ chain \in Chains /\ tips \in Tips
  /\ tips \subseteq DOMAIN bases
  /\ tagged \in SUBSET tips
  /\ pc = "walk"
  /\ levels = <<tips>> /\ frontier = tips /\ seen = tips
  /\ behind = {} /\ store = {}
-----------------------------------------------------------------------------
\* Mutants of the definitions below.
BelievesChain(c) == IF c \in DOMAIN chain THEN chain[c] ELSE bases[c]

\* A ref under an annotated tag is asked for by its tag object; the manifest has the
\* commit's name.
ServedAs(c) == c \in DOMAIN bases /\ (c \in tips => c \notin tagged)

\* A manifest that cannot be fetched ends the walk, whichever level asks for it.  (The
\* mutant waits for a base to appear.)
BasesAwaited(c) == c \in tips /\ ~ServedAs(c)
Unserved(c) == ~ServedAs(c)

Hints(c) == IF c \in DOMAIN chain THEN chain[c] ELSE {}
NamedBy(c) == bases[c] \union Hints(c)

New(S) == S \ seen

Resolve(c) ==
  /\ pc = "walk"
  /\ c \in frontier
  /\ ServedAs(c)
  /\ frontier' = frontier \ {c}
  /\ behind' = behind \union New(NamedBy(c))
  /\ seen' = seen \union NamedBy(c)
  /\ UNCHANGED <<registry, pc, levels, store>>

NotServed(c) ==
  /\ pc = "walk"
  /\ c \in frontier
  /\ Unserved(c)
  /\ pc' = "failed"
  /\ UNCHANGED <<registry, levels, frontier, behind, seen, store>>

NextLevel ==
  /\ pc = "walk" /\ frontier = {}
  /\ IF behind = {} THEN pc' = "import" /\ UNCHANGED <<levels, frontier>>
     ELSE levels' = Append(levels, behind) /\ frontier' = behind /\ UNCHANGED pc
  /\ behind' = {}
  /\ UNCHANGED <<registry, seen, store>>

\* Deepest level first.
Deepest == levels[Len(levels)]

Import(c) ==
  /\ pc = "import" /\ levels # <<>>
  /\ c \in Deepest
  /\ store' = store \union Packed(c, bases[c])
  /\ levels' = [levels EXCEPT ![Len(levels)] = @ \ {c}]
  /\ UNCHANGED <<registry, pc, frontier, behind, seen>>

LevelImported ==
  /\ pc = "import"
  /\ IF levels = <<>> THEN pc' = "done" /\ UNCHANGED levels
     ELSE /\ levels[Len(levels)] = {}
          /\ levels' = SubSeq(levels, 1, Len(levels) - 1)
          /\ UNCHANGED pc
  /\ UNCHANGED <<registry, frontier, behind, seen, store>>

Next ==
  \/ NextLevel \/ LevelImported
  \/ \E c \in Commits : Resolve(c) \/ NotServed(c) \/ Import(c)

Spec == Init /\ [][Next]_vars
-----------------------------------------------------------------------------
\* Every packfile was cut against what its commit descends from.
Sensible == \A c \in DOMAIN bases : bases[c] \subseteq Ancestors[c]

\* What is repacked is all there, whatever the chain hints at: the consolidated packfiles
\* replace the history, so a commit the scratch repository lacks would be lost ("the
\* consolidated packfile would silently omit history", gc.go:78-79).
HydratedIsWhole == pc = "done" /\ Sensible => ReachAll(tips) \subseteq store
=============================================================================
