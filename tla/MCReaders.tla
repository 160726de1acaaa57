----------------------------- MODULE MCReaders ------------------------------
(* A history that forks and is merged: c1 and d1 follow c0, and c2 merges    *)
(* them.  It brings back what c0 had, and c1 brings in a large file.         *)
EXTENDS Readers, TLC

CONSTANTS c0, c1, c2, d1, old, new, big

MCAncestors == c0 :> {} @@ c1 :> {c0} @@ d1 :> {c0} @@ c2 :> {c0, c1, d1}
MCTree == c0 :> {old} @@ c1 :> {new, big} @@ d1 :> {new} @@ c2 :> {old, big}

\* What pushes publish of some commits: each cut against published ancestors.
WellFormed(S) ==
  UNION {{g \in [D -> SUBSET D] : \A c \in D : g[c] \subseteq Ancestors[c]} : D \in SUBSET S}

\* Anything at all among three commits, cycles and missing bases too.
Line == {c0, c1, c2}
Anything == UNION {[D -> SUBSET Line] : D \in SUBSET Line}

\* The merge, cut against what is published of the two lines it joins.
Merged == {g \in WellFormed({c1, d1, c2}) : {c1, c2} \subseteq DOMAIN g}
AnythingServed == Anything \union WellFormed(Commits)

\* Chains that say all, nothing of a commit's bases, too much.
MCChains == {c2 :> {c1} @@ c1 :> {c0}, c2 :> {}, c1 :> {c0, c2}}

\* A compaction meets the same graphs, and chains that hint at all and at too little.
CompactionChains == {c2 :> {c1} @@ c1 :> {c0}, c2 :> {}}
SomeTips == (SUBSET Commits) \ {{}}

Of(graphs, among, snapshots, nodes, n, faults) ==
  [graphs |-> graphs, wants |-> (SUBSET among) \ {{}}, snapshots |-> snapshots, nodes |-> nodes,
   fetches |-> n, faults |-> faults]

\* One fetch of anything, with room for two of the commits; three fetches that may fail on
\* the way; two where tips carry snapshots, of the merge too.
MCSettings == <<Of(Anything, Line, FALSE, 2, 1, FALSE), Of(WellFormed(Line), Line, FALSE, 4, 3, TRUE),
                Of(WellFormed(Line) \union Merged, Line, TRUE, 4, 2, FALSE)>>
=============================================================================
