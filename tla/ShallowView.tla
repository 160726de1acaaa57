---------------------------- MODULE ShallowView ----------------------------
(***************************************************************************)
(* Truncated views of history (pkg/git/git.go, BoundaryFor and its rules): *)
(* which commits a depth, a date or an excluded ref lets in, and which of  *)
(* them lie on the edge.  The store walked may lack any commit.            *)
(***************************************************************************)
EXTENDS PackGraph, Naturals, FiniteSets

CONSTANTS
  Parents,
  Recent    \* the commits a --shallow-since lets in

ASSUME ParentsAssumption ==
  /\ Parents \in [Commits -> SUBSET Commits]
  /\ \A c \in Commits : Ancestors[c] = ReachAll(Parents[c])
ASSUME RecentAssumption == Recent \subseteq Commits
ASSUME CommitsAssumption == IsFiniteSet(Commits)

ParentsOf(S) == UNION {Parents[c] : c \in S}

\* A walk takes no more steps than there are commits.
Steps == 0 .. Cardinality(Commits)

\* Mutant of the definition below.
CountFromOne(n) == [level \in Steps |-> IF level <= n THEN Commits ELSE {}]

\* A DeepenRule: the commits it lets in at each level.
AtDepth(n) == [level \in Steps |-> IF level < n THEN Commits ELSE {}]
Since == [level \in Steps |-> Recent]
Excluding(S) == [level \in Steps |-> Commits \ S]
AllOf(rules) == [level \in Steps |-> {c \in Commits : \A rule \in rules : c \in rule[level]}]

\* What a traversal from S comes to when the commits in cut have no parents: S, and what is
\* in every set that a step from S or from the set itself does not leave.
Visible(S, cut) ==
  LET Behind == UNION {Ancestors[c] : c \in S}
      Whole == {T \in SUBSET Behind : \A c \in (S \union T) \ cut : Parents[c] \subseteq S \union T}
  IN  S \union {c \in Behind : \A T \in Whole : c \in T}

\* Reachable: what the store lacks is counted, and not walked through.
Reachable(store, starts) == Visible(starts, Commits \ store)

\* BoundaryFor: generation by generation; a commit that is not there, or that the rule
\* turns away, is outside.  A commit met again lets in nothing that it did not before.
Within(store, tips, rule) ==
  LET L[n \in Nat] ==
        (IF n = 0 THEN tips ELSE ParentsOf(L[n - 1])) \intersect store \intersect rule[n]
  IN  UNION {L[n] : n \in Steps}

Edge(within) == {c \in within : ~(Parents[c] \subseteq within)}
=============================================================================
