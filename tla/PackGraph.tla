----------------------------- MODULE PackGraph -----------------------------
(***************************************************************************)
(* The history that packfiles carry (FORMAT.md, section 4.2): commits, the *)
(* commits behind them, and what a packfile cut for one against others     *)
(* holds.  Shared by the modules that publish, fetch and compact packs.    *)
(***************************************************************************)
EXTENDS FiniteSets

CONSTANTS
  Commits,
  Ancestors  \* the commits a commit strictly descends from

ASSUME HistoryAssumption ==
  /\ Ancestors \in [Commits -> SUBSET Commits]
  /\ \A c \in Commits : c \notin Ancestors[c]
  /\ \A c \in Commits : \A b \in Ancestors[c] : Ancestors[b] \subseteq Ancestors[c]
ASSUME FiniteHistory == \A c \in Commits : IsFiniteSet(Ancestors[c])

\* f is a function from some of S to T.
Partial(f, S, T) == DOMAIN f \subseteq S /\ f \in [DOMAIN f -> T]

Reach(c) == {c} \union Ancestors[c]
ReachAll(S) == UNION {Reach(c) : c \in S}

\* Mutant of the definition below: the tip's commit alone.
TipAlone(c, bases) == {c}

\* The commits in the packfile cut for c against bases: CreatePackfileTo leaves out what
\* is reachable from the bases.
Packed(c, bases) == Reach(c) \ ReachAll(bases)
=============================================================================
