----------------------------- MODULE MCRefIndex -----------------------------
(* Two clients update one ref index. *)
EXTENDS RefIndex, TLC

Symmetry == Permutations(Writers) \union Permutations(Refs) \union Permutations(Commits)

Of(whole, lapses, faults, n) ==
  [whole |-> whole, lapses |-> lapses, faults |-> faults, full |-> faults \/ n = 3, ops |-> n]

\* Three updates that pass their own refs, two of helpers that pass all they listed,
\* those two again with failing calls, and two that lose their locks.  Where there are
\* three or where calls fail, a repository at rest has every ref and a HEAD.
MCSettings == {Of(FALSE, FALSE, FALSE, 3), Of(TRUE, FALSE, FALSE, 2),
               Of(TRUE, FALSE, TRUE, 2), Of(FALSE, TRUE, FALSE, 2)}
=============================================================================
