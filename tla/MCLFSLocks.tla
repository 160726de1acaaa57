----------------------------- MODULE MCLFSLocks -----------------------------
(* Two users lock and unlock two files.                                      *)
EXTENDS LFSLocks, TLC

Symmetry == Permutations(Users) \union Permutations(Paths) \union Permutations(Owners)

\* Four commands under a lock that holds; three whatever goes wrong.
MCSettings == {[lapses |-> FALSE, vanish |-> FALSE, ops |-> 4]} \union
              {[lapses |-> l, vanish |-> v, ops |-> 3] : l \in BOOLEAN, v \in BOOLEAN}
=============================================================================
