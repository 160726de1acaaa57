---------------------------- MODULE MCCompaction ----------------------------
(* Three commits on the trunk, two of them pushed, and a branch off the first; *)
(* the second brings in an LFS object.                                         *)
EXTENDS Compaction, TLC

CONSTANTS c0, c1, c2, d1

MCAncestors == c0 :> {} @@ c1 :> {c0} @@ c2 :> {c0, c1} @@ d1 :> {c0}
MCTrunk == <<c0, c1>>
MCLarge == {c1}

Of(pushes_, deletes_, runs_, alone, faults) ==
  [pushes |-> pushes_, deletes |-> deletes_, runs |-> runs_,
   alone |-> alone, faults |-> faults]

Symmetry == Permutations(Pushers)

\* Compactions while nobody pushes, stopping anywhere; one among two pushes.
MCSettings ==
  {Of(2, 0, 2, TRUE, TRUE), Of(2, 1, 1, TRUE, TRUE), Of(3, 0, 1, TRUE, FALSE),
   Of(2, 1, 1, FALSE, FALSE)}
=============================================================================
