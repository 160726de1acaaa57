----------------------------- MODULE MCRefLock -----------------------------
(* Two goroutines of one process and one of another contend for one ref. *)
EXTENDS RefLock, TLC

CONSTANTS c1, c2, t1, t2, t3

MCClientOf == t1 :> c1 @@ t2 :> c1 @@ t3 :> c2
PairClientOf == t1 :> c1 @@ t3 :> c2
IdSymmetry == Permutations(Ids)
=============================================================================
