---------------------------- MODULE MCPushBatch ----------------------------
(* Batches of up to two specs over a history that forks: c1 and c2 both      *)
(* descend from c0.                                                          *)
EXTENDS PushBatch, TLC

CONSTANTS c0, c1, c2, k1, k2, main, dev

MCAncestors == c0 :> {} @@ c1 :> {c0} @@ c2 :> {c0}

To(v) == [to |-> v, force |-> FALSE, lease |-> NoLease]
Forced(v) == [To(v) EXCEPT !.force = TRUE]
Leased(v, old) == [Forced(v) EXCEPT !.lease = old]
Of(spec, atomic, dry) ==
  [refs |-> DOMAIN spec, atomic |-> atomic, dry |-> dry,
   spec |-> [r \in Refs |-> IF r \in DOMAIN spec THEN spec[r] ELSE To(Absent)]]

Pairs == {main :> s @@ dev :> t :
            s \in {To(c1), To(Absent)}, t \in {To(c2), Forced(c2), To(Absent)}}

\* Every pair of specs, in every mode; one client.
AllModes == {Of(p, atomic, dry) : p \in Pairs, atomic \in BOOLEAN, dry \in BOOLEAN}

\* Two clients that push, each in its own mode.
TwoPushers == {Of(main :> To(c1), FALSE, FALSE), Of(main :> To(c2), FALSE, FALSE),
               Of(main :> To(c2) @@ dev :> To(c1), TRUE, FALSE),
               Of(main :> Leased(c0, c1), FALSE, FALSE),
               Of(dev :> To(Absent), FALSE, FALSE)}

OneRef == {Of(main :> To(c), FALSE, FALSE) : c \in {c1, c2}}
AtomicPairs == {Of(p, TRUE, FALSE) : p \in Pairs}

By(clients, batches, n, faults) ==
  [clients |-> clients, batches |-> batches, max |-> n, faults |-> faults]

MCSettings == <<By({k1}, AllModes, 1, Fault),
                By({k1}, AtomicPairs, 2, {"push", "delete", "restore"}),
                By({k1, k2}, TwoPushers, 2, {})>>

\* Two developers push to one branch, and nothing fails.
Race == <<By({k1, k2}, OneRef, 2, {})>>
=============================================================================
