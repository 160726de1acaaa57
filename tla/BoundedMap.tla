----------------------------- MODULE BoundedMap -----------------------------
(***************************************************************************)
(* The client's caches (pkg/oci/cache.go): a concurrent map that is        *)
(* dropped when a counter beside it reaches a limit.  The map and the      *)
(* counter are each atomic and never read together; the goroutines of one  *)
(* push or fetch use the map at once.                                      *)
(***************************************************************************)
EXTENDS Integers, FiniteSets

CONSTANTS
  Goroutines,
  Keys,
  Limit,    \* max, or maxCachedManifests; not 0
  Bound     \* on the size of the map

VARIABLES
  held,   \* m: the keys in the map
  count,  \* n: the counter
  step,   \* per goroutine: where it is in Store, Delete or clear
  key,    \* per goroutine: the key it is called with
  due,    \* per goroutine: the keys its Range has to visit yet
  raced   \* history: has a Delete taken effect while the map was being dropped?

vars == <<held, count, step, key, due, raced>>

Init ==
  /\ held = {} /\ count = 0
  /\ step = [g \in Goroutines |-> "idle"]
  /\ key = [g \in Goroutines |-> CHOOSE k \in Keys : TRUE]
  /\ due = [g \in Goroutines |-> {}]
  /\ raced = FALSE

At(g, from, to) == step[g] = from /\ step' = [step EXCEPT ![g] = to]

\* Whoever deletes a key, a Range under way need not come upon it again.
Without(k) ==
  /\ held' = held \ {k}
  /\ due' = [g \in Goroutines |-> due[g] \ {k}]
-----------------------------------------------------------------------------
\* Mutant of the definition below.
AlwaysThere(k) == TRUE

\* LoadAndDelete's "loaded".
There(k) == k \in held

Call(g) ==
  /\ \E to \in {"check", "remove"} : At(g, "idle", to)
  /\ \E k \in Keys : key' = [key EXCEPT ![g] = k]
  /\ UNCHANGED <<held, count, due, raced>>

\* Store: n.Load.
Check(g) ==
  /\ IF count >= Limit
     THEN At(g, "check", "range") /\ due' = [due EXCEPT ![g] = held]
     ELSE At(g, "check", "swap") /\ UNCHANGED due
  /\ UNCHANGED <<held, count, key, raced>>

\* clear: Range deletes what was there when it began, and may delete what came later.
ClearKey(g) ==
  /\ step[g] = "range"
  /\ \E k \in held : Without(k)
  /\ UNCHANGED <<count, step, key, raced>>

EndRange(g) ==
  /\ due[g] = {}
  /\ At(g, "range", "zero")
  /\ UNCHANGED <<held, count, key, due, raced>>

\* clear: n.Store(0).
Zero(g) ==
  /\ At(g, "zero", "swap")
  /\ count' = 0
  /\ raced' = (raced \/ \E h \in Goroutines : step[h] = "uncount")
  /\ UNCHANGED <<held, key, due>>

\* Store: m.Swap.
Swap(g) ==
  /\ At(g, "swap", IF key[g] \notin held THEN "count" ELSE "idle")
  /\ held' = held \union {key[g]}
  /\ UNCHANGED <<count, key, due, raced>>

Count(g) ==
  /\ At(g, "count", "idle")
  /\ count' = count + 1
  /\ UNCHANGED <<held, key, due, raced>>

\* Delete: m.LoadAndDelete.
Remove(g) ==
  /\ At(g, "remove", IF There(key[g]) THEN "uncount" ELSE "idle")
  /\ Without(key[g])
  /\ raced' = \/ raced
              \/ key[g] \in held /\ \E h \in Goroutines : step[h] \in {"range", "zero"}
  /\ UNCHANGED <<count, key>>

Uncount(g) ==
  /\ At(g, "uncount", "idle")
  /\ count' = count - 1
  /\ UNCHANGED <<held, key, due, raced>>

Next ==
  \E g \in Goroutines :
    \/ Call(g) \/ Check(g) \/ ClearKey(g) \/ EndRange(g) \/ Zero(g)
    \/ Swap(g) \/ Count(g) \/ Remove(g) \/ Uncount(g)

Spec == Init /\ [][Next]_vars
-----------------------------------------------------------------------------
\* The drift of the counter moves the point at which the map is dropped, and not without end:
\* however long the goroutines race, the map stays within a limit for each of them and a few
\* entries more, as long as no key was deleted while it was being dropped ("a concurrent map that will not grow
\* without limit", cache.go:24; "It can drift under concurrent writers, which only moves
\* the point at which the map is dropped", :37-38).
StaysBounded == raced \/ Cardinality(held) <= Bound
=============================================================================
