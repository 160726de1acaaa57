----------------------------- MODULE MCV2Serve -----------------------------
(* One line of commits with a shortcut in it, whose tip is main; dev turns   *)
(* off at its root, and an annotated tag sits half-way.                      *)
EXTENDS V2Serve, TLC

CONSTANTS b, c, a, m, d, x, y, v1

MCParents == b :> {} @@ c :> {b} @@ a :> {c, b} @@ m :> {a} @@ d :> {b}
MCAncestors == b :> {} @@ c :> {b} @@ a :> {c, b} @@ m :> {a, c, b} @@ d :> {b}
MCTree == b :> {x} @@ c :> {y} @@ a :> {x} @@ m :> {x, y} @@ d :> {y}
MCPeeled == v1 :> c
MCRefs == [main |-> [sha |-> m, tag |-> NoTag], dev |-> [sha |-> d, tag |-> NoTag],
           v1 |-> [sha |-> c, tag |-> v1]]
MCRefOrder == <<"dev", "main", "v1">>

Depth(n) == [NoCut EXCEPT !.n = n]
Deeper(n) == [NoCut EXCEPT !.n = n, !.relative = TRUE]
Newer == [NoCut EXCEPT !.since = TRUE]
Not(names) == [NoCut EXCEPT !.not = names]

\* Pushes cut against anything behind them; and a base that is gone.
Alone == m :> {} @@ d :> {} @@ c :> {}
Based == m :> {a} @@ a :> {c} @@ c :> {b} @@ d :> {b} @@ b :> {}
Holed == m :> {a} @@ c :> {b} @@ d :> {b} @@ b :> {}

AllWants == SUBSET {m, d, v1} \ {{}}
AllCuts == {NoCut, Newer, Not({"v1"}), Not({NoRef})} \union {Depth(n) : n \in 1 .. 4}
             \union {Deeper(n) : n \in 1 .. 2}

Setting == [graphs |-> {Based}, indexes |-> {{}}, heads |-> {"main"}, filters |-> {FALSE},
            wants |-> AllWants, cuts |-> {NoCut}, anew |-> {FALSE}, sizes |-> {},
            requests |-> 2, faults |-> FALSE]

\* Two fetches cut in any way; three of one branch each, deepening; a partial clone that
\* comes back for blobs; transfers that fail, and questions about sizes.
MCSettings == <<
  [Setting EXCEPT !.graphs = {Alone, Based}, !.cuts = AllCuts],
  [Setting EXCEPT !.wants = {{m}, {d}}, !.cuts = {NoCut, Depth(1), Depth(2), Deeper(1)},
                  !.requests = 3],
  [Setting EXCEPT !.graphs = {Based, Holed}, !.indexes = {{}, {m, c}, {a, b, c, d}, Commits},
                  !.heads = {"main", "dev"}, !.filters = {TRUE}, !.cuts = {NoCut, Depth(1)},
                  !.anew = BOOLEAN, !.wants = {{m}, {d}}, !.requests = 3],
  [Setting EXCEPT !.graphs = {Based, Holed}, !.indexes = {{}, Commits}, !.wants = {{m}, {d}, {v1}},
                  !.filters = BOOLEAN, !.sizes = {{x}, {x, m}}, !.faults = TRUE]>>
MCRecent == {m, a, b, d}
=============================================================================
