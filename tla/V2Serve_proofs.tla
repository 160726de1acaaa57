---------------------------- MODULE V2Serve_proofs ----------------------------
(***************************************************************************)
(* Proofs about V2Serve, for any history, registry, refs, settings and     *)
(* number of requests.                                                     *)
(***************************************************************************)
EXTENDS V2Serve, TLAPS, FiniteSetTheorems, WellFoundedInduction

\* A set of naturals that is not empty has a least member, and one that holds zero and the
\* next of each of its members is all of them.
LEMMA LeastOf ==
  ASSUME NEW S \in SUBSET Nat, S # {}
  PROVE  \E n \in S : \A m \in S : n <= m
<1>1. PICK n \in S : \A m \in S : ~(<<m, n>> \in OpToRel(<, Nat))
  BY NatLessThanWellFounded, WFMin
<1>2. \A m \in S : ~(m < n)
  BY <1>1, Zenon DEF OpToRel
<1> QED
  BY <1>2

LEMMA AllNaturals ==
  ASSUME NEW S, 0 \in S, \A n \in Nat : n \in S => n + 1 \in S
  PROVE  \A n \in Nat : n \in S
<1> SUFFICES ASSUME Nat \ S # {} PROVE FALSE
  OBVIOUS
<1>1. PICK n \in Nat \ S : \A m \in Nat \ S : n <= m
  BY LeastOf
<1>2. n # 0 /\ n - 1 \in Nat /\ ~(n <= n - 1)
  BY <1>1
<1>3. n - 1 \in S
  BY <1>1, <1>2
<1>4. (n - 1) + 1 \in S
  BY <1>2, <1>3
<1> QED
  BY <1>1, <1>4

\* What a function defined by its value at zero and by a step from each value to the next
\* is: the first values are determined one after the other.
Recurs(f, A, start, G) ==
  f \in [Nat -> A] /\ f[0] = start /\ \A n \in Nat : f[n + 1] = G[n + 1][f[n]]

LEMMA RecursionExists ==
  ASSUME NEW A, NEW start \in A, NEW G, G \in [Nat -> [A -> A]]
  PROVE  \E f : Recurs(f, A, start, G)
<1> DEFINE Obeys(g, n) == g[0] = start /\ \A i \in 0 .. n - 1 : g[i + 1] = G[i + 1][g[i]]
           First(n) == {g \in [0 .. n -> A] : Obeys(g, n)}
<1>1. \A n \in Nat : First(n) # {}
  <2> DEFINE There == {n \in Nat : First(n) # {}}
  <2>1. 0 \in There
    <3>1. [i \in 0 .. 0 |-> start] \in First(0)
      OBVIOUS
    <3> QED
      BY <3>1
  <2>2. ASSUME NEW n \in Nat, n \in There PROVE n + 1 \in There
    <3>1. PICK g \in [0 .. n -> A] : Obeys(g, n)
      BY <2>2
    <3> DEFINE h == [i \in 0 .. n + 1 |-> IF i = n + 1 THEN G[n + 1][g[n]] ELSE g[i]]
    <3>2. g[n] \in A /\ G[n + 1] \in [A -> A]
      BY <3>1
    <3>3. h \in [0 .. n + 1 -> A]
      BY <3>1, <3>2
    <3>4. Obeys(h, n + 1)
      <4>1. h[0] = start
        BY <3>1
      <4>2. ASSUME NEW i \in 0 .. n PROVE h[i + 1] = G[i + 1][h[i]]
        <5>1. CASE i = n
          BY <5>1
        <5>2. CASE i # n
          <6>1. i \in 0 .. n - 1 /\ h[i] = g[i] /\ h[i + 1] = g[i + 1]
            BY <5>2
          <6> QED
            BY <3>1, <6>1
        <5> QED
          BY <5>1, <5>2
      <4>3. (n + 1) - 1 = n
        OBVIOUS
      <4> QED
        BY <4>1, <4>2, <4>3
    <3> HIDE DEF h
    <3>5. h \in First(n + 1)
      BY <3>3, <3>4
    <3> HIDE DEF First
    <3> QED
      BY <3>5
  <2> HIDE DEF There
  <2>3. \A n \in Nat : n \in There
    BY <2>1, <2>2, AllNaturals
  <2> QED
    BY <2>3 DEF There
<1>2. ASSUME NEW n \in Nat, NEW g \in First(n), NEW h \in First(n + 1)
      PROVE  g[n] = h[n]
  <2> DEFINE Differ == {i \in 0 .. n : g[i] # h[i]}
  <2> SUFFICES ASSUME Differ # {} PROVE FALSE
    <3>1. n \in 0 .. n
      OBVIOUS
    <3> QED
      BY <3>1
  <2>1. PICK i \in Differ : \A j \in Differ : i <= j
    <3>1. Differ \in SUBSET Nat
      OBVIOUS
    <3> HIDE DEF Differ
    <3> QED
      BY <3>1, LeastOf
  <2>2. i # 0 /\ i \in 0 .. n
    BY <2>1
  <2>3. i - 1 \in 0 .. n - 1 /\ i - 1 \in 0 .. (n + 1) - 1 /\ (i - 1) + 1 = i
    BY <2>2
  <2>4. g[i] = G[i][g[i - 1]] /\ h[i] = G[i][h[i - 1]]
    BY <2>3
  <2>5. g[i - 1] = h[i - 1]
    BY <2>1, <2>3
  <2> QED
    BY <2>1, <2>4, <2>5
<1> DEFINE pick == [n \in Nat |-> CHOOSE g \in First(n) : TRUE]
           f == [n \in Nat |-> pick[n][n]]
<1>3. \A n \in Nat : pick[n] \in First(n)
  BY <1>1
<1> HIDE DEF pick
<1>4. \A n \in Nat : pick[n] \in [0 .. n -> A] /\ Obeys(pick[n], n)
  BY <1>3
<1>5. f \in [Nat -> A]
  BY <1>4
<1>6. f[0] = start
  BY <1>4
<1>7. ASSUME NEW n \in Nat PROVE f[n + 1] = G[n + 1][f[n]]
  <2>1. pick[n + 1][n + 1] = G[n + 1][pick[n + 1][n]]
    <3>1. n \in 0 .. (n + 1) - 1
      OBVIOUS
    <3> QED
      BY <1>4, <3>1
  <2>2. pick[n][n] = pick[n + 1][n]
    <3> HIDE DEF First
    <3> QED
      <4>1. pick[n] \in First(n) /\ pick[n + 1] \in First(n + 1)
        BY <1>3
      <4> QED
        BY <1>2, <4>1
  <2> QED
    BY <2>1, <2>2
<1>8. Recurs(f, A, start, G)
  BY <1>5, <1>6, <1>7 DEF Recurs
<1> QED
  BY <1>8

-----------------------------------------------------------------------------
\* Views of history.
LEMMA ParentsAreBehind ==
  /\ \A c \in Commits : Parents[c] \subseteq Ancestors[c]
  /\ \A c \in Commits : Parents[c] \subseteq Commits /\ Ancestors[c] \subseteq Commits
  /\ \A c \in Commits : \A p \in Ancestors[c] : Ancestors[p] \subseteq Ancestors[c]
BY ParentsAssumption, HistoryAssumption DEF ReachAll, Reach

\* Some commit of a nonempty set has no other of the set behind it: histories are finite.
LEMMA EarliestCommit ==
  ASSUME NEW T \in SUBSET Commits, T # {}
  PROVE  \E c \in T : \A b \in T : b \notin Ancestors[c]
<1> DEFINE Histories == {Ancestors[c] : c \in T}
           Smaller == StrictSubsetOrdering(Commits)
<1>1. Histories # {} /\ Histories \subseteq FiniteSubsetsOf(Commits)
  BY FiniteHistory, HistoryAssumption DEF FiniteSubsetsOf
<1>2. IsWellFoundedOn(Smaller, FiniteSubsetsOf(Commits))
  BY FS_StrictSubsetOrderingWellFounded
<1> HIDE DEF Histories, Smaller
<1>3. PICK h \in Histories : \A g \in Histories : ~(<<g, h>> \in Smaller)
  BY <1>1, <1>2, WFMin
<1>4. PICK c \in T : h = Ancestors[c]
  BY DEF Histories
<1>5. ASSUME NEW b \in T, b \in Ancestors[c] PROVE FALSE
  <2>1. Ancestors[b] \subseteq Ancestors[c] /\ Ancestors[b] # Ancestors[c]
    BY <1>5, HistoryAssumption
  <2>2. <<Ancestors[b], Ancestors[c]>> \in Smaller
    BY <2>1, HistoryAssumption DEF Smaller, StrictSubsetOrdering
  <2> QED
    BY <1>3, <1>4, <2>2 DEF Histories
<1> QED
  BY <1>5

\* A set that no step leaves, but from the commits in cut.
Closed(T, cut) == \A c \in T \ cut : Parents[c] \subseteq T

\* What a traversal comes to is the least such set.
LEMMA VisibleIs ==
  ASSUME NEW S \in SUBSET Commits, NEW cut
  PROVE  /\ S \subseteq Visible(S, cut) /\ Visible(S, cut) \subseteq Commits
         /\ Closed(Visible(S, cut), cut)
         /\ \A T \in SUBSET Commits : S \subseteq T /\ Closed(T, cut) => Visible(S, cut) \subseteq T
<1> DEFINE Beyond == UNION {Ancestors[c] : c \in S}
           Whole == {T \in SUBSET Beyond : \A c \in (S \union T) \ cut : Parents[c] \subseteq S \union T}
<1>1. Visible(S, cut) = S \union {c \in Beyond : \A T \in Whole : c \in T}
  BY DEF Visible
<1>2. \A c \in S \union Beyond : c \in Commits /\ Parents[c] \subseteq Beyond
  BY ParentsAreBehind
<1>3. ASSUME NEW c \in Visible(S, cut) \ cut, NEW p \in Parents[c] PROVE p \in Visible(S, cut)
  <2>1. c \in S \union Beyond /\ p \in Beyond
    BY <1>1, <1>2, <1>3
  <2>2. ASSUME NEW T \in Whole PROVE p \in S \union T
    BY <1>1, <1>3, <2>2
  <2> QED
    BY <1>1, <2>1, <2>2
<1>4. ASSUME NEW T \in SUBSET Commits, S \subseteq T, Closed(T, cut)
      PROVE  Visible(S, cut) \subseteq T
  <2>1. \A c \in (S \union (T \intersect Beyond)) \ cut : Parents[c] \subseteq T \intersect Beyond
    BY <1>2, <1>4 DEF Closed
  <2>2. T \intersect Beyond \in Whole
    BY <2>1
  <2> HIDE DEF Whole
  <2> QED
    BY <1>1, <1>4, <2>2
<1> HIDE DEF Beyond, Whole
<1>5. S \subseteq Visible(S, cut) /\ Visible(S, cut) \subseteq Commits
  <2>1. Beyond \subseteq Commits
    BY <1>2
  <2> QED
    BY <1>1, <2>1
<1> QED
  BY <1>3, <1>4, <1>5 DEF Closed

\* A traversal from more commits comes to more, and from two sets to what it comes to from each.
LEMMA VisibleGrows ==
  ASSUME NEW S \in SUBSET Commits, NEW T \in SUBSET Commits, NEW cut
  PROVE  /\ S \subseteq T => Visible(S, cut) \subseteq Visible(T, cut)
         /\ S \subseteq Visible(T, cut) => Visible(S, cut) \subseteq Visible(T, cut)
         /\ Visible(S \union T, cut) = Visible(S, cut) \union Visible(T, cut)
<1>1. ASSUME S \subseteq Visible(T, cut) PROVE Visible(S, cut) \subseteq Visible(T, cut)
  BY <1>1, VisibleIs
<1>2. ASSUME S \subseteq T PROVE Visible(S, cut) \subseteq Visible(T, cut)
  BY <1>1, <1>2, VisibleIs
<1>3. Visible(S \union T, cut) \subseteq Visible(S, cut) \union Visible(T, cut)
  <2> DEFINE Both == Visible(S, cut) \union Visible(T, cut)
  <2>1. Both \in SUBSET Commits /\ S \union T \subseteq Both /\ Closed(Both, cut)
    BY VisibleIs DEF Closed
  <2>2. S \union T \in SUBSET Commits
    OBVIOUS
  <2> HIDE DEF Both
  <2>3. Visible(S \union T, cut) \subseteq Both
    BY <2>1, <2>2, VisibleIs
  <2> QED
    BY <2>3 DEF Both
<1>4. Visible(S, cut) \subseteq Visible(S \union T, cut) /\ Visible(T, cut) \subseteq Visible(S \union T, cut)
  <2>1. S \union T \in SUBSET Commits
    OBVIOUS
  <2>2. S \union T \subseteq Visible(S \union T, cut)
    BY <2>1, VisibleIs
  <2>3. ASSUME NEW X \in SUBSET Commits, X \subseteq Visible(S \union T, cut)
        PROVE  Visible(X, cut) \subseteq Visible(S \union T, cut)
    BY <2>1, <2>3, VisibleIs
  <2> QED
    BY <2>2, <2>3
<1> QED
  BY <1>1, <1>2, <1>3, <1>4

\* A walk by generations, from one to the next.
IsLevels(L, store, from, rule) ==
  L = [n \in Nat |-> (IF n = 0 THEN from ELSE ParentsOf(L[n - 1])) \intersect store \intersect rule[n]]

LEMMA LevelsExist ==
  ASSUME NEW store \in SUBSET Commits, NEW from, NEW rule
  PROVE  \E L : IsLevels(L, store, from, rule)
<1> DEFINE A == SUBSET Commits
           start == from \intersect store \intersect rule[0]
           G == [n \in Nat |-> [X \in A |-> ParentsOf(X) \intersect store \intersect rule[n]]]
<1>1. start \in A /\ G \in [Nat -> [A -> A]]
  OBVIOUS
<1>2. PICK f \in [Nat -> A] : f[0] = start /\ \A n \in Nat : f[n + 1] = G[n + 1][f[n]]
  <2> HIDE DEF A, start, G
  <2>1. PICK f : Recurs(f, A, start, G)
    BY <1>1, RecursionExists, Zenon
  <2> QED
    BY <2>1 DEF Recurs
<1>3. ASSUME NEW n \in Nat
      PROVE  f[n] = (IF n = 0 THEN from ELSE ParentsOf(f[n - 1])) \intersect store \intersect rule[n]
  <2>1. CASE n = 0
    BY <1>2, <2>1
  <2>2. CASE n # 0
    <3>1. n - 1 \in Nat /\ (n - 1) + 1 = n
      BY <2>2
    <3>2. f[n] = G[n][f[n - 1]]
      BY <1>2, <3>1
    <3> QED
      BY <1>2, <2>2, <3>1, <3>2
  <2> QED
    BY <2>1, <2>2
<1>4. IsLevels(f, store, from, rule)
  BY <1>2, <1>3 DEF IsLevels
<1> QED
  BY <1>4

IsWalk(L, within, store, from, rule) ==
  /\ L \in [Nat -> SUBSET Commits]
  /\ within = UNION {L[n] : n \in Steps}
  /\ L[0] = from \intersect store \intersect rule[0]
  /\ \A n \in Nat : L[n + 1] = ParentsOf(L[n]) \intersect store \intersect rule[n + 1]

LEMMA WithinIs ==
  ASSUME NEW store \in SUBSET Commits, NEW from, NEW rule
  PROVE  \E L : IsWalk(L, Within(store, from, rule), store, from, rule)
<1> DEFINE L == CHOOSE f : IsLevels(f, store, from, rule)
<1>1. IsLevels(L, store, from, rule)
  BY LevelsExist, Zenon
<1>2. Within(store, from, rule) = UNION {L[n] : n \in Steps}
  BY Zenon DEF Within, IsLevels
<1> HIDE DEF L
<1>3. L \in [Nat -> SUBSET Commits]
  BY <1>1 DEF IsLevels
<1>4. L[0] = from \intersect store \intersect rule[0]
  BY <1>1 DEF IsLevels
<1>5. ASSUME NEW n \in Nat PROVE L[n + 1] = ParentsOf(L[n]) \intersect store \intersect rule[n + 1]
  <2>1. n + 1 \in Nat /\ n + 1 # 0 /\ (n + 1) - 1 = n
    OBVIOUS
  <2> QED
    BY <1>1, <2>1 DEF IsLevels
<1>6. IsWalk(L, Within(store, from, rule), store, from, rule)
  BY <1>2, <1>3, <1>4, <1>5 DEF IsWalk
<1> QED
  BY <1>6

\* The generations behind S, all there.
Generations(M, S) ==
  M \in [Nat -> SUBSET Commits] /\ M[0] = S /\ \A n \in Nat : M[n + 1] = ParentsOf(M[n])

LEMMA GenerationsExist ==
  ASSUME NEW S \in SUBSET Commits
  PROVE  \E M : Generations(M, S)
<1> DEFINE all == [n \in Nat |-> Commits]
<1>1. PICK M : IsWalk(M, Within(Commits, S, all), Commits, S, all)
  <2>1. Commits \in SUBSET Commits
    OBVIOUS
  <2> HIDE DEF all
  <2> QED
    BY <2>1, WithinIs
<1>2. \A X \in SUBSET Commits : ParentsOf(X) \subseteq Commits
  BY ParentsAreBehind DEF ParentsOf
<1>3. M[0] = S /\ \A n \in Nat : M[n + 1] = ParentsOf(M[n])
  BY <1>1, <1>2 DEF IsWalk
<1> QED
  BY <1>1, <1>3 DEF IsWalk, Generations

LEMMA NearIs ==
  ASSUME NEW S \in SUBSET Commits, NEW M, Generations(M, S)
  PROVE  \A n \in Nat : Near(S, n) = UNION {M[j] : j \in 0 .. n}
<1> DEFINE A == SUBSET Commits
           G == [n \in Nat |-> [X \in A |-> X \union ParentsOf(X)]]
           IsNear(f) == f = [i \in Nat |-> IF i = 0 THEN S ELSE f[i - 1] \union ParentsOf(f[i - 1])]
<1>1. PICK f \in [Nat -> A] : f[0] = S /\ \A n \in Nat : f[n + 1] = G[n + 1][f[n]]
  <2>1. S \in A /\ G \in [Nat -> [A -> A]]
    BY ParentsAreBehind DEF ParentsOf
  <2> HIDE DEF A, G
  <2>2. PICK f : Recurs(f, A, S, G)
    BY <2>1, RecursionExists, Zenon
  <2> QED
    BY <2>2 DEF Recurs
<1>2. ASSUME NEW n \in Nat PROVE f[n + 1] = f[n] \union ParentsOf(f[n])
  <2>1. n + 1 \in Nat /\ f[n] \in A /\ f[n + 1] = G[n + 1][f[n]]
    <3> HIDE DEF A, G
    <3> QED
      BY <1>1
  <2>2. G[n + 1] = [X \in A |-> X \union ParentsOf(X)]
    BY <2>1
  <2> QED
    BY <2>1, <2>2
<1>3. IsNear(f)
  <2>1. ASSUME NEW i \in Nat
        PROVE  f[i] = IF i = 0 THEN S ELSE f[i - 1] \union ParentsOf(f[i - 1])
    <3>1. CASE i # 0
      <4>1. i - 1 \in Nat /\ (i - 1) + 1 = i
        BY <3>1
      <4> QED
        BY <1>2, <3>1, <4>1
    <3> QED
      BY <1>1, <3>1
  <2> QED
    BY <1>1, <2>1
<1> DEFINE N == CHOOSE g : IsNear(g)
<1>4. IsNear(N)
  BY <1>3, Zenon
<1>5. \A n \in Nat : Near(S, n) = N[n]
  BY Zenon DEF Near
<1> HIDE DEF N
<1>6. N[0] = S
  BY <1>4
<1>7. \A n \in Nat : N[n + 1] = N[n] \union ParentsOf(N[n])
  <2> SUFFICES ASSUME NEW n \in Nat PROVE N[n + 1] = N[n] \union ParentsOf(N[n])
    OBVIOUS
  <2>1. n + 1 \in Nat /\ n + 1 # 0 /\ (n + 1) - 1 = n
    OBVIOUS
  <2> QED
    BY <1>4, <2>1
<1> DEFINE Same == {n \in Nat : N[n] = UNION {M[j] : j \in 0 .. n}}
<1>8. 0 \in Same
  BY <1>6 DEF Generations
<1>9. ASSUME NEW n \in Nat, n \in Same PROVE n + 1 \in Same
  <2>1. 0 .. n + 1 = (0 .. n) \union {n + 1}
    OBVIOUS
  <2>2. N[n + 1] \subseteq UNION {M[j] : j \in 0 .. n + 1}
    <3> SUFFICES ASSUME NEW x \in ParentsOf(N[n]) PROVE x \in UNION {M[j] : j \in 0 .. n + 1}
      BY <1>7, <1>9, <2>1
    <3>1. PICK j \in 0 .. n : x \in ParentsOf(M[j])
      BY <1>9 DEF ParentsOf
    <3>2. j + 1 \in 0 .. n + 1 /\ x \in M[j + 1]
      BY <3>1 DEF Generations
    <3> QED
      BY <3>2
  <2>3. M[n + 1] \subseteq N[n + 1]
    <3>1. M[n + 1] = ParentsOf(M[n]) /\ M[n] \subseteq N[n]
      BY <1>9 DEF Generations
    <3> QED
      BY <1>7, <3>1 DEF ParentsOf
  <2> QED
    BY <1>7, <1>9, <2>1, <2>2, <2>3
<1> HIDE DEF Same
<1>10. \A n \in Nat : n \in Same
  BY <1>8, <1>9, AllNaturals
<1> QED
  BY <1>5, <1>10 DEF Same

\* Generations are behind the first, and end: each step leaves a shorter history.
LEMMA GenerationsEnd ==
  ASSUME NEW S \in SUBSET Commits, NEW M, Generations(M, S)
  PROVE  /\ \A n \in Nat : M[n] \subseteq ReachAll(S)
         /\ \A n \in Nat : n > Cardinality(Commits) => M[n] = {}
<1> DEFINE Low == {n \in Nat : \A c \in M[n] : c \in ReachAll(S)
                                 /\ Cardinality(Ancestors[c]) + n <= Cardinality(Commits)}
<1>1. \A c \in Commits : /\ IsFiniteSet(Ancestors[c]) /\ Cardinality(Ancestors[c]) \in Nat
                          /\ Cardinality(Ancestors[c]) <= Cardinality(Commits)
  BY ParentsAreBehind, CommitsAssumption, FS_Subset, FS_CardinalityType
<1>2. Cardinality(Commits) \in Nat
  BY CommitsAssumption, FS_CardinalityType
<1>3. 0 \in Low
  BY <1>1, <1>2 DEF Generations, ReachAll, Reach
<1>4. ASSUME NEW n \in Nat, n \in Low PROVE n + 1 \in Low
  <2> SUFFICES ASSUME NEW p \in M[n + 1]
               PROVE  p \in ReachAll(S) /\ Cardinality(Ancestors[p]) + (n + 1) <= Cardinality(Commits)
    OBVIOUS
  <2>1. PICK c \in M[n] : p \in Parents[c]
    BY DEF Generations, ParentsOf
  <2>2. c \in Commits /\ p \in Commits /\ p \in Ancestors[c]
    BY <2>1, ParentsAreBehind DEF Generations
  <2>3. Ancestors[p] \subseteq Ancestors[c] /\ Ancestors[p] # Ancestors[c]
    BY <2>2, HistoryAssumption
  <2>4. Cardinality(Ancestors[p]) < Cardinality(Ancestors[c])
    BY <1>1, <2>2, <2>3, FS_Subset
  <2>5. c \in ReachAll(S) /\ Cardinality(Ancestors[c]) + n <= Cardinality(Commits)
    BY <1>4, <2>1
  <2>6. p \in ReachAll(S)
    BY <2>2, <2>3, <2>5, ParentsAreBehind DEF ReachAll, Reach
  <2> QED
    BY <1>1, <1>2, <2>2, <2>4, <2>5, <2>6
<1> HIDE DEF Low
<1>5. \A n \in Nat : n \in Low
  BY <1>3, <1>4, AllNaturals
<1>6. ASSUME NEW n \in Nat, n > Cardinality(Commits), NEW c \in M[n] PROVE FALSE
  <2>1. c \in Commits /\ Cardinality(Ancestors[c]) + n <= Cardinality(Commits)
    BY <1>5, <1>6 DEF Low, Generations
  <2> QED
    BY <1>1, <1>2, <1>6, <2>1
<1> QED
  BY <1>5, <1>6 DEF Low

\* A walk that a depth of k ends, over all that is behind, comes to k generations.
LEMMA WalkIsNear ==
  ASSUME NEW S \in SUBSET Commits, NEW store \in SUBSET Commits, ReachAll(S) \subseteq store,
         NEW k \in Nat, k > 0, NEW rule,
         \A i \in Steps : rule[i] = IF i < k THEN Commits ELSE {}
  PROVE  Within(store, S, rule) = Near(S, k - 1)
<1>1. PICK L : IsWalk(L, Within(store, S, rule), store, S, rule)
  BY WithinIs
<1>2. PICK M : Generations(M, S)
  BY GenerationsExist
<1>3. k - 1 \in Nat /\ Near(S, k - 1) = UNION {M[j] : j \in 0 .. k - 1}
  BY <1>2, NearIs
<1>4. /\ \A n \in Nat : M[n] \subseteq ReachAll(S)
      /\ \A n \in Nat : n > Cardinality(Commits) => M[n] = {}
  BY <1>2, GenerationsEnd
<1>5. Cardinality(Commits) \in Nat
  BY CommitsAssumption, FS_CardinalityType
<1> DEFINE Same == {i \in Nat : i \in Steps => L[i] = IF i < k THEN M[i] ELSE {}}
<1>6. 0 \in Same
  BY <1>1, <1>2, <1>4 DEF IsWalk, Generations
<1>7. ASSUME NEW i \in Nat, i \in Same PROVE i + 1 \in Same
  <2> SUFFICES ASSUME i + 1 \in Steps PROVE L[i + 1] = IF i + 1 < k THEN M[i + 1] ELSE {}
    OBVIOUS
  <2>1. L[i + 1] = ParentsOf(L[i]) \intersect store \intersect rule[i + 1]
    BY <1>1 DEF IsWalk
  <2>2. i \in Steps
    BY <1>5 DEF Steps
  <2>3. CASE i + 1 < k
    <3>1. L[i] = M[i] /\ M[i + 1] = ParentsOf(M[i]) /\ M[i + 1] \subseteq store /\ M[i + 1] \subseteq Commits
      BY <1>2, <1>4, <1>7, <2>2, <2>3 DEF Generations
    <3> QED
      BY <2>1, <2>3, <3>1
  <2>4. CASE ~(i + 1 < k)
    BY <2>1, <2>4
  <2> QED
    BY <2>3, <2>4
<1> HIDE DEF Same
<1>8. \A i \in Nat : i \in Same
  BY <1>6, <1>7, AllNaturals
<1>9. \A i \in Steps : i \in Nat /\ L[i] = IF i < k THEN M[i] ELSE {}
  BY <1>5, <1>8 DEF Same, Steps
<1>10. Within(store, S, rule) = UNION {L[n] : n \in Steps}
  BY <1>1 DEF IsWalk
<1>11. ASSUME NEW x \in Within(store, S, rule) PROVE x \in Near(S, k - 1)
  <2>1. PICK i \in Steps : x \in L[i]
    BY <1>10
  <2>2. i \in 0 .. k - 1 /\ x \in M[i]
    BY <1>9, <2>1
  <2> QED
    BY <1>3, <2>2
<1>12. ASSUME NEW x \in Near(S, k - 1) PROVE x \in Within(store, S, rule)
  <2>1. PICK j \in 0 .. k - 1 : x \in M[j]
    BY <1>3
  <2>2. j \in Steps /\ j < k
    BY <1>4, <1>5, <2>1 DEF Steps
  <2> QED
    BY <1>9, <1>10, <2>1, <2>2
<1> QED
  BY <1>11, <1>12

\* Every commit of a generation but the last has its parents in the next, so that whatever
\* holds S and goes on behind what is not at the edge holds them all.
LEMMA NearIsSeen ==
  ASSUME NEW S \in SUBSET Commits, NEW k \in Nat, NEW T, S \subseteq T, Closed(T, Edge(Near(S, k)))
  PROVE  S \subseteq Near(S, k) /\ Near(S, k) \subseteq T /\ Near(S, k) \subseteq ReachAll(S)
<1>1. PICK M : Generations(M, S)
  BY GenerationsExist
<1>2. Near(S, k) = UNION {M[j] : j \in 0 .. k}
  <2>1. \A n \in Nat : Near(S, n) = UNION {M[j] : j \in 0 .. n}
    BY <1>1, NearIs
  <2> QED
    BY <2>1
<1> DEFINE Held == {j \in Nat : j <= k => M[j] \subseteq T}
<1>3. 0 \in Held
  BY <1>1 DEF Generations
<1>4. ASSUME NEW j \in Nat, j \in Held PROVE j + 1 \in Held
  <2> SUFFICES ASSUME j + 1 <= k, NEW p \in M[j + 1] PROVE p \in T
    OBVIOUS
  <2>1. PICK c \in M[j] : p \in Parents[c]
    BY <1>1 DEF Generations, ParentsOf
  <2>2. M[j + 1] \subseteq Near(S, k) /\ Parents[c] \subseteq M[j + 1]
    BY <1>1, <1>2, <2>1 DEF Generations, ParentsOf
  <2>3. c \in T /\ c \notin Edge(Near(S, k))
    BY <1>4, <2>1, <2>2 DEF Edge
  <2> QED
    BY <2>1, <2>3 DEF Closed
<1> HIDE DEF Held
<1>5. \A j \in Nat : j \in Held
  BY <1>3, <1>4, AllNaturals
<1>6. ASSUME NEW x \in Near(S, k) PROVE x \in T /\ x \in ReachAll(S)
  <2>1. PICK j \in 0 .. k : x \in M[j]
    BY <1>2
  <2> QED
    BY <1>1, <1>5, <2>1, GenerationsEnd DEF Held
<1> QED
  BY <1>1, <1>2, <1>6 DEF Generations

\* What goes on behind every commit but those of cut holds whole histories that cut is not in.
LEMMA ClosedHoldsHistory ==
  ASSUME NEW T \in SUBSET Commits, NEW S \in SUBSET T, NEW cut, Closed(T, cut),
         cut \intersect ReachAll(S) = {}
  PROVE  ReachAll(S) \subseteq T
<1> SUFFICES ASSUME NEW x \in ReachAll(S), x \notin T PROVE FALSE
  OBVIOUS
<1> DEFINE Above == {c \in T \intersect ReachAll(S) : x \in Ancestors[c]}
<1>1. PICK s \in S : x \in Reach(s)
  BY DEF ReachAll
<1>2. s \in Above
  BY <1>1 DEF Reach, ReachAll
<1>3. PICK c \in Above : \A b \in Above : b \notin Ancestors[c]
  <2>1. Above \in SUBSET Commits /\ Above # {}
    BY <1>2
  <2> HIDE DEF Above
  <2> QED
    BY <2>1, EarliestCommit
<1>4. c \in Commits /\ c \in T /\ c \in ReachAll(S) /\ x \in Ancestors[c] /\ Parents[c] \subseteq T
  BY <1>3 DEF Closed
<1>5. PICK p \in Parents[c] : x \in Reach(p)
  BY <1>4, ParentsAssumption DEF ReachAll
<1>6. p \in T /\ p \in Ancestors[c] /\ x \in Ancestors[p]
  BY <1>4, <1>5, ParentsAreBehind DEF Reach
<1>7. p \in ReachAll(S)
  BY <1>4, <1>6, ParentsAreBehind DEF ReachAll, Reach
<1> QED
  BY <1>3, <1>6, <1>7
-----------------------------------------------------------------------------
\* What the proofs need of the variables' types.
Typed ==
  /\ setting \in DOMAIN Settings /\ bases \in Settings[setting].graphs
  /\ have \subseteq Oids /\ shallow \subseteq Commits /\ tips \subseteq Oids
  /\ filtered \in BOOLEAN /\ promisor \in BOOLEAN /\ uneven \in BOOLEAN
  /\ req \in Request /\ answer \in Answer

LEMMA BasesFit ==
  Typed => /\ DOMAIN bases \subseteq Commits
           /\ \A c \in DOMAIN bases : bases[c] \subseteq Commits /\ bases[c] \subseteq Ancestors[c]
<1> SUFFICES ASSUME Typed PROVE /\ DOMAIN bases \subseteq Commits
                               /\ \A c \in DOMAIN bases : bases[c] \subseteq Commits /\ bases[c] \subseteq Ancestors[c]
  OBVIOUS
<1>1. Settings[setting] \in Range(Settings) /\ bases \in Settings[setting].graphs
  BY DEF Typed, Range
<1> QED
  BY <1>1, SettingsAssumption DEF Partial

LEMMA NamedIs ==
  ASSUME Typed, NEW S, NEW skip
  PROVE  /\ S \subseteq Named(S, skip)
         /\ \A o \in Named(S, skip) : Behind(o, skip) \subseteq Named(S, skip)
<1> DEFINE Whole == {T \in SUBSET Commits : \A o \in S \union T : Behind(o, skip) \subseteq T}
<1>1. Named(S, skip) = S \union {c \in Commits : \A T \in Whole : c \in T}
  BY DEF Named
<1>2. \A o : Behind(o, skip) \subseteq Commits
  BY BasesFit DEF Behind, Served
<1> HIDE DEF Whole
<1>3. \A T \in Whole : \A o \in S \union T : Behind(o, skip) \subseteq T
  BY DEF Whole
<1> QED
  BY <1>1, <1>2, <1>3

\* What is behind a commit: commits, and what their trees hold.
Carried(c) == Reach(c) \union TreesOf(Reach(c))

\* The packfiles of a graph that resolved carry the whole history of every manifest in it, but
\* for what is behind commits at hand: the earliest commit of the graph that reaches x has it
\* in its packfile, since no base does.
LEMMA GraphCarries ==
  ASSUME Typed, NEW S, NEW skip \in BOOLEAN, Resolves(S, skip), NEW n \in Named(S, skip),
         NEW x \in Carried(Manifest(n))
  PROVE  \/ x \in PacksOf(Graph(S, skip))
         \/ skip /\ \E l \in have \intersect Commits : x \in Carried(l)
<1> DEFINE T == {c \in Commits : x \in Carried(c) /\ \E o \in Named(S, skip) : Manifest(o) = c}
<1>1. \A o \in Named(S, skip) : Manifest(o) \in Commits /\ (Local(o) => Manifest(o) = o)
  BY BasesFit, ObjectsAssumption DEF Resolves, Served, Local, Manifest
<1>2. PICK c \in T : \A b \in T : b \notin Ancestors[c]
  <2>1. T \in SUBSET Commits /\ T # {}
    BY <1>1
  <2> HIDE DEF T
  <2> QED
    BY <2>1, EarliestCommit
<1>3. PICK o \in Named(S, skip) : Manifest(o) = c
  BY <1>2
<1>4. CASE skip /\ Local(o)
  BY <1>1, <1>2, <1>3, <1>4 DEF Local
<1>5. CASE ~(skip /\ Local(o))
  <2>1. Served(o) /\ c \in DOMAIN bases /\ o \in Graph(S, skip)
    BY <1>3, <1>5 DEF Resolves, Served, Graph
  <2>2. bases[c] \subseteq Named(S, skip)
    <3>1. Behind(o, skip) = bases[c]
      BY <1>3, <1>5, <2>1 DEF Behind
    <3> QED
      BY <3>1, NamedIs
  <2>3. ASSUME NEW b \in bases[c] PROVE x \notin Carried(b)
    <3>1. b \in Commits /\ b \in Ancestors[c] /\ Manifest(b) = b
      BY <2>1, BasesFit, ObjectsAssumption DEF Manifest
    <3> QED
      BY <1>2, <2>2, <3>1
  <2>4. x \notin ReachAll(bases[c]) /\ x \notin TreesOf(ReachAll(bases[c]))
    BY <2>3 DEF Carried, ReachAll, TreesOf
  <2>5. x \in PackOf(c)
    BY <1>2, <2>4 DEF PackOf, Packed, Carried
  <2> QED
    BY <1>3, <2>1, <2>5 DEF PacksOf
<1> QED
  BY <1>4, <1>5

LEMMA GraphWhole ==
  ASSUME Typed, NEW S \in SUBSET Oids, Resolves(S, FALSE)
  PROVE  ReachAll(CommitsOf(S)) \subseteq PacksOf(Graph(S, FALSE))
<1> SUFFICES ASSUME NEW s \in CommitsOf(S), NEW x \in Reach(s) PROVE x \in PacksOf(Graph(S, FALSE))
  BY DEF ReachAll
<1>1. PICK o \in S : Manifest(o) = s
  BY ObjectsAssumption DEF CommitsOf, Manifest
<1>2. o \in Named(S, FALSE)
  BY NamedIs
<1>3. x \in Carried(Manifest(o))
  BY <1>1 DEF Carried
<1> QED
  BY <1>2, <1>3, GraphCarries
-----------------------------------------------------------------------------
(***************************************************************************)
(* HistoryIsWhole.  What is wanted is staged with its history before it is *)
(* cut; a cut by a depth lies where the wants can see it; the packfile is  *)
(* what the wants see that the client does not; so what the client sees    *)
(* next of all its refs is what it saw, or in the packfile.                *)
(***************************************************************************)
Answering == {"resolve", "sizes", "search", "check", "pack", "apply"}

Requested ==
  /\ pc \in Answering => req.haves \subseteq KnownCommits /\ (req.filter => filtered)
  /\ pc = "sizes" \/ req.kind = "info" => ~Deepens(req.cut)
  /\ pc = "search" => promisor \/ ~Deepens(req.cut)

Staged == pc = "check" /\ Deepening => ReachAll(CommitsOf(Wanted)) \subseteq stage

\* A slice that is as asked, and its edge.
AsAsked(W) ==
  /\ ByDepth => W = Near(WalkFrom, req.cut.n - 1)
  /\ ByMore /\ shallow \subseteq ReachAll(CommitsOf(req.wants)) => W = Near(shallow, req.cut.n)
  /\ FromWants /\ WalkFrom \subseteq LetIn => WalkFrom \subseteq W /\ W \subseteq LetIn
CutAt(W) ==
  answer.shallow = Edge(W) /\ answer.unshallow = (shallow \intersect W) \ Edge(W) /\ AsAsked(W)
CutMade ==
  pc \in {"pack", "apply"} =>
    /\ ~Deepening => answer.shallow = {} /\ answer.unshallow = {}
    /\ Deepening => (uneven \/ ByDepth) /\ \E W \in SUBSET Commits : CutAt(W)

PackMade == pc = "apply" => answer.pack = Pack

Serves == Typed /\ Requested /\ Staged /\ CutMade /\ PackMade /\ HistoryIsWhole

LEMMA CommitsOfIs ==
  /\ \A S : CommitsOf(S) \subseteq Commits
  /\ \A S, T : CommitsOf(S \union T) = CommitsOf(S) \union CommitsOf(T)
BY ObjectsAssumption DEF CommitsOf

LEMMA EdgeIs == \A W \in SUBSET Commits : Edge(W) \subseteq W /\ \A c \in W \ Edge(W) : Parents[c] \subseteq W
BY DEF Edge

LEMMA DepthFits == Typed => req.cut.n \in Nat
<1>1. Steps \subseteq Nat
  BY CommitsAssumption, FS_CardinalityType DEF Steps
<1> QED
  BY <1>1 DEF Typed, Request, Cut

\* The slice that is cut out of the staged history is as asked.
LEMMA SliceFits ==
  ASSUME Typed, Deepening, ReachAll(CommitsOf(Wanted)) \subseteq stage
  PROVE  Slice \in SUBSET Commits /\ AsAsked(Slice)
<1> DEFINE n == req.cut.n
           store == View \intersect Commits
           rule == AllOf(Rules)
<1>1. n \in Nat /\ Slice = Within(store, WalkFrom, rule)
  BY DepthFits DEF Slice
<1>2. /\ CommitsOf(req.wants) \subseteq Commits /\ WalkFrom \subseteq Commits
      /\ FromWants => WalkFrom \subseteq CommitsOf(req.wants)
      /\ ExcludedTips \subseteq Commits
      /\ CommitsOf(Wanted) = CommitsOf(req.wants) \union ExcludedTips
  BY CommitsOfIs, RefsAssumption, ObjectsAssumption
     DEF WalkFrom, FromWants, CommitsOf, Typed, Wanted, ExcludedTips
<1>3. \A X \in SUBSET Commits : X \subseteq ReachAll(X) /\ ReachAll(X) \subseteq Commits
                               /\ \A c \in ReachAll(X) : Ancestors[c] \subseteq ReachAll(X)
  BY ParentsAreBehind DEF ReachAll, Reach
<1>4. /\ ReachAll(CommitsOf(req.wants)) \subseteq store /\ ReachAll(ExcludedTips) \subseteq store
  BY <1>2, <1>3 DEF ReachAll, View
<1>5. store \in SUBSET Commits
  OBVIOUS
<1> HIDE DEF store
<1>6. ASSUME ByDepth PROVE Slice = Near(WalkFrom, n - 1)
  <2>1. Rules = {AtDepth(n)} /\ n > 0
    BY <1>1, <1>6 DEF Rules, ByDepth, OnlyDepth, FromWants
  <2>2. \A i \in Steps : rule[i] = IF i < n THEN Commits ELSE {}
    BY <2>1 DEF AllOf, AtDepth
  <2>3. ReachAll(WalkFrom) \subseteq store
    BY <1>2, <1>4, <1>6 DEF ReachAll, ByDepth
  <2> HIDE DEF n, rule
  <2> QED
    BY <1>1, <1>2, <1>5, <2>1, <2>2, <2>3, WalkIsNear
<1>7. ASSUME ByMore, shallow \subseteq ReachAll(CommitsOf(req.wants)) PROVE Slice = Near(shallow, n)
  <2>1. Rules = {AtDepth(n + 1)} /\ WalkFrom = shallow
    BY <1>1, <1>7 DEF Rules, ByMore, OnlyDepth, FromWants, RelativeDepth, WalkFrom
  <2>2. \A i \in Steps : rule[i] = IF i < n + 1 THEN Commits ELSE {}
    BY <2>1 DEF AllOf, AtDepth
  <2>3. ReachAll(shallow) \subseteq store
    BY <1>2, <1>3, <1>4, <1>7 DEF ReachAll, Reach
  <2>4. n + 1 \in Nat /\ n + 1 > 0 /\ (n + 1) - 1 = n
    BY <1>1
  <2> DEFINE k == n + 1
  <2>5. Within(store, shallow, rule) = Near(shallow, k - 1)
    <3>1. shallow \in SUBSET Commits /\ k \in Nat /\ k > 0
            /\ \A i \in Steps : rule[i] = IF i < k THEN Commits ELSE {}
      BY <1>2, <2>1, <2>2, <2>4
    <3> HIDE DEF k, rule
    <3> QED
      BY <1>5, <2>3, <3>1, WalkIsNear
  <2> QED
    BY <1>1, <2>1, <2>4, <2>5
<1>8. PICK L : IsWalk(L, Slice, store, WalkFrom, rule)
  <2> HIDE DEF rule
  <2> QED
    BY <1>1, <1>5, WithinIs
<1>9. Steps \subseteq Nat /\ 0 \in Steps
  BY CommitsAssumption, FS_CardinalityType DEF Steps
<1>10. /\ L \in [Nat -> SUBSET Commits] /\ Slice = UNION {L[i] : i \in Steps}
       /\ L[0] = WalkFrom \intersect store \intersect rule[0]
       /\ \A i \in Nat : L[i + 1] = ParentsOf(L[i]) \intersect store \intersect rule[i + 1]
  BY <1>8 DEF IsWalk
<1>11. Slice \in SUBSET Commits
  BY <1>9, <1>10
<1>12. ASSUME FromWants, WalkFrom \subseteq LetIn
       PROVE  WalkFrom \subseteq Slice /\ Slice \subseteq LetIn
  <2> DEFINE out == Reachable(store, ExcludedTips)
  <2>1. out = ReachAll(ExcludedTips)
    <3>1. out \in SUBSET Commits /\ ExcludedTips \in SUBSET out /\ Closed(out, Commits \ store)
      BY <1>2, VisibleIs DEF Reachable
    <3>2. ReachAll(ExcludedTips) \subseteq out
      <4>1. (Commits \ store) \intersect ReachAll(ExcludedTips) = {}
        BY <1>4
      <4> HIDE DEF out
      <4> QED
        BY <3>1, <4>1, ClosedHoldsHistory
    <3>3. Closed(ReachAll(ExcludedTips), Commits \ store)
      BY <1>2, <1>3, ParentsAreBehind DEF Closed
    <3>4. out \subseteq ReachAll(ExcludedTips)
      BY <1>2, <1>3, <3>3, VisibleIs DEF Reachable
    <3> QED
      BY <3>2, <3>4
  <2>2. req.cut.not = {} => ReachAll(ExcludedTips) = {}
    BY DEF ExcludedTips, ReachAll
  <2>3. \A r \in Rules : \/ req.cut.n > 0 /\ r = AtDepth(n)
                         \/ req.cut.since /\ r = Since
                         \/ req.cut.not # {} /\ r = Excluding(out)
    BY <1>1, <1>12 DEF Rules, FromWants, store
  <2>4. /\ req.cut.since => Since \in Rules
        /\ req.cut.not # {} => Excluding(out) \in Rules
    BY DEF Rules, store
  <2> HIDE DEF out
  <2>5. \A i \in Steps : rule[i] \subseteq LetIn
    <3> SUFFICES ASSUME NEW i \in Steps, NEW c \in rule[i] PROVE c \in LetIn
      OBVIOUS
    <3>1. c \in Commits /\ \A r \in Rules : c \in r[i]
      BY DEF AllOf
    <3>2. req.cut.since => c \in Recent
      BY <2>4, <3>1 DEF Since
    <3>3. c \notin ReachAll(ExcludedTips)
      BY <2>1, <2>2, <2>4, <3>1 DEF Excluding
    <3> QED
      BY <3>1, <3>2, <3>3 DEF LetIn
  <2>6. LetIn \subseteq rule[0]
    <3> SUFFICES ASSUME NEW c \in LetIn PROVE c \in Commits /\ \A r \in Rules : c \in r[0]
      BY <1>9 DEF AllOf
    <3>1. c \in Commits /\ (req.cut.since => c \in Recent) /\ c \notin ReachAll(ExcludedTips)
      BY RecentAssumption DEF LetIn
    <3> QED
      BY <1>1, <1>9, <2>1, <2>3, <3>1 DEF AtDepth, Since, Excluding
  <2>7. WalkFrom \subseteq store
    BY <1>2, <1>3, <1>4, <1>12
  <2> HIDE DEF rule
  <2>8. WalkFrom \subseteq L[0]
    BY <1>10, <1>12, <2>6, <2>7
  <2>9. ASSUME NEW i \in Steps PROVE L[i] \subseteq LetIn
    <3>1. CASE i = 0
      BY <1>10, <2>5, <2>9, <3>1
    <3>2. CASE i # 0
      <4>1. i - 1 \in Nat /\ (i - 1) + 1 = i
        BY <1>9, <3>2
      <4>2. L[i] \subseteq rule[i]
        BY <1>10, <4>1
      <4> QED
        BY <2>5, <4>2
    <3> QED
      BY <3>1, <3>2
  <2> QED
    BY <1>9, <1>10, <2>8, <2>9
<1> QED
  BY <1>6, <1>7, <1>11, <1>12 DEF AsAsked

\* A slice by depth from the wants, the wants see.
LEMMA DepthIsSeen ==
  ASSUME Typed, ByDepth, NEW W \in SUBSET Commits, AsAsked(W)
  PROVE  W \subseteq Visible(CommitsOf(req.wants), Edge(W))
<1>1. req.cut.n - 1 \in Nat /\ W = Near(WalkFrom, req.cut.n - 1)
  BY DepthFits DEF AsAsked, ByDepth, OnlyDepth
<1>2. WalkFrom \in SUBSET Commits /\ WalkFrom \subseteq CommitsOf(req.wants)
  BY DEF ByDepth, WalkFrom, CommitsOf
<1>3. CommitsOf(req.wants) \subseteq Visible(CommitsOf(req.wants), Edge(W))
        /\ Closed(Visible(CommitsOf(req.wants), Edge(W)), Edge(W))
  BY CommitsOfIs, VisibleIs
<1>4. Near(WalkFrom, req.cut.n - 1) \subseteq Visible(CommitsOf(req.wants), Edge(W))
  <2> DEFINE k == req.cut.n - 1
             T == Visible(CommitsOf(req.wants), Edge(W))
  <2>1. k \in Nat /\ WalkFrom \subseteq T /\ Closed(T, Edge(Near(WalkFrom, k)))
    BY <1>1, <1>2, <1>3
  <2> HIDE DEF k, T
  <2>2. Near(WalkFrom, k) \subseteq T
    BY <1>2, <2>1, NearIsSeen
  <2> QED
    BY <2>2 DEF k, T
<1> QED
  BY <1>1, <1>4

\* What is left out of a pack, the client sees already.
LEMMA ExcludedIsKnown ==
  ASSUME Typed, req.haves \subseteq KnownCommits
  PROVE  /\ Excluded \subseteq Commits
         /\ Visible(Excluded, Registered) \subseteq KnownCommits
<1>1. CASE promisor \/ Deepening
  <2>1. Excluded = {}
    BY <1>1 DEF Excluded
  <2>2. Visible({}, Registered) \subseteq {}
    BY VisibleIs DEF Closed
  <2> QED
    BY <2>1, <2>2
<1>2. CASE ~promisor /\ ~Deepening
  <2>1. Excluded \subseteq KnownCommits /\ Registered = shallow
    BY <1>2 DEF Excluded, Registered
  <2>2. KnownCommits \subseteq Commits
    BY CommitsOfIs, VisibleIs DEF KnownCommits
  <2>3. Visible(Excluded, shallow) \subseteq Visible(CommitsOf(tips), shallow)
    <3>1. Excluded \in SUBSET Commits /\ CommitsOf(tips) \in SUBSET Commits
      BY <2>1, <2>2, CommitsOfIs
    <3> QED
      BY <2>1, <3>1, VisibleGrows DEF KnownCommits
  <2> QED
    BY <2>1, <2>2, <2>3 DEF KnownCommits
<1> QED
  BY <1>1, <1>2

\* Behind its refs and the wants, down to the new boundary, the client sees what it saw
\* before and what is sent.
LEMMA SeesOnlySent ==
  ASSUME Typed, Requested, CutMade, pc = "apply", ~uneven,
         NEW cut, cut = (shallow \union answer.shallow) \ answer.unshallow
  PROVE  Visible(CommitsOf(tips \union req.wants), cut) \subseteq KnownCommits \union Sent
<1> DEFINE T == CommitsOf(tips)
           W == CommitsOf(req.wants)
           Both == KnownCommits \union Sent
<1>1. T \in SUBSET Commits /\ W \in SUBSET Commits /\ CommitsOf(tips \union req.wants) = T \union W
  BY CommitsOfIs
<1>2. T \union W \in SUBSET Commits
  BY <1>1
<1>3. req.haves \subseteq KnownCommits
  BY DEF Requested, Answering
<1>4. /\ KnownCommits \subseteq Commits /\ T \subseteq KnownCommits /\ Closed(KnownCommits, shallow)
  BY <1>1, VisibleIs DEF KnownCommits
<1>5. /\ Visible(W, Registered) \subseteq Commits /\ W \subseteq Visible(W, Registered)
      /\ Closed(Visible(W, Registered), Registered)
  BY <1>1, VisibleIs
<1>6. Both = KnownCommits \union Visible(W, Registered)
  <2>1. CASE promisor \/ Deepening
    <3>1. Excluded = {}
      BY <2>1 DEF Excluded
    <3>2. Visible({}, Registered) \subseteq {}
      BY VisibleIs DEF Closed
    <3> QED
      BY <3>1, <3>2 DEF Sent
  <2>2. CASE ~promisor /\ ~Deepening
    BY <1>3, ExcludedIsKnown DEF Sent
  <2> QED
    BY <2>1, <2>2
<1>7. Both \in SUBSET Commits /\ T \union W \subseteq Both
  BY <1>4, <1>5, <1>6
<1>8. Closed(Both, cut)
  <2>1. CASE ~Deepening
    <3>1. cut = shallow /\ Registered = shallow
      BY <2>1 DEF CutMade, Registered
    <3> QED
      BY <1>4, <1>5, <1>6, <3>1 DEF Closed
  <2>2. CASE Deepening
    <3>1. PICK view \in SUBSET Commits : CutAt(view)
      BY <2>2 DEF CutMade
    <3>2. /\ Registered = Edge(view) /\ Edge(view) \subseteq view
          /\ view \subseteq Visible(W, Registered)
          /\ cut = (shallow \ view) \union Edge(view)
      <4>1. Registered = Edge(view) /\ Edge(view) \subseteq view
        BY <2>2, <3>1, EdgeIs DEF CutAt, Registered
      <4>2. view \subseteq Visible(W, Edge(view))
        BY <2>2, <3>1, DepthIsSeen DEF CutMade, CutAt
      <4> QED
        BY <3>1, <4>1, <4>2 DEF CutAt
    <3>3. ASSUME NEW c \in Both, c \notin cut PROVE Parents[c] \subseteq Both
      <4>1. CASE c \in Visible(W, Registered)
        BY <1>5, <1>6, <3>2, <3>3, <4>1 DEF Closed
      <4>2. CASE c \notin Visible(W, Registered)
        <5>1. c \in KnownCommits /\ c \notin shallow
          BY <1>6, <3>2, <3>3, <4>2
        <5> QED
          BY <1>4, <1>6, <5>1 DEF Closed
      <4> QED
        BY <4>1, <4>2
    <3> QED
      BY <3>3 DEF Closed
  <2> QED
    BY <2>1, <2>2
<1> HIDE DEF Both, T, W
<1>9. Visible(T \union W, cut) \subseteq Both
  BY <1>2, <1>7, <1>8, VisibleIs
<1> QED
  BY <1>1, <1>9 DEF Both

LEMMA AppliedIsWhole ==
  ASSUME Serves, pc = "apply", ~uneven,
         NEW cut, cut = (shallow \union answer.shallow) \ answer.unshallow
  PROVE  WholeBehind(tips \union req.wants, have \union answer.pack, cut)
<1> USE DEF Serves
<1> DEFINE objects == have \union answer.pack
<1>1. Visible(CommitsOf(tips \union req.wants), cut) \subseteq KnownCommits \union Sent
  BY SeesOnlySent
<1>2. /\ tips \intersect Tags \subseteq have
      /\ \A c \in KnownCommits : c \in have /\ (filtered \/ Tree[c] \subseteq have)
  BY DEF HistoryIsWhole, WholeBehind, KnownCommits
<1>3. answer.pack = Sent \union SentBlobs \union (req.wants \ Commits)
  BY DEF PackMade, Pack
<1>4. ASSUME NEW c \in Sent, ~filtered PROVE Tree[c] \subseteq objects
  <2>1. ~req.filter /\ req.haves \subseteq KnownCommits
    BY <1>4 DEF Requested, Answering
  <2>2. Visible(Excluded, Registered) \subseteq KnownCommits
    BY <2>1, ExcludedIsKnown
  <2>3. Tree[c] \subseteq SentBlobs \union TreesOf(ParentsOf(Sent) \intersect Visible(Excluded, Registered))
    BY <2>1 DEF SentBlobs, TreesOf
  <2>4. TreesOf(ParentsOf(Sent) \intersect Visible(Excluded, Registered)) \subseteq have
    BY <1>2, <1>4, <2>2 DEF TreesOf
  <2> QED
    BY <1>3, <2>3, <2>4
<1>5. (tips \union req.wants) \intersect Tags \subseteq objects
  BY <1>2, <1>3, ObjectsAssumption
<1>6. ASSUME NEW c \in KnownCommits \union Sent
      PROVE  c \in objects /\ (filtered \/ Tree[c] \subseteq objects)
  BY <1>2, <1>3, <1>4
<1> QED
  BY <1>1, <1>5, <1>6 DEF WholeBehind

\* A cut stays what it is while the request, the boundary and the answer's shallow-info do.
LEMMA CutStays ==
  ASSUME UNCHANGED <<req, shallow, promisor>>,
         answer'.shallow = answer.shallow, answer'.unshallow = answer.unshallow
  PROVE  /\ Deepening' = Deepening /\ ByDepth' = ByDepth
         /\ (\E W \in SUBSET Commits : CutAt(W)) => (\E W \in SUBSET Commits : CutAt(W))'
<1>1. Deepening' = Deepening /\ ByDepth' = ByDepth /\ ByMore' = ByMore /\ FromWants' = FromWants
        /\ WalkFrom' = WalkFrom /\ LetIn' = LetIn
  BY DEF Deepening, ByDepth, ByMore, OnlyDepth, FromWants, Relative, WalkFrom, LetIn, ExcludedTips
<1>2. ASSUME NEW W \in SUBSET Commits, CutAt(W) PROVE CutAt(W)'
  BY <1>1, <1>2 DEF CutAt, AsAsked
<1> QED
  BY <1>1, <1>2

LEMMA NothingAsked == NoRequest \in Request /\ NoAnswer \in Answer /\ ~Deepens(NoRequest.cut)
<1>1. 0 \in Steps
  BY CommitsAssumption, FS_CardinalityType DEF Steps
<1> QED
  BY <1>1 DEF NoRequest, NoCut, Request, Cut, NoAnswer, Answer, Deepens

LEMMA ServesInit == Init => Serves
<1> SUFFICES ASSUME Init PROVE Serves
  OBVIOUS
<1>1. Typed
  <2>1. Settings[setting] \in Range(Settings)
    BY DEF Init, Range
  <2>2. filtered \in BOOLEAN
    BY <2>1, SettingsAssumption DEF Init
  <2> QED
    BY <2>2, NothingAsked DEF Init, Typed
<1>2. HistoryIsWhole
  <2>1. CommitsOf({}) = {}
    BY DEF CommitsOf
  <2>2. Visible({}, {}) \subseteq {}
    BY VisibleIs DEF Closed
  <2> QED
    BY <2>1, <2>2 DEF Init, HistoryIsWhole, WholeBehind
<1> QED
  BY <1>1, <1>2, NothingAsked DEF Init, Serves, Requested, Answering, Staged, CutMade, PackMade, NoRequest

\* Where the client stays as it is, what it sees stays whole.
LEMMA ClientStays ==
  ASSUME Serves, UNCHANGED client, uneven => uneven', pc' # "rejected"
  PROVE  HistoryIsWhole' /\ KnownCommits' = KnownCommits
BY DEF Serves, client, HistoryIsWhole, WholeBehind, KnownCommits, CommitsOf

LEMMA AskServes ==
  ASSUME Serves, UNCHANGED setting, NEW r \in Request, Ask(r), r.haves \subseteq KnownCommits,
         r.filter => filtered, r.kind = "info" => ~Deepens(r.cut)
  PROVE  Serves'
<1>1. /\ UNCHANGED <<setting, registry, client, scratch, uneven>> /\ req' = r
      /\ pc' = IF r.kind = "info" THEN "sizes" ELSE "resolve"
  BY DEF Ask
<1>2. HistoryIsWhole' /\ KnownCommits' = KnownCommits
  BY <1>1, ClientStays
<1>3. Typed'
  BY <1>1 DEF Serves, Typed, registry, client, scratch
<1>4. Requested'
  BY <1>1, <1>2 DEF Requested, client
<1> QED
  BY <1>1, <1>2, <1>3, <1>4 DEF Serves, Staged, CutMade, PackMade

LEMMA EndServes ==
  ASSUME Serves, UNCHANGED <<setting, registry, client, uneven>>,
         NEW how \in {"served", "refused", "broken"}, End(how)
  PROVE  Serves'
<1>1. HistoryIsWhole'
  BY ClientStays DEF End
<1>2. Typed'
  BY NothingAsked DEF Serves, Typed, registry, client, End
<1>3. Requested'
  BY NothingAsked DEF Requested, End, Answering, NoRequest
<1> QED
  BY <1>1, <1>2, <1>3 DEF Serves, Staged, CutMade, PackMade, End

LEMMA PackTyped == ASSUME Typed PROVE Pack \subseteq Oids
<1>1. Sent \subseteq Commits
  BY CommitsOfIs, VisibleIs DEF Sent
<1>2. SentBlobs \subseteq Blobs
  BY <1>1, ObjectsAssumption DEF SentBlobs, TreesOf
<1> QED
  BY <1>1, <1>2 DEF Pack, Oids, Typed, Request

LEMMA StepServes == ASSUME Serves, Step, UNCHANGED setting PROVE Serves'
<1> USE DEF Serves
<1>1. CASE RefuseExclude \/ RefuseMissing \/ TellSizes
  BY <1>1, EndServes DEF RefuseExclude, RefuseMissing, TellSizes, Refuse
<1>2. CASE StageWants
  <2>1. /\ UNCHANGED <<registry, client, req, promisor, answer, uneven>>
        /\ pc = "resolve" /\ pc' = "check" /\ Resolves(Wanted, SkipLocal)
        /\ stage' = PacksOf(Graph(Wanted, SkipLocal))
    BY <1>2 DEF StageWants
  <2>2. HistoryIsWhole' /\ KnownCommits' = KnownCommits
    BY <2>1, ClientStays
  <2>3. ASSUME Deepening PROVE ReachAll(CommitsOf(Wanted)) \subseteq stage'
    <3>1. Deepens(req.cut) /\ SkipLocal = FALSE
      BY <2>3 DEF Deepening, SkipLocal
    <3>2. Wanted \in SUBSET Oids
      BY RefsAssumption DEF Typed, Request, Wanted, ExcludedTips, Oids
    <3> QED
      BY <2>1, <3>1, <3>2, GraphWhole
  <2>4. Staged'
    BY <2>1, <2>3 DEF Staged, Deepening, Wanted, ExcludedTips
  <2>5. Typed' /\ Requested'
    BY <2>1, <2>2 DEF Typed, Requested, Answering, registry, client
  <2> QED
    BY <2>1, <2>2, <2>4, <2>5 DEF CutMade, PackMade
<1>3. CASE BeginSearch
  <2>1. /\ UNCHANGED <<registry, client, req, answer, uneven>> /\ promisor' = TRUE
        /\ pc = "resolve" /\ pc' = "search"
    BY <1>3 DEF BeginSearch
  <2>2. HistoryIsWhole' /\ KnownCommits' = KnownCommits
    BY <2>1, ClientStays
  <2> QED
    BY <2>1, <2>2 DEF Typed, Requested, Answering, Staged, CutMade, PackMade, registry, client
<1>4. CASE Sizes
  <2>1. /\ UNCHANGED <<registry, client, uneven>> /\ pc = "sizes"
        /\ \/ End("served")
           \/ \E left \in SUBSET req.wants :
                 /\ req' = [req EXCEPT !.wants = left]
                 /\ pc' = "search" /\ UNCHANGED <<stage, promisor, answer>>
    BY <1>4 DEF Sizes
  <2>2. CASE End("served")
    BY <2>1, <2>2, EndServes
  <2>3. ASSUME NEW left \in SUBSET req.wants, req' = [req EXCEPT !.wants = left],
               pc' = "search", UNCHANGED <<stage, promisor, answer>>
        PROVE  Serves'
    <3>1. HistoryIsWhole' /\ KnownCommits' = KnownCommits
      BY <2>1, <2>3, ClientStays
    <3>2. Typed'
      BY <2>1, <2>3 DEF Typed, Request, registry, client
    <3>3. Requested'
      BY <2>1, <2>3, <3>1 DEF Requested, Answering, Typed, Request, client
    <3> QED
      BY <2>3, <3>1, <3>2, <3>3 DEF Staged, CutMade, PackMade
  <2> QED
    BY <2>1, <2>2, <2>3
<1>5. CASE EndSearch \/ \E r \in Names : SkipRef(r) \/ StageRef(r)
  <2>1. /\ UNCHANGED <<registry, client, req, promisor, answer, uneven>>
        /\ pc = "search" /\ pc' \in {"search", "check"}
    BY <1>5 DEF EndSearch, SkipRef, StageRef, NextRef, Searching, scratch
  <2>2. HistoryIsWhole' /\ KnownCommits' = KnownCommits
    BY <2>1, ClientStays
  <2>3. Typed' /\ Requested'
    BY <2>1, <2>2 DEF Typed, Requested, Answering, registry, client
  <2>4. Staged'
    BY <2>1 DEF Staged, Requested, Deepening
  <2> QED
    BY <2>1, <2>2, <2>3, <2>4 DEF CutMade, PackMade
<1>6. CASE CutHistory
  <2>1. /\ UNCHANGED <<registry, client, req, promisor>>
        /\ pc = "check" /\ pc' = "pack"
        /\ uneven' = (uneven \/ (Deepening /\ ~ByDepth))
        /\ answer' = [answer EXCEPT !.shallow = Edge(Slice),
                                    !.unshallow = (shallow \intersect Slice) \ Edge(Slice)]
    BY <1>6 DEF CutHistory
  <2>2. HistoryIsWhole' /\ KnownCommits' = KnownCommits
    BY <2>1, ClientStays
  <2>3. Slice \subseteq Commits
    <3>1. View \intersect Commits \in SUBSET Commits
      OBVIOUS
    <3>2. PICK L : IsWalk(L, Within(View \intersect Commits, WalkFrom, AllOf(Rules)),
                          View \intersect Commits, WalkFrom, AllOf(Rules))
      BY <3>1, WithinIs
    <3>3. Steps \subseteq Nat
      BY CommitsAssumption, FS_CardinalityType DEF Steps
    <3> QED
      BY <3>2, <3>3 DEF IsWalk, Slice
  <2>4. Typed'
    BY <2>1, <2>3 DEF Typed, Answer, registry, client, Edge
  <2>5. Requested'
    BY <2>1, <2>2 DEF Requested, Answering, client
  <2>6. CutMade'
    <3>1. ASSUME ~Deepening PROVE answer'.shallow = {} /\ answer'.unshallow = {}
      BY <2>1, <3>1 DEF Slice, Edge, Typed, Answer
    <3>2. ASSUME Deepening PROVE \E W \in SUBSET Commits : CutAt(W)'
      <4>1. PICK W \in SUBSET Commits : W = Slice
        BY <2>3
      <4>2. AsAsked(W)
        BY <2>1, <3>2, <4>1, SliceFits DEF Staged
      <4>3. AsAsked(W)'
        BY <2>1, <4>2 DEF AsAsked, ByDepth, ByMore, OnlyDepth, FromWants, Relative, WalkFrom, LetIn,
                          ExcludedTips, client
      <4>4. CutAt(W)'
        BY <2>1, <4>1, <4>3 DEF CutAt, Typed, Answer, client
      <4> QED
        BY <4>4
    <3>3. (Deepening' <=> Deepening) /\ (ByDepth' <=> ByDepth)
      BY <2>1 DEF Deepening, ByDepth, OnlyDepth, FromWants, Relative, client
    <3> QED
      BY <2>1, <3>1, <3>2, <3>3 DEF CutMade
  <2> QED
    BY <2>1, <2>2, <2>4, <2>5, <2>6 DEF Staged, PackMade
<1>7. CASE CutPack
  <2>1. UNCHANGED <<registry, client, uneven>> /\ pc = "pack"
    BY <1>7 DEF CutPack
  <2>2. CASE End("broken")
    BY <2>1, <2>2, EndServes
  <2>3. CASE /\ answer' = [answer EXCEPT !.pack = Pack] /\ pc' = "apply"
             /\ UNCHANGED <<req, promisor>>
    <3>1. HistoryIsWhole' /\ KnownCommits' = KnownCommits
      BY <2>1, <2>3, ClientStays
    <3>2. /\ answer'.pack = Pack /\ answer'.shallow = answer.shallow
          /\ answer'.unshallow = answer.unshallow /\ answer' \in Answer
      BY <2>3, PackTyped DEF Typed, Answer
    <3>3. Typed' /\ Requested'
      BY <2>1, <2>3, <3>1, <3>2 DEF Typed, Requested, Answering, registry, client
    <3>4. CutMade'
      BY <2>1, <2>3, <3>2, CutStays DEF CutMade, client
    <3>5. Pack' = Pack
      BY <2>1, <2>3, <3>2 DEF Pack, Sent, SentBlobs, Registered, Excluded, Deepening, Local, client
    <3> QED
      BY <2>3, <3>1, <3>2, <3>3, <3>4, <3>5 DEF Staged, PackMade
  <2> QED
    BY <1>7, <2>2, <2>3 DEF CutPack
<1>8. CASE Apply
  <2> DEFINE objects == have \union answer.pack
             cut == (shallow \union answer.shallow) \ answer.unshallow
             Taken == /\ shallow' = cut
                      /\ tips' = IF req.kind = "fetch" THEN tips \union req.wants ELSE tips
                      /\ End("served")
  <2>1. /\ pc = "apply" /\ UNCHANGED <<setting, registry, filtered, uneven>> /\ have' = objects
        /\ IF filtered \/ WholeBehind(req.wants, objects, cut) THEN Taken
           ELSE End("rejected") /\ UNCHANGED <<shallow, tips>>
    BY <1>8 DEF Apply
  <2>2. /\ pc' \in {"served", "rejected"} /\ req' = NoRequest /\ promisor' = FALSE
        /\ answer' = NoAnswer
    BY <2>1 DEF End
  <2>3. Typed'
    BY <2>1, <2>2, NothingAsked DEF Typed, Answer, Request, registry
  <2>4. HistoryIsWhole'
    <3> SUFFICES ASSUME ~uneven PROVE HistoryIsWhole'
      BY <2>1 DEF HistoryIsWhole
    <3>1. WholeBehind(tips \union req.wants, objects, cut)
      BY <2>1, AppliedIsWhole
    <3>2. \A S \in SUBSET (tips \union req.wants) : WholeBehind(S, objects, cut)
      <4> SUFFICES ASSUME NEW S \in SUBSET (tips \union req.wants) PROVE WholeBehind(S, objects, cut)
        OBVIOUS
      <4>1. Visible(CommitsOf(S), cut) \subseteq Visible(CommitsOf(tips \union req.wants), cut)
        <5>1. CommitsOf(S) \subseteq CommitsOf(tips \union req.wants)
          BY DEF CommitsOf
        <5> QED
          BY <5>1, CommitsOfIs, VisibleGrows
      <4> QED
        BY <3>1, <4>1 DEF WholeBehind
    <3>3. Taken
      BY <2>1, <3>2
    <3>4. tips' \subseteq tips \union req.wants /\ pc' = "served"
      BY <3>3 DEF End
    <3>5. WholeBehind(tips', objects, cut)
      BY <3>2, <3>4
    <3>6. WholeBehind(tips, have, shallow)'
      BY <2>1, <3>3, <3>5 DEF WholeBehind
    <3> QED
      BY <3>4, <3>6 DEF HistoryIsWhole
  <2>5. Requested'
    BY <2>2, NothingAsked DEF Requested, Answering, NoRequest
  <2> QED
    BY <2>2, <2>3, <2>4, <2>5 DEF Staged, CutMade, PackMade
<1> QED
  BY <1>1, <1>2, <1>3, <1>4, <1>5, <1>6, <1>7, <1>8 DEF Step

LEMMA ServesStays == Serves /\ [Next]_vars => Serves'
<1> SUFFICES ASSUME Serves, [Next]_vars PROVE Serves'
  OBVIOUS
<1>1. CASE UNCHANGED vars
  <2>1. UNCHANGED <<setting, registry, client, pc, req, stage, promisor, answer, uneven>>
    BY <1>1 DEF vars, scratch
  <2>2. HistoryIsWhole' /\ KnownCommits' = KnownCommits
    BY <1>1 DEF Serves, vars, client, HistoryIsWhole, WholeBehind, KnownCommits, CommitsOf
  <2>3. Pack' = Pack
    BY <2>1 DEF Pack, Sent, SentBlobs, Registered, Excluded, Deepening, Local, client
  <2>4. CutMade'
    BY <2>1, CutStays DEF Serves, CutMade, client
  <2> QED
    BY <2>1, <2>2, <2>3, <2>4 DEF Serves, Typed, Requested, Staged, Wanted, ExcludedTips, Deepening, PackMade,
                                  registry, client
<1>2. ASSUME UNCHANGED setting, NEW W \in Settings[setting].wants, NEW cut \in Settings[setting].cuts,
             NEW anew \in Settings[setting].anew, AskFetch(W, cut, anew)
      PROVE  Serves'
  <2>1. Settings[setting] \in Range(Settings)
    BY DEF Serves, Typed, Range
  <2>2. W \subseteq Oids /\ cut \in Cut /\ anew \in BOOLEAN
    <3>1. Advertised \subseteq Oids
      BY RefsAssumption DEF Advertised, Oids
    <3> QED
      BY <2>1, <3>1, SettingsAssumption
  <2>3. KnownCommits \subseteq Commits /\ filtered \in BOOLEAN
    BY CommitsOfIs, VisibleIs DEF KnownCommits, Serves, Typed
  <2> DEFINE r == [kind |-> "fetch", wants |-> W, cut |-> cut, filter |-> filtered /\ ~anew,
                   haves |-> IF anew THEN {} ELSE KnownCommits]
  <2>4. r \in Request /\ r.haves \subseteq KnownCommits /\ (r.filter => filtered) /\ r.kind # "info"
    BY <2>2, <2>3 DEF Request
  <2>5. Ask(r)
    BY <1>2 DEF AskFetch
  <2> HIDE DEF r
  <2> QED
    BY <1>2, <2>4, <2>5, AskServes
<1>3. ASSUME UNCHANGED setting, NEW W \in SUBSET Blobs, AskLazily(W) PROVE Serves'
  <2> DEFINE r == [NoRequest EXCEPT !.kind = "lazy", !.wants = W, !.filter = TRUE]
  <2>1. r \in Request /\ r.haves \subseteq KnownCommits /\ r.kind # "info"
    BY NothingAsked DEF NoRequest, Request, Oids
  <2>2. Ask(r) /\ filtered
    BY <1>3 DEF AskLazily
  <2> HIDE DEF r
  <2> QED
    BY <1>3, <2>1, <2>2, AskServes
<1>4. ASSUME UNCHANGED setting, NEW W \in Settings[setting].sizes, AskSizes(W) PROVE Serves'
  <2>1. Settings[setting] \in Range(Settings)
    BY DEF Serves, Typed, Range
  <2>2. W \subseteq Oids
    BY <2>1, SettingsAssumption
  <2> DEFINE r == [NoRequest EXCEPT !.kind = "info", !.wants = W]
  <2>3. r \in Request /\ r.haves \subseteq KnownCommits /\ r.filter = FALSE /\ ~Deepens(r.cut)
    BY <2>2, NothingAsked DEF NoRequest, Request
  <2>4. Ask(r)
    BY <1>4 DEF AskSizes
  <2> HIDE DEF r
  <2> QED
    BY <1>4, <2>3, <2>4, AskServes
<1>5. CASE Step /\ UNCHANGED setting
  BY <1>5, StepServes
<1>6. CASE TransferFails /\ UNCHANGED setting
  BY <1>6, EndServes DEF TransferFails, Refuse
<1> QED
  BY <1>1, <1>2, <1>3, <1>4, <1>5, <1>6 DEF Next

\* After any sequence of requests, of any kind and however they end, nothing is missing behind
\* the client's refs down to its boundary, and no pack is turned down - but after a deepening
\* by anything else than a depth.
THEOREM ClientHistoryIsWhole == Spec => []HistoryIsWhole
<1>1. Serves => HistoryIsWhole
  BY DEF Serves
<1> QED
  BY <1>1, ServesInit, ServesStays, PTL DEF Spec
-----------------------------------------------------------------------------
(***************************************************************************)
(* SliceIsAsAsked.  The slice is as asked when it is cut (SliceFits), and  *)
(* what the client will see of the wants, or is sent, lies within it.      *)
(***************************************************************************)
LEMMA WithinTheSlice ==
  ASSUME NEW W \in SUBSET Commits, NEW S \in SUBSET W, NEW cut, W \intersect Edge(W) \subseteq cut
  PROVE  Visible(S, cut) \subseteq W
<1>1. Closed(W, cut)
  BY EdgeIs DEF Closed
<1> QED
  BY <1>1, VisibleIs

LEMMA CutIsAsAsked ==
  ASSUME Serves, pc = "apply", Deepening, req.wants \subseteq Commits
  PROVE  LET old == Visible(req.wants, shallow)
             more == Near(shallow, req.cut.n)
         IN  /\ ByDepth => Seen = Near(req.wants, req.cut.n - 1)
             /\ ByMore /\ shallow \subseteq old /\ Edge(more) \intersect old \subseteq shallow =>
                  Seen = old \union more
             /\ FromWants /\ req.wants \subseteq LetIn => answer.pack \intersect Commits \subseteq LetIn
<1> DEFINE S == req.wants
           n == req.cut.n
           old == Visible(S, shallow)
           more == Near(shallow, n)
           cut == (shallow \union answer.shallow) \ answer.unshallow
<1>1. PICK W \in SUBSET Commits : CutAt(W)
  BY DEF Serves, CutMade
<1>2. CommitsOf(S) = S /\ (FromWants => WalkFrom = S) /\ n \in Nat /\ shallow \in SUBSET Commits
  BY ObjectsAssumption, DepthFits DEF CommitsOf, WalkFrom, Serves, Typed
<1>3. answer.shallow = Edge(W) /\ Edge(W) \subseteq W /\ cut = (shallow \ W) \union Edge(W)
  BY <1>1, EdgeIs DEF CutAt
<1>4. Seen = Visible(S, cut) /\ S \subseteq Seen /\ Seen \subseteq Commits /\ Closed(Seen, cut)
  BY VisibleIs DEF Seen
<1>5. ASSUME ByDepth PROVE Seen = Near(S, n - 1)
  <2>1. W = Near(S, n - 1) /\ n - 1 \in Nat
    BY <1>1, <1>2, <1>5 DEF CutAt, AsAsked, ByDepth, OnlyDepth
  <2>2. Closed(Seen, Edge(W)) \/ ~(Seen \subseteq W)
    BY <1>3, <1>4 DEF Closed
  <2>3. S \subseteq W
    <3>1. Closed(Commits, Edge(W))
      BY ParentsAreBehind DEF Closed
    <3> DEFINE k == n - 1
    <3>2. k \in Nat /\ W = Near(S, k) /\ S \in SUBSET Commits
      BY <2>1
    <3> HIDE DEF k, S
    <3> QED
      BY <3>1, <3>2, NearIsSeen
  <2>4. Seen \subseteq W
    BY <1>3, <1>4, <2>3, WithinTheSlice
  <2>5. W \subseteq Seen
    <3> DEFINE k == n - 1
    <3>1. k \in Nat /\ W = Near(S, k) /\ S \in SUBSET Commits
      BY <2>1
    <3> HIDE DEF k, S
    <3> QED
      BY <1>4, <2>2, <2>4, <3>1, NearIsSeen
  <2> QED
    BY <2>1, <2>4, <2>5
<1>6. ASSUME ByMore, shallow \subseteq old, Edge(more) \intersect old \subseteq shallow
      PROVE  Seen = old \union more
  <2>1. S \subseteq old /\ old \subseteq Commits /\ Closed(old, shallow) /\ old \subseteq ReachAll(S)
    <3>1. ReachAll(S) \in SUBSET Commits /\ S \subseteq ReachAll(S) /\ Closed(ReachAll(S), shallow)
      BY ParentsAreBehind DEF ReachAll, Reach, Closed
    <3> QED
      BY <3>1, VisibleIs
  <2>2. W = more
    BY <1>1, <1>2, <1>6, <2>1 DEF CutAt, AsAsked
  <2>3. shallow \subseteq W
    <3>1. Closed(Commits, Edge(W))
      BY ParentsAreBehind DEF Closed
    <3> QED
      BY <1>2, <2>2, <3>1, NearIsSeen
  <2>4. cut = Edge(W)
    BY <1>3, <2>3
  <2>5. old \subseteq Seen
    <3>1. Closed(Seen \intersect old, shallow)
      BY <1>4, <1>6, <2>1, <2>2, <2>4 DEF Closed
    <3>2. Seen \intersect old \in SUBSET Commits /\ S \subseteq Seen \intersect old
      BY <1>4, <2>1
    <3>3. old \subseteq Seen \intersect old
      <4> HIDE DEF S
      <4> QED
        BY <2>1, <3>1, <3>2, VisibleIs
    <3> QED
      BY <3>3
  <2>6. W \subseteq Seen
    <3>1. shallow \subseteq Seen /\ Closed(Seen, Edge(Near(shallow, n)))
      BY <1>4, <1>6, <2>2, <2>4, <2>5
    <3>2. shallow \in SUBSET Commits /\ n \in Nat
      BY <1>2
    <3> HIDE DEF n
    <3>3. Near(shallow, n) \subseteq Seen
      BY <3>1, <3>2, NearIsSeen
    <3> QED
      BY <2>2, <3>3
  <2>7. Seen \subseteq old \union W
    <3>1. old \union W \in SUBSET Commits /\ S \subseteq old \union W
      BY <2>1
    <3>2. Closed(old \union W, cut)
      BY <2>1, <2>3, <2>4, EdgeIs DEF Closed
    <3> HIDE DEF cut, old, S
    <3> QED
      BY <1>4, <2>1, <3>1, <3>2, VisibleIs
  <2> QED
    BY <2>2, <2>5, <2>6, <2>7
<1>7. ASSUME FromWants, S \subseteq LetIn PROVE answer.pack \intersect Commits \subseteq LetIn
  <2>1. S \subseteq W /\ W \subseteq LetIn
    BY <1>1, <1>2, <1>7 DEF CutAt, AsAsked
  <2>2. Registered = Edge(W)
    BY <1>3 DEF Registered
  <2>3. Sent \subseteq W
    BY <1>2, <2>1, <2>2, WithinTheSlice DEF Sent
  <2>4. SentBlobs \subseteq Blobs
    BY <2>3, ObjectsAssumption DEF SentBlobs, TreesOf
  <2>5. answer.pack = Sent \union SentBlobs
    BY DEF Serves, PackMade, Pack
  <2> QED
    BY <2>1, <2>3, <2>4, <2>5, ObjectsAssumption
<1> QED
  BY <1>5, <1>6, <1>7

\* A depth brings as many generations of every want, a relative one as many more behind the
\* boundary, and nothing is sent that a date or an excluded ref keeps out.
THEOREM CutsAreAsAsked == Spec => []SliceIsAsAsked
<1>1. Serves => SliceIsAsAsked
  BY CutIsAsAsked DEF SliceIsAsAsked
<1> QED
  BY <1>1, ServesInit, ServesStays, PTL DEF Spec
-----------------------------------------------------------------------------
(***************************************************************************)
(* RefusalsAreHonest.  A search is through with a ref when what it holds   *)
(* of the wants is staged; what is staged by a search, and what the client *)
(* has, goes on behind every commit in it, so that a pack can be made.     *)
(***************************************************************************)
Through(r) == Resolves({Refs[r].sha}, FALSE) => PacksOf(SearchGraph(r)) \intersect req.wants \subseteq stage

\* Where a request stands.
Stands ==
  /\ head \in Names
  /\ pc \in {"idle", "resolve", "sizes"} \union Ends => stage = {} /\ promisor = FALSE
  /\ pc = "resolve" => req.kind # "info"
  /\ pc = "sizes" => req.kind = "info"
  /\ pc = "search" => promisor \/ req.kind = "info"
  /\ pc = "pack" => req.kind # "info" /\ req.wants \subseteq View
  /\ pc \in Answering /\ req.kind = "lazy" => req.filter

\* No ref is left out of a search.
Searched ==
  ~failed =>
    /\ pc = "search" => todo \in Seq(Names) /\ \A r \in Names : r \in Range(todo) \/ Through(r)
    /\ pc = "check" /\ (promisor \/ req.kind = "info") =>
         req.wants \subseteq View \/ \A r \in Names : Through(r)

\* What is behind the wants is staged, or the client has it.
WantsStaged ==
  /\ pc = "check" /\ ~promisor /\ req.kind # "info" => req.wants \subseteq View
  /\ pc \in {"check", "pack"} /\ ~promisor /\ req.kind # "info" =>
       \A c \in CommitsOf(req.wants) : \A x \in Carried(c) :
         x \in stage \/ (shallow = {} /\ \E l \in have \intersect Commits : x \in Carried(l))

\* A set that holds what is behind its commits, and what its tags name.
Whole(P) ==
  /\ \A c \in P \intersect Commits : Carried(c) \subseteq P
  /\ \A t \in P \intersect Tags : Peeled[t] \in P
StageIsWhole == pc \in {"search", "check", "pack"} /\ promisor => Whole(stage)

HaveIsClosed ==
  ~uneven =>
    /\ Closed(have \intersect Commits, shallow)
    /\ filtered \/ TreesOf(have \intersect Commits) \subseteq have
    /\ \A t \in have \intersect Tags : Peeled[t] \in have

Answers == Stands /\ Searched /\ WantsStaged /\ StageIsWhole /\ HaveIsClosed

LEMMA CarriedFits ==
  ASSUME NEW c \in Commits
  PROVE  /\ Reach(c) \subseteq Commits /\ TreesOf(Reach(c)) \subseteq Blobs
         /\ \A d \in Reach(c) : Reach(d) \subseteq Reach(c) /\ Carried(d) \subseteq Carried(c)
<1>1. Reach(c) \subseteq Commits
  BY ParentsAreBehind DEF Reach
<1>2. TreesOf(Reach(c)) \subseteq Blobs
  BY <1>1, ObjectsAssumption DEF TreesOf
<1>3. ASSUME NEW d \in Reach(c) PROVE Reach(d) \subseteq Reach(c)
  BY <1>1, <1>3, ParentsAreBehind DEF Reach
<1>4. ASSUME NEW d \in Reach(c) PROVE Carried(d) \subseteq Carried(c)
  BY <1>3, <1>4 DEF Carried, TreesOf
<1> QED
  BY <1>1, <1>2, <1>3, <1>4

\* A manifest's own packfile has its commit, and its tag.
LEMMA OwnPack ==
  ASSUME Typed, NEW o \in Oids, Served(o)
  PROVE  o \in PackOf(Manifest(o))
<1>1. Manifest(o) \in DOMAIN bases /\ Manifest(o) \in Commits
  BY BasesFit DEF Served
<1>2. CASE o \in Tags
  BY <1>2 DEF PackOf, Manifest
<1>3. CASE o \notin Tags
  <2>1. Manifest(o) = o /\ o \in Commits /\ o \in DOMAIN bases
    BY <1>1, <1>3 DEF Manifest
  <2>2. \A b \in bases[o] : b \in Ancestors[o] /\ b \in Commits
    BY <2>1, BasesFit
  <2>3. o \notin ReachAll(bases[o])
    BY <2>1, <2>2, HistoryAssumption, ParentsAreBehind DEF ReachAll, Reach
  <2> QED
    BY <2>1, <2>3 DEF PackOf, Packed, Reach
<1> QED
  BY <1>2, <1>3

LEMMA PacksAreWhole ==
  ASSUME Typed, NEW S \in SUBSET Commits, Resolves(S, FALSE)
  PROVE  Whole(PacksOf(Graph(S, FALSE)))
<1> DEFINE P == PacksOf(Graph(S, FALSE))
<1>1. \A o \in Named(S, FALSE) : \A x \in Carried(Manifest(o)) : x \in P
  BY GraphCarries
<1>2. Graph(S, FALSE) = Named(S, FALSE) /\ \A o \in Named(S, FALSE) : o \in Commits /\ Manifest(o) = o
  BY ObjectsAssumption DEF Graph, Named, Manifest
<1>3. ASSUME NEW o \in Named(S, FALSE), NEW c \in PackOf(o) \intersect Commits PROVE Carried(c) \subseteq P
  <2>1. c \in Reach(o)
    <3>1. TreesOf(Reach(o)) \subseteq Blobs
      BY <1>2, CarriedFits
    <3> QED
      BY <3>1, ObjectsAssumption DEF PackOf, Packed
  <2>2. Carried(c) \subseteq Carried(o)
    BY <1>2, <2>1, CarriedFits
  <2> QED
    BY <1>1, <1>2, <2>2
<1>4. ASSUME NEW o \in Named(S, FALSE), NEW t \in PackOf(o) \intersect Tags PROVE Peeled[t] \in P
  <2>1. Peeled[t] = o
    <3>1. TreesOf(Reach(o)) \subseteq Blobs /\ Reach(o) \subseteq Commits
      BY <1>2, CarriedFits
    <3> QED
      BY <3>1, ObjectsAssumption DEF PackOf, Packed
  <2> QED
    BY <1>1, <1>2, <2>1 DEF Carried, Reach
<1>5. \A x \in P : \E o \in Named(S, FALSE) : x \in PackOf(o)
  BY <1>2 DEF PacksOf
<1> HIDE DEF P
<1>6. Whole(P)
  BY <1>3, <1>4, <1>5 DEF Whole
<1> QED
  BY <1>6 DEF P

\* HEAD's branch is moved, and nothing is dropped.
LEMMA OrderIsComplete ==
  ASSUME head \in Names
  PROVE  SearchOrder \in Seq(Names) /\ Names \subseteq Range(SearchOrder)
<1>1. RefOrder \in Seq(Names) /\ Range(RefOrder) = Names
  BY RefsAssumption
<1>2. DOMAIN RefOrder = 1 .. Len(RefOrder) /\ Len(RefOrder) \in Nat
        /\ \A i \in 1 .. Len(RefOrder) : RefOrder[i] \in Names
  BY <1>1
<1> DEFINE place == CHOOSE i \in DOMAIN RefOrder : RefOrder[i] = head
<1>3. place \in 1 .. Len(RefOrder) /\ RefOrder[place] = head
  BY <1>1, <1>2 DEF Range
<1> HIDE DEF place
<1>4. SearchOrder = [i \in 1 .. Len(RefOrder) |-> IF i > place THEN RefOrder[i]
                                                 ELSE IF i > 1 THEN RefOrder[i - 1] ELSE head]
  BY <1>2 DEF SearchOrder, place
<1>5. SearchOrder \in Seq(Names)
  <2>1. \A i \in 1 .. Len(RefOrder) : SearchOrder[i] \in Names
    BY <1>2, <1>3, <1>4
  <2> QED
    BY <1>2, <1>4, <2>1
<1>6. ASSUME NEW r \in Names PROVE r \in Range(SearchOrder)
  <2>1. PICK i \in 1 .. Len(RefOrder) : RefOrder[i] = r
    BY <1>1, <1>2 DEF Range
  <2>2. CASE i > place
    BY <1>4, <2>1, <2>2 DEF Range
  <2>3. CASE i = place
    <3>1. 1 \in 1 .. Len(RefOrder) /\ SearchOrder[1] = head
      BY <1>2, <1>3, <1>4
    <3> QED
      BY <1>3, <1>4, <2>1, <2>3, <3>1 DEF Range
  <2>4. CASE i < place
    <3>1. i + 1 \in 1 .. Len(RefOrder) /\ SearchOrder[i + 1] = RefOrder[i]
      BY <1>2, <1>3, <1>4, <2>4
    <3> QED
      BY <1>4, <2>1, <3>1 DEF Range
  <2> QED
    BY <1>2, <1>3, <2>1, <2>2, <2>3, <2>4
<1> QED
  BY <1>5, <1>6

LEMMA OnwardIs ==
  ASSUME todo \in Seq(Names), todo # <<>>
  PROVE  Onward(todo) \in Seq(Names) /\ Range(todo) \subseteq {Head(todo)} \union Range(Onward(todo))
<1>1. Tail(todo) \in Seq(Names) /\ Len(Tail(todo)) = Len(todo) - 1 /\ Len(todo) \in Nat
  OBVIOUS
<1>2. ASSUME NEW i \in 1 .. Len(todo) PROVE todo[i] = Head(todo) \/ \E j \in 1 .. Len(Tail(todo)) : todo[i] = Tail(todo)[j]
  <2>1. CASE i = 1
    BY <2>1
  <2>2. CASE i # 1
    <3>1. i - 1 \in 1 .. Len(Tail(todo)) /\ Tail(todo)[i - 1] = todo[i]
      BY <1>1, <2>2
    <3> QED
      BY <3>1
  <2> QED
    BY <2>1, <2>2
<1>3. DOMAIN todo = 1 .. Len(todo) /\ DOMAIN Tail(todo) = 1 .. Len(Tail(todo))
  BY <1>1
<1> QED
  BY <1>1, <1>2, <1>3 DEF Onward, Range

LEMMA AnswersInit == Init => Answers
<1> SUFFICES ASSUME Init PROVE Answers
  OBVIOUS
<1>1. head \in Names
  <2>1. Settings[setting] \in Range(Settings)
    BY DEF Init, Range
  <2> QED
    BY <2>1, SettingsAssumption DEF Init
<1>2. Closed({}, {}) /\ TreesOf({}) = {}
  BY DEF Closed, TreesOf
<1> QED
  BY <1>1, <1>2 DEF Init, Answers, Stands, Searched, WantsStaged, StageIsWhole, HaveIsClosed, Answering, Ends

\* Where the client and its request stay as they are, what it has stays closed.
LEMMA HaveStays ==
  ASSUME HaveIsClosed, UNCHANGED client, uneven => uneven'
  PROVE  HaveIsClosed'
BY DEF HaveIsClosed, client, Closed, TreesOf

LEMMA EndAnswers ==
  ASSUME Answers, UNCHANGED <<registry, client>>, uneven => uneven', NEW how \in Ends, End(how)
  PROVE  Answers'
<1>1. HaveIsClosed'
  BY HaveStays DEF Answers
<1>2. pc' \in Ends /\ stage' = {} /\ promisor' = FALSE /\ head' = head
  BY DEF End, registry
<1>3. pc' \notin Answering \union {"idle"}
  BY <1>2 DEF Ends, Answering
<1> QED
  BY <1>1, <1>2, <1>3 DEF Answers, Stands, Searched, WantsStaged, StageIsWhole, Answering

LEMMA AskAnswers ==
  ASSUME Answers, MayAsk, NEW r, Ask(r), r.kind = "lazy" => r.filter
  PROVE  Answers'
<1>1. /\ UNCHANGED <<registry, client, scratch, uneven>> /\ req' = r
      /\ pc' = IF r.kind = "info" THEN "sizes" ELSE "resolve"
      /\ stage = {} /\ promisor = FALSE
  BY DEF Ask, MayAsk, Answers, Stands
<1>2. HaveIsClosed'
  BY <1>1, HaveStays DEF Answers
<1> QED
  BY <1>1, <1>2 DEF Answers, Stands, Searched, WantsStaged, StageIsWhole, registry, scratch, Ends

\* What the wants rest on is staged when they resolve.
LEMMA StageWantsAnswers == ASSUME Serves, Answers, StageWants PROVE Answers'
<1>1. /\ UNCHANGED <<registry, client, req, promisor, failed, uneven>>
      /\ pc = "resolve" /\ pc' = "check" /\ Resolves(Wanted, SkipLocal)
      /\ stage' = PacksOf(Graph(Wanted, SkipLocal))
  BY DEF StageWants
<1>2. Typed /\ ~promisor /\ req.kind # "info" /\ SkipLocal \in BOOLEAN
  BY <1>1 DEF Serves, Answers, Stands, SkipLocal
<1>3. ASSUME NEW w \in req.wants PROVE w \in stage' \union have
  <2>1. w \in Named(Wanted, SkipLocal) /\ w \in Oids
    BY <1>2, <1>3, NamedIs DEF Wanted, Typed, Request
  <2>2. CASE Served(w) /\ ~(SkipLocal /\ Local(w))
    BY <1>1, <1>2, <2>1, <2>2, OwnPack DEF PacksOf, Graph
  <2>3. CASE SkipLocal /\ Local(w)
    BY <2>3 DEF Local
  <2> QED
    BY <1>1, <2>1, <2>2, <2>3 DEF Resolves
<1>4. ASSUME NEW c \in CommitsOf(req.wants), NEW x \in Carried(c)
      PROVE  x \in stage' \/ (shallow = {} /\ \E l \in have \intersect Commits : x \in Carried(l))
  <2>1. PICK o \in req.wants : Manifest(o) = c
    BY ObjectsAssumption DEF CommitsOf, Manifest
  <2>2. o \in Named(Wanted, SkipLocal)
    BY <1>2, <2>1, NamedIs DEF Wanted
  <2>3. SkipLocal => shallow = {}
    BY DEF SkipLocal
  <2>4. x \in Carried(Manifest(o))
    BY <2>1
  <2>5. \/ x \in PacksOf(Graph(Wanted, SkipLocal))
        \/ SkipLocal /\ \E l \in have \intersect Commits : x \in Carried(l)
    BY <1>1, <1>2, <2>2, <2>4, GraphCarries
  <2> QED
    BY <1>1, <2>3, <2>5
<1>5. HaveIsClosed'
  BY <1>1, HaveStays DEF Answers
<1>6. WantsStaged'
  BY <1>1, <1>3, <1>4 DEF WantsStaged, View, client, CommitsOf
<1>7. Stands'
  BY <1>1 DEF Answers, Stands, registry, Answering, Ends
<1> QED
  BY <1>1, <1>2, <1>5, <1>6, <1>7 DEF Answers, Searched, StageIsWhole

LEMMA SearchBegins ==
  ASSUME Answers, UNCHANGED <<registry, client, stage, uneven>>, stage = {}, pc' = "search",
         todo' = SearchOrder, promisor' \/ req'.kind = "info", req'.kind = "lazy" => req'.filter
  PROVE  Answers'
<1>1. SearchOrder \in Seq(Names) /\ Names \subseteq Range(SearchOrder)
  BY OrderIsComplete DEF Answers, Stands
<1>2. HaveIsClosed'
  BY HaveStays DEF Answers
<1>3. Searched'
  BY <1>1 DEF Searched
<1>4. StageIsWhole'
  BY DEF StageIsWhole, Whole
<1>5. Stands'
  BY DEF Answers, Stands, registry, Ends
<1> QED
  BY <1>2, <1>3, <1>4, <1>5 DEF Answers, WantsStaged

\* Through with a ref, the search goes on with the rest.
LEMMA SearchGoesOn ==
  ASSUME Serves, Answers, NEW r \in Names, SkipRef(r) \/ StageRef(r)
  PROVE  Answers'
<1>1. /\ UNCHANGED <<registry, client, req, promisor, uneven>>
      /\ pc = "search" /\ todo # <<>> /\ r = Head(todo) /\ pc' \in {"search", "check"}
      /\ ~failed' => ~failed
      /\ stage \subseteq stage'
  <2>1. CASE SkipRef(r)
    <3>1. UNCHANGED <<registry, client, req, promisor, uneven>> /\ pc = "search" /\ todo # <<>>
            /\ r = Head(todo) /\ pc' = "search" /\ stage' = stage
      BY <2>1 DEF SkipRef, NextRef, Searching
    <3>2. ~failed' => ~failed
      BY <2>1 DEF SkipRef
    <3> QED
      BY <3>1, <3>2
  <2>2. CASE StageRef(r)
    BY <2>2 DEF StageRef, Searching
  <2> QED
    BY <2>1, <2>2
<1>2. HaveIsClosed' /\ Stands'
  BY <1>1, HaveStays DEF Answers, Stands, registry, Ends, Answering
<1>3. Typed
  BY DEF Serves
<1>4. \A q \in Names : Resolves({Refs[q].sha}, FALSE)' = Resolves({Refs[q].sha}, FALSE)
                      /\ PacksOf(SearchGraph(q))' = PacksOf(SearchGraph(q))
  BY <1>1 DEF registry, client, Resolves, SearchGraph, Graph, PacksOf, PackOf, Named, Behind, Served, Local
<1>5. ~failed' => \A q \in Names : Through(q) => Through(q)'
  BY <1>1, <1>4 DEF Through
<1>6. ASSUME ~failed' PROVE Through(r)'
  <2>1. CASE SkipRef(r)
    <3>1. ~Resolves({Refs[r].sha}, FALSE) \/ RuledOut(SearchGraph(r))
      BY <1>6, <2>1 DEF SkipRef
    <3>2. RuledOut(SearchGraph(r)) => PacksOf(SearchGraph(r)) \intersect req.wants = {}
      BY DEF RuledOut, PacksOf
    <3> QED
      BY <1>1, <1>4, <3>1, <3>2 DEF Through
  <2>2. CASE StageRef(r)
    BY <1>1, <1>4, <2>2 DEF StageRef, Through
  <2> QED
    BY <2>1, <2>2
<1>7. Searched'
  <2> SUFFICES ASSUME ~failed' PROVE Searched'
    BY DEF Searched
  <2>1. todo \in Seq(Names) /\ \A q \in Names : q \in Range(todo) \/ Through(q)
    BY <1>1 DEF Answers, Searched
  <2>2. Onward(todo) \in Seq(Names) /\ Range(todo) \subseteq {r} \union Range(Onward(todo))
    BY <1>1, <2>1, OnwardIs
  <2>3. CASE pc' = "search" /\ todo' = Onward(todo)
    BY <1>5, <1>6, <2>1, <2>2, <2>3 DEF Searched
  <2>4. CASE pc' = "check" /\ req.wants \subseteq stage' \union have
    BY <1>1, <2>4 DEF Searched, View, client
  <2> QED
    BY <1>1, <2>3, <2>4 DEF SkipRef, StageRef, NextRef
<1>8. StageIsWhole'
  <2>1. CASE stage' = stage
    BY <1>1, <2>1 DEF Answers, StageIsWhole, Whole
  <2>2. CASE stage' = stage \union PacksOf(SearchGraph(r)) /\ Resolves({Refs[r].sha}, FALSE)
    <3>1. {Refs[r].sha} \in SUBSET Commits
      BY RefsAssumption
    <3>2. Whole(PacksOf(SearchGraph(r)))
      BY <1>3, <2>2, <3>1, PacksAreWhole DEF SearchGraph
    <3> QED
      BY <1>1, <2>2, <3>2 DEF Answers, StageIsWhole, Whole
  <2> QED
    BY <2>1, <2>2 DEF SkipRef, StageRef, NextRef
<1>9. WantsStaged'
  <2>1. promisor' \/ req'.kind = "info"
    BY <1>1 DEF Answers, Stands
  <2> QED
    BY <2>1 DEF WantsStaged
<1> QED
  BY <1>2, <1>7, <1>8, <1>9 DEF Answers

\* What is sent, and what the client has: together they go on behind each other.
LEMMA SentIs ==
  ASSUME Serves
  PROVE  /\ Sent \subseteq Commits /\ SentBlobs \subseteq Blobs
         /\ Pack \intersect Commits = Sent /\ Pack \intersect Tags = req.wants \intersect Tags
<1>1. Sent \subseteq Commits
  BY CommitsOfIs, VisibleIs DEF Sent
<1>2. SentBlobs \subseteq Blobs
  BY <1>1, ObjectsAssumption DEF SentBlobs, TreesOf
<1> QED
  BY <1>1, <1>2, ObjectsAssumption DEF Pack

LEMMA ExcludedIsHeld ==
  ASSUME Serves, HaveIsClosed, ~uneven
  PROVE  Visible(Excluded, Registered) \subseteq have \intersect Commits
<1>1. CASE promisor \/ Deepening
  <2>1. Excluded = {}
    BY <1>1 DEF Excluded
  <2>2. Visible({}, Registered) \subseteq {}
    BY VisibleIs DEF Closed
  <2> QED
    BY <2>1, <2>2
<1>2. CASE ~promisor /\ ~Deepening
  <2>1. Excluded \subseteq have \intersect Commits /\ Registered = shallow
    BY <1>2 DEF Excluded, Registered, Local
  <2>2. Excluded \in SUBSET Commits /\ have \intersect Commits \in SUBSET Commits
          /\ Closed(have \intersect Commits, shallow)
    BY <2>1 DEF HaveIsClosed
  <2> QED
    BY <2>1, <2>2, VisibleIs
<1> QED
  BY <1>1, <1>2

LEMMA ApplyCloses ==
  ASSUME Serves, Serves', HaveIsClosed, Apply
  PROVE  HaveIsClosed'
<1> SUFFICES ASSUME ~uneven'
             PROVE  /\ Closed(have' \intersect Commits, shallow')
                    /\ filtered' \/ TreesOf(have' \intersect Commits) \subseteq have'
                    /\ \A t \in have' \intersect Tags : Peeled[t] \in have'
  BY DEF HaveIsClosed, Closed, TreesOf
<1> DEFINE cut == (shallow \union answer.shallow) \ answer.unshallow
           seen == Visible(CommitsOf(req.wants), Registered)
<1>1. /\ pc = "apply" /\ ~uneven /\ filtered' = filtered /\ have' = have \union answer.pack
      /\ pc' # "rejected"
  BY DEF Apply, Serves, HistoryIsWhole
<1>2. shallow' = cut /\ answer.pack = Pack
  BY <1>1 DEF Apply, End, Serves, PackMade
<1>3. /\ have' \intersect Commits = (have \intersect Commits) \union Sent
      /\ have' \intersect Tags = (have \intersect Tags) \union (req.wants \intersect Tags)
      /\ SentBlobs \subseteq have' /\ Sent \subseteq Commits
  BY <1>1, <1>2, SentIs DEF Pack
<1>4. Visible(Excluded, Registered) \subseteq have /\ seen \subseteq Sent \union have
  BY <1>1, ExcludedIsHeld DEF Sent
<1>5. CommitsOf(req.wants) \subseteq seen /\ seen \subseteq Commits /\ Closed(seen, Registered)
  BY CommitsOfIs, VisibleIs
<1>6. /\ Closed(have \intersect Commits, shallow)
      /\ filtered \/ TreesOf(have \intersect Commits) \subseteq have
      /\ \A t \in have \intersect Tags : Peeled[t] \in have
  BY <1>1 DEF HaveIsClosed
<1> HIDE DEF seen
<1>7. ASSUME NEW c \in Sent, c \notin Registered PROVE Parents[c] \subseteq have' \intersect Commits
  <2>1. c \in seen
    BY DEF Sent, seen
  <2>2. Parents[c] \subseteq seen
    BY <1>5, <1>7, <2>1 DEF Closed
  <2> QED
    BY <1>3, <1>4, <1>5, <2>2
<1>8. Closed(have' \intersect Commits, shallow')
  <2>1. CASE ~Deepening
    <3>1. cut = shallow /\ Registered = shallow
      BY <1>1, <2>1 DEF Serves, CutMade, Registered
    <3> QED
      BY <1>2, <1>3, <1>6, <1>7, <3>1 DEF Closed
  <2>2. CASE Deepening
    <3>1. ByDepth /\ \E W \in SUBSET Commits : CutAt(W)
      BY <1>1, <2>2 DEF Serves, CutMade
    <3>2. PICK W \in SUBSET Commits : CutAt(W)
      BY <3>1
    <3>3. /\ Registered = Edge(W) /\ Edge(W) \subseteq W /\ cut = (shallow \ W) \union Edge(W)
          /\ \A c \in W \ Edge(W) : Parents[c] \subseteq W
      BY <2>2, <3>2, EdgeIs DEF CutAt, Registered
    <3>4. W \subseteq Sent \union have
      <4>1. Typed /\ AsAsked(W)
        BY <3>2 DEF Serves, CutAt
      <4>2. W \subseteq seen
        BY <3>1, <3>3, <4>1, DepthIsSeen DEF seen
      <4> QED
        BY <1>4, <4>2
    <3> HIDE DEF cut
    <3>5. ASSUME NEW c \in have \intersect Commits, c \notin cut
          PROVE  Parents[c] \subseteq have' \intersect Commits
      <4>1. CASE c \in shallow
        BY <1>3, <3>3, <3>4, <3>5, <4>1
      <4>2. CASE c \notin shallow
        BY <1>3, <1>6, <3>5, <4>2 DEF Closed
      <4> QED
        BY <4>1, <4>2
    <3> QED
      BY <1>2, <1>3, <1>7, <3>3, <3>5 DEF Closed
  <2> QED
    BY <2>1, <2>2
<1>9. ASSUME ~filtered PROVE TreesOf(have' \intersect Commits) \subseteq have'
  <2>1. ~req.filter
    BY <1>1, <1>9 DEF Serves, Requested, Answering
  <2>2. TreesOf(have \intersect Commits) \subseteq have
    BY <1>6, <1>9
  <2>3. TreesOf(ParentsOf(Sent) \intersect Visible(Excluded, Registered)) \subseteq have
    BY <1>1, <2>2, ExcludedIsHeld DEF TreesOf
  <2>4. TreesOf(Sent) \subseteq have'
    BY <1>1, <1>3, <2>1, <2>3 DEF SentBlobs
  <2> QED
    BY <1>1, <1>3, <2>2, <2>4 DEF TreesOf
<1>10. ASSUME NEW t \in have' \intersect Tags PROVE Peeled[t] \in have'
  <2>1. CASE t \in have
    BY <1>1, <1>6, <1>10, <2>1
  <2>2. CASE t \in req.wants
    <3>1. Peeled[t] \in CommitsOf(req.wants)
      BY <1>10, <2>2 DEF CommitsOf
    <3> QED
      BY <1>3, <1>4, <1>5, <3>1
  <2> QED
    BY <1>3, <1>10, <2>1, <2>2
<1> QED
  BY <1>1, <1>8, <1>9, <1>10

\* With an honest search behind it a pack can be made.
LEMMA PackIsHeld ==
  ASSUME Serves, Answers, pc = "pack", ~uneven, req.filter \/ ~filtered
  PROVE  Pack \subseteq View
<1>1. /\ req.kind # "info" /\ req.wants \subseteq View
      /\ Closed(have \intersect Commits, shallow)
      /\ filtered \/ TreesOf(have \intersect Commits) \subseteq have
      /\ \A t \in have \intersect Tags : Peeled[t] \in have
  BY DEF Answers, Stands, HaveIsClosed
<1>2. /\ CommitsOf(req.wants) \in SUBSET Commits /\ Sent \subseteq Visible(CommitsOf(req.wants), Registered)
      /\ Sent \subseteq Commits
  BY CommitsOfIs, SentIs DEF Sent
<1>3. CASE promisor
  <2>1. Whole(stage) /\ Registered = shallow
    BY <1>3 DEF Answers, StageIsWhole, Registered, Deepening
  <2>2. Closed(View \intersect Commits, shallow)
    <3>1. \A c \in stage \intersect Commits : Parents[c] \subseteq stage
      BY <2>1, ParentsAreBehind DEF Whole, Carried, Reach
    <3> QED
      BY <1>1, <3>1, ParentsAreBehind DEF View, Closed
  <2>3. CommitsOf(req.wants) \subseteq View \intersect Commits
    BY <1>1, <2>1, ObjectsAssumption DEF CommitsOf, Whole, View
  <2>4. View \intersect Commits \in SUBSET Commits
    OBVIOUS
  <2>5. Sent \subseteq View \intersect Commits
    BY <1>2, <2>1, <2>2, <2>3, <2>4, VisibleIs
  <2>6. ASSUME ~req.filter PROVE TreesOf(Sent) \subseteq View
    <3> SUFFICES ASSUME NEW c \in Sent PROVE Tree[c] \subseteq View
      BY DEF TreesOf
    <3>1. CASE c \in stage
      BY <1>2, <2>1, <3>1 DEF Whole, Carried, TreesOf, Reach, View
    <3>2. CASE c \in have
      BY <1>1, <1>2, <2>6, <3>2 DEF TreesOf, View
    <3> QED
      BY <2>5, <3>1, <3>2 DEF View
  <2> QED
    BY <1>1, <2>5, <2>6 DEF Pack, SentBlobs
<1>4. CASE ~promisor
  <2>1. \A c \in CommitsOf(req.wants) : \A x \in Carried(c) :
          x \in stage \/ (shallow = {} /\ \E l \in have \intersect Commits : x \in Carried(l))
    BY <1>1, <1>4 DEF Answers, WantsStaged
  <2>2. \A c \in Sent : \E w \in CommitsOf(req.wants) : c \in Reach(w)
    <3>1. ReachAll(CommitsOf(req.wants)) \in SUBSET Commits
            /\ CommitsOf(req.wants) \subseteq ReachAll(CommitsOf(req.wants))
            /\ Closed(ReachAll(CommitsOf(req.wants)), Registered)
      BY <1>2, ParentsAreBehind DEF ReachAll, Reach, Closed
    <3>2. Visible(CommitsOf(req.wants), Registered) \subseteq ReachAll(CommitsOf(req.wants))
      BY <1>2, <3>1, VisibleIs
    <3> QED
      BY <1>2, <3>2 DEF ReachAll
  <2>3. ASSUME shallow = {}, NEW l \in have \intersect Commits PROVE Reach(l) \subseteq have
    <3>1. have \intersect Commits \in SUBSET Commits /\ {l} \in SUBSET (have \intersect Commits)
            /\ Closed(have \intersect Commits, {}) /\ {} \intersect ReachAll({l}) = {}
      BY <1>1, <2>3
    <3>2. ReachAll({l}) \subseteq have \intersect Commits
      BY <3>1, ClosedHoldsHistory
    <3> QED
      BY <3>2 DEF ReachAll
  <2>4. Sent \subseteq View
    <3> SUFFICES ASSUME NEW c \in Sent, c \notin stage PROVE c \in have
      BY DEF View
    <3>1. PICK w \in CommitsOf(req.wants) : c \in Reach(w)
      BY <2>2
    <3>2. c \in Carried(w)
      BY <3>1 DEF Carried
    <3>3. PICK l \in have \intersect Commits : shallow = {} /\ c \in Carried(l)
      BY <2>1, <3>2
    <3>4. c \in Reach(l)
      BY <1>2, <3>3, CarriedFits, ObjectsAssumption DEF Carried
    <3> QED
      BY <2>3, <3>3, <3>4
  <2>5. ASSUME ~req.filter PROVE TreesOf(Sent) \subseteq View
    <3> SUFFICES ASSUME NEW c \in Sent, NEW t \in Tree[c], t \notin stage PROVE t \in have
      BY DEF TreesOf, View
    <3>1. PICK w \in CommitsOf(req.wants) : c \in Reach(w)
      BY <2>2
    <3>2. t \in Carried(w)
      BY <3>1 DEF Carried, TreesOf
    <3>3. PICK l \in have \intersect Commits : shallow = {} /\ t \in Carried(l)
      BY <2>1, <3>2
    <3>4. Reach(l) \subseteq have /\ Reach(l) \subseteq Commits
      BY <2>3, <3>3, CarriedFits
    <3>5. TreesOf(Reach(l)) \subseteq have
      BY <1>1, <2>5, <3>4 DEF TreesOf
    <3> QED
      BY <3>3, <3>4, <3>5 DEF Carried
  <2> QED
    BY <1>1, <2>4, <2>5 DEF Pack, SentBlobs
<1> QED
  BY <1>3, <1>4

\* Where a request is cut short, or its pack is made and taken in.
LEMMA CutAnswers ==
  ASSUME Serves, Serves', Answers, EndSearch \/ CutHistory \/ CutPack \/ Apply
  PROVE  Answers'
<1>1. CASE EndSearch
  <2>1. /\ pc = "search" /\ todo = <<>> /\ pc' = "check" /\ (promisor \/ req.kind = "info")
        /\ UNCHANGED <<registry, client, req, scratch, failed, uneven>>
    BY <1>1 DEF EndSearch, Answers, Stands
  <2>2. HaveIsClosed' /\ Stands'
    BY <2>1, HaveStays DEF Answers, Stands, registry, scratch, Ends, Answering
  <2>3. Range(todo) = {}
    <3>1. DOMAIN todo = {}
      BY <2>1
    <3> QED
      BY <3>1 DEF Range
  <2>4. \A r \in Names : Through(r)' = Through(r)
    BY <2>1 DEF registry, client, scratch, Through, Resolves, SearchGraph, Graph, PacksOf, PackOf, Named,
                Behind, Served, Local
  <2>5. Searched'
    BY <2>1, <2>3, <2>4 DEF Answers, Searched
  <2> QED
    BY <2>1, <2>2, <2>5 DEF Answers, WantsStaged, StageIsWhole, Whole, scratch
<1>2. CASE CutHistory
  <2>1. /\ pc = "check" /\ Missing = {} /\ req.kind # "info" /\ pc' = "pack"
        /\ UNCHANGED <<registry, client, req, stage, todo, promisor, failed>> /\ (uneven => uneven')
    BY <1>2 DEF CutHistory
  <2>2. HaveIsClosed'
    BY <2>1, HaveStays DEF Answers
  <2>3. req.wants \subseteq View
    BY <2>1 DEF Missing
  <2>4. Stands'
    BY <2>1, <2>3 DEF Answers, Stands, registry, client, View, Ends, Answering
  <2> QED
    BY <2>1, <2>2, <2>4 DEF Answers, Searched, WantsStaged, StageIsWhole, Whole, client, CommitsOf
<1>3. CASE CutPack
  <2>1. CASE PackFails
    BY <1>3, <2>1, EndAnswers DEF CutPack, Ends
  <2>2. CASE ~PackFails
    <3>1. pc = "pack" /\ pc' = "apply" /\ UNCHANGED <<registry, client, req, uneven>>
      BY <1>3, <2>2 DEF CutPack
    <3>2. HaveIsClosed'
      BY <3>1, HaveStays DEF Answers
    <3> QED
      BY <3>1, <3>2 DEF Answers, Stands, Searched, WantsStaged, StageIsWhole, registry, Ends, Answering
  <2> QED
    BY <2>1, <2>2
<1>4. CASE Apply
  <2>1. HaveIsClosed'
    BY <1>4, ApplyCloses DEF Answers
  <2>2. pc' \in Ends /\ stage' = {} /\ promisor' = FALSE /\ head' = head
    BY <1>4 DEF Apply, End, registry, Ends
  <2> QED
    BY <2>1, <2>2 DEF Answers, Stands, Searched, WantsStaged, StageIsWhole, Answering, Ends
<1> QED
  BY <1>1, <1>2, <1>3, <1>4

LEMMA StepAnswers == ASSUME Serves, Serves', Answers, Step \/ TransferFails PROVE Answers'
<1>1. "refused" \in Ends /\ "served" \in Ends
  BY DEF Ends
<1>2. CASE RefuseExclude \/ RefuseMissing \/ TransferFails
  BY <1>1, <1>2, EndAnswers DEF RefuseExclude, RefuseMissing, TransferFails, Refuse
<1>3. CASE TellSizes
  BY <1>1, <1>3, EndAnswers DEF TellSizes
<1>4. CASE BeginSearch
  <2>1. /\ UNCHANGED <<registry, client, stage, uneven>> /\ UNCHANGED req /\ pc = "resolve"
        /\ pc' = "search" /\ todo' = SearchOrder /\ promisor'
    BY <1>4 DEF BeginSearch
  <2>2. stage = {} /\ (req.kind = "lazy" => req.filter)
    BY <2>1 DEF Answers, Stands, Answering
  <2> QED
    BY <2>1, <2>2, SearchBegins
<1>5. CASE Sizes
  <2>1. pc = "sizes" /\ UNCHANGED <<registry, client, uneven>> /\ req.kind = "info" /\ stage = {}
    BY <1>5 DEF Sizes, Answers, Stands
  <2>2. PICK told \in SUBSET req.wants :
          LET left == req.wants \ (have \union told) IN
          IF left = {} THEN End("served")
          ELSE /\ req' = [req EXCEPT !.wants = left]
               /\ pc' = "search" /\ todo' = SearchOrder
               /\ UNCHANGED <<stage, promisor, answer>>
    BY <1>5 DEF Sizes
  <2>3. CASE End("served")
    BY <1>1, <2>1, <2>3, EndAnswers
  <2>4. CASE /\ req' = [req EXCEPT !.wants = req.wants \ (have \union told)]
             /\ pc' = "search" /\ todo' = SearchOrder
             /\ UNCHANGED <<stage, promisor, answer>>
    <3>1. req'.kind = "info"
      BY <2>1, <2>4 DEF Serves, Typed, Request
    <3> QED
      BY <2>1, <2>4, <3>1, SearchBegins
  <2> QED
    BY <2>2, <2>3, <2>4
<1>6. CASE StageWants
  BY <1>6, StageWantsAnswers
<1>7. CASE \E r \in Names : SkipRef(r) \/ StageRef(r)
  BY <1>7, SearchGoesOn
<1> QED
  BY <1>2, <1>3, <1>4, <1>5, <1>6, <1>7, CutAnswers DEF Step

LEMMA AnswersStays == Serves /\ Serves' /\ Answers /\ [Next]_vars => Answers'
<1> SUFFICES ASSUME Serves, Serves', Answers, [Next]_vars PROVE Answers'
  OBVIOUS
<1>1. CASE UNCHANGED vars
  <2>1. /\ UNCHANGED <<bases, indexed, head, have, shallow, tips, filtered>>
        /\ UNCHANGED <<pc, req, stage, todo, promisor, failed, uneven>>
    BY <1>1 DEF vars, registry, client, scratch
  <2>2. HaveIsClosed' /\ Stands' /\ WantsStaged' /\ StageIsWhole'
    BY <2>1 DEF Answers, HaveIsClosed, Stands, WantsStaged, StageIsWhole, Whole, Closed, TreesOf, View, CommitsOf
  <2>3. \A r \in Names : Through(r)' = Through(r)
    BY <2>1 DEF Through, Resolves, SearchGraph, Graph, PacksOf, PackOf, Named, Behind, Served, Local
  <2>4. Searched'
    BY <2>1, <2>3 DEF Answers, Searched, View
  <2> QED
    BY <2>2, <2>4 DEF Answers
<1>2. CASE Step \/ TransferFails
  BY <1>2, StepAnswers
<1>3. ASSUME NEW W, NEW cut, NEW anew, AskFetch(W, cut, anew) PROVE Answers'
  BY <1>3, AskAnswers DEF AskFetch
<1>4. ASSUME NEW W, AskLazily(W) PROVE Answers'
  <2>1. [NoRequest EXCEPT !.kind = "lazy", !.wants = W, !.filter = TRUE].filter
    BY DEF NoRequest
  <2> QED
    BY <1>4, <2>1, AskAnswers DEF AskLazily
<1>5. ASSUME NEW W, AskSizes(W) PROVE Answers'
  <2>1. [NoRequest EXCEPT !.kind = "info", !.wants = W].kind = "info"
    BY DEF NoRequest
  <2> QED
    BY <1>5, <2>1, AskAnswers DEF AskSizes
<1> QED
  BY <1>1, <1>2, <1>3, <1>4, <1>5 DEF Next

\* When wants are missing after a search without a fault, no ref that can be read has them.
LEMMA MissingIsHonest ==
  ASSUME Serves, Answers, pc = "check", ~failed, req.wants \subseteq Obtainable
  PROVE  Missing = {}
<1>1. CASE req.wants \subseteq View
  BY <1>1 DEF Missing
<1>2. CASE \A r \in Names : Through(r)
  <2>1. \A w \in req.wants : w \in have \/ \E r \in Names :
          Resolves({Refs[r].sha}, FALSE) /\ w \in PacksOf(SearchGraph(r))
    BY DEF Obtainable, SearchGraph
  <2> QED
    BY <1>2, <2>1 DEF Through, Missing, View
<1> QED
  BY <1>1, <1>2 DEF Answers, Searched, WantsStaged

LEMMA RefusedForAReason ==
  ASSUME Serves, Answers, [Next]_vars, pc \notin Ends, pc' \in {"refused", "broken"}
  PROVE  \/ failed'
         \/ NoRef \in req.cut.not
         \/ ~(req.wants \subseteq Obtainable)
         \/ filtered /\ ~req.filter /\ req.kind = "fetch"
         \/ uneven
<1>1. "refused" \in Ends /\ "broken" \in Ends
  BY DEF Ends
<1>2. RefuseExclude \/ TransferFails \/ RefuseMissing \/ CutPack
  <2>1. ~UNCHANGED vars
    BY <1>1 DEF vars
  <2>2. \A W, cut, anew : ~AskFetch(W, cut, anew)
    BY DEF AskFetch, Ask
  <2>3. \A W : ~AskLazily(W) /\ ~AskSizes(W)
    BY DEF AskLazily, AskSizes, Ask
  <2>4. \A r \in Names : ~SkipRef(r) /\ ~StageRef(r)
    BY DEF SkipRef, NextRef, StageRef, Searching
  <2>5. ~StageWants /\ ~BeginSearch /\ ~Sizes /\ ~EndSearch /\ ~TellSizes /\ ~CutHistory /\ ~Apply
    BY DEF StageWants, BeginSearch, Sizes, EndSearch, TellSizes, CutHistory, Apply, End
  <2> QED
    BY <2>1, <2>2, <2>3, <2>4, <2>5 DEF Next, Step
<1>3. CASE RefuseExclude
  BY <1>3 DEF RefuseExclude
<1>4. CASE TransferFails
  BY <1>4 DEF TransferFails
<1>5. CASE RefuseMissing
  <2>1. pc = "check" /\ Missing # {} /\ failed' = failed
    BY <1>5 DEF RefuseMissing
  <2> QED
    BY <2>1, MissingIsHonest
<1>6. CASE CutPack
  <2>1. pc = "pack" /\ PackFails
    BY <1>6 DEF CutPack
  <2>2. uneven \/ (filtered /\ ~req.filter)
    BY <2>1, PackIsHeld DEF PackFails
  <2>3. ~req.filter => req.kind = "fetch"
    BY <2>1 DEF Answers, Stands, Answering, Serves, Typed, Request
  <2> QED
    BY <2>2, <2>3
<1> QED
  BY <1>2, <1>3, <1>4, <1>5, <1>6

\* A request is turned down, or broken off, only for a reason it cannot be blamed for: the
\* search passes over no ref that holds a want, and what it staged is enough for the pack
\* (stageUntilFound, graphMayHold and buildPackForWants).
THEOREM RefusalsHaveReasons == Spec => RefusalsAreHonest
<1>1. Serves /\ Answers /\ [Next]_vars =>
        [pc \notin Ends /\ pc' \in {"refused", "broken"} =>
           \/ failed'
           \/ NoRef \in req.cut.not
           \/ ~(req.wants \subseteq Obtainable)
           \/ filtered /\ ~req.filter /\ req.kind = "fetch"
           \/ uneven]_vars
  BY RefusedForAReason
<1> QED
  BY <1>1, ServesInit, ServesStays, AnswersInit, AnswersStays, PTL DEF Spec, RefusalsAreHonest
-----------------------------------------------------------------------------
\* The rest of the types: where a request is, what it has staged, and the refs left to search.
Places == {"idle", "resolve", "sizes", "search", "check", "pack", "apply"} \union Ends
MaxRequests == Settings[setting].requests
Kept ==
  /\ indexed \subseteq DOMAIN bases /\ pc \in Places
  /\ stage \subseteq Oids /\ todo \in Seq(Names)
  /\ asked \in 0 .. MaxRequests /\ failed \in BOOLEAN

LEMMA KeptInit == Init => Kept
<1> SUFFICES ASSUME Init PROVE Kept
  OBVIOUS
<1>1. MaxRequests \in Nat
  <2>1. Settings[setting] \in Range(Settings)
    BY DEF Init, Range
  <2> QED
    BY <2>1, SettingsAssumption DEF MaxRequests
<1>2. indexed \subseteq DOMAIN bases /\ asked = 0 /\ pc = "idle" /\ stage = {}
  BY DEF Init
<1>3. todo \in Seq(Names) /\ failed \in BOOLEAN
  <2>1. todo = <<>> /\ failed = FALSE
    BY DEF Init
  <2>2. <<>> \in Seq(Names)
    OBVIOUS
  <2> QED
    BY <2>1, <2>2
<1>4. asked \in 0 .. MaxRequests
  BY <1>1, <1>2
<1> QED
  BY <1>2, <1>3, <1>4 DEF Kept, Places

\* What is staged are objects: the packfiles of manifests that are served.
LEMMA PacksFit ==
  ASSUME Typed, NEW S \in SUBSET Oids, NEW skip \in BOOLEAN, Resolves(S, skip)
  PROVE  PacksOf(Graph(S, skip)) \subseteq Oids
<1> SUFFICES ASSUME NEW o \in Graph(S, skip) PROVE PackOf(Manifest(o)) \subseteq Oids
  BY DEF PacksOf
<1>1. Served(o)
  BY DEF Graph, Resolves
<1>2. Manifest(o) \in Commits
  BY <1>1, BasesFit DEF Served
<1> QED
  BY <1>2, CarriedFits DEF PackOf, Packed, Oids, TreesOf

LEMMA KeptStep ==
  ASSUME Serves, Answers, Kept, [Next]_vars
  PROVE  Kept'
<1> USE DEF Kept, Places
<1>0. MaxRequests \in Nat /\ Typed /\ head \in Names
  <2>1. Settings[setting] \in Range(Settings)
    BY DEF Serves, Typed, Range
  <2> QED
    BY <2>1, SettingsAssumption DEF MaxRequests, Serves, Answers, Stands
<1>1. CASE UNCHANGED vars
  BY <1>1 DEF vars, registry, scratch, MaxRequests
<1> SUFFICES ASSUME Next PROVE Kept'
  BY <1>1
<1>2. MaxRequests' = MaxRequests
  BY DEF Next, MaxRequests
<1>3. ASSUME NEW r, MayAsk, Ask(r) PROVE Kept'
  <2>1. asked' = asked + 1 /\ asked < MaxRequests
    BY <1>3 DEF Ask, MayAsk, MaxRequests
  <2>2. asked' \in 0 .. MaxRequests'
    BY <1>0, <1>2, <2>1
  <2>3. pc' \in {"sizes", "resolve"} /\ UNCHANGED <<indexed, bases, stage, todo>> /\ failed' = FALSE
    BY <1>3 DEF Ask, registry, scratch
  <2> QED
    BY <2>2, <2>3
<1>4. ASSUME NEW how \in Ends, End(how), UNCHANGED <<registry, asked>>, failed' \in BOOLEAN
      PROVE  Kept'
  BY <1>2, <1>4 DEF End, registry
<1>5. CASE RefuseExclude \/ RefuseMissing \/ TellSizes \/ TransferFails
  BY <1>4, <1>5 DEF RefuseExclude, RefuseMissing, TellSizes, TransferFails, Refuse, Ends
<1>6. CASE StageWants
  <2>1. Wanted \subseteq Oids
    BY <1>0, RefsAssumption DEF Wanted, ExcludedTips, Typed, Request, Oids
  <2>2. stage' \subseteq Oids
    BY <1>0, <1>6, <2>1, PacksFit DEF StageWants, SkipLocal
  <2> QED
    BY <1>2, <1>6, <2>2 DEF StageWants, registry
<1>7. CASE BeginSearch
  BY <1>0, <1>2, <1>7, OrderIsComplete DEF BeginSearch, registry
<1>8. CASE Sizes
  <2>1. UNCHANGED <<registry, client, asked, failed, uneven>>
    BY <1>8 DEF Sizes
  <2>2. CASE End("served")
    BY <1>4, <2>1, <2>2 DEF Ends
  <2>3. CASE pc' = "search" /\ todo' = SearchOrder /\ UNCHANGED stage
    BY <1>0, <1>2, <2>1, <2>3, OrderIsComplete DEF registry
  <2> QED
    BY <1>8, <2>2, <2>3 DEF Sizes
<1>9. ASSUME NEW r \in Names, SkipRef(r) \/ StageRef(r) PROVE Kept'
  <2>1. Tail(todo) \in Seq(Names)
    <3>1. todo # <<>>
      BY <1>9 DEF SkipRef, StageRef, Searching
    <3> QED
      BY <3>1
  <2>2. CASE SkipRef(r)
    BY <1>2, <2>1, <2>2 DEF SkipRef, NextRef, Onward, registry
  <2>3. CASE StageRef(r)
    <3>1. {Refs[r].sha} \subseteq Oids
      BY RefsAssumption DEF Oids
    <3>2. PacksOf(SearchGraph(r)) \subseteq Oids
      BY <1>0, <2>3, <3>1, PacksFit DEF StageRef, SearchGraph
    <3> QED
      BY <1>2, <2>1, <2>3, <3>2 DEF StageRef, Onward, registry
  <2> QED
    BY <1>9, <2>2, <2>3
<1>10. CASE EndSearch \/ CutHistory
  BY <1>2, <1>10 DEF EndSearch, CutHistory, registry, scratch
<1>11. CASE CutPack
  <2>1. UNCHANGED <<registry, asked, failed>>
    BY <1>11 DEF CutPack
  <2>2. CASE PackFails
    BY <1>4, <1>11, <2>1, <2>2 DEF CutPack, Ends
  <2>3. CASE ~PackFails
    <3>1. pc' = "apply" /\ stage' = {} /\ todo' = <<>>
      BY <1>11, <2>3 DEF CutPack
    <3> QED
      BY <1>2, <2>1, <3>1 DEF registry
  <2> QED
    BY <2>2, <2>3
<1>12. CASE Apply
  <2>1. UNCHANGED <<registry, asked, failed>> /\ (End("served") \/ End("rejected"))
    BY <1>12 DEF Apply
  <2> QED
    BY <1>4, <2>1 DEF Ends
<1> QED
  BY <1>3, <1>5, <1>6, <1>7, <1>8, <1>9, <1>10, <1>11, <1>12
     DEF Next, Step, AskFetch, AskLazily, AskSizes

\* Every state of the registry, the client and the server is well-typed: what is staged and
\* sent are objects, what is left to search are refs, and what is recorded as shallow are
\* commits, whatever is asked.
THEOREM TypeCorrectness == Spec => []TypeOK
<1>1. Init => Serves /\ Answers /\ Kept
  BY ServesInit, AnswersInit, KeptInit
<1>2. Serves /\ Answers /\ Kept /\ [Next]_vars => (Serves /\ Answers /\ Kept)'
  BY ServesStays, AnswersStays, KeptStep
<1>3. Serves /\ Answers /\ Kept => TypeOK
  <2> SUFFICES ASSUME Serves, Answers, Kept PROVE TypeOK
    OBVIOUS
  <2>1. MaxRequests = Settings[setting].requests /\ head \in Names
    BY DEF MaxRequests, Answers, Stands
  <2> QED
    BY <2>1 DEF Serves, Typed, Kept, Places, TypeOK
<1> QED
  BY <1>1, <1>2, <1>3, PTL DEF Spec
=============================================================================
