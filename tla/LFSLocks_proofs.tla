-------------------------- MODULE LFSLocks_proofs --------------------------
(***************************************************************************)
(* Proofs about LFSLocks, for any users, paths, owners and settings: a     *)
(* path has one lock, and a lock leaves the list by a release of its own.  *)
(***************************************************************************)
EXTENDS LFSLocks, TLAPS

USE NobodyAssumption, FreeAssumption, SettingsAssumption

Stage == {"idle", "lookup", "wait", "read", "write", "release"}

\* TypeOK without what it says of ids, and what a command is known to hold.
Typed ==
  /\ setting \in Settings
  /\ locks \subseteq LFSLock
  /\ lock \in Users \union {Free}
  /\ pc \in [Users -> Stage]
  /\ op \in [Users -> Op]
  /\ ops \in 0 .. MaxOps
  /\ \A u \in Users :
       (pc[u] # "idle" => op[u].kind # "none") /\ (pc[u] = "lookup" => op[u].kind = "unlock")
  /\ \A u \in Users : op[u].kind = "lock" =>
       op[u].path \in Paths /\ op[u].owner \in Owners /\ op[u].id # 0

\* Every copy of the list has one lock per path, as the list has.
CopiesLockOnce ==
  \A u \in Users : \A l, m \in op[u].list : l.path = m.path => l = m

\* The locks that are in the list, or in somebody's copy of it.
Seen == {l \in LFSLock : l \in locks \/ \E u \in Users : l \in op[u].list \union op[u].found}

\* An id is of one lock, and a command about to add a lock has an id of its own.
IdsIdentify ==
  /\ \A l, m \in Seen : l.id = m.id => l = m
  /\ \A l \in Seen : l.id <= ops
  /\ \A u \in Users : op[u].kind = "lock" =>
       /\ op[u].id <= ops
       /\ pc[u] # "release" => \A l \in Seen : l.id # op[u].id
       /\ \A v \in Users \ {u} : op[v].kind = "lock" => op[u].id # op[v].id

\* Under an index lock that holds, the copy of whoever writes is the list.
CopyOfHolder(u) ==
  /\ pc[u] \in {"read", "write", "release"} => lock = u
  /\ pc[u] = "write" => op[u].list = locks
CopyIsList == Serialised => \A u \in Users : CopyOfHolder(u)

\* A release by path is of a lock that was found there.
FoundByPath ==
  \A u \in Users : op[u].kind = "unlock" /\ op[u].path # Nobody =>
    op[u].id = 0 \/ \E l \in op[u].found : l.id = op[u].id

IInv == Typed /\ PathsLockedOnce /\ CopiesLockOnce /\ IdsIdentify /\ CopyIsList /\ FoundByPath
-----------------------------------------------------------------------------
\* What a step of u is, as far as the lists go: a command begins; it looks up its path; it
\* reads the list; it writes the list; or it goes on or ends with the copies it has.
Begins(u) ==
  /\ pc[u] = "idle" /\ pc'[u] \in {"wait", "lookup"}
  /\ ops < MaxOps /\ ops' = ops + 1
  /\ \E new \in Op :
       /\ op' = [op EXCEPT ![u] = new]
       /\ new.list = {} /\ new.found = {}
       /\ new.kind \in {"lock", "unlock"}
       /\ pc'[u] = "lookup" => new.kind = "unlock"
       /\ new.kind = "lock" => new.path \in Paths /\ new.owner \in Owners /\ new.id = ops + 1
       /\ new.kind = "unlock" /\ new.path # Nobody => new.id = 0
  /\ UNCHANGED <<locks, lock>>

LooksUp(u) ==
  /\ pc[u] = "lookup" /\ pc'[u] = "wait"
  /\ \E new \in Op :
       /\ op' = [op EXCEPT ![u] = new]
       /\ new.kind = op[u].kind /\ new.path = op[u].path /\ new.owner = op[u].owner
       /\ new.list = op[u].list /\ new.found \in Fetched
       /\ new.id = 0 \/ \E l \in new.found : l.id = new.id
       /\ new.kind # "lock"
  /\ UNCHANGED <<locks, lock, ops>>

Reads(u) ==
  /\ pc[u] = "read" /\ pc'[u] = "write"
  /\ \E new \in Op :
       /\ op' = [op EXCEPT ![u] = new]
       /\ new.kind = op[u].kind /\ new.path = op[u].path /\ new.owner = op[u].owner
       /\ new.id = op[u].id /\ new.found = op[u].found
       /\ new.list \in Fetched
  /\ UNCHANGED <<locks, lock, ops>>

GoesOn(u) ==
  /\ \/ pc[u] = "wait" /\ pc'[u] = "read" /\ lock' = u /\ lock = Free
     \/ pc[u] \in {"read", "write"} /\ pc'[u] = "release" /\ lock' = lock
  /\ UNCHANGED <<locks, op, ops>>

Ends(u) ==
  /\ pc'[u] = "idle"
  /\ op' = [op EXCEPT ![u] = NoOp]
  /\ lock' = lock \/ (pc[u] = "release" /\ lock = u /\ lock' = Free)
  /\ UNCHANGED <<locks, ops>>

Step(u) ==
  /\ pc' \in [Users -> Stage]
  /\ \A v \in Users \ {u} : pc'[v] = pc[v]
  /\ Begins(u) \/ LooksUp(u) \/ Reads(u) \/ Write(u) \/ GoesOn(u) \/ Ends(u)

LEMMA Bound ==
  ASSUME Typed PROVE MaxOps \in Nat
BY DEF Typed, MaxOps, Setting

LEMMA NoOpIsOp == Typed => NoOp \in Op
BY Bound DEF NoOp, Op, Ids

LEMMA Shapes ==
  ASSUME Typed, Next
  PROVE  (\E u \in Users : Step(u)) \/ Lapse
<1> USE DEF At, Goto
<1>0. MaxOps \in Nat /\ NoOp \in Op /\ ops \in Nat
  BY Bound, NoOpIsOp DEF Typed
<1>1. ASSUME NEW u \in Users, NEW p \in Paths, NEW o \in Owners, StartLock(u, p, o)
      PROVE  Step(u)
  <2> DEFINE new == [NoOp EXCEPT !.kind = "lock", !.path = p, !.id = NewId, !.owner = o,
                                 !.force = FALSE]
  <2>1. ops < MaxOps /\ ops' = ops + 1 /\ op' = [op EXCEPT ![u] = new]
    BY <1>1 DEF StartLock, Start
  <2>0. NewId = ops + 1 /\ NewId \in Ids
    BY <1>0, <2>1 DEF Ids, NewId
  <2>2. /\ new \in Op /\ new.list = {} /\ new.found = {} /\ new.kind = "lock"
        /\ new.path = p /\ new.owner = o /\ new.id = ops + 1
    BY <2>0 DEF NoOp, Op
  <2> HIDE DEF new
  <2>3. Begins(u)
    BY <1>1, <2>1, <2>2 DEF Begins, StartLock, Start, Typed, Stage
  <2> QED
    BY <1>1, <2>3 DEF Step, StartLock, Start, Typed, Stage
<1>2. ASSUME NEW u \in Users, NEW p \in Paths, NEW o \in Owners, NEW f \in BOOLEAN,
             StartUnlock(u, p, o, f)
      PROVE  Step(u)
  <2> DEFINE new == [NoOp EXCEPT !.kind = "unlock", !.path = p, !.id = 0, !.owner = o,
                                 !.force = f]
  <2>1. ops < MaxOps /\ ops' = ops + 1 /\ op' = [op EXCEPT ![u] = new]
    BY <1>2 DEF StartUnlock, Start
  <2>2. /\ new \in Op /\ new.list = {} /\ new.found = {} /\ new.kind = "unlock" /\ new.id = 0
    BY <1>0 DEF NoOp, Op, Ids
  <2> HIDE DEF new
  <2>3. Begins(u)
    BY <1>2, <2>1, <2>2 DEF Begins, StartUnlock, Start, Typed, Stage
  <2> QED
    BY <1>2, <2>3 DEF Step, StartUnlock, Start, Typed, Stage
<1>3. ASSUME NEW u \in Users, NEW l \in locks, NEW o \in Owners, NEW f \in BOOLEAN,
             StartUnlockId(u, l.id, o, f)
      PROVE  Step(u)
  <2> DEFINE new == [NoOp EXCEPT !.kind = "unlock", !.path = Nobody, !.id = l.id, !.owner = o,
                                 !.force = f]
  <2>1. ops < MaxOps /\ ops' = ops + 1 /\ op' = [op EXCEPT ![u] = new]
    BY <1>3 DEF StartUnlockId, Start
  <2>2. l.id \in Ids
    BY <1>3 DEF Typed, LFSLock
  <2>3. /\ new \in Op /\ new.list = {} /\ new.found = {} /\ new.kind = "unlock"
        /\ new.path = Nobody
    BY <1>0, <2>2 DEF NoOp, Op
  <2> HIDE DEF new
  <2>4. Begins(u)
    BY <1>3, <2>1, <2>3 DEF Begins, StartUnlockId, Start, Typed, Stage
  <2> QED
    BY <1>3, <2>4 DEF Step, StartUnlockId, Start, Typed, Stage
<1>4. ASSUME NEW u \in Users, LookUp(u) PROVE Step(u)
  <2>1. PICK list \in Fetched, i \in Ids :
          /\ \/ \E l \in list : l.path = op[u].path /\ l.id = i
             \/ i = 0 /\ \A l \in list : l.path # op[u].path
          /\ op' = [op EXCEPT ![u].id = i, ![u].found = list]
    BY <1>4 DEF LookUp
  <2> DEFINE new == [op[u] EXCEPT !.id = i, !.found = list]
  <2>2. list \in SUBSET LFSLock /\ op[u] \in Op
    BY DEF Fetched, Typed
  <2>3. op' = [op EXCEPT ![u] = new]
    BY <2>1 DEF Typed
  <2>4. /\ new \in Op
        /\ new.kind = op[u].kind /\ new.path = op[u].path /\ new.owner = op[u].owner
        /\ new.list = op[u].list /\ new.found = list /\ new.id = i
    BY <2>2 DEF Op
  <2> HIDE DEF new
  <2>5. LooksUp(u)
    BY <1>4, <2>1, <2>3, <2>4 DEF LooksUp, LookUp, Typed, Stage
  <2> QED
    BY <1>4, <2>5 DEF Step, LookUp, Typed, Stage
<1>5. ASSUME NEW u \in Users, Read(u) PROVE Step(u)
  <2>1. PICK list \in Fetched : op' = [op EXCEPT ![u].list = list]
    BY <1>5 DEF Read
  <2> DEFINE new == [op[u] EXCEPT !.list = list]
  <2>2. list \in SUBSET LFSLock /\ op[u] \in Op
    BY DEF Fetched, Typed
  <2>3. op' = [op EXCEPT ![u] = new]
    BY <2>1 DEF Typed
  <2>4. /\ new \in Op
        /\ new.kind = op[u].kind /\ new.path = op[u].path /\ new.owner = op[u].owner
        /\ new.id = op[u].id /\ new.found = op[u].found /\ new.list = list
    BY <2>2 DEF Op
  <2> HIDE DEF new
  <2>5. Reads(u)
    BY <1>5, <2>3, <2>4 DEF Reads, Read, Typed, Stage
  <2> QED
    BY <1>5, <2>5 DEF Step, Read, Typed, Stage
<1>6. ASSUME NEW u \in Users, Acquire(u) \/ Refuse(u) \/ Fail(u) PROVE Step(u)
  <2>1. GoesOn(u)
    BY <1>6 DEF GoesOn, Acquire, Refuse, Fail, LockFree, Typed, Stage
  <2> QED
    BY <1>6, <2>1 DEF Step, Acquire, Refuse, Fail, Typed, Stage
<1>7. ASSUME NEW u \in Users, GiveUp(u) \/ Release(u) \/ Crash(u) PROVE Step(u)
  <2>1. Ends(u)
    BY <1>7 DEF Ends, GiveUp, Release, Crash, Return, Typed, Stage
  <2> QED
    BY <1>7, <2>1 DEF Step, GiveUp, Release, Crash, Return, Typed, Stage
<1>8. ASSUME NEW u \in Users, Write(u) PROVE Step(u)
  BY <1>8 DEF Step, Write, Typed, Stage
<1> QED
  BY <1>1, <1>2, <1>3, <1>4, <1>5, <1>6, <1>7, <1>8 DEF Next
-----------------------------------------------------------------------------
LEMMA TypedStep ==
  ASSUME Typed, [Next]_vars
  PROVE  Typed'
<1>0. MaxOps \in Nat /\ NoOp \in Op /\ ops \in Nat /\ setting' = setting
  BY Bound, NoOpIsOp DEF Typed, Next, vars
<1>1. MaxOps' = MaxOps /\ LFSLock' = LFSLock /\ Op' = Op /\ (Settings)' = Settings
  BY <1>0 DEF MaxOps, LFSLock, Op, Ids
<1>2. ASSUME UNCHANGED vars PROVE Typed'
  BY <1>1, <1>2 DEF Typed, vars
<1>3. ASSUME Lapse PROVE Typed'
  BY <1>0, <1>1, <1>3 DEF Typed, Lapse
<1>4. ASSUME NEW u \in Users, Step(u) PROVE Typed'
  <2>1. pc' \in [Users -> Stage] /\ \A v \in Users \ {u} : pc'[v] = pc[v]
    BY <1>4 DEF Step
  <2>2. ASSUME NEW new \in Op, op' = [op EXCEPT ![u] = new],
               (pc'[u] # "idle" => new.kind # "none"),
               (pc'[u] = "lookup" => new.kind = "unlock"),
               (new.kind = "lock" => new.path \in Paths /\ new.owner \in Owners /\ new.id # 0)
        PROVE  /\ op' \in [Users -> Op]
               /\ \A v \in Users : /\ pc'[v] # "idle" => op'[v].kind # "none"
                                   /\ pc'[v] = "lookup" => op'[v].kind = "unlock"
               /\ \A v \in Users : op'[v].kind = "lock" =>
                    op'[v].path \in Paths /\ op'[v].owner \in Owners /\ op'[v].id # 0
    BY <2>1, <2>2 DEF Typed
  <2>3. CASE Begins(u)
    <3>1. PICK new \in Op :
            /\ op' = [op EXCEPT ![u] = new]
            /\ new.kind \in {"lock", "unlock"}
            /\ pc'[u] = "lookup" => new.kind = "unlock"
            /\ new.kind = "lock" =>
                 new.path \in Paths /\ new.owner \in Owners /\ new.id = ops + 1
      BY <2>3 DEF Begins
    <3>2. ops' \in 0 .. MaxOps
      BY <1>0, <2>3 DEF Begins
    <3>3. pc'[u] # "idle" /\ (pc'[u] = "lookup" => new.kind = "unlock")
      BY <2>3, <3>1 DEF Begins
    <3> QED
      BY <1>0, <1>1, <2>1, <2>2, <2>3, <3>1, <3>2, <3>3 DEF Typed, Begins
  <2>4. CASE LooksUp(u) \/ Reads(u)
    <3>1. PICK new \in Op :
            /\ op' = [op EXCEPT ![u] = new]
            /\ new.kind = op[u].kind /\ new.path = op[u].path /\ new.owner = op[u].owner
            /\ new.kind = "lock" => new.id = op[u].id
      BY <2>4 DEF LooksUp, Reads
    <3>2. /\ pc'[u] \notin {"idle", "lookup"} /\ pc[u] # "idle"
          /\ UNCHANGED <<locks, lock, ops>>
      BY <2>4 DEF LooksUp, Reads
    <3>3. /\ new.kind # "none"
          /\ new.kind = "lock" => new.path \in Paths /\ new.owner \in Owners /\ new.id # 0
      BY <3>1, <3>2 DEF Typed
    <3> QED
      BY <1>0, <1>1, <2>1, <2>2, <3>1, <3>2, <3>3 DEF Typed
  <2>5. CASE Write(u)
    <3>1. Rewritten(u) \subseteq LFSLock
      <4>1. op[u] \in Op
        BY DEF Typed
      <4>2. CASE op[u].kind = "lock"
        <5>1. op[u].path \in Paths /\ op[u].owner \in Owners /\ op[u].id \in Ids \ {0}
          BY <4>1, <4>2 DEF Typed, Op
        <5>2. [id |-> op[u].id, path |-> op[u].path, owner |-> op[u].owner] \in LFSLock
          BY <5>1 DEF LFSLock
        <5> QED
          BY <4>1, <4>2, <5>2 DEF Rewritten, Op
      <4> QED
        BY <4>1, <4>2 DEF Rewritten, Op
    <3>2. pc[u] = "write" /\ pc'[u] = "release" /\ op' = op /\ lock' = lock /\ ops' = ops
      BY <2>5 DEF Write, At, Goto, Typed
    <3> QED
      BY <1>0, <1>1, <2>1, <2>5, <3>1, <3>2 DEF Typed, Write
  <2>6. CASE GoesOn(u)
    BY <1>0, <1>1, <2>1, <2>6 DEF Typed, GoesOn
  <2>7. CASE Ends(u)
    <3>1. NoOp.kind = "none"
      BY DEF NoOp
    <3> QED
      BY <1>0, <1>1, <2>1, <2>2, <2>7, <3>1 DEF Typed, Ends
  <2> QED
    BY <1>4, <2>3, <2>4, <2>5, <2>6, <2>7 DEF Step
<1> QED
  BY <1>2, <1>3, <1>4, Shapes
-----------------------------------------------------------------------------
\* The lock a lock command adds.
Added(u) == [id |-> op[u].id, path |-> op[u].path, owner |-> op[u].owner]

\* Nobody comes to see a lock that was nowhere, except the one a writer adds.
LEMMA SeenStep ==
  ASSUME Typed, Typed', setting' = setting, NEW u \in Users, Step(u)
  PROVE  \A l \in Seen' : l \in Seen \/ (Write(u) /\ op[u].kind = "lock" /\ l = Added(u))
<1>1. LFSLock' = LFSLock
  BY DEF LFSLock, Ids, MaxOps
<1>2. \A v \in Users : op[v] \in Op
  BY DEF Typed
<1>3. \A list \in Fetched : list \subseteq locks
  BY DEF Fetched
<1>4. ASSUME NEW new \in Op, op' = [op EXCEPT ![u] = new], locks' = locks,
             \A l \in new.list \union new.found : l \in Seen
      PROVE  \A l \in Seen' : l \in Seen
  BY <1>1, <1>2, <1>4 DEF Seen, Typed
<1>5. CASE Begins(u) \/ LooksUp(u) \/ Reads(u) \/ Ends(u)
  <2>1. PICK new \in Op :
          /\ op' = [op EXCEPT ![u] = new]
          /\ new.list \in {{}, op[u].list} \union Fetched
          /\ new.found \in {{}, op[u].found} \union Fetched
    <3>1. NoOp \in Op /\ NoOp.list = {} /\ NoOp.found = {}
      BY NoOpIsOp DEF NoOp
    <3> QED
      BY <1>5, <3>1 DEF Begins, LooksUp, Reads, Ends
  <2>2. locks' = locks
    BY <1>5 DEF Begins, LooksUp, Reads, Ends
  <2>3. /\ new.list \subseteq locks \union op[u].list
        /\ new.found \subseteq locks \union op[u].found
    BY <1>3, <2>1
  <2>4. new.list \subseteq LFSLock /\ new.found \subseteq LFSLock
    BY <2>1 DEF Op
  <2>5. \A l \in new.list \union new.found : l \in Seen
    BY <2>3, <2>4 DEF Seen
  <2> QED
    BY <1>4, <2>1, <2>2, <2>5
<1>6. CASE GoesOn(u)
  BY <1>1, <1>6 DEF Seen, GoesOn
<1>7. CASE Write(u)
  <2>1. op' = op /\ locks' = Rewritten(u)
    BY <1>7 DEF Write
  <2>2. Rewritten(u) \subseteq
          op[u].list \union (IF op[u].kind = "lock" THEN {Added(u)} ELSE {})
    BY DEF Rewritten, Added
  <2> QED
    BY <1>1, <1>7, <2>1, <2>2 DEF Seen
<1> QED
  BY <1>5, <1>6, <1>7 DEF Step

LEMMA IdsStep ==
  ASSUME Typed, Typed', IdsIdentify, [Next]_vars
  PROVE  IdsIdentify'
<1>0. MaxOps \in Nat /\ ops \in Nat /\ setting' = setting
  BY Bound DEF Typed, Next, vars
<1>1. LFSLock' = LFSLock
  BY <1>0 DEF LFSLock, Ids, MaxOps
<1>2. CASE UNCHANGED vars
  BY <1>1, <1>2 DEF IdsIdentify, Seen, vars
<1>3. CASE Lapse
  BY <1>1, <1>3 DEF IdsIdentify, Seen, Lapse
<1>4. ASSUME NEW u \in Users, Step(u) PROVE IdsIdentify'
  <2>1. pc' \in [Users -> Stage] /\ \A v \in Users \ {u} : pc'[v] = pc[v]
    BY <1>4 DEF Step
  <2>2. /\ \A v \in Users : op[v] \in Op /\ op[v].id \in Nat
        /\ \A l \in Seen : l.id \in Nat
    BY <1>0 DEF Typed, Op, Ids, Seen, LFSLock
  <2>3. CASE Write(u) /\ op[u].kind = "lock"
    <3>1. /\ op' = op /\ ops' = ops /\ pc[u] = "write" /\ pc'[u] = "release"
      BY <2>3 DEF Write, At, Goto, Typed
    <3>2. \A l \in Seen' : l \in Seen \/ l = Added(u)
      BY <1>0, <1>4, SeenStep
    <3>3. /\ Added(u).id = op[u].id /\ op[u].id <= ops
          /\ \A l \in Seen : l.id # op[u].id
          /\ \A v \in Users \ {u} : op[v].kind = "lock" => op[v].id # op[u].id
      BY <2>3, <3>1 DEF Added, IdsIdentify
    <3>4. (\A l, m \in Seen : l.id = m.id => l = m)'
      BY <3>2, <3>3 DEF IdsIdentify
    <3>5. (\A l \in Seen : l.id <= ops)'
      BY <3>1, <3>2, <3>3 DEF IdsIdentify
    <3>6. ASSUME NEW v \in Users, op'[v].kind = "lock"
          PROVE  /\ op'[v].id <= ops'
                 /\ pc'[v] # "release" => \A l \in Seen' : l.id # op'[v].id
                 /\ \A w \in Users \ {v} : op'[w].kind = "lock" => op'[v].id # op'[w].id
      BY <2>1, <3>1, <3>2, <3>3, <3>6 DEF IdsIdentify
    <3> QED
      BY <3>4, <3>5, <3>6 DEF IdsIdentify
  <2>4. CASE ~(Write(u) /\ op[u].kind = "lock")
    <3>1. \A l \in Seen' : l \in Seen
      BY <1>0, <1>4, <2>4, SeenStep
    <3>2. ops' \in Nat /\ ops <= ops'
      BY <1>0, <1>4 DEF Step, Begins, LooksUp, Reads, Write, GoesOn, Ends
    <3>3. (\A l, m \in Seen : l.id = m.id => l = m)'
      BY <3>1 DEF IdsIdentify
    <3>4. (\A l \in Seen : l.id <= ops)'
      BY <1>0, <2>2, <3>1, <3>2 DEF IdsIdentify
    \* A command keeps its id, or takes one that nothing has.
    <3>5. ASSUME NEW v \in Users, op'[v].kind = "lock"
          PROVE  \/ /\ op[v].kind = "lock" /\ op'[v].id = op[v].id
                    /\ pc'[v] # "release" => pc[v] # "release"
                 \/ v = u /\ op'[v].id = ops + 1 /\ ops' = ops + 1
      <4>1. CASE v # u
        BY <1>4, <2>1, <3>5, <4>1
           DEF Step, Begins, LooksUp, Reads, Write, GoesOn, Ends, Typed
      <4>2. CASE v = u /\ Begins(u)
        BY <3>5, <4>2 DEF Begins, Typed
      <4>3. CASE v = u /\ (LooksUp(u) \/ Reads(u))
        BY <3>5, <4>3 DEF LooksUp, Reads, Typed
      <4>4. CASE v = u /\ (GoesOn(u) \/ Write(u))
        BY <3>5, <4>4 DEF GoesOn, Write, At, Typed
      <4>5. CASE v = u /\ Ends(u)
        BY <3>5, <4>5 DEF Ends, NoOp, Typed
      <4> QED
        BY <1>4, <4>1, <4>2, <4>3, <4>4, <4>5 DEF Step
    <3>6. ASSUME NEW v \in Users, op'[v].kind = "lock"
          PROVE  /\ op'[v].id <= ops'
                 /\ pc'[v] # "release" => \A l \in Seen' : l.id # op'[v].id
                 /\ \A w \in Users \ {v} : op'[w].kind = "lock" => op'[v].id # op'[w].id
      <4>1. op'[v].id <= ops'
        BY <1>0, <2>2, <3>2, <3>5, <3>6 DEF IdsIdentify
      <4>2. ASSUME pc'[v] # "release", NEW l \in Seen' PROVE l.id # op'[v].id
        BY <1>0, <2>2, <3>1, <3>5, <3>6, <4>2 DEF IdsIdentify
      <4>3. ASSUME NEW w \in Users \ {v}, op'[w].kind = "lock" PROVE op'[v].id # op'[w].id
        BY <1>0, <2>2, <3>5, <3>6, <4>3 DEF IdsIdentify
      <4> QED
        BY <4>1, <4>2, <4>3
    <3> QED
      BY <3>3, <3>4, <3>6 DEF IdsIdentify
  <2> QED
    BY <2>3, <2>4
<1> QED
  BY <1>2, <1>3, <1>4, Shapes

LEMMA PathsStep ==
  ASSUME Typed, PathsLockedOnce, CopiesLockOnce, [Next]_vars
  PROVE  PathsLockedOnce' /\ CopiesLockOnce'
<1>1. CASE UNCHANGED vars
  BY <1>1 DEF PathsLockedOnce, CopiesLockOnce, vars
<1>2. CASE Lapse
  BY <1>2 DEF PathsLockedOnce, CopiesLockOnce, Lapse
<1>3. ASSUME NEW u \in Users, Step(u) PROVE PathsLockedOnce' /\ CopiesLockOnce'
  <2>1. CASE Write(u)
    <3>1. op' = op /\ locks' = Rewritten(u) /\ Allowed(u)
      BY <2>1 DEF Write
    <3>2. \A l, m \in op[u].list : l.path = m.path => l = m
      BY DEF CopiesLockOnce
    <3>3. CASE op[u].kind = "lock"
      <4>1. locks' = op[u].list \union {Added(u)} /\ Added(u).path = op[u].path
        BY <3>1, <3>3 DEF Rewritten, Added
      <4>2. \A l \in op[u].list : l.path # op[u].path
        BY <3>1, <3>3 DEF Allowed, InTheWay
      <4> QED
        BY <3>1, <3>2, <4>1, <4>2 DEF PathsLockedOnce, CopiesLockOnce
    <3>4. CASE op[u].kind # "lock"
      BY <3>1, <3>2, <3>4 DEF Rewritten, PathsLockedOnce, CopiesLockOnce
    <3> QED
      BY <3>3, <3>4
  <2>2. CASE GoesOn(u)
    BY <2>2 DEF GoesOn, PathsLockedOnce, CopiesLockOnce
  <2>3. CASE Begins(u) \/ LooksUp(u) \/ Reads(u) \/ Ends(u)
    <3>1. PICK new : /\ op' = [op EXCEPT ![u] = new]
                     /\ new.list \in {{}, op[u].list} \union Fetched
      <4>1. NoOp.list = {}
        BY DEF NoOp
      <4> QED
        BY <2>3, <4>1 DEF Begins, LooksUp, Reads, Ends
    <3>2. \A l, m \in new.list : l.path = m.path => l = m
      BY <3>1 DEF Fetched, PathsLockedOnce, CopiesLockOnce
    <3>3. locks' = locks
      BY <2>3 DEF Begins, LooksUp, Reads, Ends
    <3> QED
      BY <3>1, <3>2, <3>3 DEF PathsLockedOnce, CopiesLockOnce, Typed
  <2> QED
    BY <1>3, <2>1, <2>2, <2>3 DEF Step
<1> QED
  BY <1>1, <1>2, <1>3, Shapes

LEMMA CopyStep ==
  ASSUME Typed, CopyIsList, [Next]_vars
  PROVE  CopyIsList'
<1>0. setting' = setting /\ (Serialised' => Serialised)
  BY DEF Next, vars, Serialised, LockLapses, BlobsVanish
<1> SUFFICES ASSUME Serialised, \A v \in Users : CopyOfHolder(v), NEW v \in Users
             PROVE  CopyOfHolder(v)'
  BY <1>0 DEF CopyIsList
<1>1. CASE UNCHANGED vars
  BY <1>1 DEF CopyOfHolder, vars
<1>2. CASE Lapse
  BY <1>2 DEF Lapse, At, Serialised, CopyOfHolder
<1>3. ASSUME NEW u \in Users, Step(u) PROVE CopyOfHolder(v)'
  <2>1. v # u => pc'[v] = pc[v] /\ op'[v] = op[v]
    BY <1>3 DEF Step, Begins, LooksUp, Reads, Write, GoesOn, Ends, Typed
  <2>2. CASE Write(u)
    <3>1. pc[u] = "write" /\ lock = u /\ lock' = u /\ pc'[u] = "release"
      BY <2>2 DEF Write, At, Goto, Typed, CopyOfHolder
    <3> QED
      BY <2>1, <3>1 DEF CopyOfHolder
  <2>3. CASE Reads(u)
    <3>1. Fetched = {locks}
      BY DEF Fetched, Serialised
    <3> QED
      BY <2>1, <2>3, <3>1 DEF Reads, Typed, CopyOfHolder
  <2>4. CASE Begins(u) \/ LooksUp(u) \/ GoesOn(u) \/ Ends(u)
    <3>1. locks' = locks /\ (lock' = lock \/ lock \in {u, Free})
      BY <2>4 DEF Begins, LooksUp, GoesOn, Ends
    <3>2. /\ pc'[u] # "write"
          /\ pc'[u] \in {"read", "release"} => lock' = u
      BY <2>4 DEF Begins, LooksUp, GoesOn, Ends, CopyOfHolder
    <3> QED
      BY <2>1, <3>1, <3>2 DEF CopyOfHolder
  <2> QED
    BY <1>3, <2>2, <2>3, <2>4 DEF Step
<1> QED
  BY <1>1, <1>2, <1>3, Shapes

LEMMA FoundStep ==
  ASSUME Typed, FoundByPath, [Next]_vars
  PROVE  FoundByPath'
<1>1. CASE UNCHANGED vars
  BY <1>1 DEF FoundByPath, vars
<1>2. CASE Lapse
  BY <1>2 DEF FoundByPath, Lapse
<1>3. ASSUME NEW u \in Users, Step(u) PROVE FoundByPath'
  <2>1. CASE Write(u) \/ GoesOn(u)
    BY <2>1 DEF Write, GoesOn, FoundByPath
  <2>2. CASE Begins(u) \/ LooksUp(u) \/ Reads(u) \/ Ends(u)
    <3>1. PICK new :
            /\ op' = [op EXCEPT ![u] = new]
            /\ new.kind = "unlock" /\ new.path # Nobody =>
                 new.id = 0 \/ \E l \in new.found : l.id = new.id
      <4>1. NoOp.kind = "none"
        BY DEF NoOp
      <4> QED
        BY <2>2, <4>1 DEF Begins, LooksUp, Reads, Ends, FoundByPath
    <3> QED
      BY <3>1 DEF FoundByPath, Typed
  <2> QED
    BY <1>3, <2>1, <2>2 DEF Step
<1> QED
  BY <1>1, <1>2, <1>3, Shapes
-----------------------------------------------------------------------------
LEMMA InitiallyInv == Init => IInv
<1> SUFFICES ASSUME Init PROVE IInv
  OBVIOUS
<1>1. MaxOps \in Nat
  BY DEF Init, MaxOps, Setting
<1>2. NoOp \in Op
  BY <1>1 DEF NoOp, Op, Ids
<1>3. NoOp.kind = "none" /\ NoOp.list = {} /\ NoOp.found = {}
  BY DEF NoOp
<1>4. Typed
  BY <1>1, <1>2, <1>3 DEF Typed, Init, Stage
<1>5. Seen = {}
  BY <1>3 DEF Seen, Init
<1> QED
  BY <1>3, <1>4, <1>5
     DEF IInv, Init, PathsLockedOnce, CopiesLockOnce, IdsIdentify, CopyIsList,
         CopyOfHolder, FoundByPath

LEMMA Inductive == IInv /\ [Next]_vars => IInv'
BY TypedStep, IdsStep, PathsStep, CopyStep, FoundStep DEF IInv

\* Every state of the list, its lock and the commands is well-typed: LFSLocks, and no two locks
\* of the list have the same id.
THEOREM TypeCorrectness == Spec => []TypeOK
<1>1. IInv => TypeOK
  <2> SUFFICES ASSUME IInv PROVE TypeOK
    OBVIOUS
  <2>1. locks \subseteq Seen
    BY DEF IInv, Typed, Seen
  <2>2. \A l, m \in locks : l.id = m.id => l = m
    BY <2>1 DEF IInv, IdsIdentify
  <2> QED
    BY <2>2 DEF IInv, Typed, TypeOK, Stage
<1> QED
  BY <1>1, InitiallyInv, Inductive, PTL DEF Spec

\* A path has one lock at most, whatever happens to the index lock and to the list's blob:
\* every copy of the list locks a path once, and AcquireLFSLock checks the very copy it
\* extends.
THEOREM PathsHaveOneLock == Spec => []PathsLockedOnce
<1>1. IInv => PathsLockedOnce
  BY DEF IInv
<1> QED
  BY <1>1, InitiallyInv, Inductive, PTL DEF Spec

\* While the index lock holds and the list can be read, a lock leaves it only by a release
\* of that lock, by its owner or forced; and a release by path spares the lock that has
\* taken the path since.
THEOREM OnlyReleasesUnlock == Spec => LocksLeaveByRelease
<1>1. ASSUME IInv, Next
      PROVE  \A l \in locks \ locks' : Serialised => \E u \in Users :
               /\ Write(u)
               /\ op[u].kind = "unlock" /\ op[u].id = l.id
               /\ op[u].force \/ op[u].owner = l.owner
               /\ op[u].path # Nobody => l \in op[u].found
  <2> SUFFICES ASSUME NEW l \in locks \ locks', Serialised
               PROVE  \E u \in Users :
                        /\ Write(u)
                        /\ op[u].kind = "unlock" /\ op[u].id = l.id
                        /\ op[u].force \/ op[u].owner = l.owner
                        /\ op[u].path # Nobody => l \in op[u].found
    OBVIOUS
  <2> USE <1>1 DEF IInv
  <2>1. PICK u \in Users : Write(u)
    <3>1. (\E u \in Users : Step(u)) \/ Lapse
      BY Shapes
    <3> QED
      BY <3>1 DEF Step, Begins, LooksUp, Reads, GoesOn, Ends, Lapse
  <2>2. op[u].list = locks /\ locks' = Rewritten(u) /\ Allowed(u) /\ op[u] \in Op
    BY <2>1 DEF Write, At, CopyIsList, CopyOfHolder, Typed
  <2>3. op[u].kind = "unlock"
    <3>1. op[u].kind # "lock"
      BY <2>2 DEF Rewritten
    <3>2. op[u].kind # "none"
      BY <2>1 DEF Write, At, Typed
    <3> QED
      BY <2>2, <3>1, <3>2 DEF Op
  <2>4. l \in Named(u) /\ op[u].id = l.id /\ MayUnlock(u)
    BY <2>2, <2>3 DEF Rewritten, Allowed, Named
  <2>5. op[u].force \/ op[u].owner = l.owner
    BY <2>4 DEF MayUnlock
  <2>6. ASSUME op[u].path # Nobody PROVE l \in op[u].found
    <3>1. l \in LFSLock /\ l \in Seen /\ l.id # 0
      BY DEF Typed, LFSLock, Seen
    <3>2. PICK m \in op[u].found : m.id = op[u].id
      BY <2>3, <2>4, <2>6, <3>1 DEF FoundByPath
    <3>3. m \in Seen
      BY <2>2, <3>2 DEF Seen, Op
    <3> QED
      BY <2>4, <3>1, <3>2, <3>3 DEF IdsIdentify
  <2> QED
    BY <2>1, <2>3, <2>4, <2>5, <2>6
<1>2. IInv /\ [Next]_vars =>
        [\A l \in locks \ locks' : Serialised => \E u \in Users :
           /\ Write(u)
           /\ op[u].kind = "unlock" /\ op[u].id = l.id
           /\ op[u].force \/ op[u].owner = l.owner
           /\ op[u].path # Nobody => l \in op[u].found]_vars
  BY <1>1
<1> QED
  BY <1>2, InitiallyInv, Inductive, PTL DEF Spec, LocksLeaveByRelease
=============================================================================
