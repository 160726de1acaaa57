-------------------------- MODULE RefIndex_proofs --------------------------
(***************************************************************************)
(* Proofs about RefIndex, for any number of clients, refs and commits, any *)
(* number of attempts, and callers, faults and lapses of every kind.       *)
(***************************************************************************)
EXTENDS RefIndex, TLAPS

\* Where a writer is tells what it runs: the attempts of an update are counted from one,
\* DeleteRef runs before them, and set-head passes no refs.
Updating == {"base", "merge", "fill", "head", "lock", "check", "retry", "release"}
Deleting == {"dlock", "dread", "dtag", "dhead", "deleted"}
Fits(stage, c) ==
  /\ stage \in Updating => c.attempt # 0
  /\ stage \in Deleting \union {"publish", "refresh"} => c.attempt = 0
  /\ stage \in Deleting \/ (stage \in {"write", "mirror"} /\ c.attempt = 0)
       => c.kind = "delete"
  /\ stage = "retry" => c.attempt < MaxAttempts
  /\ stage # "idle" => c.kind # "none" /\ c.ref \in Refs
  /\ stage # "idle" /\ c.kind = "sethead" => c.attempt # 0 /\ c.known = Nothing
Calls == \A w \in Writers : Fits(pc[w], call[w])

USE AbsentAssumption, NoHeadAssumption, FreeAssumption, AttemptsAssumption,
    SettingsAssumption

\* The maps that reads and merges return are maps of refs.
LEMMA MapsAreRefMaps ==
  ASSUME TypeOK
  PROVE  /\ Nothing \in RefMap /\ NoIndex \in Index /\ NoCall \in Call
         /\ Fetched \in RefMap /\ Listed \in RefMap /\ Discovered \in RefMap
         /\ \A f, g \in RefMap : Over(f, g) \in RefMap
         /\ \A f \in RefMap : \A gone : Without(f, gone) \in RefMap
         /\ \A f \in RefMap, h \in Refs \union {NoHead} : Live(h, f) \in Refs \union {NoHead}
  <1> USE DEF TypeOK, RefMap, Index
  <1>1. Nothing \in RefMap
    BY DEF Nothing
  <1>2. NoIndex \in Index
    BY <1>1 DEF NoIndex
  <1>3. NoCall \in Call
    BY <1>1, <1>2 DEF NoCall, Call
  <1>4. Fetched \in RefMap /\ Listed \in RefMap /\ Discovered \in RefMap
    BY DEF Fetched, Listed, Discovered
  <1>5. \A f, g \in RefMap : Over(f, g) \in RefMap
    BY DEF Over
  <1>6. \A f \in RefMap : \A gone : Without(f, gone) \in RefMap
    BY DEF Without
  <1>7. \A f \in RefMap, h \in Refs \union {NoHead} : Live(h, f) \in Refs \union {NoHead}
    BY DEF Live
  <1>8. QED
    BY <1>1, <1>2, <1>3, <1>4, <1>5, <1>6, <1>7

\* So are those that a failing read falls back on.
LEMMA ReadsAreRefMaps ==
  ASSUME TypeOK
  PROVE  /\ Reads(Fetched, {mirror.refs, Nothing}) \subseteq RefMap
         /\ Reads(Listed, {mirror.refs, tag, Nothing}) \subseteq RefMap
         /\ Reads(Listed, {mirror.refs, tag}) \subseteq RefMap
BY MapsAreRefMaps DEF TypeOK, Reads, Index

\* What is left of a call when an attempt ends, and what a writer would write.
LEMMA CallsAreTyped ==
  ASSUME TypeOK, NEW w \in Writers
  PROVE  /\ call[w] \in Call
         /\ Spent(w) \in Call
         /\ Content(w) \in Index
         /\ NextHead(w) \in Refs \union {NoHead}
  <1> USE DEF TypeOK
  <1>1. call[w] \in Call
    OBVIOUS
  <1>2. Spent(w) \in Call
    BY <1>1, MapsAreRefMaps DEF Spent, Call
  <1>3. Content(w) \in Index
    BY <1>1 DEF Content, Index, Call
  <1>4. NextHead(w) \in Refs \union {NoHead}
    BY <1>1, MapsAreRefMaps DEF NextHead, Hint, Call, Index
  <1>5. QED
    BY <1>1, <1>2, <1>3, <1>4

\* A write tells every other writer with a base whether the index left it, and changes
\* nothing else about them.
LEMMA OthersAreTold ==
  ASSUME TypeOK, NEW w \in Writers, NEW left \in Call, Put(w, left)
  PROVE  /\ index' \in Index
         /\ call' \in [Writers -> Call]
         /\ call'[w] = left
         /\ \A u \in Writers \ {w} :
              /\ call'[u].kind = call[u].kind /\ call'[u].ref = call[u].ref
              /\ call'[u].to = call[u].to /\ call'[u].ok = call[u].ok
              /\ call'[u].known = call[u].known /\ call'[u].base = call[u].base
              /\ call'[u].merged = call[u].merged /\ call'[u].head = call[u].head
              /\ call'[u].attempt = call[u].attempt /\ call'[u].blind = call[u].blind
              /\ call'[u].moved = (call[u].moved \/ (HasBase(u) /\ Content(w) # index))
  <1> DEFINE moved(u) == call[u].moved \/ (HasBase(u) /\ Content(w) # index)
             told(u) == [call[u] EXCEPT !.moved = moved(u)]
  <1>1. \A u \in Writers : call[u] \in Call /\ moved(u) \in BOOLEAN
    BY DEF TypeOK, Call
  <1>2. call' = [u \in Writers |-> IF u = w THEN left ELSE told(u)]
    BY <1>1 DEF Put, Call
  <1> HIDE DEF moved
  <1>3. \A u \in Writers :
          /\ told(u) \in Call /\ told(u).moved = moved(u)
          /\ told(u).kind = call[u].kind /\ told(u).ref = call[u].ref
          /\ told(u).to = call[u].to /\ told(u).ok = call[u].ok
          /\ told(u).known = call[u].known /\ told(u).base = call[u].base
          /\ told(u).merged = call[u].merged /\ told(u).head = call[u].head
          /\ told(u).attempt = call[u].attempt /\ told(u).blind = call[u].blind
    BY <1>1 DEF Call
  <1> HIDE DEF told
  <1>4. index' \in Index
    BY CallsAreTyped DEF Put
  <1>5. QED
    BY <1>2, <1>3, <1>4 DEF moved

\* A step of one writer, to another stage and with another call.
LEMMA OneWriterMoves ==
  ASSUME TypeOK, Calls, NEW w \in Writers, NEW stage \in Stages, NEW c \in Call,
         Fits(stage, c),
         pc' = [pc EXCEPT ![w] = stage], call' = [call EXCEPT ![w] = c]
  PROVE  pc' \in [Writers -> Stages] /\ call' \in [Writers -> Call] /\ Calls'
BY DEF TypeOK, Calls

\* A step that also writes the index.
LEMMA OneWriterWrites ==
  ASSUME TypeOK, Calls, NEW w \in Writers, NEW stage \in Stages, NEW left \in Call,
         Fits(stage, left), Put(w, left), pc' = [pc EXCEPT ![w] = stage],
         UNCHANGED <<setting, mirror, tag, lock, ops>>, drift' \in BOOLEAN
  PROVE  TypeOK' /\ Calls'
  <1>1. \A u \in Writers \ {w} : Fits(pc'[u], call'[u])
    BY OthersAreTold DEF TypeOK, Calls, Fits
  <1>2. Fits(pc'[w], call'[w])
    BY OthersAreTold DEF TypeOK
  <1>3. QED
    BY <1>1, <1>2, OthersAreTold DEF TypeOK, Calls, MaxOps

\* What no step of an update or a deletion changes about itself.
LEMMA TypeCorrect == TypeOK /\ Calls /\ [Next]_vars => TypeOK' /\ Calls'
  <1> SUFFICES ASSUME TypeOK, Calls, [Next]_vars PROVE TypeOK' /\ Calls'
    OBVIOUS
  <1> USE DEF store, Goto, Return, Leave
  <1>1. ASSUME NEW w \in Writers, NEW kind \in {"push", "delete"}, NEW r \in Refs,
               NEW c \in Commits \union {Absent}, NEW stage \in {"publish", "dlock"},
               stage = "dlock" => kind = "delete",
               Begin(w, kind, r, c, stage), UNCHANGED setting
        PROVE  TypeOK' /\ Calls'
    <2> DEFINE known == IF WholeListing THEN Discovered ELSE Nothing
               new == [NoCall EXCEPT !.kind = kind, !.ref = r, !.to = c, !.known = known]
    <2>1. known \in RefMap
      BY MapsAreRefMaps
    <2>2. call' = [call EXCEPT ![w] = new] /\ pc' = [pc EXCEPT ![w] = stage]
      BY <1>1 DEF Begin
    <2> HIDE DEF known
    <2>3. new \in Call
      BY <2>1, MapsAreRefMaps DEF NoCall, Call
    <2>4. Fits(stage, new) /\ stage \in Stages
      BY <1>1 DEF NoCall, Fits, Updating, Deleting, Stages
    <2>5. ops' \in 0 .. MaxOps'
      BY <1>1 DEF Begin, MaxOps, Setting, TypeOK
    <2> HIDE DEF new
    <2>6. QED
      BY <1>1, <2>2, <2>3, <2>4, <2>5, OneWriterMoves DEF Begin, TypeOK
  <1>2. ASSUME NEW w \in Writers, NEW r \in Refs, BeginSetHead(w, r), UNCHANGED setting
        PROVE  TypeOK' /\ Calls'
    <2> DEFINE new == [NoCall EXCEPT !.kind = "sethead", !.ref = r, !.attempt = 1]
    <2>1. call' = [call EXCEPT ![w] = new] /\ pc' = [pc EXCEPT ![w] = "base"]
      BY <1>2 DEF BeginSetHead
    <2>2. new \in Call /\ Fits("base", new) /\ "base" \in Stages
      <3>1. 1 \in 0 .. MaxAttempts
        OBVIOUS
      <3>2. new \in Call
        BY <3>1, MapsAreRefMaps DEF NoCall, Call
      <3>3. Fits("base", new)
        BY DEF NoCall, Fits, Updating, Deleting
      <3>4. QED
        BY <3>2, <3>3 DEF Stages
    <2>3. ops' \in 0 .. MaxOps'
      BY <1>2 DEF BeginSetHead, MaxOps, Setting, TypeOK
    <2> HIDE DEF new
    <2>4. QED
      BY <1>2, <2>1, <2>2, <2>3, OneWriterMoves DEF BeginSetHead, TypeOK
  <1>3. ASSUME NEW w \in Writers, Publish(w), UNCHANGED setting
        PROVE  TypeOK' /\ Calls'
    <2> DEFINE known == [call[w].known EXCEPT ![call[w].ref] = call[w].to]
               new == [call[w] EXCEPT !.ok = TRUE, !.known = known]
    <2>1. call' = [call EXCEPT ![w] = new] /\ pc' = [pc EXCEPT ![w] = "refresh"]
      BY <1>3 DEF Publish, TypeOK, Call
    <2>2. known \in RefMap /\ call[w] \in Call /\ Fits("publish", call[w])
      BY <1>3 DEF RefMap, Call, TypeOK, Calls, Publish
    <2> HIDE DEF known
    <2>3. new \in Call /\ Fits("refresh", new) /\ "refresh" \in Stages
      BY <2>2 DEF Call, Fits, Updating, Deleting, Stages
    <2>4. tag' \in RefMap
      BY <1>3, <2>2 DEF Publish, TypeOK, RefMap, Call
    <2> HIDE DEF new
    <2>5. QED
      BY <1>3, <2>1, <2>3, <2>4, OneWriterMoves DEF Publish, TypeOK, MaxOps
  <1>4. ASSUME NEW w \in Writers, Refresh(w), UNCHANGED setting
        PROVE  TypeOK' /\ Calls'
    <2> DEFINE known == IF WholeListing THEN Over(call[w].known, Without(Fetched, Deleted(w)))
                        ELSE call[w].known
               new == [call[w] EXCEPT !.attempt = 1, !.known = known]
    <2>1. call' = [call EXCEPT ![w] = new] /\ pc' = [pc EXCEPT ![w] = "base"]
      BY <1>4 DEF Refresh, TypeOK, Call
    <2>2. known \in RefMap /\ call[w] \in Call /\ Fits("refresh", call[w])
      BY <1>4, MapsAreRefMaps, CallsAreTyped DEF TypeOK, Calls, Refresh, Call
    <2> HIDE DEF known
    <2>3. new \in Call /\ Fits("base", new) /\ "base" \in Stages
      <3>1. 1 \in 0 .. MaxAttempts
        OBVIOUS
      <3>2. new \in Call
        BY <2>2, <3>1 DEF Call
      <3>3. Fits("base", new)
        BY <2>2 DEF Fits, Updating, Deleting, Call
      <3>4. QED
        BY <3>2, <3>3 DEF Stages
    <2> HIDE DEF new
    <2>4. QED
      BY <1>4, <2>1, <2>3, OneWriterMoves DEF Refresh, TypeOK, MaxOps
  <1>5. ASSUME NEW w \in Writers, Baseline(w), UNCHANGED setting
        PROVE  TypeOK' /\ Calls'
    <2> DEFINE new == [call[w] EXCEPT !.base = index, !.moved = FALSE]
    <2>1. call' = [call EXCEPT ![w] = new] /\ pc' = [pc EXCEPT ![w] = "merge"]
      BY <1>5 DEF Baseline, TypeOK, Call
    <2>2. call[w] \in Call /\ Fits("base", call[w])
      BY <1>5 DEF TypeOK, Calls, Baseline
    <2>3. new \in Call /\ Fits("merge", new) /\ "merge" \in Stages
      BY <2>2 DEF Call, Fits, Updating, Deleting, Stages, TypeOK
    <2> HIDE DEF new
    <2>4. QED
      BY <1>5, <2>1, <2>3, OneWriterMoves DEF Baseline, TypeOK, MaxOps
  <1>6. ASSUME NEW w \in Writers, Merge(w), UNCHANGED setting
        PROVE  TypeOK' /\ Calls'
    <2>1. PICK read \in Reads(Fetched, {mirror.refs, Nothing}) :
            call' = [call EXCEPT ![w].merged = read, ![w].blind = read # Fetched]
      BY <1>6 DEF Merge
    <2> DEFINE new == [call[w] EXCEPT !.merged = read, !.blind = read # Fetched]
    <2>2. call' = [call EXCEPT ![w] = new] /\ pc' = [pc EXCEPT ![w] = "fill"]
      BY <1>6, <2>1 DEF Merge, TypeOK, Call
    <2>3. call[w] \in Call /\ Fits("merge", call[w]) /\ read \in RefMap
      BY <1>6, ReadsAreRefMaps DEF TypeOK, Calls, Merge
    <2>4. new \in Call /\ Fits("fill", new) /\ "fill" \in Stages
      BY <2>3 DEF Call, Fits, Updating, Deleting, Stages
    <2> HIDE DEF new
    <2>5. QED
      BY <1>6, <2>2, <2>4, OneWriterMoves DEF Merge, TypeOK, MaxOps
  <1>7. ASSUME NEW w \in Writers, Fill(w), UNCHANGED setting
        PROVE  TypeOK' /\ Calls'
    <2>1. PICK listing \in Reads(Listed, {mirror.refs, tag, Nothing}) :
            call' = [call EXCEPT
              ![w].merged = Without(Over(call[w].known, Over(@, listing)), Deleted(w)),
              ![w].blind = @ \/ listing # Listed]
      BY <1>7 DEF Fill
    <2> DEFINE merged == Without(Over(call[w].known, Over(call[w].merged, listing)), Deleted(w))
               blind == call[w].blind \/ listing # Listed
               new == [call[w] EXCEPT !.merged = merged, !.blind = blind]
    <2>2. call' = [call EXCEPT ![w] = new] /\ pc' = [pc EXCEPT ![w] = "head"]
      BY <1>7, <2>1 DEF Fill, TypeOK, Call
    <2>3. call[w] \in Call /\ Fits("fill", call[w]) /\ merged \in RefMap /\ blind \in BOOLEAN
      BY <1>7, ReadsAreRefMaps, MapsAreRefMaps DEF TypeOK, Calls, Fill, Call
    <2> HIDE DEF merged, blind
    <2>4. new \in Call /\ Fits("head", new) /\ "head" \in Stages
      BY <2>3 DEF Call, Fits, Updating, Deleting, Stages
    <2> HIDE DEF new
    <2>5. QED
      BY <1>7, <2>2, <2>4, OneWriterMoves DEF Fill, TypeOK, MaxOps
  <1>8. ASSUME NEW w \in Writers, DeleteRead(w), UNCHANGED setting
        PROVE  TypeOK' /\ Calls'
    <2>1. PICK listing \in Reads(Listed, {mirror.refs, tag}) :
            call' = [call EXCEPT ![w].merged = Without(listing, {call[w].ref}),
                                 ![w].blind = listing # Listed]
      BY <1>8 DEF DeleteRead
    <2> DEFINE merged == Without(listing, {call[w].ref})
               new == [call[w] EXCEPT !.merged = merged, !.blind = listing # Listed]
    <2>2. call' = [call EXCEPT ![w] = new] /\ pc' = [pc EXCEPT ![w] = "dtag"]
      BY <1>8, <2>1 DEF DeleteRead, TypeOK, Call
    <2>3. call[w] \in Call /\ Fits("dread", call[w]) /\ merged \in RefMap
      BY <1>8, ReadsAreRefMaps, MapsAreRefMaps DEF TypeOK, Calls, DeleteRead, Call
    <2> HIDE DEF merged
    <2>4. new \in Call /\ Fits("dtag", new) /\ "dtag" \in Stages
      BY <2>3 DEF Call, Fits, Updating, Deleting, Stages
    <2> HIDE DEF new
    <2>5. QED
      BY <1>8, <2>2, <2>4, OneWriterMoves DEF DeleteRead, TypeOK, MaxOps
  <1>9. ASSUME NEW w \in Writers, KeepHead(w) \/ ChooseHead(w) \/ DeleteHead(w),
               UNCHANGED setting
        PROVE  TypeOK' /\ Calls'
    <2>1. PICK head \in {NextHead(w), call[w].ref, Live(index.head, call[w].merged)},
               stage \in {"lock", "write"} :
            /\ call' = [call EXCEPT ![w].head = head]
            /\ pc' = [pc EXCEPT ![w] = stage]
            /\ stage = "lock" => pc[w] = "head"
            /\ stage = "write" => pc[w] = "dhead"
      BY <1>9 DEF KeepHead, ChooseHead, DeleteHead
    <2> DEFINE new == [call[w] EXCEPT !.head = head]
    <2>2. call' = [call EXCEPT ![w] = new]
      BY <2>1 DEF TypeOK, Call
    <2>3. call[w] \in Call /\ Fits(pc[w], call[w]) /\ head \in Refs \union {NoHead}
      BY <2>1, MapsAreRefMaps, CallsAreTyped DEF TypeOK, Calls, Call, Index
    <2>4. new \in Call /\ Fits(stage, new) /\ stage \in Stages
      BY <2>1, <2>3 DEF Call, Fits, Updating, Deleting, Stages
    <2>5. ops' = ops /\ UNCHANGED store /\ drift' = drift
      BY <1>9 DEF KeepHead, ChooseHead, DeleteHead
    <2> HIDE DEF new
    <2>6. QED
      BY <1>9, <2>1, <2>2, <2>4, <2>5, OneWriterMoves DEF TypeOK, MaxOps
  <1>10. ASSUME NEW w \in Writers, NEW from \in {"lock", "dlock"}, NEW to \in {"check", "dread"},
                from = "lock" <=> to = "check", Acquire(w, from, to), UNCHANGED setting
         PROVE  TypeOK' /\ Calls'
    <2>1. Fits(to, call[w]) /\ call[w] \in Call /\ to \in Stages
      BY <1>10 DEF Acquire, TypeOK, Calls, Fits, Updating, Deleting, Stages
    <2>2. call' = [call EXCEPT ![w] = call[w]] /\ pc' = [pc EXCEPT ![w] = to]
      BY <1>10 DEF Acquire, TypeOK
    <2>3. QED
      BY <1>10, <2>1, <2>2, OneWriterMoves DEF Acquire, TypeOK, MaxOps
  <1>11. ASSUME NEW w \in Writers, PublishFails(w) \/ Check(w) \/ DeleteTag(w),
                UNCHANGED setting
         PROVE  TypeOK' /\ Calls'
    <2>1. PICK to \in Stages : pc' = [pc EXCEPT ![w] = to] /\ Fits(to, call[w])
      BY <1>11 DEF PublishFails, Check, DeleteTag, Calls, Fits, Updating, Deleting, Stages
    <2>2. call' = [call EXCEPT ![w] = call[w]] /\ call[w] \in Call
      BY <1>11 DEF PublishFails, Check, DeleteTag, TypeOK
    <2>3. tag' \in RefMap
      BY <1>11 DEF PublishFails, Check, DeleteTag, TypeOK, RefMap
    <2>4. QED
      BY <1>11, <2>1, <2>2, <2>3, OneWriterMoves
      DEF PublishFails, Check, DeleteTag, TypeOK, MaxOps
  <1>12. ASSUME NEW w \in Writers, Return(w),
                UNCHANGED <<setting, index, mirror, tag, ops>>,
                lock' \in {lock, Free}, drift' \in BOOLEAN
         PROVE  TypeOK' /\ Calls'
    <2>1. Fits("idle", NoCall) /\ NoCall \in Call /\ "idle" \in Stages
      BY MapsAreRefMaps DEF Fits, Updating, Deleting, Stages
    <2>2. QED
      BY <1>12, <2>1, OneWriterMoves DEF TypeOK, MaxOps
  <1>13. ASSUME NEW w \in Writers, NEW to \in Stages, Leave(w, to), Fits(to, call[w]),
                UNCHANGED <<setting, tag, lock, ops>>,
                index' \in Index, mirror' \in Index, drift' \in BOOLEAN
         PROVE  TypeOK' /\ Calls'
    <2>1. Fits(to, Spent(w)) /\ Spent(w) \in Call
      BY <1>13, CallsAreTyped DEF Fits, Spent, Call
    <2>2. QED
      BY <1>13, <2>1, OneWriterMoves DEF TypeOK, MaxOps
  <1>14. ASSUME NEW w \in Writers, Conflict(w) \/ DeleteFails(w), UNCHANGED setting
         PROVE  TypeOK' /\ Calls'
    <2>1. PICK to \in Stages : Leave(w, to) /\ Fits(to, call[w])
      BY <1>14 DEF Conflict, DeleteFails, Calls, Fits, Updating, Deleting, Stages, MoreAttempts,
                  Releasing
    <2>2. QED
      BY <1>13, <1>14, <2>1 DEF Conflict, DeleteFails, TypeOK
  <1>15. ASSUME NEW w \in Writers, GiveUp(w), UNCHANGED setting
         PROVE  TypeOK' /\ Calls'
    <2>1. CASE pc[w] = "lock"
      BY <1>12, <1>15, <2>1 DEF GiveUp, TypeOK
    <2>2. CASE pc[w] = "dlock"
      <3>1. Fits("refresh", call[w]) /\ call[w] \in Call /\ "refresh" \in Stages
        BY <1>15, <2>2 DEF TypeOK, Calls, Fits, Updating, Deleting, Stages
      <3>2. call' = [call EXCEPT ![w] = call[w]] /\ pc' = [pc EXCEPT ![w] = "refresh"]
        BY <1>15, <2>2 DEF GiveUp, TypeOK
      <3>3. QED
        BY <1>15, <3>1, <3>2, OneWriterMoves DEF GiveUp, TypeOK, MaxOps
    <2>3. QED
      BY <1>15, <2>1, <2>2 DEF GiveUp
  <1>16. ASSUME NEW w \in Writers, RefuseHead(w) \/ UpdateFails(w) \/ Crash(w), UNCHANGED setting
         PROVE  TypeOK' /\ Calls'
    <2>1. CASE Return(w)
      BY <1>12, <1>16, <2>1 DEF RefuseHead, UpdateFails, Crash, TypeOK
    <2>2. CASE Leave(w, "release") /\ pc[w] = "check"
      <3>1. Fits("release", call[w]) /\ "release" \in Stages
        BY <2>2 DEF Calls, Fits, Updating, Deleting, Stages, Releasing
      <3>2. CASE UpdateFails(w)
        BY <1>13, <1>16, <2>2, <3>1, <3>2 DEF UpdateFails, TypeOK
      <3>3. QED
        BY <1>12, <1>16, <3>2 DEF RefuseHead, Crash, TypeOK
    <2>3. QED
      BY <1>16, <2>1, <2>2 DEF RefuseHead, UpdateFails, Crash
  <1>17. ASSUME NEW w \in Writers, Release(w), UNCHANGED setting
         PROVE  TypeOK' /\ Calls'
    <2>1. lock' \in {lock, Free}
      BY <1>17 DEF Release, ReleasedLock
    <2>2. CASE Return(w)
      BY <1>12, <1>17, <2>1, <2>2 DEF Release, TypeOK
    <2>3. CASE pc[w] = "deleted" /\ Goto(w, "refresh") /\ UNCHANGED call
      <3>1. Fits("refresh", call[w]) /\ call[w] \in Call /\ "refresh" \in Stages
        BY <2>3 DEF TypeOK, Calls, Fits, Updating, Deleting, Stages
      <3>2. call' = [call EXCEPT ![w] = call[w]] /\ pc' = [pc EXCEPT ![w] = "refresh"]
        BY <2>3 DEF TypeOK
      <3>3. QED
        BY <1>17, <2>1, <3>1, <3>2, OneWriterMoves DEF Release, TypeOK, MaxOps
    <2>4. CASE pc[w] = "retry" /\ Goto(w, "base")
               /\ call' = [call EXCEPT ![w].attempt = @ + 1]
      <3> DEFINE new == [call[w] EXCEPT !.attempt = call[w].attempt + 1]
      <3>1. call[w] \in Call /\ Fits("retry", call[w])
        BY <2>4 DEF TypeOK, Calls
      <3>2. call[w].attempt + 1 \in 0 .. MaxAttempts /\ call[w].attempt + 1 # 0
        BY <3>1 DEF Call, Fits
      <3>3. new \in Call /\ Fits("base", new) /\ "base" \in Stages
        BY <3>1, <3>2 DEF Call, Fits, Updating, Deleting, Stages
      <3>4. call' = [call EXCEPT ![w] = new] /\ pc' = [pc EXCEPT ![w] = "base"]
        BY <2>4 DEF TypeOK, Call
      <3> HIDE DEF new
      <3>5. QED
        BY <1>17, <2>1, <3>3, <3>4, OneWriterMoves DEF Release, TypeOK, MaxOps
    <2>5. QED
      BY <1>17, <2>2, <2>3, <2>4 DEF Release
  <1>18. ASSUME NEW w \in Writers, Write(w), UNCHANGED setting
         PROVE  TypeOK' /\ Calls'
    <2>1. call[w] \in Call /\ Fits("mirror", call[w]) /\ "mirror" \in Stages
      BY <1>18 DEF Write, TypeOK, Calls, Fits, Updating, Deleting, Stages
    <2>2. drift' \in BOOLEAN
      BY <1>18 DEF Write, TypeOK
    <2>3. QED
      BY <1>18, <2>1, <2>2, OneWriterWrites DEF Write
  <1>19. ASSUME NEW w \in Writers, WriteFails(w), UNCHANGED setting
         PROVE  TypeOK' /\ Calls'
    <2> DEFINE to == IF InDelete(w) THEN "deleted" ELSE "release"
    <2>1. Fits(to, call[w]) /\ to \in Stages
      BY <1>19 DEF WriteFails, InDelete, Calls, Fits, Updating, Deleting, Stages, Releasing
    <2>2. Fits(to, Spent(w)) /\ Spent(w) \in Call
      BY <2>1, CallsAreTyped DEF Fits, Spent, Call
    <2>3. Goto(w, to) /\ UNCHANGED <<mirror, tag, lock, ops>>
      BY <1>19 DEF WriteFails
    <2> HIDE DEF to
    <2>4. CASE Put(w, Spent(w)) /\ drift' = TRUE
      BY <1>19, <2>2, <2>1, <2>3, <2>4, OneWriterWrites
    <2>5. CASE call' = [call EXCEPT ![w] = Spent(w)] /\ UNCHANGED <<index, drift>>
      BY <1>13, <1>19, <2>1, <2>3, <2>5 DEF TypeOK
    <2>6. QED
      BY <1>19, <2>4, <2>5 DEF WriteFails
  <1>20. ASSUME NEW w \in Writers, Mirror(w) \/ MirrorFails(w), UNCHANGED setting
         PROVE  TypeOK' /\ Calls'
    <2>1. MirrorContent(w) \in Index /\ index' = index
      BY <1>20, CallsAreTyped DEF Mirror, MirrorFails, MirrorContent
    <2>2. CASE InDelete(w)
      <3> DEFINE known == [call[w].known EXCEPT ![call[w].ref] = Absent]
                 new == [Spent(w) EXCEPT !.ok = TRUE, !.known = known]
      <3>1. Spent(w) \in Call /\ Spent(w).known = call[w].known
            /\ Spent(w).attempt = call[w].attempt /\ Spent(w).kind = call[w].kind
            /\ Spent(w).ref = call[w].ref
        BY CallsAreTyped DEF Spent, Call
      <3>2. call' = [call EXCEPT ![w] = new] /\ pc' = [pc EXCEPT ![w] = "deleted"]
        BY <1>20, <2>2, <3>1 DEF Mirror, MirrorFails, Written, TypeOK, Call
      <3>3. known \in RefMap /\ call[w] \in Call /\ Fits("mirror", call[w])
        BY <1>20 DEF RefMap, Call, TypeOK, Calls, Mirror, MirrorFails
      <3> HIDE DEF known
      <3>4. new \in Call /\ new.attempt = 0 /\ new.kind = "delete" /\ new.ref \in Refs
        BY <2>2, <3>1, <3>3 DEF Call, Fits, InDelete
      <3>5. Fits("deleted", new) /\ "deleted" \in Stages
        BY <3>4 DEF Fits, Updating, Deleting, Stages, Releasing
      <3> HIDE DEF new
      <3>6. QED
        BY <1>20, <2>1, <3>2, <3>4, <3>5, OneWriterMoves DEF Mirror, MirrorFails, TypeOK, MaxOps
    <2>3. CASE ~InDelete(w)
      <3>1. Leave(w, "release") /\ "release" \in Stages
        BY <1>20, <2>3 DEF Mirror, MirrorFails, Written, Stages, Releasing
      <3>2. Fits("release", call[w])
        BY <1>20, <2>3 DEF Mirror, MirrorFails, Calls, Fits, Updating, Deleting, InDelete
      <3>3. QED
        BY <1>13, <1>20, <2>1, <3>1, <3>2 DEF Mirror, MirrorFails, TypeOK
    <2>4. QED
      BY <2>2, <2>3
  <1>21. CASE Lapse /\ UNCHANGED setting
    BY <1>21 DEF Lapse, TypeOK, Calls, MaxOps
  <1>22. CASE UNCHANGED vars
    BY <1>22 DEF vars, TypeOK, Calls, MaxOps
  <1>23. ASSUME NEW w \in Writers, Proceed(w), UNCHANGED setting PROVE TypeOK' /\ Calls'
    BY <1>3, <1>4, <1>5, <1>6, <1>7, <1>8, <1>9, <1>10, <1>11, <1>14, <1>16, <1>17, <1>18,
       <1>20, <1>23 DEF Proceed
  <1>24. ASSUME NEW w \in Writers, Fail(w), UNCHANGED setting PROVE TypeOK' /\ Calls'
    BY <1>11, <1>14, <1>15, <1>16, <1>19, <1>20, <1>24 DEF Fail
  <1>25. ASSUME NEW w \in Writers, NEW r \in Refs, UNCHANGED setting,
                BeginSetHead(w, r) \/ BeginDelete(w, r) \/ \E c \in Commits : BeginPush(w, r, c)
         PROVE  TypeOK' /\ Calls'
    BY <1>1, <1>2, <1>25 DEF BeginPush, BeginDelete
  <1>26. QED
    BY <1>21, <1>22, <1>23, <1>24, <1>25 DEF Next

\* Every initial state is well typed.
LEMMA InitTyped == Init => TypeOK /\ Calls
  <1> SUFFICES ASSUME Init PROVE TypeOK /\ Calls
    OBVIOUS
  <1>1. Nothing \in RefMap /\ NoIndex \in Index
    BY DEF Nothing, NoIndex, Index, RefMap
  <1>2. NoCall \in Call
    BY <1>1 DEF NoCall, Call
  <1>3. index \in Index /\ mirror \in Index /\ tag \in RefMap
    BY <1>1 DEF Init, Index
  <1>4. 0 \in 0 .. MaxOps
    BY DEF Init, MaxOps, Setting
  <1>5. TypeOK
    BY <1>2, <1>3, <1>4 DEF Init, TypeOK, Stages
  <1>6. Calls
    BY DEF Init, Calls, Fits, Updating, Deleting
  <1>7. QED
    BY <1>5, <1>6

\* Types and Calls lean on each other, so they are one invariant.
LEMMA Typed == Spec => [](TypeOK /\ Calls)
  <1>1. QED
    BY InitTyped, TypeCorrect, PTL DEF Spec

\* Every state of the ref index and of the clients that update it is well typed.
THEOREM TypeCorrectness == Spec => []TypeOK
  <1>1. QED
    BY Typed, PTL

-----------------------------------------------------------------------------
\* A step of w, and what it leaves alone: the other writers, who only learn that the
\* index has left their base.
Steps(w) ==
  /\ UNCHANGED setting
  /\ \/ \E r \in Refs, c \in Commits : BeginPush(w, r, c)
     \/ \E r \in Refs : BeginDelete(w, r) \/ BeginSetHead(w, r)
     \/ Proceed(w)
     \/ Fail(w)

\* The moves of the system: one writer's, or the clock's.
LEMMA StepsOrLapse ==
  ASSUME [Next]_vars
  PROVE  (\E w \in Writers : Steps(w)) \/ (Lapse /\ UNCHANGED setting) \/ UNCHANGED vars
BY DEF Next, Steps

Others(w) ==
  \A u \in Writers \ {w} :
    /\ pc'[u] = pc[u]
    /\ call'[u].kind = call[u].kind /\ call'[u].ref = call[u].ref
    /\ call'[u].to = call[u].to /\ call'[u].ok = call[u].ok
    /\ call'[u].known = call[u].known /\ call'[u].base = call[u].base
    /\ call'[u].merged = call[u].merged /\ call'[u].head = call[u].head
    /\ call'[u].attempt = call[u].attempt /\ call'[u].blind = call[u].blind
    /\ call'[u].moved = (call[u].moved \/ (HasBase(u) /\ index' # index))

Writes(w) == (Write(w) \/ WriteFails(w)) /\ (Put(w, call[w]) \/ Put(w, Spent(w)))

\* A step that does not write the index tells nobody anything.
LEMMA QuietSteps ==
  ASSUME TypeOK, NEW w \in Writers, Steps(w), ~Writes(w)
  PROVE  index' = index /\ \A u \in Writers \ {w} : pc'[u] = pc[u] /\ call'[u] = call[u]
  <1> USE DEF store, Goto, Return, Leave, TypeOK
  <1>1. CASE \E r \in Refs, c \in Commits : BeginPush(w, r, c)
    BY <1>1 DEF BeginPush, Begin
  <1>2. CASE Publish(w) \/ Refresh(w) \/ Baseline(w) \/ Merge(w) \/ Fill(w)
    BY <1>2 DEF Publish, Refresh, Baseline, Merge, Fill
  <1>3. CASE KeepHead(w) \/ ChooseHead(w) \/ RefuseHead(w) \/ Acquire(w, "lock", "check")
               \/ Acquire(w, "dlock", "dread")
    BY <1>3 DEF KeepHead, ChooseHead, RefuseHead, Acquire
  <1>4. CASE Check(w) \/ Conflict(w) \/ Mirror(w) \/ Release(w)
    BY <1>4 DEF Check, Conflict, Mirror, Written, Release
  <1>5. CASE DeleteRead(w) \/ DeleteTag(w) \/ DeleteHead(w)
    BY <1>5 DEF DeleteRead, DeleteTag, DeleteHead
  <1>6. CASE PublishFails(w) \/ DeleteFails(w) \/ UpdateFails(w) \/ MirrorFails(w)
               \/ GiveUp(w) \/ Crash(w)
    BY <1>6 DEF PublishFails, DeleteFails, UpdateFails, MirrorFails, Written, GiveUp, Crash
  <1>7. CASE Write(w) \/ WriteFails(w)
    BY <1>7 DEF Write, WriteFails, Writes
  <1>8. CASE \E r \in Refs : BeginDelete(w, r) \/ BeginSetHead(w, r)
    BY <1>8 DEF BeginDelete, Begin, BeginSetHead
  <1>9. QED
    BY <1>1, <1>2, <1>3, <1>4, <1>5, <1>6, <1>7, <1>8 DEF Steps, Proceed, Fail

\* Every step of w leaves the others as Others says.
LEMMA OthersStay ==
  ASSUME TypeOK, NEW w \in Writers, Steps(w) PROVE Others(w)
  <1>1. CASE Writes(w)
    <2>1. PICK left \in Call : Put(w, left)
      BY <1>1, CallsAreTyped DEF Writes
    <2>2. index' = Content(w) /\ \A u \in Writers \ {w} : pc'[u] = pc[u]
      BY <1>1 DEF Writes, Put, Write, WriteFails, Goto, TypeOK
    <2>3. QED
      BY <2>1, <2>2, OthersAreTold DEF Others
  <1>2. CASE ~Writes(w)
    BY <1>2, QuietSteps DEF Others, TypeOK, Call
  <1>3. QED
    BY <1>1, <1>2

-----------------------------------------------------------------------------
\* The HEAD a writer has settled is one of the refs it settled it against.
HeadsFit ==
  \A w \in Writers : pc[w] \in {"lock", "check", "write", "mirror"} =>
     Live(call[w].head, call[w].merged) = call[w].head

HeadInv == TypeOK /\ Calls /\ HeadsFit /\ HeadIsPublished

\* HEAD is settled against the map it is settled for, and the map is then left alone.
LEMMA HeadsFitStep ==
  ASSUME TypeOK, HeadsFit, NEW w \in Writers, Steps(w) PROVE HeadsFit'
  <1>1. \A u \in Writers \ {w} : pc'[u] \in {"lock", "check", "write", "mirror"} =>
          Live(call'[u].head, call'[u].merged) = call'[u].head
    BY OthersStay DEF Others, HeadsFit
  <1>2. ASSUME pc'[w] \in {"lock", "check", "write", "mirror"}
        PROVE  Live(call'[w].head, call'[w].merged) = call'[w].head
    <2> USE DEF TypeOK, Goto, Return, Leave
    <2>1. CASE KeepHead(w) \/ ChooseHead(w) \/ DeleteHead(w)
      BY <2>1 DEF KeepHead, ChooseHead, DeleteHead, Live, NextHead, Call
    <2>2. CASE Acquire(w, "lock", "check") \/ Check(w) \/ Write(w)
      BY <2>2, OthersAreTold DEF Acquire, Check, Write, HeadsFit
    <2>3. ~(KeepHead(w) \/ ChooseHead(w) \/ DeleteHead(w)
            \/ Acquire(w, "lock", "check") \/ Check(w) \/ Write(w)) => FALSE
      BY <1>2 DEF Steps, Proceed, Fail, BeginPush, BeginDelete, BeginSetHead, Begin,
         Publish, PublishFails, Refresh, Baseline, Merge, Fill, RefuseHead, Acquire, Conflict,
         Mirror, MirrorFails, Written, Release, DeleteRead, DeleteTag, DeleteFails, UpdateFails,
         WriteFails, GiveUp, Crash
    <2>4. QED
      BY <2>1, <2>2, <2>3
  <1>3. QED
    BY <1>1, <1>2 DEF HeadsFit

\* The index and its mirror change only to what a writer has settled.
LEMMA HeadIsPublishedStep ==
  ASSUME TypeOK, HeadsFit, HeadIsPublished, NEW w \in Writers, Steps(w)
  PROVE  HeadIsPublished'
  <1> USE DEF HeadIsPublished
  <1>1. pc[w] \in {"write", "mirror"} =>
          (Content(w).head # NoHead => Content(w).refs[Content(w).head] # Absent)
    BY DEF HeadsFit, Live, Content
  <1>2. index' = index \/ (pc[w] = "write" /\ index' = Content(w))
    <2>1. CASE Writes(w)
      BY <2>1 DEF Writes, Put, Write, WriteFails
    <2>2. QED
      BY <2>1, QuietSteps
  <1>3. mirror' = mirror \/ (pc[w] = "mirror" /\ mirror' = Content(w))
    BY DEF Steps, Proceed, Fail, BeginPush, BeginDelete, BeginSetHead, Begin, store,
       Publish, PublishFails, Refresh, Baseline, Merge, Fill, KeepHead, ChooseHead, RefuseHead,
       Acquire, Check, Conflict, Write, WriteFails, Mirror, MirrorContent, MirrorFails,
       Release, DeleteRead, DeleteTag, DeleteHead, DeleteFails, UpdateFails, GiveUp, Crash
  <1>4. QED
    BY <1>1, <1>2, <1>3

\* HeadInv holds at first.
LEMMA HeadInit == Init => HeadInv
  <1>1. Init => HeadIsPublished
    BY DEF Init, HeadIsPublished, NoIndex, Live
  <1>2. QED
    BY <1>1, InitTyped DEF Init, HeadInv, HeadsFit

\* Every step keeps HeadInv.
LEMMA HeadStep == HeadInv /\ [Next]_vars => HeadInv'
  <1> SUFFICES ASSUME HeadInv, [Next]_vars PROVE HeadInv'
    OBVIOUS
  <1>1. TypeOK' /\ Calls'
    BY TypeCorrect DEF HeadInv
  <1>2. CASE \E w \in Writers : Steps(w)
    BY <1>1, <1>2, HeadsFitStep, HeadIsPublishedStep DEF HeadInv
  <1>3. CASE Lapse \/ UNCHANGED vars
    BY <1>1, <1>3 DEF Lapse, vars, store, HeadInv, HeadsFit, HeadIsPublished
  <1>4. QED
    BY <1>2, <1>3, StepsOrLapse

\* HEAD is published whatever lapses and fails: only the writer's own map matters.
THEOREM HeadAlwaysPublished == Spec => []HeadIsPublished
  <1>1. HeadInv => HeadIsPublished
    BY DEF HeadInv
  <1>2. QED
    BY <1>1, HeadInit, HeadStep, PTL DEF Spec

-----------------------------------------------------------------------------
\* Unless it lapses the index lock excludes: a writer that has it is the one it names.
LockExcludes == ~LockLapses => \A w \in Writers : pc[w] \in Holding => lock = w

\* From the write of the index to that of its mirror the index is what the mirror will be.
MirrorFollows ==
  ~LockLapses =>
    /\ \A w \in Writers : pc[w] = "mirror" => index = Content(w)
    /\ ~drift => mirror = index \/ \E w \in Writers : pc[w] = "mirror"

MirrorInv == TypeOK /\ Calls /\ LockExcludes /\ MirrorFollows

\* Only a free lock is taken, and only its holder's absence or a lapse frees it.
LEMMA LockExcludesStep ==
  ASSUME TypeOK, LockExcludes, [Next]_vars PROVE LockExcludes'
  <1> USE DEF LockExcludes, LockLapses
  <1>1. CASE \E w \in Writers : Steps(w)
    <2> PICK w \in Writers : Steps(w)
      BY <1>1
    <2>1. ~LockLapses /\ pc'[w] \in Holding => lock' = w
      <3> USE DEF Holding, Releasing, TypeOK, Goto, Return, Leave, store
      <3>1. CASE Acquire(w, "lock", "check") \/ Acquire(w, "dlock", "dread")
        BY <3>1 DEF Acquire
      <3>2. ~(Acquire(w, "lock", "check") \/ Acquire(w, "dlock", "dread"))
              => pc'[w] \notin Holding \/ (pc[w] \in Holding /\ lock' = lock)
        BY DEF Steps, Proceed, Fail, BeginPush, BeginDelete, BeginSetHead, Begin,
           Publish, PublishFails, Refresh, Baseline, Merge, Fill, KeepHead, ChooseHead, RefuseHead,
           Check, Conflict, Write, WriteFails, Mirror, MirrorFails, Written,
           Release, DeleteRead, DeleteTag, DeleteHead, DeleteFails, UpdateFails, GiveUp, Crash
      <3>3. setting' = setting
        BY DEF Steps
      <3>4. QED
        BY <3>1, <3>2, <3>3
    <2>2. lock' = lock \/ lock = Free \/ lock = w
      BY DEF Steps, Proceed, Fail, BeginPush, BeginDelete, BeginSetHead, Begin, store,
         Publish, PublishFails, Refresh, Baseline, Merge, Fill, KeepHead, ChooseHead, RefuseHead,
         Acquire, Check, Conflict, Write, WriteFails, Mirror, MirrorFails, Release,
         ReleasedLock, DeleteRead, DeleteTag, DeleteHead, DeleteFails, UpdateFails, GiveUp, Crash
    <2>3. setting' = setting
      BY DEF Steps
    <2>4. QED
      BY <2>1, <2>2, <2>3, OthersStay DEF Others, TypeOK
  <1>2. CASE Lapse /\ UNCHANGED setting
    BY <1>2 DEF Lapse, TypeOK, Holding
  <1>3. CASE UNCHANGED vars
    BY <1>3 DEF vars, store
  <1>4. QED
    BY <1>1, <1>2, <1>3, StepsOrLapse

\* Only the holder writes, and it writes the mirror after the index or leaves it adrift.
LEMMA MirrorFollowsStep ==
  ASSUME TypeOK, LockExcludes, MirrorFollows, [Next]_vars PROVE MirrorFollows'
  <1>1. CASE \E w \in Writers : Steps(w)
    <2> PICK w \in Writers : Steps(w)
      BY <1>1
    <2> SUFFICES ASSUME ~LockLapses
                 PROVE  /\ \A u \in Writers : pc'[u] = "mirror" => index' = Content(u)'
                        /\ ~drift' => mirror' = index' \/ \E u \in Writers : pc'[u] = "mirror"
      BY DEF MirrorFollows, LockLapses, Steps
    <2>1. CASE Write(w)
      <3>1. pc'[w] = "mirror" /\ call'[w] = call[w] /\ index' = Content(w)
        BY <2>1, OthersAreTold DEF Write, Put, Goto, TypeOK
      <3>2. \A u \in Writers \ {w} : pc'[u] # "mirror"
        BY <2>1, OthersStay DEF Others, LockExcludes, Holding, Write
      <3>3. QED
        BY <3>1, <3>2 DEF Content
    <2>2. CASE WriteFails(w) /\ index' # index
      <3>1. drift' = TRUE /\ pc'[w] # "mirror"
        BY <2>2 DEF WriteFails, Goto, TypeOK
      <3>2. \A u \in Writers \ {w} : pc'[u] # "mirror"
        BY <2>2, OthersStay DEF Others, LockExcludes, Holding, WriteFails
      <3>3. QED
        BY <3>1, <3>2
    <2>3. CASE ~Write(w) /\ index' = index
      <3>1. \A u \in Writers \ {w} : pc'[u] = pc[u] /\ Content(u)' = Content(u)
        BY OthersStay DEF Others, Content
      <3>2. pc'[w] # "mirror"
        BY <2>3 DEF Steps, Proceed, Fail, BeginPush, BeginDelete, BeginSetHead, Begin, TypeOK,
           Goto, Return, Leave, Publish, PublishFails, Refresh, Baseline, Merge, Fill, KeepHead,
           ChooseHead, RefuseHead, Acquire, Check, Conflict, WriteFails, Mirror, MirrorFails,
           Written, Release, DeleteRead, DeleteTag, DeleteHead, DeleteFails, UpdateFails,
           GiveUp, Crash
      <3>3. pc[w] = "mirror" => drift' = TRUE \/ mirror' = Content(w)
        BY <2>3 DEF Steps, Proceed, Fail, BeginPush, BeginDelete, BeginSetHead, Begin,
           Publish, PublishFails, Refresh, Baseline, Merge, Fill, KeepHead, ChooseHead,
           RefuseHead, Acquire, Check, Conflict, WriteFails, Mirror, MirrorContent, MirrorFails,
           Release, DeleteRead, DeleteTag, DeleteHead, DeleteFails, UpdateFails, GiveUp, Crash
      <3>4. pc[w] # "mirror" => (drift' = drift /\ mirror' = mirror) \/ drift' = TRUE
        BY DEF Steps, Proceed, Fail, BeginPush, BeginDelete, BeginSetHead, Begin, store, TypeOK,
           Publish, PublishFails, Refresh, Baseline, Merge, Fill, KeepHead, ChooseHead,
           RefuseHead, Acquire, Check, Conflict, Write, WriteFails, Mirror, MirrorFails,
           Release, DeleteRead, DeleteTag, DeleteHead, DeleteFails, UpdateFails, GiveUp, Crash
      <3>5. QED
        BY <2>3, <3>1, <3>2, <3>3, <3>4 DEF MirrorFollows, TypeOK
    <2>4. QED
      BY <2>1, <2>2, <2>3, QuietSteps DEF Writes
  <1>2. CASE Lapse /\ UNCHANGED setting
    BY <1>2 DEF Lapse, MirrorFollows, Content, LockLapses
  <1>3. CASE UNCHANGED vars
    BY <1>3 DEF vars, store, MirrorFollows, Content, LockLapses
  <1>4. QED
    BY <1>1, <1>2, <1>3, StepsOrLapse

\* MirrorInv is inductive.
LEMMA MirrorInductive == Spec => []MirrorInv
  <1>1. Init => MirrorInv
    BY InitTyped DEF Init, MirrorInv, LockExcludes, MirrorFollows, Holding, Releasing
  <1>2. MirrorInv /\ [Next]_vars => MirrorInv'
    BY TypeCorrect, LockExcludesStep, MirrorFollowsStep DEF MirrorInv
  <1>3. QED
    BY <1>1, <1>2, PTL DEF Spec

\* A free lock has no writer behind it that still owes the mirror.
THEOREM MirrorAlwaysAgrees == Spec => []MirrorAgrees
  <1>1. MirrorInv => MirrorAgrees
    BY DEF MirrorInv, MirrorAgrees, MirrorFollows, LockExcludes, Holding, TypeOK
  <1>2. QED
    BY <1>1, MirrorInductive, PTL

-----------------------------------------------------------------------------
\* An attempt that has not been told otherwise is about the index as it is, and one that
\* has passed the re-check under the lock is so whatever it was told.
BaseIsIndex ==
  \A w \in Writers : HasBase(w) /\ ~call[w].moved => call[w].base = index
CheckedBase ==
  ~LockLapses => \A w \in Writers : pc[w] = "write" /\ ~InDelete(w) => index = call[w].base

\* What w is about to write is its request, applied to the index or adopted.
Answers(w) == \E refs \in A!Adopted : call[w].merged = A!Updated(refs, Pending(w))

\* An attempt whose index has not moved and whose reads told the truth builds the answer
\* to its request; DeleteRef, which re-checks nothing, does so because it has the lock.
UpdateAnswers ==
  \A w \in Writers : HasBase(w) /\ ~call[w].moved /\ ~call[w].blind =>
    /\ (pc[w] = "fill" /\ index.there) => call[w].merged = index.refs
    /\ pc[w] \in {"head", "lock", "check", "write"} => Answers(w)
    /\ pc[w] \in {"lock", "check", "write"} =>
         call[w].head = A!NextHead(call[w].merged, Pending(w))
DeleteAnswers ==
  ~LockLapses =>
    \A w \in Writers :
      /\ (pc[w] \in {"dtag", "dhead"} \/ (pc[w] = "write" /\ InDelete(w)))
           /\ ~call[w].blind => Answers(w)
      /\ pc[w] = "write" /\ InDelete(w) => call[w].head = Live(index.head, call[w].merged)

AtomicInv == HeadInv /\ LockExcludes /\ BaseIsIndex /\ CheckedBase
               /\ UpdateAnswers /\ DeleteAnswers

\* What the steps that build the new map and its HEAD leave of the call.
SameCall(w) ==
  /\ call'[w].kind = call[w].kind /\ call'[w].ref = call[w].ref
  /\ call'[w].ok = call[w].ok /\ call'[w].known = call[w].known
  /\ call'[w].attempt = call[w].attempt
  /\ call'[w].base = call[w].base /\ call'[w].moved = call[w].moved

\* What the three reads put in the call; one that came back true is not blind.
LEMMA Reading ==
  ASSUME TypeOK, NEW w \in Writers
  PROVE  /\ Merge(w) =>
              /\ SameCall(w) /\ index' = index
              /\ pc[w] = "merge" /\ pc'[w] = "fill"
              /\ ~call'[w].blind => call'[w].merged = Fetched
         /\ Fill(w) =>
              /\ SameCall(w) /\ index' = index
              /\ pc[w] = "fill" /\ pc'[w] = "head"
              /\ ~call'[w].blind =>
                   /\ ~call[w].blind
                   /\ call'[w].merged =
                        Without(Over(call[w].known, Over(call[w].merged, Listed)), Deleted(w))
         /\ DeleteRead(w) =>
              /\ SameCall(w) /\ index' = index
              /\ pc[w] = "dread" /\ pc'[w] = "dtag"
              /\ ~call'[w].blind => call'[w].merged = Without(Listed, {call[w].ref})
  <1> USE DEF store, Goto, SameCall
  <1>0. call[w] \in Call /\ call \in [Writers -> Call] /\ pc \in [Writers -> Stages]
    BY DEF TypeOK
  <1>1. ASSUME Merge(w)
        PROVE  /\ SameCall(w) /\ index' = index
               /\ pc[w] = "merge" /\ pc'[w] = "fill"
               /\ ~call'[w].blind => call'[w].merged = Fetched
    <2>1. PICK read \in Reads(Fetched, {mirror.refs, Nothing}) :
            call' = [call EXCEPT ![w].merged = read, ![w].blind = read # Fetched]
      BY <1>1 DEF Merge
    <2> DEFINE new == [call[w] EXCEPT !.merged = read, !.blind = read # Fetched]
    <2>2. call'[w] = new
      BY <1>0, <2>1 DEF Call
    <2>3. QED
      BY <1>0, <1>1, <2>2 DEF Merge, Call
  <1>2. ASSUME Fill(w)
        PROVE  /\ SameCall(w) /\ index' = index
               /\ pc[w] = "fill" /\ pc'[w] = "head"
               /\ ~call'[w].blind =>
                    /\ ~call[w].blind
                    /\ call'[w].merged =
                         Without(Over(call[w].known, Over(call[w].merged, Listed)), Deleted(w))
    <2>1. PICK listing \in Reads(Listed, {mirror.refs, tag, Nothing}) :
            call' = [call EXCEPT
              ![w].merged = Without(Over(call[w].known, Over(@, listing)), Deleted(w)),
              ![w].blind = @ \/ listing # Listed]
      BY <1>2 DEF Fill
    <2> DEFINE merged(l) == Without(Over(call[w].known, Over(call[w].merged, l)), Deleted(w))
               blind == call[w].blind \/ listing # Listed
               new == [call[w] EXCEPT !.merged = merged(listing), !.blind = blind]
    <2>2. call'[w] = new
      BY <1>0, <2>1 DEF Call
    <2>3. blind \in BOOLEAN /\ (~blind => ~call[w].blind /\ listing = Listed)
      BY <1>0 DEF Call
    <2> HIDE DEF merged, blind
    <2>4. SameCall(w) /\ call'[w].merged = merged(listing) /\ call'[w].blind = blind
      BY <1>0, <2>2 DEF Call
    <2>5. QED
      BY <1>0, <1>2, <2>3, <2>4 DEF Fill, merged
  <1>3. ASSUME DeleteRead(w)
        PROVE  /\ SameCall(w) /\ index' = index
               /\ pc[w] = "dread" /\ pc'[w] = "dtag"
               /\ ~call'[w].blind => call'[w].merged = Without(Listed, {call[w].ref})
    <2>1. PICK listing \in Reads(Listed, {mirror.refs, tag}) :
            call' = [call EXCEPT ![w].merged = Without(listing, {call[w].ref}),
                                 ![w].blind = listing # Listed]
      BY <1>3 DEF DeleteRead
    <2> DEFINE new == [call[w] EXCEPT !.merged = Without(listing, {call[w].ref}),
                                      !.blind = listing # Listed]
    <2>2. call'[w] = new
      BY <1>0, <2>1 DEF Call
    <2>3. QED
      BY <1>0, <1>3, <2>2 DEF DeleteRead, Call
  <1>4. QED
    BY <1>1, <1>2, <1>3

\* What settling HEAD puts in the call.
LEMMA Settling ==
  ASSUME TypeOK, NEW w \in Writers
  PROVE  /\ KeepHead(w) \/ ChooseHead(w) \/ DeleteHead(w) =>
              /\ SameCall(w) /\ index' = index
              /\ call'[w].merged = call[w].merged /\ call'[w].blind = call[w].blind
         /\ KeepHead(w) => /\ pc[w] = "head" /\ pc'[w] = "lock"
                           /\ call[w].kind # "sethead" /\ call'[w].head = NextHead(w)
         /\ ChooseHead(w) => /\ pc[w] = "head" /\ pc'[w] = "lock"
                             /\ call[w].kind = "sethead" /\ call'[w].head = call[w].ref
         /\ DeleteHead(w) => /\ pc[w] = "dhead" /\ pc'[w] = "write"
                             /\ call'[w].head = Live(index.head, call[w].merged)
BY DEF KeepHead, ChooseHead, DeleteHead, TypeOK, Call, SameCall, store, Goto

\* Whoever has a base learns of every write that leaves it; past the re-check the lock
\* keeps the others out.
LEMMA BaseStep ==
  ASSUME TypeOK, Calls, LockExcludes, BaseIsIndex, CheckedBase, NEW w \in Writers, Steps(w)
  PROVE  BaseIsIndex' /\ CheckedBase'
  <1>1. \A u \in Writers \ {w} : HasBase(u)' /\ ~call'[u].moved => call'[u].base = index'
    <2> TAKE u \in Writers \ {w}
    <2>1. HasBase(u)' = HasBase(u) /\ call[u].moved \in BOOLEAN
      BY OthersStay DEF Others, HasBase, InDelete, TypeOK, Call
    <2>2. QED
      BY <2>1, OthersStay DEF Others, BaseIsIndex
  <1>2. HasBase(w)' /\ ~call'[w].moved => call'[w].base = index'
    <2>1. CASE Baseline(w)
      BY <2>1 DEF Baseline, Call, TypeOK, store
    <2>2. CASE Merge(w) \/ Fill(w) \/ KeepHead(w) \/ ChooseHead(w)
      <3>1. HasBase(w)
        BY <2>2 DEF Merge, Fill, KeepHead, ChooseHead, HasBase, Calls, Fits, Updating, InDelete
      <3>2. call'[w].base = call[w].base /\ call'[w].moved = call[w].moved /\ index' = index
        BY <2>2, Reading, Settling DEF SameCall
      <3>3. QED
        BY <3>1, <3>2 DEF BaseIsIndex
    <2>3. CASE Acquire(w, "lock", "check") \/ Check(w)
      BY <2>3 DEF Acquire, Check, BaseIsIndex, HasBase, Calls, Fits, Updating, InDelete, store
    <2>4. CASE DeleteHead(w) \/ DeleteRead(w) \/ DeleteTag(w) \/ Acquire(w, "dlock", "dread")
      <3>1. InDelete(w)' \/ pc'[w] \in {"dtag", "dhead", "dread"}
        BY <2>4 DEF DeleteHead, DeleteRead, DeleteTag, Acquire, Goto, TypeOK, Call, Calls, Fits,
           Deleting, InDelete
      <3>2. QED
        BY <3>1 DEF HasBase
    <2>5. CASE ~(Baseline(w) \/ Merge(w) \/ Fill(w) \/ KeepHead(w) \/ ChooseHead(w)
                 \/ Acquire(w, "lock", "check") \/ Check(w) \/ DeleteHead(w)
                 \/ DeleteRead(w) \/ DeleteTag(w) \/ Acquire(w, "dlock", "dread"))
      <3>1. pc'[w] \notin {"merge", "fill", "head", "lock", "check", "write"}
        BY <2>5 DEF Steps, Proceed, Fail, BeginPush, BeginDelete, BeginSetHead, Begin, TypeOK,
           Goto, Return, Leave, Publish, PublishFails, Refresh, RefuseHead, Conflict, Write,
           Mirror, MirrorFails, Written, Release, DeleteFails, UpdateFails, WriteFails, GiveUp,
           Crash
      <3>2. QED
        BY <3>1 DEF HasBase
    <2>6. QED
      BY <2>1, <2>2, <2>3, <2>4, <2>5
  <1>3. ~LockLapses /\ pc'[w] = "write" /\ ~InDelete(w)' => index' = call'[w].base
    <2>1. CASE Check(w)
      BY <2>1 DEF Check, Unmoved, store
    <2>2. CASE DeleteHead(w)
      BY <2>2 DEF DeleteHead, Goto, TypeOK, Call, Calls, Fits, Deleting, InDelete
    <2>3. CASE ~Check(w) /\ ~DeleteHead(w)
      <3>1. pc'[w] # "write"
        BY <2>3 DEF Steps, Proceed, Fail, BeginPush, BeginDelete, BeginSetHead, Begin, TypeOK,
           Goto, Return, Leave, Publish, PublishFails, Refresh, Baseline, Merge, Fill, KeepHead,
           ChooseHead, RefuseHead, Acquire, Conflict, Write, WriteFails, Mirror, MirrorFails,
           Written, Release, DeleteRead, DeleteTag, DeleteFails, UpdateFails, GiveUp, Crash
      <3>2. QED
        BY <3>1
    <2>4. QED
      BY <2>1, <2>2, <2>3
  <1>4. \A u \in Writers \ {w} :
          ~LockLapses /\ pc'[u] = "write" /\ ~InDelete(u)' => index' = call'[u].base
    <2>1. index' = index \/ pc[w] = "write"
      BY QuietSteps DEF Writes, Write, WriteFails
    <2>2. QED
      BY <2>1, OthersStay DEF Others, LockExcludes, CheckedBase, InDelete, Holding
  <1>5. QED
    BY <1>1, <1>2, <1>3, <1>4 DEF BaseIsIndex, CheckedBase, LockLapses, Steps

\* Nobody's request depends on what another writer does.
LEMMA OthersPending ==
  ASSUME TypeOK, NEW w \in Writers, Steps(w)
  PROVE  \A u \in Writers \ {w} : Pending(u)' = Pending(u)
  <1> TAKE u \in Writers \ {w}
  <1>1. /\ pc'[u] = pc[u] /\ call'[u].kind = call[u].kind /\ call'[u].ref = call[u].ref
        /\ call'[u].ok = call[u].ok /\ call'[u].known = call[u].known
        /\ call'[u].attempt = call[u].attempt
    BY OthersStay DEF Others
  <1>2. InDelete(u)' = InDelete(u) /\ Deleted(u)' = Deleted(u) /\ Hint(u)' = Hint(u)
    BY <1>1 DEF InDelete, Deleted, Hint
  <1>3. QED
    BY <1>1, <1>2 DEF Pending

\* The pending request of an update and of a set-head.
LEMMA PendingOfUpdate ==
  ASSUME TypeOK, Calls, NEW w \in Writers, ~InDelete(w),
         pc[w] \in {"base", "merge", "fill", "head", "lock", "check", "write", "retry"}
  PROVE  /\ Pending(w).known = call[w].known
         /\ Pending(w).gone = Deleted(w)
         /\ Pending(w).kind = IF call[w].kind = "sethead" THEN "sethead" ELSE "update"
         /\ Pending(w).head = IF call[w].kind = "sethead" THEN call[w].ref ELSE Hint(w)
BY DEF Pending, InDelete, Calls, Fits, Deleted, Nothing

\* The pending request of DeleteRef.
LEMMA PendingOfDelete ==
  ASSUME TypeOK, Calls, NEW w \in Writers, InDelete(w),
         pc[w] \in {"dlock", "dread", "dtag", "dhead", "write"}
  PROVE  /\ Pending(w).known = Nothing
         /\ Pending(w).gone = {call[w].ref}
         /\ Pending(w).kind = "remove"
         /\ Pending(w).head = NoHead
BY DEF Pending, InDelete

\* What the merge computes is what the request asks for.
LEMMA MergeUpdates ==
  ASSUME NEW refs \in RefMap, NEW q, NEW known, NEW gone, q.known = known, q.gone = gone
  PROVE  A!Updated(refs, q) = Without(Over(known, refs), gone)
  <1> DEFINE over == Over(known, refs)
  <1>1. \A r \in Refs : over[r] = IF known[r] # Absent THEN known[r] ELSE refs[r]
    BY DEF Over
  <1> HIDE DEF over
  <1>2. Without(over, gone) =
          [r \in Refs |-> IF r \in gone THEN Absent
                          ELSE IF known[r] # Absent THEN known[r] ELSE refs[r]]
    BY <1>1 DEF Without
  <1>3. QED
    BY <1>2 DEF A!Updated, over

\* What DeleteRef takes out is what its request asks for.
LEMMA RemovalUpdates ==
  ASSUME NEW refs \in RefMap, NEW q, NEW gone, q.known = Nothing, q.gone = gone
  PROVE  A!Updated(refs, q) = Without(refs, gone)
BY DEF A!Updated, Without, Nothing, RefMap

\* A map that was read from the index is the index's, or adopted where there is none.
LEMMA ListedIsAdopted ==
  ASSUME TypeOK
  PROVE  /\ index.there => Fetched = index.refs /\ Listed = index.refs
         /\ A!Adopted \subseteq RefMap
         /\ Listed \in A!Adopted
         /\ \A f \in RefMap : ~index.there => Over(f, Listed) \in A!Adopted
         /\ index.there => Over(index.refs, Listed) \in A!Adopted
  <1>1. index.there => Fetched = index.refs /\ Listed = index.refs
    BY DEF Fetched, Listed
  <1>2. index.refs \in RefMap /\ A!RefMap = RefMap
    BY DEF TypeOK, Index, A!RefMap, RefMap
  <1>3. Over(index.refs, index.refs) = index.refs
    BY <1>2 DEF Over, RefMap
  <1>4. QED
    BY <1>1, <1>2, <1>3, MapsAreRefMaps DEF A!Adopted

\* An attempt builds the answer to its request read by read, unless it is told to stop.
LEMMA UpdateAnswersStep ==
  ASSUME TypeOK, Calls, TypeOK', Calls', BaseIsIndex, UpdateAnswers, NEW w \in Writers, Steps(w)
  PROVE  UpdateAnswers'
  <1>1. ASSUME NEW u \in Writers \ {w}, HasBase(u)', ~call'[u].moved, ~call'[u].blind
        PROVE  /\ (pc'[u] = "fill" /\ index'.there) => call'[u].merged = index'.refs
               /\ pc'[u] \in {"head", "lock", "check", "write"} => Answers(u)'
               /\ pc'[u] \in {"lock", "check", "write"} =>
                    call'[u].head = A!NextHead(call[u].merged, Pending(u))'
    <2>1. HasBase(u) /\ call[u].moved \in BOOLEAN
      BY <1>1, OthersStay DEF Others, HasBase, InDelete, TypeOK, Call
    <2>2. index' = index /\ ~call[u].moved /\ ~call[u].blind
      BY <1>1, <2>1, OthersStay DEF Others
    <2>3. Pending(u)' = Pending(u) /\ call'[u].merged = call[u].merged
          /\ call'[u].head = call[u].head /\ pc'[u] = pc[u]
      BY OthersPending, OthersStay DEF Others
    <2>4. A!Adopted' = A!Adopted /\ Answers(u)' = Answers(u)
      BY <2>2, <2>3 DEF Answers, A!Adopted, A!Updated
    <2>5. A!NextHead(call[u].merged, Pending(u))' = A!NextHead(call[u].merged, Pending(u))
      BY <2>2, <2>3 DEF A!NextHead
    <2>6. QED
      BY <2>1, <2>2, <2>3, <2>4, <2>5 DEF UpdateAnswers
  <1>2. ASSUME HasBase(w)', ~call'[w].moved, ~call'[w].blind
        PROVE  /\ (pc'[w] = "fill" /\ index'.there) => call'[w].merged = index'.refs
               /\ pc'[w] \in {"head", "lock", "check", "write"} => Answers(w)'
               /\ pc'[w] \in {"lock", "check", "write"} =>
                    call'[w].head = A!NextHead(call[w].merged, Pending(w))'
    <2>1. CASE Merge(w)
      BY <1>2, <2>1, Reading, ListedIsAdopted
    <2>2. CASE Fill(w)
      <3> DEFINE refs == Over(call[w].merged, Listed)
      <3>1. ~InDelete(w) /\ ~InDelete(w)' /\ HasBase(w) /\ ~call[w].moved /\ ~call[w].blind
        BY <1>2, <2>2, Reading DEF SameCall, HasBase, InDelete
      <3>2. refs \in A!Adopted /\ refs \in RefMap
        <4>1. call[w].merged \in RefMap
          BY DEF TypeOK, Call
        <4>2. index.there => call[w].merged = index.refs
          BY <2>2, <3>1, Reading DEF UpdateAnswers
        <4>3. QED
          BY <4>1, <4>2, ListedIsAdopted
      <3>3. Pending(w)'.known = call[w].known /\ Pending(w)'.gone = Deleted(w)
        <4>1. Pending(w)'.known = call'[w].known /\ Pending(w)'.gone = Deleted(w)'
          BY <2>2, <3>1, Reading DEF Pending, InDelete, Calls, Fits, Deleted, Nothing
        <4>2. QED
          BY <2>2, <4>1, Reading DEF SameCall, Deleted
      <3>4. call'[w].merged = A!Updated(refs, Pending(w)')
        BY <1>2, <2>2, <3>2, <3>3, Reading, MergeUpdates
      <3>5. A!Adopted' = A!Adopted
        BY <2>2, Reading DEF A!Adopted
      <3>6. QED
        BY <2>2, <3>2, <3>4, <3>5, Reading DEF Answers
    <2>3. CASE KeepHead(w) \/ ChooseHead(w)
      <3>1. ~InDelete(w) /\ HasBase(w) /\ ~call[w].moved /\ ~call[w].blind /\ pc[w] = "head"
            /\ pc'[w] = "lock"
        BY <1>2, <2>3, Settling DEF SameCall, HasBase, InDelete
      <3>2. Pending(w)' = Pending(w) /\ index' = index
        BY <2>3, <3>1, Settling DEF SameCall, Pending, InDelete, Deleted, Hint
      <3>3. call'[w].merged = call[w].merged /\ A!Adopted' = A!Adopted
        BY <2>3, <3>2, Settling DEF A!Adopted
      <3>4. Answers(w)'
        BY <3>1, <3>2, <3>3 DEF UpdateAnswers, Answers, A!Updated
      <3>5. call'[w].head = A!NextHead(call'[w].merged, Pending(w))
        BY <2>3, <3>1, Settling, PendingOfUpdate DEF NextHead, Live, A!NextHead, A!Settled
      <3>6. QED
        BY <3>1, <3>2, <3>4, <3>5 DEF A!NextHead
    <2>4. CASE Acquire(w, "lock", "check") \/ Check(w)
      <3>1. UNCHANGED <<index, call>> /\ pc[w] \in {"lock", "check"} /\ pc'[w] \in {"check", "write"}
        BY <2>4 DEF Acquire, Check, Goto, TypeOK, store
      <3>2. ~InDelete(w) /\ HasBase(w)
        BY <3>1 DEF Calls, Fits, Updating, InDelete, HasBase
      <3>3. Pending(w)' = Pending(w)
        BY <3>1, <3>2 DEF Pending, InDelete, Deleted, Hint
      <3>4. QED
        BY <1>2, <3>1, <3>2, <3>3 DEF UpdateAnswers, Answers, A!Adopted, A!Updated, A!NextHead
    <2>5. CASE ~(Merge(w) \/ Fill(w) \/ KeepHead(w) \/ ChooseHead(w)
                 \/ Acquire(w, "lock", "check") \/ Check(w))
      <3>1. CASE DeleteHead(w)
        BY <1>2, <3>1, Settling DEF SameCall, Calls, Fits, Deleting, HasBase, InDelete
      <3>2. CASE ~DeleteHead(w)
        <4>1. pc'[w] \notin {"fill", "head", "lock", "check", "write"}
          BY <2>5, <3>2 DEF Steps, Proceed, Fail, BeginPush, BeginDelete, BeginSetHead, Begin,
             TypeOK, Goto, Return, Leave, Publish, PublishFails, Refresh, Baseline, RefuseHead,
             Acquire, Conflict, Write, WriteFails, Mirror, MirrorFails, Written, Release,
             DeleteRead, DeleteTag, DeleteFails, UpdateFails, GiveUp, Crash
        <4>2. QED
          BY <4>1
      <3>3. QED
        BY <3>1, <3>2
    <2>6. QED
      BY <2>1, <2>2, <2>3, <2>4, <2>5
  <1>3. QED
    BY <1>1, <1>2 DEF UpdateAnswers

\* DeleteRef builds its answer while it has the lock.
LEMMA DeleteAnswersStep ==
  ASSUME TypeOK, Calls, TypeOK', Calls', LockExcludes, DeleteAnswers,
         NEW w \in Writers, Steps(w)
  PROVE  DeleteAnswers'
  <1> SUFFICES ASSUME ~LockLapses, NEW u \in Writers
               PROVE  /\ (pc'[u] \in {"dtag", "dhead"} \/ (pc'[u] = "write" /\ InDelete(u)'))
                           /\ ~call'[u].blind => Answers(u)'
                      /\ pc'[u] = "write" /\ InDelete(u)' =>
                           call'[u].head = Live(index'.head, call'[u].merged)
    BY DEF DeleteAnswers, LockLapses, Live, Steps
  <1>1. CASE u # w
    <2>1. pc[u] \in {"dtag", "dhead", "write"} => index' = index
      BY <1>1, QuietSteps DEF Writes, Write, WriteFails, LockExcludes, Holding
    <2>2. /\ pc'[u] = pc[u] /\ InDelete(u)' = InDelete(u) /\ call'[u].blind = call[u].blind
          /\ call'[u].merged = call[u].merged /\ call'[u].head = call[u].head
          /\ Pending(u)' = Pending(u)
      BY <1>1, OthersStay, OthersPending DEF Others, InDelete
    <2>3. index' = index => A!Adopted' = A!Adopted /\ Answers(u)' = Answers(u)
      BY <2>2 DEF Answers, A!Adopted, A!Updated
    <2>4. QED
      BY <2>1, <2>2, <2>3 DEF DeleteAnswers
  <1>2. CASE u = w
    <2>1. CASE DeleteRead(w)
      <3>1. pc'[w] = "dtag" /\ InDelete(w)' /\ index' = index
            /\ (~call'[w].blind => call'[w].merged = Without(Listed, {call'[w].ref}))
        BY <2>1, Reading DEF SameCall, InDelete, Calls, Fits, Deleting
      <3>2. Pending(w)'.known = Nothing /\ Pending(w)'.gone = {call'[w].ref}
        BY <3>1 DEF Pending, InDelete, Nothing
      <3>3. ~call'[w].blind => call'[w].merged = A!Updated(Listed, Pending(w)')
        BY <3>1, <3>2, RemovalUpdates, MapsAreRefMaps
      <3>4. A!Adopted' = A!Adopted /\ Listed \in A!Adopted
        BY <3>1, ListedIsAdopted DEF A!Adopted
      <3>5. QED
        BY <1>2, <3>1, <3>3, <3>4 DEF Answers
    <2>2. CASE DeleteTag(w) \/ DeleteHead(w)
      <3>1. /\ pc[w] \in {"dtag", "dhead"} /\ pc'[w] \in {"dhead", "write"} /\ index' = index
            /\ call'[w].merged = call[w].merged /\ call'[w].blind = call[w].blind
            /\ call'[w].attempt = call[w].attempt /\ call'[w].ref = call[w].ref
        BY <2>2, Settling DEF DeleteTag, SameCall, TypeOK, Goto
      <3>2. InDelete(w) /\ InDelete(w)'
        BY <3>1 DEF InDelete, Calls, Fits, Deleting
      <3>3. Pending(w)' = Pending(w) /\ A!Adopted' = A!Adopted
        BY <3>1, <3>2 DEF Pending, A!Adopted
      <3>4. Answers(w)' = Answers(w)
        BY <3>1, <3>3 DEF Answers, A!Updated
      <3>5. pc'[w] = "write" => call'[w].head = Live(index'.head, call'[w].merged)
        BY <2>2, <3>1, Settling DEF DeleteTag, Goto, TypeOK
      <3>6. QED
        BY <1>2, <3>1, <3>4, <3>5 DEF DeleteAnswers
    <2>3. CASE ~(DeleteRead(w) \/ DeleteTag(w) \/ DeleteHead(w))
      <3>1. CASE Check(w)
        BY <1>2, <3>1 DEF Check, Calls, Fits, Updating, InDelete, Goto, TypeOK
      <3>2. CASE ~Check(w)
        <4>1. pc'[w] \notin {"dtag", "dhead", "write"}
          BY <2>3, <3>2 DEF Steps, Proceed, Fail, BeginPush, BeginDelete, BeginSetHead, Begin,
             TypeOK, Goto, Return, Leave, Publish, PublishFails, Refresh, Baseline, Merge, Fill,
             KeepHead, ChooseHead, RefuseHead, Acquire, Conflict, Write, WriteFails, Mirror,
             MirrorFails, Written, Release, DeleteFails, UpdateFails, GiveUp, Crash
        <4>2. QED
          BY <1>2, <4>1
      <3>3. QED
        BY <3>1, <3>2
    <2>4. QED
      BY <2>1, <2>2, <2>3
  <1>3. QED
    BY <1>1, <1>2

\* AtomicInv is inductive.
LEMMA AtomicInductive == Spec => []AtomicInv
  <1>1. Init => AtomicInv
    <2> SUFFICES ASSUME Init PROVE AtomicInv
      OBVIOUS
    <2>1. \A w \in Writers : pc[w] = "idle"
      BY DEF Init
    <2>2. HeadInv
      BY HeadInit
    <2>3. QED
      BY <2>1, <2>2 DEF AtomicInv, LockExcludes, Holding, Releasing, BaseIsIndex, CheckedBase,
         HasBase, UpdateAnswers, DeleteAnswers
  <1>2. AtomicInv /\ [Next]_vars => AtomicInv'
    <2> SUFFICES ASSUME AtomicInv, [Next]_vars PROVE AtomicInv'
      OBVIOUS
    <2> USE DEF AtomicInv
    <2>1. HeadInv' /\ LockExcludes'
      BY HeadStep, LockExcludesStep DEF HeadInv
    <2>2. CASE \E w \in Writers : Steps(w)
      BY <2>1, <2>2, BaseStep, UpdateAnswersStep, DeleteAnswersStep DEF HeadInv
    <2>3. CASE (Lapse /\ UNCHANGED setting) \/ UNCHANGED vars
      <3>1. UNCHANGED <<setting, index, mirror, tag, pc, call>>
        BY <2>3 DEF Lapse, vars, store
      <3>2. BaseIsIndex' /\ CheckedBase'
        BY <3>1 DEF BaseIsIndex, CheckedBase, HasBase, InDelete,
           LockLapses
      <3>3. \A w \in Writers : Pending(w)' = Pending(w) /\ Answers(w)' = Answers(w)
        BY <3>1 DEF Pending, Deleted, Hint, InDelete, Answers, A!Adopted, A!Updated
      <3>4. UpdateAnswers' /\ DeleteAnswers'
        BY <3>1, <3>3 DEF UpdateAnswers, DeleteAnswers, A!NextHead, HasBase, InDelete, LockLapses
      <3>5. QED
        BY <2>1, <3>2, <3>4
    <2>4. QED
      BY <2>2, <2>3, StepsOrLapse
  <1>3. QED
    BY <1>1, <1>2, PTL DEF Spec

-----------------------------------------------------------------------------
NoRequest == [kind |-> "none", known |-> Nothing, gone |-> {}, head |-> NoHead]

\* A writer with a request keeps it until it is done with, and then has none.
LEMMA RequestsStay ==
  ASSUME TypeOK, Calls, TypeOK', Calls', NEW w \in Writers, Steps(w), Pending(w) # NoRequest
  PROVE  Pending(w)' \in {Pending(w), NoRequest}
  <1> DEFINE Asked == {"dlock", "dread", "dtag", "dhead", "base", "merge", "fill", "head",
                       "lock", "check", "write", "retry"}
             Done == {"idle", "publish", "refresh", "mirror", "deleted", "release"}
  <1>1. pc[w] \in Asked
    BY DEF Pending, NoRequest, TypeOK, Stages, Releasing
  <1>2. CASE pc'[w] \in Done
    BY <1>2 DEF Pending, NoRequest
  <1>3. CASE pc'[w] \notin Done
    <2>1. \/ call'[w] = call[w] 
          \/ Baseline(w) \/ Merge(w) \/ Fill(w) \/ KeepHead(w) \/ ChooseHead(w)
          \/ DeleteRead(w) \/ DeleteHead(w) \/ Conflict(w) \/ Release(w)
      BY <1>1, <1>3 DEF Steps, Proceed, Fail, BeginPush, BeginDelete, BeginSetHead, Begin,
         TypeOK, Goto, Return, Leave, Publish, PublishFails, Refresh, RefuseHead, Acquire, Check,
         Write, WriteFails, Mirror, MirrorFails, Written, DeleteTag, DeleteFails, UpdateFails,
         GiveUp, Crash
    <2>2. /\ call'[w].kind = call[w].kind /\ call'[w].ref = call[w].ref
          /\ call'[w].ok = call[w].ok /\ call'[w].known = call[w].known
          /\ InDelete(w)' = InDelete(w)
      <3>1. CASE Merge(w) \/ Fill(w) \/ KeepHead(w) \/ ChooseHead(w) \/ DeleteRead(w)
                 \/ DeleteHead(w)
        BY <3>1, Reading, Settling DEF SameCall, InDelete
      <3>2. CASE Baseline(w) \/ Conflict(w)
        <4>1. Spent(w).kind = call[w].kind /\ Spent(w).ref = call[w].ref
              /\ Spent(w).ok = call[w].ok /\ Spent(w).known = call[w].known
              /\ Spent(w).attempt = call[w].attempt
          BY DEF Spent, TypeOK, Call
        <4>2. QED
          BY <3>2, <4>1 DEF Baseline, Conflict, Leave, TypeOK, Call, InDelete
      <3>3. CASE Release(w)
        <4>1. call' = [call EXCEPT ![w].attempt = @ + 1] /\ pc[w] = "retry"
          BY <1>1, <3>3 DEF Release
        <4>2. call[w].attempt \in Nat /\ call[w].attempt # 0
          BY <4>1 DEF TypeOK, Call, Calls, Fits, Updating
        <4>3. QED
          BY <4>1, <4>2 DEF TypeOK, Call, InDelete
      <3>4. QED
        BY <2>1, <3>1, <3>2, <3>3 DEF InDelete
    <2>3. Deleted(w)' = Deleted(w) /\ Hint(w)' = Hint(w)
      BY <2>2 DEF Deleted, Hint
    <2>4. QED
      BY <1>1, <1>3, <2>2, <2>3 DEF Pending
  <1>4. QED
    BY <1>2, <1>3

\* What a writer asks for is a request.
LEMMA RequestsAreTyped ==
  ASSUME TypeOK, TypeOK', Calls', NEW w \in Writers, Pending(w)' # NoRequest
  PROVE  Pending(w)' \in A!Request
  <1>1. call'[w] \in Call /\ Nothing \in RefMap /\ RefMap = A!RefMap
    BY MapsAreRefMaps DEF TypeOK, Call, RefMap, Index, A!RefMap
  <1>2. pc'[w] \notin {"idle", "publish", "refresh", "mirror", "deleted", "release"}
    BY DEF Pending, NoRequest
  <1>3. call'[w].ref \in Refs
    BY <1>2 DEF Calls, Fits
  <1>4. Deleted(w)' \in SUBSET Refs /\ Hint(w)' \in Refs \union {NoHead}
    BY <1>3 DEF Deleted, Hint
  <1>5. QED
    BY <1>1, <1>2, <1>3, <1>4 DEF Pending, A!Request, Call

\* A write that takes effect answers the request of its writer.
LEMMA WritesTakeEffect ==
  ASSUME AtomicInv, NEW w \in Writers, Writes(w), Orderly
  PROVE  /\ Pending(w).kind # "none"
         /\ \E refs \in A!Adopted :
              index' = [there |-> TRUE, refs |-> A!Updated(refs, Pending(w)),
                        head |-> A!NextHead(A!Updated(refs, Pending(w)), Pending(w))]
         /\ Pending(w).kind = "sethead" => index'.refs[Pending(w).head] # Absent
         /\ Pending(w)' = NoRequest
  <1> USE DEF AtomicInv, HeadInv
  <1>1. pc[w] = "write" /\ index' = Content(w) /\ pc'[w] \in {"mirror", "deleted", "release"}
    BY DEF Writes, Put, Write, WriteFails, Goto, TypeOK
  <1>2. ~LockLapses /\ ~call[w].blind /\ ~(call[w].moved /\ index = call[w].base)
    BY <1>1 DEF Orderly, Skewed
  <1>3. ~InDelete(w) => HasBase(w) /\ ~call[w].moved
    BY <1>1, <1>2 DEF CheckedBase, HasBase
  <1>4. Answers(w)
    BY <1>1, <1>2, <1>3 DEF UpdateAnswers, DeleteAnswers
  <1>5. call[w].head = A!NextHead(call[w].merged, Pending(w))
    <2>1. CASE InDelete(w)
      BY <1>1, <1>2, <2>1, PendingOfDelete
      DEF DeleteAnswers, A!NextHead, A!Settled, Live, HeadIsPublished
    <2>2. CASE ~InDelete(w)
      BY <1>1, <1>2, <1>3, <2>2 DEF UpdateAnswers
    <2>3. QED
      BY <2>1, <2>2
  <1>6. Pending(w).kind = "sethead" => index'.refs[Pending(w).head] # Absent
    <2> SUFFICES ASSUME Pending(w).kind = "sethead" PROVE index'.refs[Pending(w).head] # Absent
      OBVIOUS
    <2>1. ~InDelete(w) /\ Pending(w).head = call[w].ref /\ call[w].ref \in Refs
      BY <1>1, PendingOfDelete, PendingOfUpdate DEF Calls, Fits
    <2>2. call[w].head = call[w].ref
      BY <1>5, <2>1 DEF A!NextHead
    <2>3. QED
      BY <1>1, <2>1, <2>2 DEF HeadsFit, Live, Content
  <1>7. Pending(w).kind # "none"
    BY <1>1, PendingOfDelete, PendingOfUpdate
  <1>8. Pending(w)' = NoRequest
    BY <1>1 DEF Pending, NoRequest
  <1>9. QED
    BY <1>1, <1>4, <1>5, <1>6, <1>7, <1>8 DEF Answers, Content

\* Every orderly step is one of the abstract index's, or none of its business.
LEMMA StepsAreAtomic ==
  ASSUME AtomicInv, AtomicInv', [Next]_vars, Orderly
  PROVE  A!Next \/ UNCHANGED A!vars
  <1> DEFINE P == [w \in Writers |-> Pending(w)]
  <1>1. CASE \E w \in Writers : Steps(w)
    <2> PICK w \in Writers : Steps(w)
      BY <1>1
    <2>1. P' = [P EXCEPT ![w] = Pending(w)']
      BY OthersPending DEF AtomicInv, HeadInv
    <2>2. A!NoRequest = NoRequest
      BY DEF A!NoRequest, A!NoRefs, NoRequest, Nothing
    <2>3. CASE Writes(w)
      <3>1. A!TakeEffect(w)
        BY <2>1, <2>2, <2>3, WritesTakeEffect DEF A!TakeEffect
      <3>2. QED
        BY <3>1 DEF A!Next
    <2>4. CASE ~Writes(w)
      <3>1. index' = index
        BY <2>4, QuietSteps DEF AtomicInv, HeadInv
      <3>2. CASE Pending(w)' = Pending(w)
        BY <2>1, <3>1, <3>2 DEF A!vars
      <3>3. CASE Pending(w) = NoRequest /\ Pending(w)' # NoRequest
        <4>1. Pending(w)' \in A!Request
          BY <3>3, RequestsAreTyped DEF AtomicInv, HeadInv
        <4>2. A!Ask(w)
          BY <2>1, <3>1, <3>3, <4>1 DEF A!Ask, NoRequest
        <4>3. QED
          BY <4>2 DEF A!Next
      <3>4. CASE Pending(w) # NoRequest /\ Pending(w)' = NoRequest
        <4>1. A!GiveUp(w)
          BY <2>1, <2>2, <3>1, <3>4 DEF A!GiveUp, Pending, NoRequest
        <4>2. QED
          BY <4>1 DEF A!Next
      <3>5. QED
        BY <3>2, <3>3, <3>4, RequestsStay DEF AtomicInv, HeadInv
    <2>5. QED
      BY <2>3, <2>4
  <1>2. CASE (Lapse /\ UNCHANGED setting) \/ UNCHANGED vars
    <2>1. UNCHANGED <<index, pc, call>>
      BY <1>2 DEF Lapse, vars, store
    <2>2. QED
      BY <2>1 DEF A!vars, Pending, Deleted, Hint, InDelete
  <1>3. QED
    BY <1>1, <1>2, StepsOrLapse

\* RefIndex implements AtomicIndex, as far as its lock holds and its reads are true.
THEOREM ImplementsAtomicIndex == Spec => UpdatesAreAtomic
  <1>1. Init => A!Init
    <2> SUFFICES ASSUME Init PROVE A!Init
      OBVIOUS
    <2>1. TypeOK
      BY InitTyped
    <2>2. [w \in Writers |-> Pending(w)] = [w \in Writers |-> A!NoRequest]
      BY DEF Init, Pending, A!NoRequest, A!NoRefs, Nothing
    <2>3. A!Settled(index.head, index.refs) = index.head
      BY DEF Init, NoIndex, Live, A!Settled
    <2>4. index \in [there : BOOLEAN, refs : A!RefMap, head : Refs \union {NoHead}]
      BY <2>1 DEF TypeOK, Index, RefMap, A!RefMap
    <2>5. QED
      BY <2>2, <2>3, <2>4 DEF A!Init
  <1>2. AtomicInv /\ AtomicInv' /\ [Next]_vars => [Orderly => A!Next]_(A!vars)
    BY StepsAreAtomic
  <1>3. QED
    BY <1>1, <1>2, AtomicInductive, PTL DEF Spec, UpdatesAreAtomic
=============================================================================
