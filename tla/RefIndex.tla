------------------------------ MODULE RefIndex ------------------------------
(***************************************************************************)
(* The published ref index (pkg/oci/oci.go): the _refs manifest, the       *)
(* _index manifest that mirrors it, the ref tags, and the three operations *)
(* that rewrite them - PushRichRefIndexWithHead after a push, DeleteRef    *)
(* and SetHead - as the helper and the command line call them.             *)
(*                                                                         *)
(* The index lock is the one RefLock describes, reduced to who holds it;   *)
(* LockLapses adds what its TTL and its races allow: a holder that is not  *)
(* alone.  A digest is the content it digests.  Which callers there are    *)
(* and what may go wrong is a setting, chosen once for a behaviour.        *)
(***************************************************************************)
EXTENDS Naturals, FiniteSets

CONSTANTS
  Writers,       \* client processes, each running one operation at a time
  Refs,          \* ref names, all branches
  Commits,       \* what a ref may point at
  Absent,        \* a ref that is not there
  NoHead,        \* no HEAD recorded
  Free,          \* nobody holds the index lock
  MaxAttempts,   \* refsIndexMaxAttempts
  Settings       \* the settings to choose from

\* whole: does a caller pass every ref it listed (helper, gc), or its own?
\* lapses: may a live holder lose the lock?  faults: may registry calls fail and
\* clients die?  full: does a repository at rest have every ref, and a HEAD?  ops: bound
\* on the operations started in a behaviour.
Setting == [whole : BOOLEAN, lapses : BOOLEAN, faults : BOOLEAN, full : BOOLEAN, ops : Nat]

ASSUME AbsentAssumption == Absent \notin Commits
ASSUME NoHeadAssumption == NoHead \notin Refs
ASSUME FreeAssumption == Free \notin Writers
ASSUME AttemptsAssumption == MaxAttempts \in Nat \ {0}
ASSUME SettingsAssumption == Settings \subseteq Setting

VARIABLES
  setting,  \* the setting of this behaviour
  index,    \* the _refs manifest: its ref map and its HEAD annotation
  mirror,   \* the _index manifest
  tag,      \* the ref manifest under each ref's tag
  lock,     \* who holds _refs_index_lock
  pc,       \* where each writer is
  call,     \* the operation it runs and that operation's local variables
  ops,      \* operations started (bound)
  drift     \* has a mirror write been lost?

store == <<index, mirror, tag, lock>>
vars == <<setting, store, pc, call, ops, drift>>

WholeListing == setting.whole
LockLapses == setting.lapses
Faults == setting.faults
MaxOps == setting.ops

RefMap == [Refs -> Commits \union {Absent}]
Index == [there : BOOLEAN, refs : RefMap, head : Refs \union {NoHead}]

\* ok: did the part before the index update work?  known: the refs argument of the
\* update.  base: refIndexDigest before the merge.  merged, head: what it writes.
\* attempt: 0 until the update starts, so also while DeleteRef runs.  moved, blind:
\* history; the index has left base since, and a failed read was taken for the truth.
Call == [kind : {"none", "push", "delete", "sethead"},
         ref : Refs \union {NoHead}, to : Commits \union {Absent}, ok : BOOLEAN,
         known : RefMap, base : Index, merged : RefMap,
         head : Refs \union {NoHead}, attempt : 0 .. MaxAttempts,
         moved : BOOLEAN, blind : BOOLEAN]

\* "retry", "deleted" and "release" give the lock back, and are named for what
\* follows: another attempt, DeleteRef's caller, or the end.
Releasing == {"retry", "deleted", "release"}
Holding == {"dread", "dtag", "dhead", "check", "write", "mirror"} \union Releasing
Stages == {"idle", "publish", "dlock", "dread", "dtag", "dhead", "refresh", "base",
           "merge", "fill", "head", "lock", "check", "write", "mirror"} \union Releasing

Nothing == [r \in Refs |-> Absent]
NoIndex == [there |-> FALSE, refs |-> Nothing, head |-> NoHead]
NoCall == [kind |-> "none", ref |-> NoHead, to |-> Absent, ok |-> FALSE,
           known |-> Nothing, base |-> NoIndex, merged |-> Nothing,
           head |-> NoHead, attempt |-> 0, moved |-> FALSE, blind |-> FALSE]

\* HEAD, unless the ref it names is not there.
Live(h, refs) == IF h # NoHead /\ refs[h] = Absent THEN NoHead ELSE h

TypeOK ==
  /\ setting \in Settings
  /\ index \in Index /\ mirror \in Index
  /\ tag \in RefMap
  /\ lock \in Writers \union {Free}
  /\ pc \in [Writers -> Stages]
  /\ call \in [Writers -> Call]
  /\ ops \in 0 .. MaxOps
  /\ drift \in BOOLEAN

\* A repository nobody has pushed to, or one at rest.
Init ==
  /\ setting \in Settings
  /\ \/ index = NoIndex
     \/ /\ index \in Index /\ index.there /\ Live(index.head, index.refs) = index.head
        /\ setting.full => index.head # NoHead /\ Absent \notin {index.refs[r] : r \in Refs}
  /\ mirror = index
  /\ tag = index.refs
  /\ lock = Free
  /\ pc = [w \in Writers |-> "idle"]
  /\ call = [w \in Writers |-> NoCall]
  /\ ops = 0
  /\ drift = FALSE
-----------------------------------------------------------------------------
\* layered as mergeRemoteRefs does: top wins.
Over(top, bottom) == [r \in Refs |-> IF top[r] # Absent THEN top[r] ELSE bottom[r]]
Without(refs, gone) == [r \in Refs |-> IF r \in gone THEN Absent ELSE refs[r]]

\* FetchRichRefIndex: _index stands in for a missing _refs; Nothing when both are
\* missing.  ListRefs then enumerates tags, discoverRemoteRefs also when it is empty.
Fetched == IF index.there THEN index.refs ELSE mirror.refs
Listed == IF index.there \/ mirror.refs # Nothing THEN Fetched ELSE tag
Discovered == IF Fetched # Nothing THEN Fetched ELSE tag

\* What a read may come back with: the truth or, when calls fail, a fallback, down
\* to the empty map an error is swallowed into.
Reads(truth, fallbacks) == {truth} \union (IF Faults THEN fallbacks ELSE {})

\* The ref a batch deleted, whether or not DeleteRef succeeded, and the branch
\* headHintFor proposes.
Deleted(w) == IF call[w].kind = "delete" THEN {call[w].ref} ELSE {}
Hint(w) == IF call[w].kind = "push" /\ call[w].ok THEN call[w].ref ELSE NoHead
InDelete(w) == call[w].attempt = 0

Content(w) == [there |-> TRUE, refs |-> call[w].merged, head |-> call[w].head]

\* Mutants of the definitions below.
DigestIgnored(w) == TRUE
BlindHead(w) == IF index.head # NoHead THEN index.head ELSE Hint(w)
HintFirst(w) == Live(IF Hint(w) # NoHead THEN Hint(w) ELSE index.head, call[w].merged)
HeadlessMirror(w) == [Content(w) EXCEPT !.head = NoHead]

\* PushRichRefIndexWithHead: HEAD is never moved, only adopted or dropped.
NextHead(w) ==
  Live(IF index.head # NoHead THEN index.head ELSE Hint(w), call[w].merged)

\* The re-check under the lock: refIndexDigest again.
Unmoved(w) == index = call[w].base

MoreAttempts(w) == call[w].attempt < MaxAttempts
MirrorContent(w) == Content(w)
ReleasedLock(w) == IF lock = w THEN Free ELSE lock

Goto(w, stage) == pc' = [pc EXCEPT ![w] = stage]
Return(w) == Goto(w, "idle") /\ call' = [call EXCEPT ![w] = NoCall]

\* The variables of an attempt, or of DeleteRef, end with it.
Spent(w) == [call[w] EXCEPT !.base = NoIndex, !.merged = Nothing, !.head = NoHead,
                            !.moved = FALSE, !.blind = FALSE]
Leave(w, stage) == Goto(w, stage) /\ call' = [call EXCEPT ![w] = Spent(w)]
-----------------------------------------------------------------------------
\* A client starts: the helper lists the remote and keeps the listing as the refs
\* it will pass to the update.
Begin(w, kind, r, c, stage) ==
  /\ pc[w] = "idle"
  /\ ops < MaxOps
  /\ ops' = ops + 1
  /\ call' = [call EXCEPT ![w] =
       [NoCall EXCEPT !.kind = kind, !.ref = r, !.to = c,
                      !.known = IF WholeListing THEN Discovered ELSE Nothing]]
  /\ Goto(w, stage)
  /\ UNCHANGED <<store, drift>>

BeginPush(w, r, c) == Begin(w, "push", r, c, "publish")
BeginDelete(w, r) == Begin(w, "delete", r, Absent, "dlock")

\* git-remote-oci set-head checks the name against the published refs.
BeginSetHead(w, r) ==
  /\ pc[w] = "idle"
  /\ ops < MaxOps
  /\ Fetched[r] # Absent
  /\ ops' = ops + 1
  /\ call' = [call EXCEPT ![w] =
       [NoCall EXCEPT !.kind = "sethead", !.ref = r, !.attempt = 1]]
  /\ Goto(w, "base")
  /\ UNCHANGED <<store, drift>>

\* PushCommitStream tags the ref manifest; recordRemoteRef notes it.
Publish(w) ==
  /\ pc[w] = "publish"
  /\ tag' = [tag EXCEPT ![call[w].ref] = call[w].to]
  /\ call' = [call EXCEPT ![w].ok = TRUE, ![w].known[call[w].ref] = call[w].to]
  /\ Goto(w, "refresh")
  /\ UNCHANGED <<index, mirror, lock, ops, drift>>

\* handlePushBatch updates the index even when it reports the push rejected.
PublishFails(w) ==
  /\ pc[w] = "publish"
  /\ Goto(w, "refresh")
  /\ UNCHANGED <<store, call, ops, drift>>

\* handlePushBatch, after the batch: add the refs that appeared meanwhile.
Refresh(w) ==
  /\ pc[w] = "refresh"
  /\ call' = [call EXCEPT ![w].attempt = 1,
       ![w].known = IF WholeListing THEN Over(@, Without(Fetched, Deleted(w))) ELSE @]
  /\ Goto(w, "base")
  /\ UNCHANGED <<store, ops, drift>>
-----------------------------------------------------------------------------
\* One attempt of PushRichRefIndexWithHead or SetHead; refIndexDigest is taken anew.
Baseline(w) ==
  /\ pc[w] = "base"
  /\ call' = [call EXCEPT ![w].base = index, ![w].moved = FALSE]
  /\ Goto(w, "merge")
  /\ UNCHANGED <<store, ops, drift>>

\* mergeRemoteRefs: read the index, fill in what ListRefs finds (it reads the index
\* again), layer the caller's refs on top and take out the deleted one.
Merge(w) ==
  /\ pc[w] = "merge"
  /\ \E read \in Reads(Fetched, {mirror.refs, Nothing}) :
       call' = [call EXCEPT ![w].merged = read, ![w].blind = read # Fetched]
  /\ Goto(w, "fill")
  /\ UNCHANGED <<store, ops, drift>>

Fill(w) ==
  /\ pc[w] = "fill"
  /\ \E listing \in Reads(Listed, {mirror.refs, tag, Nothing}) :
       call' = [call EXCEPT
         ![w].merged = Without(Over(call[w].known, Over(@, listing)), Deleted(w)),
         ![w].blind = @ \/ listing # Listed]
  /\ Goto(w, "head")
  /\ UNCHANGED <<store, ops, drift>>

KeepHead(w) ==
  /\ pc[w] = "head"
  /\ call[w].kind # "sethead"
  /\ call' = [call EXCEPT ![w].head = NextHead(w)]
  /\ Goto(w, "lock")
  /\ UNCHANGED <<store, ops, drift>>

\* SetHead refuses a ref the repository does not publish.
ChooseHead(w) ==
  /\ pc[w] = "head"
  /\ call[w].kind = "sethead"
  /\ call[w].merged[call[w].ref] # Absent
  /\ call' = [call EXCEPT ![w].head = call[w].ref]
  /\ Goto(w, "lock")
  /\ UNCHANGED <<store, ops, drift>>

RefuseHead(w) ==
  /\ pc[w] = "head"
  /\ call[w].kind = "sethead"
  /\ call[w].merged[call[w].ref] = Absent
  /\ Return(w)
  /\ UNCHANGED <<store, ops, drift>>

\* acquireRefsIndexLock; the wait ends at refsIndexLockWait.
Acquire(w, from, to) ==
  /\ pc[w] = from
  /\ lock = Free
  /\ lock' = w
  /\ Goto(w, to)
  /\ UNCHANGED <<index, mirror, tag, call, ops, drift>>

GiveUp(w) ==
  /\ lock # Free
  /\ \/ pc[w] = "lock" /\ Return(w)
     \/ pc[w] = "dlock" /\ Goto(w, "refresh") /\ UNCHANGED call
  /\ UNCHANGED <<store, ops, drift>>

Check(w) ==
  /\ pc[w] = "check"
  /\ Unmoved(w)
  /\ Goto(w, "write")
  /\ UNCHANGED <<store, call, ops, drift>>

Conflict(w) ==
  /\ pc[w] = "check"
  /\ ~Unmoved(w)
  /\ Leave(w, IF MoreAttempts(w) THEN "retry" ELSE "release")
  /\ UNCHANGED <<store, ops, drift>>
-----------------------------------------------------------------------------
\* A base is compared until its update is written.
HasBase(w) == pc[w] \in {"merge", "fill", "head", "lock", "check", "write"} /\ ~InDelete(w)

\* pushRichRefIndexDirect: the index, then its mirror, whose failure only warns.
Put(w, left) ==
  /\ index' = Content(w)
  /\ call' = [u \in Writers |->
       IF u = w THEN left
       ELSE [call[u] EXCEPT !.moved = @ \/ (HasBase(u) /\ Content(w) # index)]]

\* A successful DeleteRef makes the helper forget the ref.
Written(w) ==
  IF InDelete(w)
  THEN /\ call' = [call EXCEPT ![w] = [Spent(w) EXCEPT !.ok = TRUE, !.known[call[w].ref] = Absent]]
       /\ Goto(w, "deleted")
  ELSE Leave(w, "release")

Write(w) ==
  /\ pc[w] = "write"
  /\ Put(w, call[w])
  /\ Goto(w, "mirror")
  /\ UNCHANGED <<mirror, tag, lock, ops, drift>>

\* The write fails, or takes effect and loses its answer: no mirror follows.
WriteFails(w) ==
  /\ Faults
  /\ pc[w] = "write"
  /\ \/ Put(w, Spent(w)) /\ drift' = TRUE
     \/ call' = [call EXCEPT ![w] = Spent(w)] /\ UNCHANGED <<index, drift>>
  /\ Goto(w, IF InDelete(w) THEN "deleted" ELSE "release")
  /\ UNCHANGED <<mirror, tag, lock, ops>>

Mirror(w) ==
  /\ pc[w] = "mirror"
  /\ mirror' = MirrorContent(w)
  /\ drift' = FALSE
  /\ Written(w)
  /\ UNCHANGED <<index, tag, lock, ops>>

MirrorFails(w) ==
  /\ Faults
  /\ pc[w] = "mirror"
  /\ drift' = TRUE
  /\ Written(w)
  /\ UNCHANGED <<store, ops>>

\* releaseRefsIndexLock; a failure only warns.
Release(w) ==
  /\ \/ lock' = ReleasedLock(w)
     \/ Faults /\ UNCHANGED lock
  /\ \/ pc[w] = "release" /\ Return(w)
     \/ pc[w] = "deleted" /\ Goto(w, "refresh") /\ UNCHANGED call
     \/ pc[w] = "retry" /\ Goto(w, "base")
                        /\ call' = [call EXCEPT ![w].attempt = @ + 1]
  /\ UNCHANGED <<index, mirror, tag, ops, drift>>
-----------------------------------------------------------------------------
\* DeleteRef: read the index under the lock, remove the tag (or tombstone it), carry
\* HEAD across and write; nothing is re-checked.
DeleteRead(w) ==
  /\ pc[w] = "dread"
  /\ \E listing \in Reads(Listed, {mirror.refs, tag}) :
       call' = [call EXCEPT ![w].merged = Without(listing, {call[w].ref}),
                            ![w].blind = listing # Listed]
  /\ Goto(w, "dtag")
  /\ UNCHANGED <<store, ops, drift>>

DeleteTag(w) ==
  /\ pc[w] = "dtag"
  /\ tag' = [tag EXCEPT ![call[w].ref] = Absent]
  /\ Goto(w, "dhead")
  /\ UNCHANGED <<index, mirror, lock, call, ops, drift>>

DeleteHead(w) ==
  /\ pc[w] = "dhead"
  /\ call' = [call EXCEPT ![w].head = Live(index.head, call[w].merged)]
  /\ Goto(w, "write")
  /\ UNCHANGED <<store, ops, drift>>

\* A read or the tag's removal fails: the lock is released, the ref reported as not
\* deleted, and the batch's index update runs all the same.
DeleteFails(w) ==
  /\ Faults
  /\ pc[w] \in {"dread", "dtag", "dhead"}
  /\ Leave(w, "deleted")
  /\ UNCHANGED <<store, ops, drift>>
-----------------------------------------------------------------------------
\* A read or a write of an attempt fails and the update with it.
UpdateFails(w) ==
  /\ Faults
  /\ \/ pc[w] \in {"base", "head", "lock"} /\ Return(w)
     \/ pc[w] = "check" /\ Leave(w, "release")
  /\ UNCHANGED <<store, ops, drift>>

\* A client dies; a lock it holds stays until it lapses.
Crash(w) ==
  /\ Faults
  /\ pc[w] # "idle"
  /\ drift' = (drift \/ pc[w] = "mirror")
  /\ Return(w)
  /\ UNCHANGED <<store, ops>>

\* The TTL runs out on a lock that a crash or a failed release left behind or, if
\* LockLapses, on one in use.
Lapse ==
  /\ lock # Free
  /\ \/ LockLapses
     \/ Faults /\ pc[lock] \notin Holding
  /\ lock' = Free
  /\ UNCHANGED <<index, mirror, tag, pc, call, ops, drift>>
-----------------------------------------------------------------------------
\* The calls a running client makes without being asked again.
Proceed(w) ==
  \/ Publish(w) \/ Refresh(w)
  \/ Baseline(w) \/ Merge(w) \/ Fill(w) \/ KeepHead(w) \/ ChooseHead(w) \/ RefuseHead(w)
  \/ Acquire(w, "lock", "check") \/ Acquire(w, "dlock", "dread")
  \/ Check(w) \/ Conflict(w) \/ Write(w) \/ Mirror(w) \/ Release(w)
  \/ DeleteRead(w) \/ DeleteTag(w) \/ DeleteHead(w)

Fail(w) ==
  \/ PublishFails(w) \/ DeleteFails(w) \/ UpdateFails(w)
  \/ WriteFails(w) \/ MirrorFails(w)
  \/ GiveUp(w) \/ Crash(w)

Next ==
  /\ \/ \E w \in Writers :
          \/ \E r \in Refs, c \in Commits : BeginPush(w, r, c)
          \/ \E r \in Refs : BeginDelete(w, r) \/ BeginSetHead(w, r)
          \/ Proceed(w)
          \/ Fail(w)
     \/ Lapse
  /\ UNCHANGED setting

Spec == Init /\ [][Next]_vars
-----------------------------------------------------------------------------
\* No index names a HEAD it does not publish: every writer settles HEAD against the
\* very map it writes, however stale that map is (PushRichRefIndexWithHead,
\* SetHead and DeleteRef each decide it on their own).
HeadIsPublished ==
  \A i \in {index, mirror} : i.head # NoHead => i.refs[i.head] # Absent

\* Once the index lock is free the mirror shows what the index shows, unless a
\* mirror write was lost: "_index mirrors _refs and stands in for it".
MirrorAgrees == lock = Free /\ ~drift /\ ~LockLapses => mirror = index

\* What w has asked of the index and not yet got: DeleteRef's removal, then the update of
\* the batch, whose refs are settled once the listing is refreshed; or a set-head.
Pending(w) ==
  IF pc[w] \in {"idle", "publish", "refresh", "mirror", "deleted", "release"}
  THEN [kind |-> "none", known |-> Nothing, gone |-> {}, head |-> NoHead]
  ELSE IF InDelete(w)
  THEN [kind |-> "remove", known |-> Nothing, gone |-> {call[w].ref}, head |-> NoHead]
  ELSE IF call[w].kind = "sethead"
  THEN [kind |-> "sethead", known |-> Nothing, gone |-> {}, head |-> call[w].ref]
  ELSE [kind |-> "update", known |-> call[w].known, gone |-> Deleted(w), head |-> Hint(w)]

A == INSTANCE AtomicIndex WITH pending <- [w \in Writers |-> Pending(w)]

\* The digest came back to what it was after the index had moved, and w passed.
Skewed(w) == call[w].moved /\ index = call[w].base

\* No lock lapses under its holder, and nobody is about to write what it did not read, or
\* on a base that came back.
Orderly == ~LockLapses /\ \A w \in Writers : pc[w] = "write" => ~call[w].blind /\ ~Skewed(w)

\* The index is updated in single steps, each of them one request on the index as it then
\* is, though clients die, calls fail and answers are lost: "concurrent updates to
\* different refs all survive" (oci.go:1216), and of HEAD "First writer wins" (oci.go:1191).
UpdatesAreAtomic == A!Init /\ [][Orderly => A!Next]_(A!vars)
=============================================================================
