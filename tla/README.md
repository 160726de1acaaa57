# A TLA+ model of git-remote-oci

`git-remote-oci` is a Git remote helper that keeps repositories in an OCI
registry. A registry has blobs, manifests and tags, and nothing else: no
transaction, no compare-and-swap, no lock. Everything that several clients must
agree on is built in `pkg/oci`, `pkg/helper` and `pkg/gc` from reads that may be
stale by the time they are used and from writes that replace whatever is there.
These modules model that construction, step by step, and say what it guarantees.

## 1. The system

| part | state it keeps | operations | what makes it correct |
|---|---|---|---|
| Ref locks (`pkg/oci/lock.go`, `gc.go`) | one manifest per lock tag; `heldLocks` per process | acquire with read-back, wait, release, break, reclaim | two clients hold a lock only after one was taken over; a crash never wedges a ref |
| Ref index (`pkg/oci/oci.go`) | `_refs`, its mirror `_index`, the ref tags | `PushRichRefIndexWithHead`, `DeleteRef`, `SetHead` | updates of different refs survive each other; HEAD names a published ref |
| Push batches (`pkg/helper/helper.go`) | the session's listing, reports, `deletedRefs`, saved tags | `handlePushBatch`, `handlePushBatchAtomic` | git is told the truth; forward only, unless forced; rolled back when atomic |
| Commit manifests, packs, the pack chain (`oci.go`, `packchain.go`, `pkg/git`) | a manifest per pushed commit: pack bases, LFS layers | publish, look up | a published ref can be fetched |
| Compaction (`pkg/gc/gc.go`) | its reading of the index and of the tags | consolidate, prune, republish | nothing that a ref needs is pruned |
| Hydration (`pkg/gc/hydrate.go`) | the walk, the scratch repository | walk, import | what is repacked is the whole history |
| Fetch (`helper.go`, `pkg/git`) | pack graph, local objects, `shallow` | resolve, order, import, record the boundary | what is at hand is whole or marked shallow |
| Chunked upload (`chunked.go`) | an upload session, the offset | PATCH, probe, resume, PUT, cancel | the closed blob is the file |
| LFS file locks (`lfs_lock.go`, `pkg/cli/lfslock.go`) | one list in one blob | lock, unlock | one lock per path; locks leave by release |
| Ref tags (`reftag.go`) | none | escape, cut, mark | no two refs share a tag, no ref takes a reserved one |
| Retry transport (`retry.go`) | the attempt, the response body | replay, hand back, forbid caching | nothing is sent twice that cannot be, locks are read fresh |
| Protocol v2 server (`v2.go`, `v2objectinfo.go`, `pkg/git`) | a staging area per request; the client's objects, refs and shallow boundary | fetch, deepen, filter; lazy fetches of a partial clone; object-info | the client's history is whole down to its boundary; nothing is denied that is there |
| Pack index layer (`packindex.go`) | a sorted table beside each packfile | encode, search | no object of the packfile is reported absent |
| Client caches (`cache.go`) | a concurrent map and a counter beside it | store, delete, drop at the ceiling | the map stays bounded |
| fsck, configuration, command line, compression, spooling, progress | none shared | | not modelled, section 7 |

How they interact. git starts one helper per command. A push lists the remote
(index, else tags), takes the lock of each ref, validates against that listing,
uploads a pack (chunked upload), publishes the commit manifest and the ref's
manifest under its tag, releases, and finally rewrites the index under the
index lock, the caller's refs laid over the published ones. A deletion rewrites
the index itself. A fetch of a git that speaks protocol v2 is served by the helper
itself, which stages packfiles in a scratch repository and cuts one pack from
them, request by request and without memory; any other fetch follows the pack bases annotated on the commit
manifests, with hints from the chain, and imports bases first. Compaction does
to every ref what a push does, under the ref's lock, and then deletes. Every
request of every client goes through the retry transport. There are no messages
between clients: they meet only in the registry.

What is hard. Any number of processes run, none of them knows of another, and
any of them may run between two calls of another; each call may fail, take
effect and lose its answer, or be repeated by the transport; a process may die
anywhere; locks expire under live holders; within a process a batch's workers
run in parallel and share `heldLocks`.

## 2. The modules

Each module is read beside the code that the `map` of `PROJECT.json` names for
its definitions. A registry call is one step; an operation is a program counter
that walks through its calls, one action per call, in the order of the code. The
definitions under "Mutants" are plausible errors in the definitions that follow
them; no specification uses them.

| module | models | state and steps |
|---|---|---|
| `RefLock` | `AcquireRefLock`, `AcquireRefLockWithRetry`, `ReleaseRefLock`, forced release, reclaiming | `tag` is the lock manifest, `held` the `heldLocks` tables, `pc`/`mine` each goroutine. Time is relative: a lock carries the ticks it has left, `Tick` ages every copy. `stale` and `stolen` are history: who last read before the latest write, and whose confirmed live lock was replaced |
| `RefIndex` | the merge, digest re-check and write of the index, its mirror, `DeleteRef`, `SetHead` | `index`, `mirror`, `tag`; each writer goes base - merge - fill - head - lock - check - write - mirror - release. The lock is who holds it |
| `PushBatch` | both batch handlers | per client and spec a stage and a report; `tag`, `index`, `lock`; `saved` is what a rollback restores |
| `AtomicIndex` | what the published index promises | one index, and what each client has asked for: Ask, TakeEffect, GiveUp |
| `PackGraph` | what a packfile cut against bases holds | shared by the modules below that deal in packs |
| `Compaction` | `gc.Run` among pushes and deletions | commit manifests, ref tags, index and chain in the registry; pushers and one run |
| `Fetch` | `handleFetchBatch`, `resolvePackGraph`, `importOrder`, snapshots, LFS | a fixed registry, the walk level by level, the import pool, what is local after each fetch |
| `Hydrate` | `manifestOrder` and the import | levels of the walk, the scratch repository |
| `Readers` | `Fetch` and `Hydrate` over one registry | a behaviour has one of the two |
| `ShallowView` | `BoundaryFor` and its rules: a depth, a date, excluded refs | none: which commits a walk lets in, and which lie on the edge |
| `V2Serve` | the fetch command, `buildPackForWants`, `shallowBoundary`, `stageUntilFound`, `objectSizes` | a registry that does not change; a client repository across requests (`have`, `shallow`, `tips`); the request, its staging area and its answer |
| `Upload` | `pushPackfileBlob` in chunks or whole | bytes as positions; what the session holds and whether they are the first bytes of the file |
| `LFSLocks` | `lfs-lock`, `lfs-unlock` | the list, the lock over it, each command's copy |
| `RefTag` | `EncodeRefTag`, `RefManifestTag`, `LockTag` | none: a behaviour picks two refs and their tags are compared. Escaping, cutting and marking are done character by character, because the property is about them |
| `PackIndex` | `EncodePackIndex`, `PushPackIndex`, `searchPackIndex`, `PackIndexContains`, `PackIndexSize` | the entries of a packfile, the published lines, one reader's question and its answers |
| `BoundedMap` | `boundedMap`: Store, Delete, and the drop | the map, the counter, and each goroutine between the two |
| `OciParts` | `Upload`, `RefTag`, `PackIndex`, `BoundedMap` and `RetryTransport` side by side | a behaviour has one of the five, the others rest; the transport's `pc`, `attempt` and `held` are called `place`, `retries` and `noted` there |
| `RetryTransport` | `RoundTrip` | each call's attempt, body and answer; the tags it reads and writes; all a cache may hold |

What composes what. `RefIndex` implements `AtomicIndex`: `UpdatesAreAtomic` is the
abstract specification under the mapping `Pending`, which reads what each writer has asked
for off the place it has reached. `PushBatch` uses the index that this justifies (an update
in one step) and the lock that `RefLock` justifies (who holds it); `Compaction` uses both
and `PackGraph`. `Fetch`, `Hydrate` and `V2Serve` read what `Compaction`'s pushes publish
and, because nobody checks what a registry serves, anything else too; `V2Serve` adds
`ShallowView`, whose walks may run over a store that lacks commits. In `V2Serve` the walk
that `Fetch` takes apart level by level is one step. `Readers` and `OciParts` are pools:
they put parts that never meet side by side so that one run asks about all of them; no
step moves two.

`MC*` modules hold the instances: the histories, the names, the settings. The `*_proofs`
modules hold the theorems of section 6.

### Settings

`RefIndex`, `PushBatch`, `Compaction`, `Fetch`, `V2Serve` and `LFSLocks` have a variable
`setting` that is chosen once and never changes: which callers there are, which
calls may fail, and the bounds. One run so covers small worlds where everything
fails and larger ones where nothing does. A property that the code gives only in
some of them, or only from some states on, names its condition (`Alone`, `~Faults`,
`Serialised`, `Sensible`, `Orderly`, `~uneven`, `~raced`); section 8 says what happens
otherwise.

## 3. The runs

| run | asks |
|---|---|
| `RefLock_safety` | Can two goroutines hold one live lock? Only if a lock was replaced after it was confirmed (`MutexUnlessStolen`), which takes an actor whose check went stale (`TheftNeedsStaleRead`). Does `heldLocks` name its goroutine's lock (`HeldLocksOwned`)? |
| `RefLock_liveness` | Does a waiter get past a lock that a crashed client left (`WaiterGetsIn`)? |
| `RefIndex` | Does an update - with its unlocked merge, its re-check and its retries - take effect once, on the index as it then is (`UpdatesAreAtomic`, the refinement of `AtomicIndex`)? Is HEAD always a published ref (`HeadIsPublished`)? Does the mirror follow (`MirrorAgrees`)? |
| `PushBatch` | Is what git is told true (`OkIsPublished`)? Is a failed atomic batch put back (`RollbackRestores`)? Are locks returned (`LocksReturned`) and batches answered (`BatchesAreAnswered`)? Do forward checks and leases hold for whoever was not overtaken (`UnracedIsFastForward`, `UnracedKeepsLease`)? |
| `PushBatch_race` | And for whoever was? No: `FastForward` is violated. Two developers push to one branch; both validate against the listing their helper started from; the lock makes them take turns, but the second one's check is not repeated under it and its push removes the first one's commits |
| `Compaction` | With nobody pushing during a run, is everything a published ref rests on served after every step, wherever the run stops, and is what a clone that follows the chain finds missing only what was pruned since the chain was last replaced (`Closed`)? Among pushes, is no ref rewound (`TagsNotRewound`) and nothing pruned before every ref stands alone (`PrunesAfterConsolidation`)? Does every LFS object come with a clone, but for those a push had no copy of and those of a history that a compaction rewrote (`LFSKept`)? |
| `Compaction_chain` | Is the chain only a hint, then, and does it cost a clone no more than round trips? No: `ChainIsOnlyAHint` is violated. A run deletes commit manifests that the published chain still names and replaces the chain last; a clone in between, or ever after if the run stopped there, queues what the chain names and ends at the first commit that is gone, though it needs none of them |
| `Readers` | Are packs imported over their bases (`ImportsAfterBases`)? Is what is at hand closed under history, whatever failed before (`LocalIsClosed`), or behind a shallow mark (`GapsAreShallow`)? Is what was asked for there (`FetchedIsWhole`), and is what gets repacked the whole history (`HydratedIsWhole`)? Do both walks end, on cycles and missing bases too (`WalksEnd`)? |
| `V2Serve` | After any sequence of fetches, cuts, filters and failures, is nothing missing behind the client's refs down to its boundary, and is no pack turned down by git (`HistoryIsWhole`)? Is a cut where it was asked for (`SliceIsAsAsked`)? Is an object refused only if the remote cannot produce it (`RefusalsAreHonest`)? Does every request end (`RequestsEnd`)? |
| `V2Serve_deepen` | And after a deepening by a date, an excluded ref or a relative depth? No: `DeepenedIsWhole` is violated. A client that is shallow at two branches deepens one of them; a boundary commit that the other branch rests on lies inside the new cut and is reported unshallow, while the pack does not carry what is behind it for the other branch |
| `OciParts` | Upload: is the closed blob the file, no byte twice (`ClosesWhole`), is a refusal of chunks answered by one request (`RefusalFallsBack`), does it end (`UploadEnds`)? Tags: do two refs share a tag or take a reserved one, and does a registry take every tag (`TagsAreApart`)? Pack indexes: is an object of the packfile ever reported absent (`NoFalseAbsence`), is a size told that is not its own (`SizesAreRecorded`)? Caches: does the map stay bounded (`StaysBounded`)? Transport: is a stream sent twice (`OneShotSentOnce`), is a response returned closed (`ReturnedOpen`), is a lock or an index read from a cache (`MetadataReadsFresh`)? |
| `LFSLocks` | Is a path locked once (`PathsLockedOnce`)? Does a lock leave only by its release, and does a release by path spare the lock that came after the one it looked up (`LocksLeaveByRelease`)? |

Deadlock is not checked where all work may be done, which is every run but those
of `RefLock`: clients stop when the bound on operations is reached.

## 4. Bounds

* `RefLock`: two goroutines of one process and one of another is the least that has
  both kinds of contention. Five ids (four with two goroutines) is the number that can
  be in sight at once plus one, so a fresh one is always there; they are interchangeable
  and the safety run uses that. TTL 1: a lock is live or not, and every ageing of it is
  a step of its own. Nothing else is bounded; the state is finite without a clock.
* `RefIndex`: two writers, two refs, two commits: the operation's own ref and another.
  Three updates with two attempts, so that an attempt can fail and the last one too; two
  updates of helpers that pass their whole listing; those two again where every call may
  fail; two where the lock lapses. With three updates or with failing calls the repository
  starts with every ref published and a HEAD (`full`), in the others from any repository at
  rest.
* `PushBatch`: two refs and a history that forks, every pair of push, forced push and
  deletion; two batches where they race.
* `Compaction`: four commits, two on the trunk before it starts, the second of which brings
  in an LFS object that its pusher may or may not have had. With nobody pushing during a run
  and with failures and stops anywhere: two pushes and two runs, so that the second run meets
  what the first left; two pushes, a deletion and one run. Three pushes and one run where
  nothing fails; and with pushes during the run, two pushes, a deletion and one run.
* `Readers`: a fork and its merge. One fetch of each of the 729 graphs over three commits,
  which have every shape a base can have - none, the parent, a grandparent past a gap, both,
  a cycle, a missing one - under a limit of two nodes, so that the limit is met; three
  fetches that may fail, over graphs that pushes can publish; two with snapshots, of the
  merge too. Hydration meets all those graphs and the well-formed ones over four commits;
  chains that say all, too little and too much.
* `V2Serve`: five commits: a line of four with a shortcut in it, so that a commit is behind
  a want at two depths, and a branch off its root; an annotated tag half-way. Two fetches
  with any cut; three of one branch each, which is what it takes to be shallow at two
  branches and to deepen one; three of a partial clone, with every mix of indexed and
  unindexed manifests, a base that is gone, and `--refetch --no-filter`; two with transfers
  that fail and questions about sizes. Depths go one past the length of the history.
* `Upload`: sizes 3, 5 and 6 and chunks of 2 and 3 give one, two and three chunks with a
  short or a full last one; three attempts, so that there is a resumption of a resumption.
  A registry keeps none, part or all of a failed PATCH; it never keeps exactly one byte
  (section 8).
* `RefTag`: every name of up to four characters over one letter and the special
  characters, with a tag limit of 8, and names that spell what is reserved.
* `PackIndex`: ids of one and of two digits stand for the two lengths an object id has; lower,
  upper and mixed case, and one that is not hex; lists of up to two with sizes below, at and
  past the largest, and of three in any order. `MaxInt64` is 4.
* `BoundedMap`: a ceiling of 1, two goroutines, four keys. Under a race the counter lags
  behind the map by what is in flight, and the map holds up to three keys, less than there
  are.
* `LFSLocks`: two users, two paths, two owners, four commands; three where the lock lapses.
* `RetryTransport`: two calls with any request, two retries: one repeats, one is the last.

## 5. Fairness

Safety is checked without. The liveness properties assume:

* `RefLock`: the clock advances and a process that is running makes its next call. Nobody
  is obliged to push, to finish a push, to crash, to break a lock or to collect garbage;
  that a waiter gets in is shown only once the others are quiet, since nothing in the code
  prevents starvation.
* `PushBatch`, `Upload`, `Readers`, `V2Serve`: the one program goes on, once it has begun,
  until it returns: WF of a client's `Proceed`, of `UploadStep`, of `GoOn`, of `Step`. No
  request has to begin, and no call to fail. Calls have deadlines or fail, and a failure is
  an action as well.

## 6. What is proved

By TLAPS, for any values of the constants that satisfy the modules' assumptions, any
setting included. Each theorem is `Spec => []I` or `Spec => [][A]_vars`, from an invariant
that is inductive.

`RefLock_proofs` - any goroutines, processes, ids and TTL.

| theorem | says |
|---|---|
| `TypeCorrectness` | `Spec => []TypeOK` |
| `HeldLocks` | `Spec => []HeldLocksOwned` |
| `Mutex` | `Spec => []MutexUnlessStolen` |
| `Theft` | `Spec => []TheftNeedsStaleRead` |

The inductive invariant `IInv` adds three facts. `MineWhileChosen`: a goroutine has a lock
of its own exactly from the choice of its id on. `IdsIdentify`: two goroutines never have
the same id, and the published copy of a lock is as old as its owner's, which needs ids to
be fresh and time to pass for all copies at once. `HolderPublished`: a confirmed live lock
that is not in `stolen` is the one under the tag. Mutual exclusion follows at once: two
holders whose locks were not stolen would both be the one under the tag, so their ids are
equal, so they are one goroutine. `TheftNeedsStaleRead` is preserved because a write makes
every reader stale, and time only takes liveness away.

`RefIndex_proofs` - any writers, refs, commits and number of attempts.

| theorem | says |
|---|---|
| `TypeCorrectness` | `Spec => []TypeOK` |
| `HeadAlwaysPublished` | `Spec => []HeadIsPublished` |
| `MirrorAlwaysAgrees` | `Spec => []MirrorAgrees` |
| `ImplementsAtomicIndex` | `Spec => UpdatesAreAtomic` |

HEAD needs that what a writer is about to write already names a HEAD of its own map, at
whichever step it was settled (`HeadInv`). The mirror needs that whoever is past the write
has the lock, alone (`LockExcludes`), so that nobody else's index is written before its
mirror (`MirrorFollows`). The refinement adds why an unlocked merge is safe: until the
check, what was merged is what the base the writer noted leads to (`BaseIsIndex`); at the
write, with no lapse and no skew, that base is the published index (`CheckedBase`); so what
is written is the abstract update of what is published (`UpdateAnswers`, `DeleteAnswers`).
`StepsAreAtomic` then maps every action to Ask, TakeEffect, GiveUp or a stutter.

`PushBatch_proofs` - any clients, refs, commits, batches and failing calls.

| theorem | says |
|---|---|
| `TypeCorrectness` | `Spec => []TypeOK` |
| `NoLockIsLeft` | `Spec => []LocksReturned` |
| `OkMeansPublished` | `Spec => []OkIsPublished` |
| `RollbackHolds` | `Spec => []RollbackRestores` |
| `UpdatesGoForward` | `Spec => UnracedIsFastForward` |
| `LeasesHold` | `Spec => UnracedKeepsLease` |

Each rests on its own strengthening, all of them about what a stage of a spec implies:
which stage has a lock (`LocksFit`), when a report of ok has a tag behind it (`OksFit`),
what the saved tags are good for during a rollback (`RestoresFit`), and what the update is
about to lay over the index (`KnownFit`); `AllFit` ties the batch's place to its specs'.

`Compaction_proofs` - any history, pushers, refs and settings.

| theorem | says |
|---|---|
| `TypeCorrectness` | `Spec => []TypeOK` |
| `NoRefIsRewound` | `Spec => TagsNotRewound` |
| `PruningComesLast` | `Spec => PrunesAfterConsolidation` |
| `RefsCanBeFetched` | `Spec => []Closed` |
| `LFSObjectsComeAlong` | `Spec => []LFSKept` |

`Shapes` and `Cut` (no manifest is cut against anything but its commit's history) are the
types. `Owned`: whoever works on a ref has its lock. `TipHolds`: while the run rewrites a ref,
the tip it checked under the lock is still under the tag - a push that wanted to move it
would need the lock. `Through`: a run that met no conflict has rewritten every ref it is
through with, so that at the pruning nothing is left to do.

`Closed` rests on `ClosedInv`. With nobody pushing beside it a run finds the index as it left
it (`RunIsAlone`); every published tip is served through its bases (`TipsAreServed`); a push
takes up what is served, at each of its stages, and only adds to it (`PushesAreBacked`); and
what the run has rewritten has no bases (`RewrittenStand`), so that when it prunes, with
`Through`, every tip is whole by itself. For the chain, `Served` is widened to `Standing`, the
commits that rest on nothing but what is served or was pruned since the chain was last
replaced: whatever the chain names stands (`ChainStands`), because it was served when it was
published and because pruning moves a commit from the one half to the other (`StandingStays`).

`LFSKept` rests on `LFSInv`, which needs no condition on who runs beside whom: every commit
manifest and every ref's own (`CommitsList`, `TagsList`) lists what its packfile brings in, but
for what is in `forgone`, and what a push or a run is about to leave out of a ref's manifest is
there by then (`PushesForgo`, `RunForgoes`).

What a clone reads is the whole set that the bases lead to (`Walked`), defined without recursion as the
least set that holds the tip and the bases of what it holds. That it covers the history is
an argument by the earliest counterexample: an object of the history is behind a commit that
reaches it while none of its bases does, and that one's packfile has it. Such a commit exists
because a commit has finitely many ancestors (`FiniteHistory`), and being an ancestor is then
well-founded.

`Readers_proofs` - any history, registry, chain, any number of fetches and settings.

| theorem | says |
|---|---|
| `LocalStaysClosed` | `Spec => []LocalIsClosed` |
| `BasesComeFirst` | `Spec => ImportsAfterBases` |
| `GapsAreRecorded` | `Spec => []GapsAreShallow` |
| `WhatWasAskedForIsThere` | `Spec => []FetchedIsWhole` |
| `FetchTypes` | `Spec => []TypeOK`, for finitely many commits: a walk is at `maxPackGraphNodes` commits at most, and a commit recorded as shallow is at hand |
| `HydrationTypes` | the same of a hydration: no commit is in two levels of the walk |
| `WhatIsRepackedIsWhole` | `ReadersSpec => []HydratedIsWhole`, which asks that manifests name ancestors as their bases (`Sensible`); the chain and the order of the walk are any |

`Walked` says what a walk has settled is at hand and that the resolved graph is the
registry's; `Brought`, that what was imported is there; with `LocalIsClosed` itself (`Closes`)
these are inductive, because a pack whose bases are at hand and closed brings in all that was
missing. `Gaps` covers the time in between: what is missing behind a commit is missing behind a
shallow one (`Marked`) or, while snapshots are being taken, behind a wanted one, which will be
marked (`Pending`). It needs one assumption about the registry, in `SettingsAssumption`: where
tips carry snapshots, packs are cut against what their commits descend from, which is `Cut`, and
`Compaction_proofs` proves it of everything that is pushed. `Asked` follows a wanted commit
through the walk and the imports to the object store. That only commits at hand are recorded as
shallow (`InBounds`) needs it too.

Hydration places a commit where it first meets it and imports in that order, so bases need
not come first; `HydrateInv` therefore keeps only that a walk leaves nothing behind: whatever
was seen is in a level or imported, and its bases were seen. At the end every packfile that a
tip leads to has been imported, and the argument by the earliest counterexample applies again.

`OciParts_proofs` - any instance of the five parts, each while the others rest.

| theorem | says |
|---|---|
| `ClosedIsWhole` | `ClosesWhole`, for any size, chunk length, number of attempts and any kept part but exactly one byte: the session is in step with the offset or behind it (`InStep`, `Taken`), and chunks are cut at their boundaries (`Chunked`) |
| `RefusalsFallBack` | `RefusalFallsBack`, from the same |
| `NothingIsDenied` | `PartsSpec => []NoFalseAbsence` |
| `ToldSizesAreRecorded` | `PartsSpec => []SizesAreRecorded` |
| `MapIsBounded` | `PartsSpec => []StaysBounded`, for any number `n` of goroutines, any limit and any `Bound` of at least `n * (limit + n + 2)` |
| `OneShots` | `PartsSpec => []OneShotSentOnce`, from what each stage of a call says of its body (`Stages`) |
| `OpenResponses` | `PartsSpec => []ReturnedOpen`, from the same |
| `FreshMetadata` | `PartsSpec => []MetadataReadsFresh`, from what was noted of each read (`Noted`) |
| `TagsDoNotMeet` | `PartsSpec => []TagsAreApart`, for refs of any names, of any length, as long as none is named like another that is spelled like a commit id, with the prefix `ref-` (`PrefixIsFree`) |
| `UploadTypes`, `CallTypes` | `Spec => []TypeOK` of an upload, and the same of the transport |

The index of a packfile is any list that is in order and has one line for each object
(`Indexes`). `SearchFinds`: over a list in order there is a first line that is not before the
id (`LeastOf`, the least number of a set), the search ends there, and if the id is listed it is
that line, since the order is strict (`BeforeIsStrict`). That `sort.Search` finds this place
by halves is not part of the module: `LowerBound` says where it must end. That a list in order
exists for every set of entries is not needed; the model takes any there is.

`MapIsBounded` says what the comment on the cache's counter leaves open: drift moves the point
at which the map is dropped, but how far? A goroutine that drops the map sets the counter to
zero over what was stored since its `Range` began, so that this is not counted any more. What
adds up is what goroutines that began their `Range` earlier let in when they set it to zero.
The invariant ranks those that are dropping the map by when they began (`Ranked`, `Contained`):
what is in the map and not in somebody's `Range` is at most one `Room` - a limit and the stores
under way - for each worker that is not ranked before them, plus what has been counted since
(`Tally`). Whoever begins is last and has nothing (`RangeBegins`); when one sets the counter to
zero, those behind it move up, and those before it have at most what it had itself
(`ZeroRanks`); every other step stores no more than it adds to the tally (`KeepsRanks`). The
run's bound of 3, for two goroutines and a limit of one, is exact; the theorem's is not.

`TagsDoNotMeet` is about text. The pieces a name is escaped into - a letter, a pair of
underscores, an underscore and a code - are a prefix code: none begins another (`Codes`). Two
texts that are joined from pieces and are the same are therefore joined from the same pieces
(`SamePieces`): at the earliest piece in which they differ one would begin the other. What a
fold joins is a recursion, and `RecursionExists` says it has a value (`JoinExists`,
`Flattened`). A marker begins like no escape does, so the namespaces keep apart as well, and
two refs whose tags were not cut are one ref (`SameRef`). A tag that was cut begins with a
marker nothing else begins with and ends in its digest, so two of them that are equal have
equal digests, which is the exception the property makes; the proof uses of a digest only that
it is one character (eight in the code). `MaxTag` is at least 8, the room a cut tag takes up
without its name, and at least four more than `IdLength`, the room of `ref-` and an id: the code
has 128 against 17, and against 40 or 64. `/` stands for every byte that a tag may not have.
`PrefixIsFree` leaves out one case, in which the property fails of the code: section 8. The
run's refs satisfy it.

`V2Serve_proofs` - any finite history, registry, refs, and requests of every kind in any number.

| theorem | says |
|---|---|
| `ClientHistoryIsWhole` | `Spec => []HistoryIsWhole` |
| `CutsAreAsAsked` | `Spec => []SliceIsAsAsked` |
| `RefusalsHaveReasons` | `Spec => RefusalsAreHonest` |
| `TypeCorrectness` | `Spec => []TypeOK`: what is staged and sent are objects, what is left to search are refs |

The client's history is whole as long as every answer adds what it lacks, and an answer takes
shape over several steps, from a staging area, a slice and a boundary. `Serves` follows it:
what is excluded is known to the client (`Requested`, `ExcludedIsKnown`); the history behind
the wants of a deepening is staged (`Staged`), by `GraphWhole`, the earliest-counterexample
argument for a graph of packfiles; the answer's boundary is the edge of a slice that the wants
see down to that edge (`CutMade`); the pack is what the wants see and what is excluded does not
(`PackMade`). `AppliedIsWhole` puts them together: what a ref sees of the new boundary it saw of
the old one, or is in the pack.

That a slice by depth is seen from the wants (`DepthIsSeen`) is by its generations. The code's
walk is a recursive function of the level, which the provers do not know to exist:
`RecursionExists` shows that a function over the naturals with a given first value and a given
step exists, `AllNaturals` is induction stated over a set instead of a predicate, and with them
`WithinIs` says that what `Within` describes is the union of levels, each inside the parents of
the one before. For a relative depth, a date or an excluded ref the levels do not begin at what
the client wants or sees, the lemma is false, and so is the property: section 8. A registry's
packs are assumed to be cut against ancestors, as in `Readers_proofs`, and a tag object, a
commit and a blob to be different things.

`CutsAreAsAsked` compares that walk with the generations the request speaks of (`Near`). The
code's walk goes on until a generation is empty, the model's to the number of commits;
`GenerationsEnd` shows that nothing is left by then, since a step from a commit to a parent
leaves a shorter history behind it. `WalkIsNear` and `NearIsSeen` turn the
levels into what the client sees; for a relative depth that is what it saw, and so many steps
behind its boundary (`WithinTheSlice`), provided that its whole boundary is behind the wants
and that the new boundary is nowhere behind which it saw more: section 8 has the case.

`RefusalsHaveReasons` needs more than `Serves`: `Answers` follows a request and its search. A
search is through with a ref when what the ref holds of the wants is staged (`Through`), and
every ref is either left to search or through (`Searched`): nothing is lost when HEAD's branch
is moved to the front (`OrderIsComplete`) or a ref is passed over because its indexes rule it
out (`SearchGoesOn`). So wants that are missing at the end are in no readable ref
(`MissingIsHonest`). A pack breaks off when an object of it is not at hand. What a search has
staged goes on behind every commit in it (`StageIsWhole`, `PacksAreWhole`); what resolved wants
rest on is staged, or behind a commit the client has (`WantsStaged`); and what the client has
goes on behind every commit, down to its boundary (`HaveIsClosed`), which `ApplyCloses` shows
every answer keeps. `PackIsHeld` puts them together. `HaveIsClosed` fails after an uneven
deepening; the property excepts it, and section 8 says what happens then.

`LFSLocks_proofs`:

| theorem | says |
|---|---|
| `PathsHaveOneLock` | `PathsLockedOnce`: every copy of the list that is about to be written locks once (`CopiesLockOnce`) |
| `OnlyReleasesUnlock` | `LocksLeaveByRelease`: under a lock that holds the copy is the list (`CopyIsList`), and an id that was looked up still means the lock it meant (`IdsIdentify`, `FoundByPath`) |
| `TypeCorrectness` | `Spec => []TypeOK`, with no two locks of the list under one id (`IdsIdentify`) |

Only model-checked: liveness (`WaiterGetsIn`, `BatchesAreAnswered`, `WalksEnd`, `UploadEnds`,
`RequestsEnd`), since fairness and ENABLED are outside the prover's reach. Every invariant and
every action property of the passing runs is proved.

## 7. What is not modelled

* Data without a protocol: compression, spooling, media types, annotations for people,
  timing, messages. Command line and configuration: no state.
* Packfiles, objects and LFS pointers are sets; git itself is its effect on them. How
  `git pack-objects` traverses, and what git checks of a pack it receives, is stated in
  `V2Serve` from what `v2.go` relies on.
* `ls-refs` and the framing of packets: they read and format, and keep nothing.
* `fsck` reads what `Fetch` reads and changes nothing. `compact` after a push starts the run
  that `Compaction` models. `decodeRefTag` is called by tests only.
* In `Compaction` a clone reads one state of the registry, not several during a run; a run is
  started where the history is at hand (hydration is `Hydrate`), and a registry that refuses to
  delete, so that nothing is pruned, is left out. A commit without a manifest resolves to that
  of a ref published at it only if the ref's tag is at that commit too, which the code does not
  check (`helper.go:1218`). An update of the index reads the chain once, whatever its retries.
* What the client's caches hold, and when an entry is out of date; the map is modelled, and
  what it does at its ceiling.
* `.keep` files, the go-git fallbacks, object filters other than the one for blobs.
* Delays: backoff, jitter, `Retry-After` are a timer that runs out.
* The index's per-ref annotations (tag objects, timestamps): a ref is its commit.
* `TypeOK` is proved in every module that states it; a run is spent on it only for `RefLock`.

## 8. Where the documents and the code part

`PushBatch_race`, `Compaction_chain` and `V2Serve_deepen` are kept as runs. The others were met on the way; they are why some
properties have the conditions they have, and each can be seen by checking the formula
given with TLC in the module named, over the instance of its run. `Publishes`, `Resolved` and so on are definitions there.

| statement | code | in the model |
|---|---|---|
| a release touches no lock but its own (`lock.go:344`) | `lock.go:285` writes unconditionally after the check; a lock that expires in between and was taken over is released | RefLock: `[][\A t \in Threads : Tombstone(t) /\ Locked(tag) => tag.id = mine[t].id]_vars` |
| a failed release locks the ref until its TTL (`lock.go:267`) | `lock.go:337` keeps the `heldLocks` entry, so its own process is refused afterwards too | RefLock: `\A c \in Clients : held[c] # NoId => Locked(tag) \/ \E t \in Threads : Busy(t) /\ ClientOf[t] = c` |
| a read-modify-write against the published index, not a snapshot (`FORMAT.md:539`) | `helper.go:1974` passes the whole listing, which wins the merge | RefIndex: `[][\A w \in Writers : Write(w) /\ call[w].kind = "push" /\ Orderly /\ index.there => \A r \in Refs \ {call[w].ref} : index'.refs[r] = index.refs[r]]_vars`, which holds under `~WholeListing` |
| a push does not drop refs of others (`oci.go:1118`) | after failed reads `oci.go:1305` goes on with none | RefIndex: `UpdatesAreAtomic`, with `Orderly` less `~call[w].blind` |
| whatever relies on a lock also re-reads (`FORMAT.md:731`) | `DeleteRef` (`oci.go:1630`) does not | RefIndex: the same, less `~LockLapses` |
| the re-check catches every change (`oci.go:1213`) | it compares digests; an index that came back to what it was passes | RefIndex: the same, less `~Skewed(w)` |
| a lease is a compare-and-swap (`helper.go:2082`) | it is compared with the listing (`helper.go:1777`) | PushBatch: `UnracedKeepsLease` without the condition on `before` |
| only refs that were removed leave the index (`oci.go:1120`) | `helper.go:1738` marks a deletion before it is tried | PushBatch: `pc[c] = "answer" /\ report[c][r] = "error" /\ Deletes(c, r) => index[r] = before[c].index[r]` |
| lock waits retry until `maxWait` (`lock.go:367`) | a second deletion of one batch is refused by its own process at once (`helper.go:1741`) | PushBatch, with the setting `By({k1}, AllModes, 1, {})`: `pc[c] = "answer" /\ Deletes(c, r) => report[c][r] # "error"` |
| a failed atomic batch has not touched the index (`helper.go:2329`) | its deletions have (`helper.go:2214`) | PushBatch: `Failed(c) => index = before[c].index` |
| a failed batch leaves no tag advanced (`helper.go:2331`) | it does when the index update fails (`helper.go:2371`) or a push's answer is lost | PushBatch: `RollbackRestores` without its condition on `Faults` |
| pack bases are not pruned (`FORMAT.md:326`) | a push under way may have been cut against a commit that is pruned before it reaches the index (`gc.go:232`) | Compaction: `Closed` without `Alone` |
| a commit manifest is not rewritten (`FORMAT.md:240`) | pushes from two processes do, with other bases (`oci.go:1926`) | Compaction: `[][\A p \in Pushers : PushCommit(p) /\ push[p].to \in DOMAIN manifest => manifest' = manifest]_vars` |
| a chain that is "stale, truncated, or absent costs round trips and never correctness" (`helper.go:861`) | every commit the chain leads to is queued (`helper.go:865`) and one that is not served ends the fetch (`helper.go:920`); compaction prunes (`gc.go:218`) before it replaces the chain (`gc.go:289`). Compaction's own hydration follows the same chain (`hydrate.go:112`), so a run that stopped in between is repaired by one from a clone that has the history, or by a later push or run that cannot read the chain | run `Compaction_chain`; `Closed` says what may be missing |
| republishing takes no push back (`gc.go:285`) | the second reading is a snapshot too (`gc.go:289`) | Compaction: `[][Republish => \A r \in DOMAIN index : index'[r] = index[r]]_vars` |
| a fetch brings its LFS objects, or the clone "looks complete, passes fsck, and is wrong" (`helper.go:1567`) | an object that is not in the pusher's LFS store is skipped with a warning (`helper.go:1359`), and later pushes scan only what their own packs bring in, so none makes up for it; a consolidated manifest has no layer beside the pack and its index (`gc.go:332`), so after a compaction no object of the rewritten history is listed at all; a fetch repeated after a failed download skips what is local (`helper.go:1559`); a snapshot has pointers from earlier pushes (`helper.go:1415`) | Compaction: `LFSKept` with `forgone` less what `PushCommit`, or `RewriteCommit`, adds to it; Readers: `pc = "ok" => \A c \in wants : Tree[c] \intersect Pointers \subseteq lfs` |
| a snapshot is always better (`helper.go:1081`) | a commit it brought is later taken for one with everything behind it | Readers: `FetchedIsWhole` without `~Snapshots` |
| a local commit needs nothing behind it (`helper.go:810`) | a shallow fetch that fails before it records the boundary leaves one that does | Readers: `GapsAreShallow` without `~Faults`, with the setting `Of(WellFormed(Line), Line, TRUE, 4, 2, TRUE)` (snapshots, and transfers that fail) |
| "a commit already on disk needs neither its pack nor the bases behind it" (`helper.go:810`) | a merge fetched whole over a snapshot of one side stops at that side; what its other side rests on may be missing too, and only the first side is recorded as shallow | Readers: `reader = "fetch" /\ pc # "begin" /\ ~Faults => \A x \in commits : (\E y \in Ancestors[x] \ commits : \A z \in Ancestors[x] \ {y} : y \notin Ancestors[z]) => x \in shallow`, which asks that whoever lacks a parent is shallow itself |
| bases come before what is cut against them (`hydrate.go:108`) | a commit is placed where it is first met (`hydrate.go:160`) | Hydrate, in Readers: `[][\A c \in Commits : Import(c) => bases[c] \subseteq store]_vars` |
| compaction needs the registry alone (`pkg/cli/gc.go:27`) | an annotated tag is looked up by its tag object (`hydrate.go:118`) | Hydrate, in Readers: `pc = "failed" => \E c \in seen : c \notin DOMAIN bases` |
| an upload that lost a chunk resumes (`chunked_internal_test.go:240`) | not if the last PATCH arrived and its answer was lost (`chunked.go:119`) | Upload, in OciParts: `[][Probed /\ offset' = size => ~(pc' = "cancel" /\ ~fallsBack')]_vars` |
| no chunk is one byte (`chunked.go:110`) | a registry may keep one byte of a chunk | Upload, in OciParts: `ClosesWhole` with 1 in `Keeps` |
| no LFS lock disappears (`lfs_lock.go:133`) | it does when the index lock lapsed (`lfs_lock.go:205`) or the blob is missing (`lfs_lock.go:86`) | LFSLocks: `LocksLeaveByRelease` without `Serialised` |
| two refs share no tag (`FORMAT.md:186`) | a branch named like a commit id is prefixed with `ref-`, which another branch may be named (`oci.go:803`) | RefTag, in OciParts: `T!TagsAreDistinct` with refs `aaa` and `ref-aaa` and ids of three digits |
| a tag has at most 128 characters (`FORMAT.md:184`) | a lock's tag is longer than its ref's (`lock.go:71`) | RefTag, in OciParts: `part = "tags" => Len(T!LockTag(left)) <= MaxTag` |
| reads of what changes are not cached (`retry.go:62`) | ref tags are not among them (`retry.go:75`) | RetryTransport, in OciParts: `part = "calls" => R!ReadsFresh(BranchTags)` |
| a release refuses a lock it does not hold (`lock.go:344`) | a write whose answer was lost is repeated over what came after it (`retry.go:119`) | RetryTransport, in OciParts: `[][part = "calls" => \A c \in Calls, t \in LockTags : c \in past[t] /\ tag[t] # c => tag'[t] # c]_allVars` |
| a commit stops being shallow once this pack carries its parents (`v2.go:914`) | a boundary commit inside the cut of one branch is reported unshallow (`v2.go:921`), and another branch that rests on it loses its mark; a later fetch that relies on what is behind it is turned down | run `V2Serve_deepen`; V2Serve: `HistoryIsWhole` without `~uneven`, with four requests |
| what is outside the view is not recorded, "so whatever pointed at it becomes a boundary" (`git.go:653`) | nothing points at a want: one that is an annotated tag, or a commit too old or excluded, leaves the slice empty and the boundary with it; the whole history is sent and nothing is reported shallow | V2Serve: `pc = "apply" /\ ~promisor /\ req.cut.n = 1 => Cardinality(answer.pack \intersect Commits) <= Cardinality(req.wants)`; `pc = "apply" /\ ~promisor /\ req.cut.since => answer.pack \intersect Commits \subseteq Recent`; `pc = "apply" /\ ~promisor => answer.pack \intersect ReachAll(ExcludedTips) = {}` |
| on the promisor path "those wants are blobs and trees rather than commits" (`v2.go:903`) | one manifest that cannot be read puts a deepening of branches on it, and the cut is dropped (`v2.go:909`) | V2Serve: `pc = "apply" /\ Deepens(req.cut) => ~promisor`, with a setting of faults and `AllCuts` |
| a caller that has to produce the objects themselves "must pass false" for skipping what is local (`helper.go:814`) | the server skips what is local unless it deepens or the client is shallow (`v2.go:857`): a partial clone's `--refetch --no-filter` counts commits at hand as satisfied, though their blobs are not, and is refused | V2Serve: `RefusalsAreHonest` without its disjunct on `filtered` |
| "its boundary stands, so registering it keeps the traversal inside the history that client actually has" (`v2.go:982-984`) | a client that an uneven deepening left with a hole does not have that history; when it fetches anew, or a manifest cannot be read, the pack is cut from what is staged and what it has, and breaks off at the hole | V2Serve: `RefusalsAreHonest` without its disjunct on `uneven`, with four requests and a ref that shares no history with the others |
| a relative depth is so many generations below the boundary (`v2.go:386`) | counted from each boundary commit by itself: one of them may be reached from another, and a new boundary commit may be one behind which the client already saw more, which it then sees no longer | V2Serve: `SliceIsAsAsked` without the condition `Edge(more) \intersect old \subseteq shallow` |
| dropping an entry from an index is harmless: an absent id means a pack fetched that need not have been (`packindex.go:132`) | it is the other way round: an absent id rules the pack out. What is dropped is no id, or has a negative size, so nothing is lost | PackIndex: `NoFalseAbsence` has the ids that are ids as its condition |
| the counter's drift only moves the point at which the map is dropped (`cache.go:37`) | a drop sets the counter to zero over entries stored while it ran (`cache.go:76`); with deletes among the drops such entries add up from one drop to the next, and the map passes any bound | BoundedMap, in OciParts: `StaysBounded` without `~raced` |

Three more are beyond what the modules hold apart. The transport repeats a POST that opened
an upload session whose answer was lost, and the first session is left to the registry; a
repeated closing PUT can fail an upload that is complete. `refTagDigests` is filled by a push
and never cleared: one client that pushes a ref, deletes it and pushes the same commit again
skips the tag (`oci.go:1996`). `FetchOCIImageIndex` answers for `_index` from the cache
(`oci.go:1041`) that a long-lived client has filled before.

## 9. The plan

Done, in this order: `RefLock`; `RefIndex`; `PushBatch`; `Compaction` over `PackGraph`;
`Fetch`; `Hydrate`; `Upload`; `LFSLocks`; `RefTag`; `RetryTransport`; then `ShallowView` and
`V2Serve`; `AtomicIndex` and the refinement; `PackIndex` and `BoundedMap`; a history with a
merge under `Fetch`; the proofs in section 6.

What would come next:

1. An abstract lock (a client owns, another steals) that `RefLock` implements.
2. What `manifestCache` may answer after a push of the same client, and after one of another.
3. `ls-refs`, with the peeled tags and the symbolic HEAD it announces.
