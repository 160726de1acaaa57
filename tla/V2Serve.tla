------------------------------ MODULE V2Serve ------------------------------
(***************************************************************************)
(* The protocol v2 server (pkg/helper/v2.go, v2objectinfo.go): one client  *)
(* repository sends request after request - fetches, whole, deepening or   *)
(* filtered, the lazy fetches of a partial clone, and questions about the  *)
(* sizes of objects - and the helper stages packfiles in a scratch store   *)
(* whose alternate is that repository, cuts the answer and throws the rest *)
(* away.                                                                   *)
(*                                                                         *)
(* The walk of the pack-base graph is the one Fetch takes apart; here it   *)
(* is one step.  git pack-objects and git's own end are external: they are *)
(* what v2.go's comments and arguments rely on.  A ref's tip always has a  *)
(* manifest; a base may be missing.                                        *)
(***************************************************************************)
EXTENDS ShallowView, Sequences, Functions

CONSTANTS
  Blobs,
  Tree,      \* the blobs of each commit's tree
  Tags,      \* annotated tag objects
  Peeled,    \* the commit each of them names
  Refs,      \* the published refs: name to [sha, tag]
  RefOrder,  \* their names as orderRefsByLikelihood sorts them: branches, then others
  NoTag,
  NoRef,     \* a name that is not published
  Settings   \* the settings to choose from, numbered

Oids == Commits \union Blobs \union Tags
Names == DOMAIN Refs
Advertised == {IF Refs[r].tag # NoTag THEN Refs[r].tag ELSE Refs[r].sha : r \in Names}

\* n: generations, 0 for no depth.  not: the refs --shallow-exclude names.
Cut == [n : Steps, relative : BOOLEAN, since : BOOLEAN, not : SUBSET (Names \union {NoRef})]

ASSUME ObjectsAssumption ==
  /\ Tree \in [Commits -> SUBSET Blobs] /\ Peeled \in [Tags -> Commits]
  /\ Commits \intersect Tags = {} /\ Blobs \intersect (Commits \union Tags) = {}
ASSUME RefsAssumption ==
  /\ \A r \in Names : Refs[r].sha \in Commits /\ Refs[r].tag \in Tags \union {NoTag}
  /\ \A r \in Names : Refs[r].tag # NoTag => Peeled[Refs[r].tag] = Refs[r].sha
  /\ RefOrder \in Seq(Names) /\ Range(RefOrder) = Names /\ NoRef \notin Names /\ NoTag \notin Tags

\* graphs: the registry's manifests, bases by commit.  indexes: which manifests may
\* publish a pack index.  heads: what HEAD may name.  filters: may the clone be a partial
\* one?  wants, cuts: what fetches may ask for, and the ways to ask for less than all that
\* is behind it.  anew: may they be --refetch --no-filter?  sizes: what object-info may
\* ask about.  requests: bound on the requests in a behaviour.  faults: may a transfer fail?
ASSUME SettingsAssumption ==
  \A s \in Range(Settings) :
    /\ \A g \in s.graphs : Partial(g, Commits, SUBSET Commits)
    /\ \A g \in s.graphs : \A c \in DOMAIN g : g[c] \subseteq Ancestors[c]
    /\ \A g \in s.graphs, r \in Names : Refs[r].sha \in DOMAIN g
    /\ s.heads \subseteq Names /\ s.filters \subseteq BOOLEAN /\ s.anew \subseteq BOOLEAN
    /\ s.wants \subseteq (SUBSET Advertised) \ {{}} /\ s.sizes \subseteq (SUBSET Oids) \ {{}}
    /\ s.cuts \subseteq Cut /\ s.faults \in BOOLEAN /\ s.requests \in Nat

VARIABLES
  setting,  \* the setting of this behaviour
  bases,    \* registry: the pack bases each commit manifest names
  indexed,  \* registry: the manifests that publish a pack index
  head,     \* registry: the branch HEAD names
  have,     \* client: the objects in its store
  shallow,  \* client: $GIT_DIR/shallow
  tips,     \* client: what its refs point at
  filtered, \* client: is it a partial clone?
  pc,
  req,      \* the request being served
  stage,    \* the objects in the staging area
  todo,     \* stageUntilFound: the refs still to search
  promisor, \* the wants did not resolve
  answer,   \* the pack and the shallow-info of the answer
  asked,    \* requests so far (bound)
  failed,   \* did a transfer fail in this request?
  uneven    \* has a deepening by anything but a depth been answered?

registry == <<bases, indexed, head>>
client == <<have, shallow, tips, filtered>>
scratch == <<stage, todo, promisor, answer>>
vars == <<setting, registry, client, pc, req, scratch, asked, failed, uneven>>

Faults == Settings[setting].faults

NoCut == [n |-> 0, relative |-> FALSE, since |-> FALSE, not |-> {}]

Request == [kind : {"fetch", "lazy", "info"}, wants : SUBSET Oids, cut : Cut,
            haves : SUBSET Commits, filter : BOOLEAN]
NoRequest == [kind |-> "fetch", wants |-> {}, cut |-> NoCut, haves |-> {}, filter |-> FALSE]
Answer == [pack : SUBSET Oids, shallow : SUBSET Commits, unshallow : SUBSET Commits]
NoAnswer == [pack |-> {}, shallow |-> {}, unshallow |-> {}]

\* Where a request may end: served; refused with an ERR packet ahead of the packfile;
\* broken off on band 3; or delivered and turned down by git's connectivity check.
Ends == {"served", "refused", "broken", "rejected"}

TypeOK ==
  /\ bases \in Settings[setting].graphs /\ indexed \subseteq DOMAIN bases /\ head \in Names
  /\ have \subseteq Oids /\ shallow \subseteq Commits /\ tips \subseteq Oids
  /\ filtered \in BOOLEAN
  /\ pc \in {"idle", "resolve", "sizes", "search", "check", "pack", "apply"} \union Ends
  /\ req \in Request
  /\ stage \subseteq Oids /\ todo \in Seq(Names) /\ promisor \in BOOLEAN
  /\ answer \in Answer
  /\ asked \in 0 .. Settings[setting].requests
  /\ failed \in BOOLEAN /\ uneven \in BOOLEAN

Init ==
  /\ setting \in DOMAIN Settings
  /\ bases \in Settings[setting].graphs
  /\ indexed \in {i \intersect DOMAIN bases : i \in Settings[setting].indexes}
  /\ head \in Settings[setting].heads
  /\ have = {} /\ shallow = {} /\ tips = {}
  /\ filtered \in Settings[setting].filters
  /\ pc = "idle" /\ req = NoRequest
  /\ stage = {} /\ todo = <<>> /\ promisor = FALSE /\ answer = NoAnswer
  /\ asked = 0 /\ failed = FALSE /\ uneven = FALSE
-----------------------------------------------------------------------------
TreesOf(S) == UNION {Tree[c] : c \in S}
CommitsOf(S) == (S \intersect Commits) \union {Peeled[t] : t \in S \intersect Tags}

\* The manifest a want leads to: a tag object's is its ref's.
Manifest(o) == IF o \in Tags THEN Peeled[o] ELSE o
Served(o) == o \notin Blobs /\ Manifest(o) \in DOMAIN bases

\* What the packfile of c carries.
PackOf(c) ==
  LET cut == ReachAll(bases[c]) IN
  Packed(c, bases[c]) \union (TreesOf(Reach(c)) \ TreesOf(cut))
    \union {t \in Tags : Peeled[t] = c}
PacksOf(S) == UNION {PackOf(Manifest(o)) : o \in S}

\* hasLocally and the shortcut of resolvePackGraph: only commits are looked for.
Local(o) == o \in have \intersect Commits

\* The manifests behind S; those at hand end the walk when skip is TRUE.
Behind(o, skip) == IF Served(o) /\ ~(skip /\ Local(o)) THEN bases[Manifest(o)] ELSE {}
Named(S, skip) ==
  LET Whole == {T \in SUBSET Commits : \A o \in S \union T : Behind(o, skip) \subseteq T}
  IN  S \union {c \in Commits : \A T \in Whole : c \in T}

\* resolvePackGraph: every manifest is read, or none is used.
Resolves(S, skip) == \A o \in Named(S, skip) : Served(o) \/ (skip /\ Local(o))
Graph(S, skip) == {o \in Named(S, skip) : ~(skip /\ Local(o))}

View == stage \union have

\* shallowArgs.wants.
Deepens(cut) == cut.n > 0 \/ cut.since \/ cut.not # {}
ExcludedTips == {Refs[r].sha : r \in req.cut.not \intersect Names}
-----------------------------------------------------------------------------
\* Mutants of the definitions below.
OldBoundary == shallow
KeepsHaves == req.haves
LocalSearch(r) == Graph({Refs[r].sha}, TRUE)
OneIndexRulesOut(g) ==
  /\ g # {}
  /\ \E o \in g : Manifest(o) \in indexed /\ PackOf(Manifest(o)) \intersect req.wants = {}
TryAgain(s) == s

\* buildPackForWants: stopping at commits at hand is sound when what is behind them is.
SkipLocal == ~Deepens(req.cut) /\ shallow = {}

\* A relative depth counts from the client's boundary, which is level zero.
RelativeDepth(n) == n + 1

\* shallowBoundary, over the staged view.
Relative == req.cut.relative /\ shallow # {}
Rules ==
  (IF req.cut.n = 0 THEN {}
   ELSE {AtDepth(IF Relative THEN RelativeDepth(req.cut.n) ELSE req.cut.n)})
  \union (IF req.cut.since THEN {Since} ELSE {})
  \union (IF req.cut.not = {} THEN {} ELSE {Excluding(Reachable(View \intersect Commits, ExcludedTips))})

\* A tag object is no commit, and the walk does not start at it.
FromWants == req.cut.n = 0 \/ ~Relative
WalkFrom == IF FromWants THEN req.wants \intersect Commits ELSE shallow

\* A deepening by a depth, from the wants or from the boundary, and by nothing else.
OnlyDepth == req.cut.n > 0 /\ ~req.cut.since /\ req.cut.not = {}
ByDepth == OnlyDepth /\ FromWants
ByMore == OnlyDepth /\ ~FromWants
Deepening == Deepens(req.cut) /\ ~promisor
Slice == IF Deepening THEN Within(View \intersect Commits, WalkFrom, AllOf(Rules)) ELSE {}

\* What pack-objects is told: the commits it treats as parentless, and what it leaves out.
Registered == IF Deepening THEN answer.shallow ELSE shallow
Excluded == IF promisor \/ Deepening THEN {} ELSE {h \in req.haves : Local(h)}

\* pack-objects traverses when told --revs, and when told --thin, which git always asks
\* for.  It fails on an object it cannot read.
Sent == Visible(CommitsOf(req.wants), Registered) \ Visible(Excluded, Registered)
SentBlobs ==
  IF req.filter THEN {}
  ELSE TreesOf(Sent) \ TreesOf(ParentsOf(Sent) \intersect Visible(Excluded, Registered))
Pack == Sent \union SentBlobs \union (req.wants \ Commits)
PackFails == ~(Pack \subseteq View)

\* graphMayHold: every manifest has an index and none of them lists a want.
RuledOut(g) ==
  g # {} /\ \A o \in g : Manifest(o) \in indexed /\ PackOf(Manifest(o)) \intersect req.wants = {}

Missing == req.wants \ View

\* refsByLikelihood: what HEAD names moves to the front.  The search goes on behind the
\* first of s.
SearchOrder ==
  LET place == CHOOSE i \in DOMAIN RefOrder : RefOrder[i] = head
  IN  [i \in DOMAIN RefOrder |-> IF i > place THEN RefOrder[i]
                                ELSE IF i > 1 THEN RefOrder[i - 1] ELSE head]
Onward(s) == Tail(s)
SearchGraph(r) == Graph({Refs[r].sha}, FALSE)
-----------------------------------------------------------------------------
\* What git checks once a pack is in: everything behind S, down to the boundary, is there.
\* A partial clone may lack blobs.
WholeBehind(S, objects, cut) ==
  /\ S \intersect Tags \subseteq objects
  /\ \A c \in Visible(CommitsOf(S), cut) :
       c \in objects /\ (filtered \/ Tree[c] \subseteq objects)

\* git asks.  A fetch is for refs it does not have, unless it deepens or fetches anew; it
\* sends the commits its refs reach, and on every fetch its boundary.
MayAsk == pc \in {"idle"} \union Ends /\ asked < Settings[setting].requests
Ask(r) ==
  /\ asked' = asked + 1
  /\ req' = r
  /\ pc' = IF r.kind = "info" THEN "sizes" ELSE "resolve"
  /\ failed' = FALSE
  /\ UNCHANGED <<registry, client, scratch, uneven>>

KnownCommits == Visible(CommitsOf(tips), shallow)

AskFetch(W, cut, anew) ==
  /\ MayAsk
  /\ Deepens(cut) \/ anew \/ W \intersect (tips \union KnownCommits) = {}
  /\ cut.relative => shallow # {}
  /\ anew => tips # {} /\ ~Deepens(cut)
  /\ Ask([kind |-> "fetch", wants |-> W, cut |-> cut, filter |-> filtered /\ ~anew,
          haves |-> IF anew THEN {} ELSE KnownCommits])

\* A partial clone comes back for blobs of the commits it has; an object-info may ask
\* about any object.
AskLazily(W) ==
  /\ MayAsk /\ filtered /\ W \subseteq TreesOf(KnownCommits) \ have
  /\ Ask([NoRequest EXCEPT !.kind = "lazy", !.wants = W, !.filter = TRUE])

AskSizes(W) == MayAsk /\ Ask([NoRequest EXCEPT !.kind = "info", !.wants = W])
-----------------------------------------------------------------------------
\* The request is over, and the staging area gone.
End(how) ==
  /\ pc' = how /\ req' = NoRequest
  /\ stage' = {} /\ todo' = <<>> /\ promisor' = FALSE /\ answer' = NoAnswer
Refuse == End("refused") /\ UNCHANGED <<registry, client, asked, uneven>>

\* --shallow-exclude of a ref that is not published.
RefuseExclude ==
  /\ pc = "resolve"
  /\ NoRef \in req.cut.not
  /\ Refuse /\ UNCHANGED failed

Wanted == req.wants \union ExcludedTips

\* The wants, and the refs to exclude, resolve: their packfiles are staged.
StageWants ==
  /\ pc = "resolve" /\ NoRef \notin req.cut.not
  /\ Resolves(Wanted, SkipLocal)
  /\ stage' = PacksOf(Graph(Wanted, SkipLocal))
  /\ pc' = "check"
  /\ UNCHANGED <<registry, client, req, todo, promisor, answer, asked, failed, uneven>>

\* They do not, or a manifest could not be read: this looks like a promisor's fetch.
BeginSearch ==
  /\ pc = "resolve" /\ NoRef \notin req.cut.not
  /\ \/ ~Resolves(Wanted, SkipLocal) /\ UNCHANGED failed
     \/ Faults /\ failed' = TRUE
  /\ promisor' = TRUE
  /\ todo' = SearchOrder
  /\ pc' = "search"
  /\ UNCHANGED <<registry, client, req, stage, answer, asked, uneven>>

\* objectSizes: the store at hand, then the published indexes (of which some, here any,
\* record no sizes), then the search.
Sizes ==
  /\ pc = "sizes"
  /\ \E told \in SUBSET (req.wants \intersect PacksOf({c \in indexed : \E r \in Names :
                           Resolves({Refs[r].sha}, FALSE) /\ c \in SearchGraph(r)})) :
       LET left == req.wants \ (have \union told) IN
       IF left = {} THEN End("served")
       ELSE /\ req' = [req EXCEPT !.wants = left]
            /\ pc' = "search" /\ todo' = SearchOrder
            /\ UNCHANGED <<stage, promisor, answer>>
  /\ UNCHANGED <<registry, client, asked, failed, uneven>>

Searching(r) == pc = "search" /\ todo # <<>> /\ r = Head(todo)
NextRef ==
  /\ todo' = Onward(todo)
  /\ UNCHANGED <<registry, client, pc, req, stage, promisor, answer, asked, uneven>>

\* stageUntilFound: a ref that does not resolve, or that its indexes rule out, is left.
SkipRef(r) ==
  /\ Searching(r)
  /\ \/ ~Resolves({Refs[r].sha}, FALSE) /\ UNCHANGED failed
     \/ RuledOut(SearchGraph(r)) /\ UNCHANGED failed
     \/ Faults /\ failed' = TRUE
  /\ NextRef

\* A ref is staged; the search ends once nothing is missing.
StageRef(r) ==
  /\ Searching(r)
  /\ Resolves({Refs[r].sha}, FALSE)
  /\ RuledOut(SearchGraph(r)) => Faults
  /\ stage' = stage \union PacksOf(SearchGraph(r))
  /\ IF req.wants \subseteq stage' \union have
     THEN pc' = "check" /\ UNCHANGED todo
     ELSE todo' = Onward(todo) /\ UNCHANGED pc
  /\ UNCHANGED <<registry, client, req, promisor, answer, asked, failed, uneven>>

EndSearch ==
  /\ pc = "search" /\ todo = <<>>
  /\ pc' = "check"
  /\ UNCHANGED <<registry, client, req, scratch, asked, failed, uneven>>

\* A packfile, or the list of refs, cannot be had.
TransferFails ==
  /\ Faults
  /\ pc \in {"resolve", "search"}
  /\ failed' = TRUE
  /\ Refuse
-----------------------------------------------------------------------------
\* missingObjects; object-info looks for its sizes in the same place.
RefuseMissing ==
  /\ pc = "check"
  /\ Missing # {}
  /\ Refuse /\ UNCHANGED failed

TellSizes ==
  /\ pc = "check" /\ Missing = {} /\ req.kind = "info"
  /\ End("served")
  /\ UNCHANGED <<registry, client, asked, failed, uneven>>

\* The rest of buildPackForWants: where the history is cut, and the packfile.  The answer
\* is shallow-info, then the packfile.
CutHistory ==
  /\ pc = "check" /\ Missing = {} /\ req.kind # "info"
  /\ \E within \in {Slice} :
       answer' = [answer EXCEPT !.shallow = Edge(within),
                                !.unshallow = (shallow \intersect within) \ Edge(within)]
  /\ uneven' = (uneven \/ (Deepening /\ ~ByDepth))
  /\ pc' = "pack"
  /\ UNCHANGED <<registry, client, req, stage, todo, promisor, asked, failed>>

CutPack ==
  /\ pc = "pack"
  /\ IF PackFails
     THEN End("broken")
     ELSE /\ answer' = [answer EXCEPT !.pack = Pack]
          /\ pc' = "apply" /\ stage' = {} /\ todo' = <<>>
          /\ UNCHANGED <<req, promisor>>
  /\ UNCHANGED <<registry, client, asked, failed, uneven>>

\* git takes the pack in, then its refs and its boundary, if the wants are whole.
Apply ==
  /\ pc = "apply"
  /\ LET objects == have \union answer.pack
         cut == (shallow \union answer.shallow) \ answer.unshallow
     IN  /\ have' = objects
         /\ IF filtered \/ WholeBehind(req.wants, objects, cut)
            THEN /\ shallow' = cut
                 /\ tips' = IF req.kind = "fetch" THEN tips \union req.wants ELSE tips
                 /\ End("served")
            ELSE End("rejected") /\ UNCHANGED <<shallow, tips>>
  /\ UNCHANGED <<registry, filtered, asked, failed, uneven>>
-----------------------------------------------------------------------------
Step ==
  \/ RefuseExclude \/ StageWants \/ BeginSearch \/ Sizes \/ EndSearch
  \/ RefuseMissing \/ TellSizes \/ CutHistory \/ CutPack \/ Apply
  \/ \E r \in Names : SkipRef(r) \/ StageRef(r)

Next ==
  /\ \/ \E W \in Settings[setting].wants, cut \in Settings[setting].cuts,
          anew \in Settings[setting].anew : AskFetch(W, cut, anew)
     \/ \E W \in (SUBSET Blobs) \ {{}} : AskLazily(W)
     \/ \E W \in Settings[setting].sizes : AskSizes(W)
     \/ Step \/ TransferFails
  /\ UNCHANGED setting

Spec == Init /\ [][Next]_vars

\* The helper serves what it has begun.
FairSpec == Spec /\ WF_vars(Step /\ UNCHANGED setting)
-----------------------------------------------------------------------------
\* Behind every ref of the client, down to its boundary, nothing is missing, and git
\* never has to turn a pack down: "Deepening replaces the client's boundary" and drops
\* the haves, an ordinary fetch keeps both (v2.go:971-983).  A deepening by anything but
\* a depth is excepted: what other branches rest on may lose its place in the boundary,
\* and a later pack be turned down for want of it.
HistoryIsWhole ==
  ~uneven => pc # "rejected" /\ WholeBehind(tips, have, shallow)

\* The same without the exception, as the code says it of every deepening: "A commit the
\* client is shallow at stops being shallow once this pack carries its parents"
\* (v2.go:914-915).
DeepenedIsWhole == WholeBehind(tips, have, shallow)

\* The commits up to n steps behind S.
Near(S, n) ==
  LET N[i \in Nat] == IF i = 0 THEN S ELSE N[i - 1] \union ParentsOf(N[i - 1])
  IN  N[n]

\* What the client is about to see of the wants.
Seen == Visible(req.wants, (shallow \union answer.shallow) \ answer.unshallow)

\* What a date and the excluded refs let in.
LetIn == (IF req.cut.since THEN Recent ELSE Commits) \ ReachAll(ExcludedTips)

\* A deepening answers what was asked (git.go:619-660, v2.go:377): a depth is that many
\* generations of every want, counted from the want, or all that is there; a relative one
\* is that many more behind the boundary, unless it ends at a commit behind which the
\* client sees more already; what a date or an excluded ref keeps out is not sent.  Wants
\* that are tags, and those that are kept out themselves, are excepted.
SliceIsAsAsked ==
  LET old == Visible(req.wants, shallow)
      more == Near(shallow, req.cut.n)
  IN
  pc = "apply" /\ Deepening /\ req.wants \subseteq Commits =>
    /\ ByDepth => Seen = Near(req.wants, req.cut.n - 1)
    /\ ByMore /\ shallow \subseteq old /\ Edge(more) \intersect old \subseteq shallow =>
         Seen = old \union more
    /\ FromWants /\ req.wants \subseteq LetIn => answer.pack \intersect Commits \subseteq LetIn

\* The objects that are at hand, or in the packfiles of a ref whose graph is whole.
Obtainable ==
  LET readable == {r \in Names : Resolves({Refs[r].sha}, FALSE)} IN
  have \union UNION {PacksOf(Graph({Refs[r].sha}, FALSE)) : r \in readable}

\* A request is turned down only if it has to be: a transfer failed, an excluded ref is not
\* published, or no ref that can be read holds what is wanted - "nothing known" about a
\* packfile means "cannot be ruled out" (v2.go:1210), and a search does not stop at what
\* the client has.  A partial clone that asks for its filter to be undone is excepted:
\* commits at hand count as satisfied, though their blobs are not.  So is a client whose
\* history an uneven deepening may have left with a hole.
RefusalsAreHonest ==
  [][pc \notin Ends /\ pc' \in {"refused", "broken"} =>
       \/ failed'
       \/ NoRef \in req.cut.not
       \/ ~(req.wants \subseteq Obtainable)
       \/ filtered /\ ~req.filter /\ req.kind = "fetch"
       \/ uneven]_vars

\* Every request is answered, however the search for its objects goes: "An ERR packet
\* stops the fetch and says why" (v2.go:644-645).
RequestsEnd == pc \notin {"idle"} \union Ends ~> pc \in Ends
=============================================================================
