------------------------------ MODULE OciParts ------------------------------
(****************************************************************************)
(* Five parts of package oci that share no state, side by side: the chunked *)
(* upload, the tags of refs, the index of a packfile, the bounded cache and *)
(* the retry transport.  A behaviour has one of them, the others rest.      *)
(****************************************************************************)
EXTENDS Upload, Integers, Sequences, FiniteSets, TLC

CONSTANTS
  Refs, MaxTag, IdLength, NoRef,
  Ids, MaxInt64, Entries, Wants,
  Goroutines, Keys, Limit, Bound,
  Calls, IndexTags, LockTags, BranchTags, NoCall, MaxRetries

ASSUME PartsAssumption ==
  /\ \A r \in Refs : /\ r \in [ns : {"heads", "tags", "refs", "other"}, name : Seq(STRING)]
                     /\ r.name # <<>>
  /\ NoRef \notin Refs /\ MaxTag \in Nat /\ IdLength \in Nat
  \* A cut tag has room for "_h_ref-" and the digest (128 characters), and so has "ref-" and an
  \* id (at most 64).
  /\ MaxTag >= 8 /\ MaxTag >= IdLength + 4
  /\ Ids \subseteq [digits : Seq(Int), hex : BOOLEAN]
  /\ \A list \in Entries : list \in Seq([oid : Ids, size : Int])
  /\ Wants \subseteq (SUBSET Ids) \ {{}} /\ MaxInt64 \in Nat
  /\ IsFiniteSet(Goroutines) /\ Goroutines # {} /\ Limit \in Nat \ {0} /\ Bound \in Nat
  /\ MaxRetries \in Nat /\ NoCall \notin Calls

VARIABLES
  part,
  left, right,
  entries, blob, wants, contains, told,
  held, count, step, key, due, raced,
  request, tag, past, place, retries, sent, delivered, cancelled, answer, open, got, noted

T == INSTANCE RefTag
I == INSTANCE PackIndex
B == INSTANCE BoundedMap
R == INSTANCE RetryTransport WITH pc <- place, attempt <- retries, held <- noted

tags == <<left, right>>
index == <<entries, blob, wants, contains, told>>
map == <<held, count, step, key, due, raced>>
calls == <<request, tag, past, place, retries, sent, delivered, cancelled, answer, open, got, noted>>
allVars == <<part, vars, tags, index, map, calls>>

UploadRests ==
  /\ size = 0 /\ chunk = 0 /\ strict = FALSE /\ session = "none" /\ received = 0 /\ sound = TRUE
  /\ accepted = FALSE /\ pc = "ok" /\ offset = 0 /\ attempt = 0 /\ progressed = FALSE
  /\ fallsBack = FALSE
TagsRest == left = NoRef /\ right = NoRef
IndexRests == entries = <<>> /\ blob = I!NoBlob /\ wants = {} /\ contains = TRUE /\ told = <<>>
MapRests == held = {} /\ count = 0 /\ step = <<>> /\ key = <<>> /\ due = <<>> /\ raced = FALSE
CallsRest ==
  /\ request = <<>> /\ tag = <<>> /\ past = <<>> /\ place = <<>> /\ retries = <<>> /\ sent = <<>>
  /\ delivered = <<>> /\ cancelled = <<>> /\ answer = <<>> /\ open = <<>> /\ got = <<>> /\ noted = <<>>

PartsInit ==
  \/ part = "upload" /\ Init /\ TagsRest /\ IndexRests /\ MapRests /\ CallsRest
  \/ part = "tags" /\ T!Init /\ UploadRests /\ IndexRests /\ MapRests /\ CallsRest
  \/ part = "index" /\ I!Init /\ UploadRests /\ TagsRest /\ MapRests /\ CallsRest
  \/ part = "map" /\ B!Init /\ UploadRests /\ TagsRest /\ IndexRests /\ CallsRest
  \/ part = "calls" /\ R!Init /\ UploadRests /\ TagsRest /\ IndexRests /\ MapRests

UploadStep == part = "upload" /\ Next /\ UNCHANGED <<part, tags, index, map, calls>>
TagsStep == part = "tags" /\ T!Next /\ UNCHANGED <<part, vars, index, map, calls>>
IndexStep == part = "index" /\ I!Next /\ UNCHANGED <<part, vars, tags, map, calls>>
MapStep == part = "map" /\ B!Next /\ UNCHANGED <<part, vars, tags, index, calls>>
CallsStep == part = "calls" /\ R!Next /\ UNCHANGED <<part, vars, tags, index, map>>

PartsNext == UploadStep \/ TagsStep \/ IndexStep \/ MapStep \/ CallsStep

\* Every request of an upload is answered or fails.
PartsSpec == PartsInit /\ [][PartsNext]_allVars /\ WF_allVars(UploadStep)
-----------------------------------------------------------------------------
\* The properties of the parts, for the behaviours that have the part: "two distinct refs
\* MUST NOT share a tag" (FORMAT.md:186), nor does a ref with a lock, an index or a commit, and
\* a registry takes every tag (reftag.go:10-11),
TagsAreApart == part = "tags" => T!TagsAreDistinct /\ T!TagsAreNotTaken /\ T!TagsFit

\* "A false absence is the one answer this must never give" (packindex.go:125),
NoFalseAbsence == part = "index" => I!NoFalseAbsence

\* "A size is either known or it is not" (packindex.go:233),
SizesAreRecorded == part = "index" => I!SizesAreRecorded

\* the caches are maps "that will not grow without limit" (cache.go:24),
StaysBounded == part = "map" => B!StaysBounded

\* the body of a request that cannot be rewound goes out once (retry.go:97),
OneShotSentOnce == part = "calls" => R!OneShotSentOnce

\* RoundTrip "must never hand back a response whose body it has already closed"
\* (retry.go:83-84),
ReturnedOpen == part = "calls" => R!ReturnedOpen

\* and no read of a lock or an index takes what a cache still has (retry.go:66).
MetadataReadsFresh == part = "calls" => R!MetadataReadsFresh
=============================================================================
