---------------------------- MODULE RetryTransport ----------------------------
(***************************************************************************)
(* retryTransport (pkg/oci/retry.go), below every request of the client:   *)
(* requests of several clients, their retries, and the tags they read and  *)
(* write.  A cache between a client and the registry may answer a read     *)
(* that does not forbid it with anything the tag has ever held.            *)
(*                                                                         *)
(* A write of call c puts the value c into its tag.                        *)
(***************************************************************************)
EXTENDS Naturals

CONSTANTS
  Calls,       \* calls of RoundTrip
  IndexTags,   \* _refs, _index and the LFS lock list
  LockTags,    \* tags with LockTagPrefix
  BranchTags,  \* the tags of refs
  NoCall,      \* what a tag holds at first
  MaxRetries   \* maxRetries

VARIABLES
  request,    \* what each call asks for
  tag,        \* registry: what each tag holds
  past,       \* cache: what each tag has held
  pc,
  attempt,
  sent,       \* how often the call has gone out: 2 is twice or more
  delivered,  \* has the registry handled this attempt?
  cancelled,  \* the context of the caller
  answer,
  open,       \* is the body of the last response open?
  got,        \* what a read was answered
  held        \* what the tag of the call has held since the call was first sent

call == <<pc, attempt, sent, delivered, cancelled, answer, open, got, held>>
vars == <<request, tag, past, call>>

Tags == IndexTags \union LockTags \union BranchTags
Values == Calls \union {NoCall}

Request ==
  [verb : {"read"}, tag : Tags, body : {"none"}]
    \union [verb : {"write"}, tag : Tags, body : {"replayable", "one_shot"}]

Responses == {"ok", "refused", "busy"}
Errors == {"broken", "fatal"}

TypeOK ==
  /\ request \in [Calls -> Request]
  /\ tag \in [Tags -> Values]
  /\ past \in [Tags -> SUBSET Values]
  /\ pc \in [Calls -> {"ready", "sent", "waiting", "done"}]
  /\ attempt \in [Calls -> 0 .. MaxRetries]
  /\ sent \in [Calls -> 0 .. 2]
  /\ delivered \in [Calls -> BOOLEAN]
  /\ cancelled \in [Calls -> BOOLEAN]
  /\ answer \in [Calls -> Responses \union Errors \union {"none", "cancelled", "not_rewound"}]
  /\ open \in [Calls -> BOOLEAN]
  /\ got \in [Calls -> Values]
  /\ held \in [Calls -> SUBSET Values]

Init ==
  /\ request \in [Calls -> Request]
  /\ tag = [t \in Tags |-> NoCall]
  /\ past = [t \in Tags |-> {NoCall}]
  /\ pc = [c \in Calls |-> "ready"]
  /\ attempt = [c \in Calls |-> 0]
  /\ sent = [c \in Calls |-> 0]
  /\ delivered = [c \in Calls |-> FALSE]
  /\ cancelled = [c \in Calls |-> FALSE]
  /\ answer = [c \in Calls |-> "none"]
  /\ open = [c \in Calls |-> FALSE]
  /\ got = [c \in Calls |-> NoCall]
  /\ held = [c \in Calls |-> {}]
-----------------------------------------------------------------------------
\* Mutants of the definitions below.
IndexesOnly(t) == t \in IndexTags
AlwaysReplayable(c) == TRUE
DrainedFirst(c, a) == a = "busy"

IsMutableMetadata(t) == t \in IndexTags \union LockTags

Replayable(c) == request[c].body # "one_shot"

LastAttempt(c) == attempt[c] = MaxRetries

NextAttempt(c) == attempt[c] + 1

\* Does the call end with a, or try again?
HandsBack(c, a) == a \notin {"busy", "broken"} \/ LastAttempt(c) \/ ~Replayable(c)

\* Is the body of the response drained and closed?
Drained(c, a) == ~HandsBack(c, a)

\* The body of a request that is sent again comes from GetBody.
Rewinds(c) == attempt[c] > 0 /\ request[c].body = "replayable"

End(c, a) ==
  /\ pc' = [pc EXCEPT ![c] = "done"]
  /\ answer' = [answer EXCEPT ![c] = a]
-----------------------------------------------------------------------------
Send(c) ==
  /\ pc[c] = "ready" /\ ~cancelled[c]
  /\ pc' = [pc EXCEPT ![c] = "sent"]
  /\ sent' = [sent EXCEPT ![c] = IF @ < 2 THEN @ + 1 ELSE 2]
  /\ delivered' = [delivered EXCEPT ![c] = FALSE]
  /\ held' = [held EXCEPT ![c] = @ \union {tag[request[c].tag]}]
  /\ UNCHANGED <<request, tag, past, attempt, cancelled, answer, open, got>>

\* GetBody fails.
NotRewound(c) ==
  /\ pc[c] = "ready" /\ ~cancelled[c] /\ Rewinds(c)
  /\ End(c, "not_rewound")
  /\ UNCHANGED <<request, tag, past, attempt, sent, delivered, cancelled,
                 open, got, held>>

Interrupted(c) ==
  /\ pc[c] \in {"ready", "waiting"} /\ cancelled[c]
  /\ End(c, "cancelled")
  /\ UNCHANGED <<request, tag, past, attempt, sent, delivered, cancelled,
                 open, got, held>>

\* A read is answered by the registry, or by the cache unless it carries no-cache.
DeliverRead(c) ==
  /\ pc[c] = "sent" /\ ~delivered[c] /\ request[c].verb = "read"
  /\ LET t == request[c].tag
     IN \E v \in IF IsMutableMetadata(t) THEN {tag[t]} ELSE past[t] :
          got' = [got EXCEPT ![c] = v]
  /\ delivered' = [delivered EXCEPT ![c] = TRUE]
  /\ UNCHANGED <<request, tag, past, pc, attempt, sent, cancelled, answer,
                 open, held>>

DeliverWrite(c) ==
  /\ pc[c] = "sent" /\ ~delivered[c] /\ request[c].verb = "write"
  /\ LET t == request[c].tag
     IN /\ tag' = [tag EXCEPT ![t] = c]
        /\ past' = [past EXCEPT ![t] = @ \union {c}]
        /\ held' = [d \in Calls |->
             IF request[d].tag = t /\ sent[d] > 0 THEN held[d] \union {c} ELSE held[d]]
  /\ delivered' = [delivered EXCEPT ![c] = TRUE]
  /\ UNCHANGED <<request, pc, attempt, sent, cancelled, answer, open, got>>

\* What may come back.  A gateway may say 503, or the connection break, over a request that
\* the registry has handled.
MayAnswer(c, a) ==
  \/ a = "ok" /\ delivered[c]
  \/ a = "refused" /\ ~delivered[c]
  \/ a \in {"busy", "broken"}
  \/ a = "fatal" /\ (cancelled[c] \/ ~delivered[c])

Answered(c) ==
  /\ pc[c] = "sent"
  /\ \E a \in Responses \union Errors :
       /\ MayAnswer(c, a)
       /\ open' = [open EXCEPT ![c] = a \in Responses /\ ~Drained(c, a)]
       /\ IF HandsBack(c, a) THEN End(c, a)
          ELSE pc' = [pc EXCEPT ![c] = "waiting"] /\ UNCHANGED answer
  /\ UNCHANGED <<request, tag, past, attempt, sent, delivered, cancelled,
                 got, held>>

\* The backoff is over.
Waited(c) ==
  /\ pc[c] = "waiting"
  /\ pc' = [pc EXCEPT ![c] = "ready"]
  /\ attempt' = [attempt EXCEPT ![c] = NextAttempt(c)]
  /\ UNCHANGED <<request, tag, past, sent, delivered, cancelled, answer,
                 open, got, held>>

Cancel(c) ==
  /\ pc[c] # "done" /\ ~cancelled[c]
  /\ cancelled' = [cancelled EXCEPT ![c] = TRUE]
  /\ UNCHANGED <<request, tag, past, pc, attempt, sent, delivered, answer,
                 open, got, held>>

RoundTrip(c) ==
  \/ Send(c) \/ NotRewound(c) \/ Interrupted(c)
  \/ DeliverRead(c) \/ DeliverWrite(c) \/ Answered(c) \/ Waited(c)

Next == \E c \in Calls : RoundTrip(c) \/ Cancel(c)

Spec == Init /\ [][Next]_vars
-----------------------------------------------------------------------------
\* A body that cannot be rewound goes out once, however that ends: a second time it would
\* be empty or the tail of itself.
OneShotSentOnce == \A c \in Calls : request[c].body = "one_shot" => sent[c] <= 1

\* The response that RoundTrip returns still has its body, also the last one of a registry
\* that stays busy ("must never hand back a response whose body it has already closed",
\* retry.go:84-85).
ReturnedOpen ==
  \A c \in Calls : pc[c] = "done" /\ answer[c] \in Responses => open[c]

ReadsFresh(T) ==
  \A c \in Calls :
    answer[c] = "ok" /\ request[c].verb = "read" /\ request[c].tag \in T
      => got[c] \in held[c]

\* A read of a lock or of an index returns something that was there after the read began,
\* whatever a cache still has ("a stale read either sees a lock that has been released or
\* misses one that is held", retry.go:66).
MetadataReadsFresh == ReadsFresh(IndexTags \union LockTags)
=============================================================================
