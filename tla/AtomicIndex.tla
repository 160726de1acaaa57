---------------------------- MODULE AtomicIndex ----------------------------
(***************************************************************************)
(* What the published index promises (pkg/oci/oci.go): one object that is  *)
(* updated in single steps.  A client asks for an update, a removal or a   *)
(* HEAD; later it takes effect, once and on the index as it then is, or    *)
(* not at all.  RefIndex, with its reads, re-checks, locks and retries, is *)
(* shown to implement this.                                                *)
(***************************************************************************)
CONSTANTS
  Writers,
  Refs,
  Commits,
  Absent,  \* a ref that is not there
  NoHead   \* no HEAD recorded

VARIABLES
  index,   \* its ref map and its HEAD
  pending  \* what each writer has asked for

vars == <<index, pending>>

RefMap == [Refs -> Commits \union {Absent}]
NoRefs == [r \in Refs |-> Absent]

\* known is laid over the published refs and gone taken out; head is what an update
\* proposes for an index without HEAD, and what a sethead insists on.
Request == [kind : {"update", "remove", "sethead"}, known : RefMap, gone : SUBSET Refs,
            head : Refs \union {NoHead}]
NoRequest == [kind |-> "none", known |-> NoRefs, gone |-> {}, head |-> NoHead]

Settled(head, refs) == IF head # NoHead /\ refs[head] = Absent THEN NoHead ELSE head

\* The first index takes in whatever refs it finds tagged.
Adopted == IF index.there THEN {index.refs} ELSE RefMap

Updated(refs, q) ==
  [r \in Refs |-> IF r \in q.gone THEN Absent
                  ELSE IF q.known[r] # Absent THEN q.known[r] ELSE refs[r]]

NextHead(refs, q) ==
  IF q.kind = "sethead" THEN q.head
  ELSE Settled(IF index.head # NoHead THEN index.head ELSE q.head, refs)

Init ==
  /\ index \in [there : BOOLEAN, refs : RefMap, head : Refs \union {NoHead}]
  /\ Settled(index.head, index.refs) = index.head
  /\ pending = [w \in Writers |-> NoRequest]

Ask(w) ==
  /\ pending[w].kind = "none"
  /\ UNCHANGED index
  /\ pending'[w] \in Request
  /\ pending' = [pending EXCEPT ![w] = pending'[w]]

TakeEffect(w) ==
  /\ pending[w].kind # "none"
  /\ \E refs \in Adopted :
       index' = [there |-> TRUE, refs |-> Updated(refs, pending[w]),
                 head |-> NextHead(Updated(refs, pending[w]), pending[w])]
  /\ pending[w].kind = "sethead" => index'.refs[pending[w].head] # Absent
  /\ pending' = [pending EXCEPT ![w] = NoRequest]

GiveUp(w) ==
  /\ pending[w].kind # "none"
  /\ UNCHANGED index
  /\ pending' = [pending EXCEPT ![w] = NoRequest]

Next == \E w \in Writers : Ask(w) \/ TakeEffect(w) \/ GiveUp(w)

Spec == Init /\ [][Next]_vars
=============================================================================
