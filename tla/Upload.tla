------------------------------- MODULE Upload -------------------------------
(***************************************************************************)
(* The upload of a packfile (pkg/oci/chunked.go): in chunks against an     *)
(* upload session, resuming from what the registry says it holds, or whole *)
(* when the registry takes no chunks.                                      *)
(*                                                                         *)
(* A byte is its position in the file.  The registry keeps what a PATCH    *)
(* brought even when it answers it with an error, or not at all.           *)
(***************************************************************************)
EXTENDS Naturals

CONSTANTS
  Sizes,     \* sizes of the blob
  Chunks,    \* UploadChunkSize; 0 turns chunking off
  Attempts,  \* chunkUploadAttempts
  Keeps      \* how much of a PATCH it fails a registry may keep

ASSUME SizesAssumption == Sizes \subseteq Nat \ {0} /\ Chunks \subseteq Nat
ASSUME AttemptsAssumption == Attempts \in Nat \ {0}
ASSUME KeepsAssumption == 0 \in Keeps /\ Keeps \subseteq Nat

VARIABLES
  size, chunk,
  strict,     \* registry: does it refuse a PATCH that does not start where it stopped?
  session,    \* registry: the upload session
  received,   \* registry: how many bytes the session holds
  sound,      \* registry: are they the first bytes of the file?
  accepted,   \* registry: has it answered a PATCH with 202?
  pc,
  offset,
  attempt,
  progressed, \* has a chunk been accepted?
  fallsBack   \* the error is ErrChunkedUnsupported

registry == <<strict, session, received, sound, accepted>>
client == <<pc, offset, attempt, progressed, fallsBack>>
vars == <<size, chunk, registry, client>>

TypeOK ==
  /\ size \in Sizes /\ chunk \in Chunks
  /\ strict \in BOOLEAN /\ sound \in BOOLEAN /\ accepted \in BOOLEAN
  /\ session \in {"none", "open", "closed", "abandoned"}
  /\ received \in Nat
  /\ pc \in {"start", "patch", "probe", "finish", "cancel", "whole", "ok", "failed"}
  /\ offset \in 0 .. size
  /\ attempt \in 0 .. Attempts - 1
  /\ progressed \in BOOLEAN /\ fallsBack \in BOOLEAN

Init ==
  /\ size \in Sizes /\ chunk \in Chunks
  /\ strict \in BOOLEAN
  /\ session = "none" /\ received = 0 /\ sound = TRUE /\ accepted = FALSE
  /\ pc \in {"whole"} \union (IF chunk > 0 /\ size > chunk THEN {"start"} ELSE {})
  /\ offset = 0 /\ attempt = 0
  /\ progressed = FALSE /\ fallsBack = FALSE
-----------------------------------------------------------------------------
\* Mutants of the definitions below.
OwnOffset(n) == offset
NeverUnsupported == FALSE
SilentStop == IF fallsBack' THEN "whole" ELSE "failed"

End == IF offset + chunk < size THEN offset + chunk ELSE size

LastAttempt == attempt = Attempts - 1

\* Before any chunk was accepted "Range: 0-0", one byte in, is read as an empty session.
Resumed(n) == IF ~progressed /\ n <= 1 THEN 0 ELSE n

\* A chunk that fails for good is a refusal to take chunks as long as none was taken.
Unsupported == ~progressed

\* The deferred cancelBlobUpload.
Stop == "cancel"

\* What a registry answers for what it holds: some say "0-0" for nothing.
Reports == IF received = 0 THEN {0, 1} ELSE {received}

\* The registry appends n bytes that the client read from offset on.
Keep(n) ==
  /\ received' = received + n
  /\ sound' = (sound /\ (n = 0 \/ offset = received))

GivesUp ==
  /\ fallsBack' = Unsupported
  /\ pc' = Stop

\* Mutant of the definition below.
EndlessRetry == pc' = "probe" /\ UNCHANGED <<attempt, fallsBack>>

\* Once more, from the probe, unless that was the last attempt.
TriesAgain ==
  \/ LastAttempt /\ GivesUp /\ UNCHANGED attempt
  \/ ~LastAttempt /\ attempt' = attempt + 1 /\ pc' = "probe" /\ UNCHANGED fallsBack
-----------------------------------------------------------------------------
\* startBlobUpload.
Started ==
  /\ pc = "start"
  /\ session' = "open"
  /\ pc' = "patch"
  /\ UNCHANGED <<size, chunk, strict, received, sound, accepted,
                 offset, attempt, progressed, fallsBack>>

\* Refused, which is no failure; or broken, with or without a session behind it.
NotStarted ==
  /\ pc = "start"
  /\ \/ pc' = "whole" /\ fallsBack' = TRUE /\ UNCHANGED session
     \/ pc' = "failed" /\ UNCHANGED fallsBack /\ session' \in {"none", "abandoned"}
  /\ UNCHANGED <<size, chunk, strict, received, sound, accepted,
                 offset, attempt, progressed>>

Patched ==
  /\ pc = "patch"
  /\ strict => offset = received
  /\ Keep(End - offset)
  /\ accepted' = TRUE
  /\ progressed' = TRUE
  /\ offset' = End /\ attempt' = 0
  /\ pc' = IF End < size THEN "patch" ELSE "finish"
  /\ UNCHANGED <<size, chunk, strict, session, fallsBack>>

PatchFails ==
  /\ pc = "patch"
  /\ \E n \in Keeps :
       /\ n <= End - offset
       /\ strict /\ offset # received => n = 0
       /\ Keep(n)
  /\ TriesAgain
  /\ UNCHANGED <<size, chunk, strict, session, accepted, offset, progressed>>

\* blobUploadOffset.  When everything is there already, the loop is left with the error
\* of the PATCH.
Probed ==
  /\ pc = "probe"
  /\ \E n \in Reports :
       /\ offset' = IF Resumed(n) < size THEN Resumed(n) ELSE size
       /\ IF Resumed(n) < size THEN pc' = "patch" /\ UNCHANGED fallsBack ELSE GivesUp
  /\ UNCHANGED <<size, chunk, registry, attempt, progressed>>

ProbeFails ==
  /\ pc = "probe"
  /\ TriesAgain
  /\ UNCHANGED <<size, chunk, registry, offset, progressed>>

\* finishBlobUpload: the registry checks the digest of what it holds.
Finished ==
  /\ pc = "finish"
  /\ sound /\ received = size
  /\ session' = "closed"
  /\ pc' = "ok"
  /\ UNCHANGED <<size, chunk, strict, received, sound, accepted,
                 offset, attempt, progressed, fallsBack>>

\* Refused, broken, or done with its answer lost.
NotFinished ==
  /\ pc = "finish"
  /\ session' \in {"open"} \union (IF sound /\ received = size THEN {"closed"} ELSE {})
  /\ fallsBack' = FALSE
  /\ pc' = Stop
  /\ UNCHANGED <<size, chunk, strict, received, sound, accepted,
                 offset, attempt, progressed>>

\* cancelBlobUpload, best effort; pushPackfileBlob then falls back or returns the error.
Cancel ==
  /\ pc = "cancel"
  /\ session' \in IF session = "open" THEN {"closed", "abandoned"} ELSE {session}
  /\ pc' = IF fallsBack THEN "whole" ELSE "failed"
  /\ UNCHANGED <<size, chunk, strict, received, sound, accepted,
                 offset, attempt, progressed, fallsBack>>

\* Repo.Push: the blob in one request.
PushWhole ==
  /\ pc = "whole"
  /\ pc' \in {"ok", "failed"}
  /\ UNCHANGED <<size, chunk, registry, offset, attempt, progressed, fallsBack>>

Next ==
  \/ Started \/ NotStarted \/ Patched \/ PatchFails \/ Probed \/ ProbeFails
  \/ Finished \/ NotFinished \/ Cancel \/ PushWhole

Spec == Init /\ [][Next]_vars

\* Every request is answered or fails.
FairSpec == Spec /\ WF_vars(Next)
-----------------------------------------------------------------------------
\* The session that is closed holds the file: no retry sent a byte twice or left one out,
\* whatever became of the PATCHes it retried ("re-sending from the wrong offset produces a
\* corrupt blob that only fails at the closing PUT", chunked.go:98-100).
ClosesWhole == pc = "finish" => sound /\ received = size

\* The push fails without a try at sending the blob whole only if the registry took a chunk,
\* or never answered the first request ("chunking must never turn a push that used to
\* succeed into one that fails", chunked.go:400-401).
RefusalFallsBack ==
  [][pc = "cancel" /\ pc' = "failed" => accepted]_vars

\* The upload ends, whatever the registry fails and keeps, and leaves it no session that nobody
\* told it was over ("a push that gives up says so", chunked.go:73).
UploadEnds == <>[](pc \in {"ok", "failed"} /\ session # "open")
=============================================================================
