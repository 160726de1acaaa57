-------------------------- MODULE OciParts_proofs --------------------------
(***************************************************************************)
(* Proofs about the parts of package oci.  The upload, for blobs and       *)
(* chunks of any size and any number of attempts: what is closed is the    *)
(* file, and what was never chunked is sent whole.  The pack index, for    *)
(* any list of entries: a search finds what is there, and a size that is   *)
(* told is the object's.  The transport, for any calls: bodies, responses  *)
(* and what reads may be served.  The cache, for any number of goroutines: *)
(* how large its map can grow.  The tags, for any refs whatever they are   *)
(* called: no two share one, and a registry takes every one of them.       *)
(***************************************************************************)
EXTENDS OciParts, TLAPS, WellFoundedInduction, SequenceTheorems, FiniteSetTheorems

USE SizesAssumption, AttemptsAssumption, KeepsAssumption

\* A chunked upload has chunks.
Chunked == pc \in {"start", "patch", "probe", "finish"} => chunk > 0

\* While a session is fed, it holds the first bytes of the file, and the client is about to
\* send what follows them.  A single byte is not to be told from none.
InStep ==
  pc \in {"start", "patch", "probe", "finish"} =>
    /\ sound /\ received <= size
    /\ pc # "probe" => offset = received
    /\ pc = "start" => received = 0 /\ ~progressed
    /\ pc = "patch" => offset < size
    /\ pc = "finish" => received = size
    /\ IF progressed THEN received > 0 ELSE received # 1

\* An upload that does not fall back has had a chunk accepted.
Taken ==
  /\ progressed => accepted
  /\ pc \in {"start", "patch", "probe"} => ~fallsBack
  /\ pc = "finish" => progressed
  /\ pc = "cancel" /\ ~fallsBack => progressed

LEMMA KeepsSound ==
  ASSUME NEW n, Keep(n)
  PROVE  /\ received' = received + n /\ sound' \in BOOLEAN
         /\ sound' <=> sound /\ (n = 0 \/ offset = received)
BY Zenon DEF Keep

LEMMA EndsOrRetries ==
  ASSUME TypeOK, GivesUp \/ TriesAgain
  PROVE  /\ \/ pc' = "cancel" /\ fallsBack' \in BOOLEAN /\ (fallsBack' <=> ~progressed)
            \/ TriesAgain /\ pc' = "probe" /\ fallsBack' = fallsBack
         /\ TriesAgain => attempt' \in 0 .. Attempts - 1
<1>1. GivesUp => pc' = "cancel" /\ fallsBack' \in BOOLEAN /\ (fallsBack' <=> ~progressed)
  BY Zenon DEF GivesUp, Unsupported, Stop
<1>2. TriesAgain => attempt' \in 0 .. Attempts - 1
  BY DEF TriesAgain, TypeOK, LastAttempt
<1> QED
  BY <1>1, <1>2 DEF TriesAgain

LEMMA TypeCorrect == TypeOK /\ Chunked /\ [Next]_vars => TypeOK' /\ Chunked'
<1> SUFFICES ASSUME TypeOK, Chunked, [Next]_vars
             PROVE  TypeOK' /\ Chunked'
  OBVIOUS
<1> USE DEF TypeOK, Chunked
<1>0. /\ size \in Nat \ {0} /\ chunk \in Nat /\ offset \in Nat /\ received \in Nat
      /\ Keeps \subseteq Nat /\ offset <= size
  OBVIOUS
<1>1. CASE Started
  BY <1>1 DEF Started
<1>2. CASE NotStarted
  BY <1>2 DEF NotStarted
<1>3. CASE Patched
  <2>1. End \in offset .. size
    BY <1>0 DEF End
  <2>2. received' \in Nat /\ sound' \in BOOLEAN
    BY <1>0, <1>3, <2>1, KeepsSound DEF Patched
  <2> QED
    BY <1>0, <1>3, <2>1, <2>2 DEF Patched
<1>4. CASE PatchFails
  <2>1. received' \in Nat /\ sound' \in BOOLEAN
    BY <1>0, <1>4, KeepsSound DEF PatchFails
  <2> QED
    BY <1>0, <1>4, <2>1, EndsOrRetries DEF PatchFails
<1>5. CASE Probed
  <2>1. PICK n \in Reports :
          /\ offset' = IF Resumed(n) < size THEN Resumed(n) ELSE size
          /\ IF Resumed(n) < size THEN pc' = "patch" /\ UNCHANGED fallsBack ELSE GivesUp
    BY <1>5 DEF Probed
  <2>2. Resumed(n) \in Nat
    BY <1>0, <2>1 DEF Resumed, Reports
  <2> QED
    BY <1>0, <1>5, <2>1, <2>2, EndsOrRetries DEF Probed, registry
<1>6. CASE ProbeFails
  BY <1>0, <1>6, EndsOrRetries DEF ProbeFails, registry
<1>7. CASE Finished \/ NotFinished
  BY <1>7 DEF Finished, NotFinished, Stop
<1>8. CASE Cancel \/ PushWhole
  BY <1>8 DEF Cancel, PushWhole, registry
<1>9. CASE UNCHANGED vars
  BY <1>9 DEF vars, registry, client
<1> QED
  BY <1>1, <1>2, <1>3, <1>4, <1>5, <1>6, <1>7, <1>8, <1>9 DEF Next

LEMMA StaysInStep ==
  ASSUME 1 \notin Keeps, TypeOK, Chunked, InStep, [Next]_vars
  PROVE  InStep'
<1> USE DEF InStep
<1>0. /\ size \in Nat \ {0} /\ chunk \in Nat /\ offset \in Nat /\ received \in Nat
      /\ Keeps \subseteq Nat /\ progressed \in BOOLEAN
  BY DEF TypeOK
<1>1. CASE Started
  BY <1>0, <1>1 DEF Started
<1>2. CASE NotStarted \/ NotFinished \/ Cancel \/ PushWhole \/ Finished
  BY <1>2 DEF NotStarted, NotFinished, Stop, Cancel, PushWhole, Finished
<1>3. CASE Patched
  <2>1. chunk > 0 /\ offset < size /\ offset = received
    BY <1>3 DEF Patched, Chunked
  <2>2. End \in Nat /\ End <= size /\ End > offset
    BY <1>0, <2>1 DEF End
  <2>3. received' = End /\ sound'
    BY <1>0, <1>3, <2>1, <2>2, KeepsSound DEF Patched
  <2> QED
    BY <1>0, <1>3, <2>2, <2>3 DEF Patched
<1>4. CASE PatchFails
  <2>1. PICK n \in Keeps : n <= End - offset /\ Keep(n)
    BY <1>4 DEF PatchFails
  <2>2. offset = received /\ offset < size /\ End <= size /\ End \in Nat
    BY <1>0, <1>4 DEF PatchFails, End
  <2>3. received' = received + n /\ sound' /\ n # 1 /\ n \in Nat /\ received' <= size
    BY <1>0, <1>4, <2>1, <2>2, KeepsSound DEF PatchFails
  <2>4. IF progressed THEN received' > 0 ELSE received' # 1
    BY <1>0, <1>4, <2>3 DEF PatchFails
  <2>5. pc' \in {"probe", "cancel"} /\ UNCHANGED <<size, progressed>>
    BY <1>4, EndsOrRetries DEF PatchFails
  <2> QED
    BY <2>3, <2>4, <2>5
<1>5. CASE Probed
  <2>1. PICK n \in Reports :
          /\ offset' = IF Resumed(n) < size THEN Resumed(n) ELSE size
          /\ IF Resumed(n) < size THEN pc' = "patch" /\ UNCHANGED fallsBack ELSE GivesUp
    BY <1>5 DEF Probed
  <2>2. Resumed(n) = received
    BY <1>0, <1>5, <2>1 DEF Probed, Resumed, Reports
  <2> QED
    BY <1>0, <1>5, <2>1, <2>2, EndsOrRetries DEF Probed, registry
<1>6. CASE ProbeFails
  BY <1>6, EndsOrRetries DEF ProbeFails, registry
<1>7. CASE UNCHANGED vars
  BY <1>7 DEF vars, registry, client
<1> QED
  BY <1>1, <1>2, <1>3, <1>4, <1>5, <1>6, <1>7 DEF Next

LEMMA StaysTaken == TypeOK /\ Taken /\ [Next]_vars => Taken'
<1> SUFFICES ASSUME TypeOK, Taken, [Next]_vars
             PROVE  Taken'
  OBVIOUS
<1> USE DEF Taken, TypeOK
<1>1. CASE Started \/ NotStarted \/ Patched
  BY <1>1 DEF Started, NotStarted, Patched
<1>2. CASE PatchFails
  BY <1>2, EndsOrRetries DEF PatchFails
<1>3. CASE Probed
  BY <1>3, EndsOrRetries DEF Probed, registry
<1>4. CASE ProbeFails
  BY <1>4, EndsOrRetries DEF ProbeFails, registry
<1>5. CASE Finished \/ NotFinished \/ Cancel \/ PushWhole
  BY <1>5 DEF Finished, NotFinished, Stop, Cancel, PushWhole, registry
<1>6. CASE UNCHANGED vars
  BY <1>6 DEF vars, registry, client
<1> QED
  BY <1>1, <1>2, <1>3, <1>4, <1>5, <1>6 DEF Next

LEMMA InitiallyInv == Init => TypeOK /\ Chunked /\ InStep /\ Taken
<1> SUFFICES ASSUME Init PROVE TypeOK /\ Chunked /\ InStep /\ Taken
  OBVIOUS
<1>1. /\ size \in Nat \ {0} /\ chunk \in Nat /\ 0 \in 0 .. size /\ 0 \in 0 .. Attempts - 1
      /\ sound /\ ~accepted /\ ~progressed /\ ~fallsBack
      /\ pc \in {"whole", "start"} /\ (pc = "start" => chunk > 0)
  BY DEF Init
<1>2. TypeOK
  BY <1>1 DEF Init, TypeOK
<1> QED
  BY <1>1, <1>2 DEF Init, Chunked, InStep, Taken
-----------------------------------------------------------------------------
\* Every state of an upload and of its session is well-typed: chunks end within the file, and
\* no more attempts are made than there are.
THEOREM UploadTypes == Spec => []TypeOK
BY InitiallyInv, TypeCorrect, PTL DEF Spec

\* A session is closed over the first bytes of the file and all of them, whatever part of
\* the PATCHes that failed the registry kept - one byte excepted, which the probe cannot
\* tell from none.
THEOREM ClosedIsWhole ==
  ASSUME 1 \notin Keeps
  PROVE  Spec => []ClosesWhole
<1>1. TypeOK /\ Chunked /\ InStep /\ [Next]_vars => InStep'
  BY StaysInStep
<1>2. InStep => ClosesWhole
  BY DEF InStep, ClosesWhole
<1> QED
  BY <1>1, <1>2, InitiallyInv, TypeCorrect, PTL DEF Spec

\* A push fails without a try at sending the blob whole only after a chunk was accepted.
THEOREM RefusalsFallBack == Spec => RefusalFallsBack
<1>1. Taken /\ [Next]_vars => [pc = "cancel" /\ pc' = "failed" => accepted]_vars
  <2> SUFFICES ASSUME Taken, Next, pc = "cancel", pc' = "failed"
               PROVE  accepted
    OBVIOUS
  <2>1. ~fallsBack
    BY DEF Next, Started, NotStarted, Patched, PatchFails, Probed, ProbeFails, Finished,
           NotFinished, Cancel, PushWhole
  <2> QED
    BY <2>1 DEF Taken
<1> QED
  BY <1>1, InitiallyInv, TypeCorrect, StaysTaken, PTL DEF Spec, RefusalFallsBack
-----------------------------------------------------------------------------
\* The pack index.
OidType == [digits : Seq(Int), hex : BOOLEAN]
EntryType == [oid : OidType, size : Int]

LEMMA LeastOf ==
  ASSUME NEW S \in SUBSET Nat, S # {}
  PROVE  \E n \in S : \A m \in S : n <= m
<1>1. PICK n \in S : \A m \in S : ~(<<m, n>> \in OpToRel(<, Nat))
  BY NatLessThanWellFounded, WFMin
<1>2. \A m \in S : ~(m < n)
  BY <1>1, Zenon DEF OpToRel
<1> QED
  BY <1>2

\* The byte order is strict.
LEMMA BeforeIsStrict ==
  ASSUME NEW a \in OidType, NEW b \in OidType, I!Before(a, b), I!Before(b, a)
  PROVE  FALSE
<1> DEFINE x == a.digits
           y == b.digits
           Lower(s, t, i) == /\ i \in DOMAIN s \intersect DOMAIN t /\ s[i] < t[i]
                             /\ \A j \in 1 .. i - 1 : s[j] = t[j]
<1>1. x \in Seq(Int) /\ y \in Seq(Int)
  BY DEF OidType
<1>2. ASSUME NEW s \in Seq(Int), NEW t \in Seq(Int), I!IsStrictPrefix(s, t)
      PROVE  Len(s) <= Len(t) /\ s # t /\ \A i \in 1 .. Len(s) : s[i] = t[i]
  <2>1. Len(s) <= Len(t) /\ SubSeq(s, 1, Len(s)) = SubSeq(t, 1, Len(s)) /\ s # t
    BY <1>2 DEF I!IsStrictPrefix, I!IsPrefix
  <2>2. ASSUME NEW i \in 1 .. Len(s) PROVE s[i] = t[i]
    <3>1. SubSeq(s, 1, Len(s))[i] = s[i] /\ SubSeq(t, 1, Len(s))[i] = t[i]
      BY <2>1
    <3> QED
      BY <2>1, <3>1
  <2> QED
    BY <2>1, <2>2
<1>3. I!IsStrictPrefix(x, y) \/ \E i \in DOMAIN x \intersect DOMAIN y : Lower(x, y, i)
  BY DEF I!Before
<1>4. I!IsStrictPrefix(y, x) \/ \E i \in DOMAIN x \intersect DOMAIN y : Lower(y, x, i)
  BY DEF I!Before
<1> HIDE DEF x, y
<1>5. CASE I!IsStrictPrefix(x, y) /\ I!IsStrictPrefix(y, x)
  BY <1>1, <1>2, <1>5
<1>6. CASE \E i \in DOMAIN x \intersect DOMAIN y : Lower(x, y, i) /\ I!IsStrictPrefix(y, x)
  BY <1>1, <1>2, <1>6
<1>7. CASE \E i \in DOMAIN x \intersect DOMAIN y : Lower(y, x, i) /\ I!IsStrictPrefix(x, y)
  <2>1. PICK i \in DOMAIN x \intersect DOMAIN y : y[i] < x[i] /\ I!IsStrictPrefix(x, y)
    BY <1>7
  <2>2. x[i] = y[i] /\ x[i] \in Int
    BY <1>1, <1>2, <2>1
  <2> QED
    BY <2>1, <2>2
<1>8. CASE \E i, k \in DOMAIN x \intersect DOMAIN y : Lower(x, y, i) /\ Lower(y, x, k)
  <2>1. PICK i, k \in DOMAIN x \intersect DOMAIN y : Lower(x, y, i) /\ Lower(y, x, k)
    BY <1>8
  <2>2. i \in Nat \ {0} /\ k \in Nat \ {0} /\ (i < k \/ i = k \/ k < i)
    BY <1>1
  <2>3. x[i] \in Int /\ y[i] \in Int /\ x[k] \in Int /\ y[k] \in Int
    BY <1>1, <2>1
  <2>4. x[i] < y[i] /\ y[k] < x[k]
    BY <2>1
  <2>5. i < k => y[i] = x[i]
    BY <2>1, <2>2
  <2>6. k < i => x[k] = y[k]
    BY <2>1, <2>2
  <2> QED
    BY <2>2, <2>3, <2>4, <2>5, <2>6
<1> QED
  BY <1>3, <1>4, <1>5, <1>6, <1>7, <1>8

LEMMA LowerIsAnId ==
  ASSUME NEW oid \in OidType
  PROVE  I!ToLower(oid) \in OidType
<1>1. \A c \in Int : I!Lower(c) \in Int
  BY DEF I!Lower
<1>2. oid.digits \in Seq(Int)
  BY DEF OidType
<1>3. DOMAIN oid.digits = 1 .. Len(oid.digits) /\ \A i \in DOMAIN oid.digits : oid.digits[i] \in Int
  BY <1>2
<1>4. [i \in DOMAIN oid.digits |-> I!Lower(oid.digits[i])] \in Seq(Int)
  <2> DEFINE n == Len(oid.digits)
             low == [i \in DOMAIN oid.digits |-> I!Lower(oid.digits[i])]
  <2>0. n \in Nat /\ DOMAIN oid.digits = 1 .. n
    BY <1>2, <1>3
  <2> HIDE DEF n
  <2>1. low \in [1 .. n -> Int]
    BY <1>1, <1>3, <2>0
  <2> HIDE DEF low
  <2>2. low \in Seq(Int)
    BY <2>0, <2>1, SeqDef
  <2> QED
    BY <2>2 DEF low
<1> QED
  BY <1>4 DEF I!ToLower, OidType

\* What a published index looks like: entries in order.
IsListing(lines) ==
  /\ lines \in Seq(EntryType)
  /\ I!InOrder(lines)
  /\ \A i \in DOMAIN lines : I!Width(lines[i].oid) = I!Width(lines[1].oid)

LEMMA LowerBoundIs ==
  ASSUME NEW lines, IsListing(lines), NEW want \in OidType
  PROVE  LET i == I!LowerBound(lines, want)
         IN  /\ i \in 1 .. Len(lines) + 1
             /\ i > 1 => I!Before(lines[i - 1].oid, want)
             /\ i <= Len(lines) => ~I!Before(lines[i].oid, want)
<1> DEFINE n == Len(lines)
           Ends(i) == /\ i > 1 => I!Before(lines[i - 1].oid, want)
                      /\ i <= n => ~I!Before(lines[i].oid, want)
           beyond == {i \in 1 .. n + 1 : i <= n => ~I!Before(lines[i].oid, want)}
<1>1. n \in Nat
  BY DEF IsListing
<1>2. n + 1 \in beyond /\ beyond \subseteq Nat
  BY <1>1
<1>3. PICK i \in beyond : \A m \in beyond : i <= m
  BY <1>2, LeastOf
<1>4. i \in 1 .. n + 1 /\ Ends(i)
  <2>1. i \in 1 .. n + 1 /\ (i <= n => ~I!Before(lines[i].oid, want))
    BY <1>3
  <2>2. i > 1 => i - 1 \in 1 .. n + 1 /\ i - 1 \notin beyond
    BY <1>1, <1>2, <1>3, <2>1
  <2> QED
    BY <2>1, <2>2
<1> HIDE DEF beyond
<1> QED
  BY <1>4, Zenon DEF I!LowerBound

\* A search finds the line of what is listed.
LEMMA SearchFinds ==
  ASSUME NEW b, IsListing(b.lines), NEW oid \in OidType,
         NEW k \in DOMAIN b.lines, b.lines[k].oid = I!ToLower(oid)
  PROVE  I!SearchPackIndex(b, oid) # 0
<1> DEFINE want == I!ToLower(oid)
           lines == b.lines
           i == I!LowerBound(lines, want)
<1>1. want \in OidType
  BY LowerIsAnId
<1>2. /\ i \in 1 .. Len(lines) + 1
      /\ i > 1 => I!Before(lines[i - 1].oid, want)
      /\ i <= Len(lines) => ~I!Before(lines[i].oid, want)
  BY <1>1, LowerBoundIs
<1>3. Len(lines) \in Nat /\ DOMAIN lines = 1 .. Len(lines)
  BY DEF IsListing
<1>4. \A j \in DOMAIN lines : lines[j].oid \in OidType
  <2>1. \A j \in DOMAIN b.lines : b.lines[j] \in EntryType
    BY DEF IsListing
  <2> QED
    BY <2>1 DEF EntryType
<1>5. \A m, j \in DOMAIN lines : m < j => I!Before(lines[m].oid, lines[j].oid)
  BY DEF IsListing, I!InOrder
<1>6. k \in DOMAIN lines /\ lines[k].oid = want
  OBVIOUS
<1>7. I!Width(want) = I!Width(lines[1].oid)
  <2>1. \A j \in DOMAIN b.lines : I!Width(b.lines[j].oid) = I!Width(b.lines[1].oid)
    BY DEF IsListing
  <2>2. I!Width(b.lines[k].oid) = I!Width(b.lines[1].oid)
    BY <2>1
  <2> QED
    BY <1>6, <2>2
<1> HIDE DEF i, want, lines
<1>8. ~(i < k)
  BY <1>2, <1>3, <1>5, <1>6
<1>9. ~(k < i)
  <2>1. SUFFICES ASSUME k < i PROVE FALSE
    OBVIOUS
  <2>2. i - 1 \in DOMAIN lines /\ I!Before(lines[i - 1].oid, want)
    BY <1>2, <1>3, <1>6, <2>1
  <2>3. k = i - 1 \/ k < i - 1
    BY <1>2, <1>3, <1>6, <2>1
  <2>4. I!Before(want, lines[i - 1].oid) \/ I!Before(want, want)
    BY <1>5, <1>6, <2>2, <2>3
  <2> QED
    BY <1>1, <1>4, <2>2, <2>4, <2>3, <1>6, BeforeIsStrict
<1>10. i = k /\ i <= Len(lines) /\ i # 0
  BY <1>2, <1>3, <1>6, <1>8, <1>9
<1> QED
  BY <1>6, <1>7, <1>10, Zenon DEF I!SearchPackIndex, i, want, lines

\* A search that finds a line has found the object's.
LEMMA FoundIsListed ==
  ASSUME NEW b, IsListing(b.lines), NEW oid \in OidType, I!SearchPackIndex(b, oid) # 0
  PROVE  /\ I!SearchPackIndex(b, oid) \in DOMAIN b.lines
         /\ b.lines[I!SearchPackIndex(b, oid)].oid = I!ToLower(oid)
<1> DEFINE want == I!ToLower(oid)
           i == I!LowerBound(b.lines, want)
<1>1. want \in OidType
  BY LowerIsAnId
<1>2. i \in 1 .. Len(b.lines) + 1
  BY <1>1, LowerBoundIs
<1>3. I!SearchPackIndex(b, oid) = i /\ i <= Len(b.lines) /\ b.lines[i].oid = want
  BY Zenon DEF I!SearchPackIndex
<1>4. Len(b.lines) \in Nat /\ DOMAIN b.lines = 1 .. Len(b.lines)
  BY DEF IsListing
<1> HIDE DEF i, want
<1>5. i \in DOMAIN b.lines
  BY <1>2, <1>3, <1>4
<1> QED
  BY <1>3, <1>5, Zenon DEF i, want

\* The index of a list: every line is an entry that can be published, and every such entry's
\* object has a line.
Indexes(lines, list) ==
  /\ IsListing(lines)
  /\ \A i \in DOMAIN lines : \E e \in I!Kept(list) : lines[i] = I!Normalised(e)
  /\ \A e \in I!Kept(list) : \E i \in DOMAIN lines : lines[i].oid = I!ToLower(e.oid)

LEMMA NormalisedIs ==
  ASSUME NEW e \in EntryType
  PROVE  /\ I!Normalised(e) \in EntryType
         /\ I!Normalised(e).oid = I!ToLower(e.oid) /\ I!Normalised(e).size = e.size
<1>1. e.oid \in OidType
  BY DEF EntryType
<1>2. I!ToLower(e.oid) \in OidType
  BY <1>1, LowerIsAnId
<1> QED
  BY <1>2 DEF I!Normalised, EntryType

LEMMA ListTyped ==
  ASSUME NEW list \in Entries
  PROVE  list \in Seq(EntryType)
<1> DEFINE E == [oid : Ids, size : Int]
<1>1. list \in Seq(E) /\ Ids \subseteq OidType
  BY PartsAssumption DEF OidType
<1>2. E \subseteq EntryType
  BY <1>1 DEF EntryType
<1> HIDE DEF E
<1>3. Len(list) \in Nat /\ list \in [1 .. Len(list) -> E]
  BY <1>1
<1>4. list \in [1 .. Len(list) -> EntryType]
  BY <1>2, <1>3
<1> QED
  BY <1>3, <1>4, SeqDef

LEMMA EntriesTyped ==
  ASSUME NEW list \in Entries
  PROVE  I!Kept(list) \subseteq EntryType
BY ListTyped DEF I!Kept, I!ToSet

LEMMA EncodedIsIndex ==
  ASSUME NEW list \in Entries, NEW lines \in I!EncodePackIndex(list), lines # <<>>
  PROVE  Indexes(lines, list)
<1> DEFINE es == {I!Normalised(e) : e \in I!Kept(list)}
<1>1. list \in Seq(EntryType)
  BY ListTyped
<1>2. I!Kept(list) \subseteq EntryType
  BY EntriesTyped
<1>3. es \subseteq EntryType
  BY <1>2, NormalisedIs
<1>4. lines \in I!Sorted(list) /\ I!OneWidth(lines)
  BY Zenon DEF I!EncodePackIndex
<1>5. /\ lines \in I!SeqOf(es, Len(list)) /\ I!InOrder(lines)
      /\ \A e \in es : \E i \in DOMAIN lines : lines[i].oid = e.oid
  BY <1>4, Zenon DEF I!Sorted, I!Listings
<1>6. PICK m \in 0 .. Len(list) : lines \in [1 .. m -> es]
  BY <1>5, Zenon DEF I!SeqOf
<1>7. lines \in Seq(EntryType)
  <2>1. m \in Nat /\ lines \in [1 .. m -> EntryType]
    BY <1>1, <1>3, <1>6
  <2> QED
    BY <2>1, SeqDef
<1>8. IsListing(lines)
  BY <1>4, <1>5, <1>7, Zenon DEF IsListing, I!OneWidth
<1>9. ASSUME NEW i \in DOMAIN lines PROVE \E e \in I!Kept(list) : lines[i] = I!Normalised(e)
  BY <1>6, Zenon
<1>10. ASSUME NEW e \in I!Kept(list) PROVE \E i \in DOMAIN lines : lines[i].oid = I!ToLower(e.oid)
  <2>1. PICK i \in DOMAIN lines : lines[i].oid = I!Normalised(e).oid
    BY <1>5, Zenon
  <2> QED
    BY <1>2, <2>1, NormalisedIs, Zenon
<1> QED
  BY <1>8, <1>9, <1>10, Zenon DEF Indexes

\* What is published beside a packfile is its index, or says nothing.
IndexInv ==
  part = "index" =>
    /\ entries \in Entries
    /\ \/ blob = I!NoBlob
       \/ blob.kind = "garbled"
       \/ blob.kind \in {"v1", "v2"} /\ blob.lines # <<>> /\ Indexes(blob.lines, entries)
    /\ wants \subseteq Ids
    /\ I!NoFalseAbsence /\ I!SizesAreRecorded

LEMMA ListedIsFound ==
  ASSUME NEW list \in Entries, NEW b, Indexes(b.lines, list), NEW oid \in Ids,
         NEW e \in I!Kept(list), I!ToLower(e.oid) = I!ToLower(oid)
  PROVE  I!SearchPackIndex(b, oid) # 0
<1>1. PICK k \in DOMAIN b.lines : b.lines[k].oid = I!ToLower(e.oid)
  BY DEF Indexes
<1>2. IsListing(b.lines) /\ oid \in OidType
  BY PartsAssumption DEF Indexes, OidType
<1> QED
  BY <1>1, <1>2, SearchFinds

LEMMA IndexInit == PartsInit => IndexInv
<1> SUFFICES ASSUME PartsInit, part = "index" PROVE IndexInv
  BY DEF IndexInv
<1>1. entries \in Entries /\ blob = I!NoBlob /\ wants = {}
  BY DEF PartsInit, I!Init
<1> QED
  BY <1>1 DEF IndexInv, I!NoFalseAbsence, I!SizesAreRecorded

\* What a reader is told.
LEMMA AskIsAnswered ==
  ASSUME IndexInv, part = "index", NEW oids \in Wants, I!Ask(oids)
  PROVE  I!NoFalseAbsence' /\ I!SizesAreRecorded'
<1>1. oids \subseteq Ids /\ wants' = oids /\ entries' = entries
  BY PartsAssumption DEF I!Ask
<1>2. CASE contains' = TRUE /\ told' = [oid \in oids |-> I!Unknown]
  BY <1>1, <1>2 DEF I!NoFalseAbsence, I!SizesAreRecorded, I!Unknown
<1>3. CASE /\ contains' = I!PackIndexContains(blob, oids) /\ blob # I!NoBlob
           /\ told' = [oid \in oids |-> I!PackIndexSize(blob, oid)]
  <2>1. CASE blob.kind = "garbled"
    <3>1. I!PackIndexContains(blob, oids) /\ \A oid \in oids : I!PackIndexSize(blob, oid) = I!Unknown
      BY <2>1 DEF I!PackIndexContains, I!PackIndexSize, I!Readable, I!NotEmpty
    <3> QED
      BY <1>1, <1>3, <3>1 DEF I!NoFalseAbsence, I!SizesAreRecorded
  <2>2. CASE /\ blob.kind \in {"v1", "v2"} /\ blob.lines # <<>>
             /\ Indexes(blob.lines, entries) /\ entries \in Entries
    <3>1. ASSUME NEW oid \in oids, I!Held(oid)
          PROVE  I!PackIndexContains(blob, oids)
      <4>1. PICK i \in DOMAIN entries : I!Valid(entries[i]) /\ I!ToLower(entries[i].oid) = I!ToLower(oid)
        BY <3>1 DEF I!Held
      <4>2. entries[i] \in I!Kept(entries)
        BY <4>1 DEF I!Kept, I!ToSet
      <4>3. I!SearchPackIndex(blob, oid) # 0
        BY <1>1, <2>2, <4>1, <4>2, ListedIsFound
      <4> QED
        BY <2>2, <4>3 DEF I!PackIndexContains, I!Readable
    <3>2. ASSUME NEW oid \in oids, I!PackIndexSize(blob, oid) # I!Unknown
          PROVE  /\ I!PackIndexSize(blob, oid) \in 0 .. MaxInt64
                 /\ \E i \in DOMAIN entries :
                      /\ I!ToLower(entries[i].oid) = I!ToLower(oid)
                      /\ entries[i].size = I!PackIndexSize(blob, oid)
      <4> DEFINE k == I!SearchPackIndex(blob, oid)
      <4>1. k # 0 /\ I!PackIndexSize(blob, oid) = I!SizeAt(blob.lines[k].size)
        BY <3>2, Zenon DEF I!PackIndexSize
      <4>2. IsListing(blob.lines) /\ oid \in OidType
        BY <1>1, <2>2, PartsAssumption DEF Indexes, OidType
      <4>3. k \in DOMAIN blob.lines /\ blob.lines[k].oid = I!ToLower(oid)
        BY <4>1, <4>2, FoundIsListed
      <4> HIDE DEF k
      <4>4. PICK e \in I!Kept(entries) : blob.lines[k] = I!Normalised(e)
        BY <2>2, <4>3 DEF Indexes
      <4>5. PICK i \in DOMAIN entries : entries[i] = e
        BY DEF I!Kept, I!ToSet
      <4>6. e \in EntryType /\ e.size >= 0
        <5>1. blob.lines[k] \in EntryType
          BY <4>2, <4>3 DEF IsListing
        <5> QED
          BY <4>4, <4>5, <2>2, EntriesTyped DEF I!Kept, I!Valid
      <4>7. I!Normalised(e).oid = I!ToLower(e.oid) /\ I!Normalised(e).size = e.size
        BY <4>6, NormalisedIs
      <4>8. I!PackIndexSize(blob, oid) = e.size /\ e.size <= MaxInt64
        BY <3>2, <4>1, <4>4, <4>6, <4>7, PartsAssumption DEF I!SizeAt, EntryType
      <4> QED
        BY <4>3, <4>4, <4>5, <4>6, <4>7, <4>8, PartsAssumption DEF EntryType
    <3> QED
      BY <1>1, <1>3, <3>1, <3>2 DEF I!NoFalseAbsence, I!SizesAreRecorded, I!Held
  <2> QED
    BY <1>3, <2>1, <2>2 DEF IndexInv
<1> QED
  BY <1>2, <1>3 DEF I!Ask

LEMMA IndexStays == IndexInv /\ [PartsNext]_allVars => IndexInv'
<1> SUFFICES ASSUME IndexInv, [PartsNext]_allVars, part' = "index" PROVE IndexInv'
  BY DEF IndexInv
<1>1. CASE UNCHANGED <<part, index>>
  BY <1>1 DEF IndexInv, index, I!NoFalseAbsence, I!SizesAreRecorded, I!Held
<1>2. ASSUME part = "index", part' = part, NEW kind \in {"v1", "v2", "garbled"}, I!Publish(kind)
      PROVE  IndexInv'
  <2>1. PICK lines \in I!EncodePackIndex(entries) \ {<<>>} :
          blob' = [lines |-> IF kind = "garbled" THEN <<>> ELSE lines, kind |-> kind]
    BY <1>2 DEF I!Publish
  <2>2. entries \in Entries /\ wants = {} /\ UNCHANGED <<entries, wants, contains, told>>
    BY <1>2 DEF I!Publish, IndexInv
  <2>3. Indexes(lines, entries)
    BY <2>1, <2>2, EncodedIsIndex
  <2> QED
    BY <2>1, <2>2, <2>3 DEF IndexInv, I!NoFalseAbsence, I!SizesAreRecorded
<1>3. ASSUME part = "index", part' = part, NEW oids \in Wants, I!Ask(oids)
      PROVE  IndexInv'
  <2>1. I!NoFalseAbsence' /\ I!SizesAreRecorded'
    BY <1>3, AskIsAnswered
  <2>2. wants' \subseteq Ids /\ UNCHANGED <<entries, blob>>
    BY <1>3, PartsAssumption DEF I!Ask
  <2> QED
    BY <1>3, <2>1, <2>2 DEF IndexInv
<1>4. CASE part = "index" /\ part' = part /\ I!Next
  BY <1>2, <1>3, <1>4 DEF I!Next, I!PushPackIndex, I!OtherBuild
<1> QED
  BY <1>1, <1>4 DEF PartsNext, UploadStep, TagsStep, IndexStep, MapStep, CallsStep, allVars, index

\* Whoever wrote the index of a packfile, and however the ids in it and the ids asked for are
\* spelled, a pack that holds an object is not ruled out.
THEOREM NothingIsDenied == PartsSpec => []NoFalseAbsence
<1>1. IndexInv => NoFalseAbsence
  BY DEF IndexInv, NoFalseAbsence
<1> QED
  BY <1>1, IndexInit, IndexStays, PTL DEF PartsSpec

\* A size that a reader is told was recorded for that object, and fits an int64.
THEOREM ToldSizesAreRecorded == PartsSpec => []SizesAreRecorded
<1>1. IndexInv => SizesAreRecorded
  BY DEF IndexInv, SizesAreRecorded
<1> QED
  BY <1>1, IndexInit, IndexStays, PTL DEF PartsSpec
-----------------------------------------------------------------------------
\* The retry transport.

\* A call is what its stage says: one that has not been sent has no answer, and one whose
\* body cannot be rewound never comes back to be sent.
Stages ==
  \A c \in Calls :
  /\ place[c] \in {"sent", "waiting"} => sent[c] > 0
  /\ place[c] = "waiting" => retries[c] < MaxRetries
  /\ place[c] # "done" => answer[c] = "none"
  /\ ~R!Replayable(c) => place[c] # "waiting" /\ sent[c] <= 1
  /\ ~R!Replayable(c) /\ place[c] = "ready" => sent[c] = 0

\* What the tag of a call holds since it was first sent is noted, and so is what a read of
\* a lock or of an index found.
Noted ==
  \A c \in Calls :
  /\ sent[c] > 0 => tag[request[c].tag] \in noted[c]
  /\ place[c] = "sent" /\ delivered[c] /\ request[c].verb = "read"
       /\ R!IsMutableMetadata(request[c].tag) => got[c] \in noted[c]

LEMMA CallsSettings == MaxRetries \in Nat /\ NoCall \notin Calls
  BY PartsAssumption

\* Every step keeps the variables in their types.
LEMMA CallsTyped == R!TypeOK /\ Stages /\ [R!Next]_(R!vars) => R!TypeOK'
<1> SUFFICES ASSUME R!TypeOK, Stages, [R!Next]_(R!vars) PROVE R!TypeOK'
  OBVIOUS
<1> USE CallsSettings DEF R!TypeOK, R!End
<1>1. ASSUME NEW c \in Calls, R!Send(c) PROVE R!TypeOK'
  BY <1>1 DEF R!Send, R!Request, R!Tags
<1>2. ASSUME NEW c \in Calls, R!NotRewound(c) \/ R!Interrupted(c) PROVE R!TypeOK'
  BY <1>2 DEF R!NotRewound, R!Interrupted
<1>3. ASSUME NEW c \in Calls, R!DeliverRead(c) PROVE R!TypeOK'
  <2>1. PICK v \in R!Values : got' = [got EXCEPT ![c] = v]
    BY <1>3 DEF R!DeliverRead, R!Request
  <2>2. QED
    BY <1>3, <2>1 DEF R!DeliverRead
<1>4. ASSUME NEW c \in Calls, R!DeliverWrite(c) PROVE R!TypeOK'
  BY <1>4 DEF R!DeliverWrite, R!Values, R!Request
<1>5. ASSUME NEW c \in Calls, R!Answered(c) PROVE R!TypeOK'
  BY <1>5 DEF R!Answered, R!Responses, R!Errors
<1>6. ASSUME NEW c \in Calls, R!Waited(c) PROVE R!TypeOK'
  BY <1>6 DEF R!Waited, R!NextAttempt, Stages
<1>7. ASSUME NEW c \in Calls, R!Cancel(c) PROVE R!TypeOK'
  BY <1>7 DEF R!Cancel
<1>8. CASE UNCHANGED R!vars
  BY <1>8 DEF R!vars, R!call
<1>9. QED
  BY <1>1, <1>2, <1>3, <1>4, <1>5, <1>6, <1>7, <1>8 DEF R!Next, R!RoundTrip

\* A call is sent again only if it is replayable and not the last attempt.
LEMMA StagesStep == R!TypeOK /\ Stages /\ [R!Next]_(R!vars) => Stages'
<1> SUFFICES ASSUME R!TypeOK, Stages, [R!Next]_(R!vars) PROVE Stages'
  OBVIOUS
<1> USE CallsSettings DEF R!TypeOK, R!End, Stages, R!Replayable
<1>1. ASSUME NEW c \in Calls, R!Send(c) PROVE Stages'
  BY <1>1 DEF R!Send
<1>2. ASSUME NEW c \in Calls, R!NotRewound(c) \/ R!Interrupted(c) PROVE Stages'
  BY <1>2 DEF R!NotRewound, R!Interrupted
<1>3. ASSUME NEW c \in Calls, R!DeliverRead(c) \/ R!DeliverWrite(c) \/ R!Cancel(c) PROVE Stages'
  BY <1>3 DEF R!DeliverRead, R!DeliverWrite, R!Cancel
<1>4. ASSUME NEW c \in Calls, R!Answered(c) PROVE Stages'
  BY <1>4 DEF R!Answered, R!HandsBack, R!LastAttempt
<1>5. ASSUME NEW c \in Calls, R!Waited(c) PROVE Stages'
  BY <1>5 DEF R!Waited
<1>6. CASE UNCHANGED R!vars
  BY <1>6 DEF R!vars, R!call
<1>7. QED
  BY <1>1, <1>2, <1>3, <1>4, <1>5, <1>6 DEF R!Next, R!RoundTrip

\* A body is closed only when the call goes on.
LEMMA ReturnedOpenStep == R!TypeOK /\ R!ReturnedOpen /\ [R!Next]_(R!vars) => R!ReturnedOpen'
<1> SUFFICES ASSUME R!TypeOK, R!ReturnedOpen, [R!Next]_(R!vars) PROVE R!ReturnedOpen'
  OBVIOUS
<1> USE CallsSettings DEF R!TypeOK, R!End, R!ReturnedOpen, R!Responses
<1>1. ASSUME NEW c \in Calls, R!Send(c) \/ R!Waited(c) PROVE R!ReturnedOpen'
  BY <1>1 DEF R!Send, R!Waited
<1>2. ASSUME NEW c \in Calls, R!NotRewound(c) \/ R!Interrupted(c) PROVE R!ReturnedOpen'
  BY <1>2 DEF R!NotRewound, R!Interrupted
<1>3. ASSUME NEW c \in Calls, R!DeliverRead(c) \/ R!DeliverWrite(c) \/ R!Cancel(c)
      PROVE  R!ReturnedOpen'
  BY <1>3 DEF R!DeliverRead, R!DeliverWrite, R!Cancel
<1>4. ASSUME NEW c \in Calls, R!Answered(c) PROVE R!ReturnedOpen'
  <2>1. PICK a : /\ open' = [open EXCEPT ![c] = a \in R!Responses /\ ~R!Drained(c, a)]
                 /\ IF R!HandsBack(c, a) THEN R!End(c, a)
                    ELSE place' = [place EXCEPT ![c] = "waiting"] /\ UNCHANGED answer
    BY <1>4 DEF R!Answered
  <2>2. QED
    BY <2>1 DEF R!Drained
<1>5. CASE UNCHANGED R!vars
  BY <1>5 DEF R!vars, R!call
<1>6. QED
  BY <1>1, <1>2, <1>3, <1>4, <1>5 DEF R!Next, R!RoundTrip

\* Whatever a tag comes to hold while a call is under way is noted for it.
LEMMA NotedStep ==
  R!TypeOK /\ Stages /\ Noted /\ R!MetadataReadsFresh /\ [R!Next]_(R!vars) => Noted' /\ R!MetadataReadsFresh'
<1> SUFFICES ASSUME R!TypeOK, Stages, Noted, R!MetadataReadsFresh, [R!Next]_(R!vars)
             PROVE  Noted' /\ R!MetadataReadsFresh'
  OBVIOUS
<1> USE CallsSettings DEF R!TypeOK, R!End, Noted, R!MetadataReadsFresh, R!ReadsFresh, R!IsMutableMetadata
<1>1. ASSUME NEW c \in Calls, R!Send(c) PROVE Noted' /\ R!MetadataReadsFresh'
  BY <1>1 DEF R!Send
<1>2. ASSUME NEW c \in Calls, R!NotRewound(c) \/ R!Interrupted(c) \/ R!Waited(c) \/ R!Cancel(c)
      PROVE  Noted' /\ R!MetadataReadsFresh'
  BY <1>2 DEF R!NotRewound, R!Interrupted, R!Waited, R!Cancel
<1>3. ASSUME NEW c \in Calls, R!DeliverRead(c) PROVE Noted' /\ R!MetadataReadsFresh'
  BY <1>3 DEF R!DeliverRead, Stages
<1>4. ASSUME NEW c \in Calls, R!DeliverWrite(c) PROVE Noted' /\ R!MetadataReadsFresh'
  BY <1>4 DEF R!DeliverWrite, R!Request
<1>5. ASSUME NEW c \in Calls, R!Answered(c) PROVE Noted' /\ R!MetadataReadsFresh'
  BY <1>5 DEF R!Answered, R!MayAnswer
<1>6. CASE UNCHANGED R!vars
  BY <1>6 DEF R!vars, R!call
<1>7. QED
  BY <1>1, <1>2, <1>3, <1>4, <1>5, <1>6 DEF R!Next, R!RoundTrip

CallsInv ==
  part = "calls" =>
    R!TypeOK /\ Stages /\ Noted /\ R!ReturnedOpen /\ R!MetadataReadsFresh

LEMMA CallsInit == PartsInit => CallsInv
<1> SUFFICES ASSUME R!Init PROVE R!TypeOK /\ Stages /\ Noted /\ R!ReturnedOpen /\ R!MetadataReadsFresh
  BY DEF PartsInit, CallsInv
<1>1. R!TypeOK
  BY PartsAssumption DEF R!Init, R!TypeOK, R!Values
<1> QED
  BY <1>1 DEF R!Init, Stages, Noted, R!ReturnedOpen, R!Responses, R!MetadataReadsFresh, R!ReadsFresh

LEMMA CallsStay == CallsInv /\ [PartsNext]_allVars => CallsInv'
<1> SUFFICES ASSUME CallsInv, [PartsNext]_allVars, part' = "calls"
             PROVE  (R!TypeOK /\ Stages /\ Noted /\ R!ReturnedOpen /\ R!MetadataReadsFresh)'
  BY DEF CallsInv
<1>1. part = "calls" /\ [R!Next]_(R!vars)
  BY DEF PartsNext, UploadStep, TagsStep, IndexStep, MapStep, CallsStep, allVars, calls, R!vars, R!call
<1> QED
  BY <1>1, CallsTyped, StagesStep, ReturnedOpenStep, NotedStep DEF CallsInv

\* Every state of the calls, of the registry's tags and of a cache in between is well-typed.
THEOREM CallTypes == PartsSpec => [](part = "calls" => R!TypeOK)
<1>1. CallsInv => (part = "calls" => R!TypeOK)
  BY DEF CallsInv
<1> QED
  BY <1>1, CallsInit, CallsStay, PTL DEF PartsSpec

\* No body that cannot be rewound goes out twice.
THEOREM OneShots == PartsSpec => []OneShotSentOnce
<1>1. CallsInv => OneShotSentOnce
  BY DEF CallsInv, Stages, OneShotSentOnce, R!OneShotSentOnce, R!Replayable
<1> QED
  BY <1>1, CallsInit, CallsStay, PTL DEF PartsSpec

\* Every response comes back with its body.
THEOREM OpenResponses == PartsSpec => []ReturnedOpen
<1>1. CallsInv => ReturnedOpen
  BY DEF CallsInv, ReturnedOpen
<1> QED
  BY <1>1, CallsInit, CallsStay, PTL DEF PartsSpec

\* No lock and no index is read as it was before the read began.
THEOREM FreshMetadata == PartsSpec => []MetadataReadsFresh
<1>1. CallsInv => MetadataReadsFresh
  BY DEF CallsInv, MetadataReadsFresh
<1> QED
  BY <1>1, CallsInit, CallsStay, PTL DEF PartsSpec
-----------------------------------------------------------------------------
(***************************************************************************)
(* The bounded cache.  A goroutine that drops the map leaves in it what    *)
(* was stored since its Range began, and sets the counter to zero over it. *)
(* What piles up this way is what the goroutines that were about to set    *)
(* the counter to zero let in, each a limit at most: the counter is ranked *)
(* by them, and whoever begins a Range last is ranked last.                *)
(***************************************************************************)
Among(A) == {g \in Goroutines : step[g] \in A}
Clearing == Among({"range", "zero"})
Workers == Cardinality(Goroutines)
Room == Limit + Workers

\* The counter, with what was stored or deleted and is still to be counted.
Tally == count + Cardinality(Among({"count"})) - Cardinality(Among({"uncount"}))
Few(S, rooms) == Cardinality(S) <= rooms * Room + Tally + Workers - Limit

Ranked(rank) ==
  /\ \A g \in Clearing : rank[g] \in 1 .. Cardinality(Clearing)
  /\ \A g, h \in Clearing : g # h => rank[g] # rank[h]
  /\ \A g \in Clearing : Few(held \ due[g], Workers - rank[g])

MapTyped ==
  /\ IsFiniteSet(held) /\ count \in Int
  /\ step \in [Goroutines -> {"idle", "check", "range", "zero", "swap", "count", "remove", "uncount"}]
  /\ due = [g \in Goroutines |-> due[g]]
  /\ \A g \in Goroutines : step[g] = "zero" => due[g] = {}

\* The map's size, where no key was deleted while it was being dropped.
Contained ==
  ~raced =>
    /\ count + Cardinality(Among({"swap", "count"})) <= Room
    /\ Few(held, Workers)
    /\ \E rank \in [Goroutines -> Nat] : Ranked(rank)

LEMMA WorkersFit ==
  /\ IsFiniteSet(Goroutines) /\ Workers \in Nat /\ Room \in Nat /\ Limit \in Nat \ {0}
  /\ \A A : IsFiniteSet(Among(A)) /\ Cardinality(Among(A)) \in 0 .. Workers
<1>1. IsFiniteSet(Goroutines) /\ Limit \in Nat \ {0}
  BY PartsAssumption
<1>2. ASSUME NEW A PROVE IsFiniteSet(Among(A)) /\ Cardinality(Among(A)) \in 0 .. Workers
  <2>1. Among(A) \in SUBSET Goroutines
    BY DEF Among
  <2> QED
    BY <1>1, <2>1, FS_Subset, FS_CardinalityType DEF Workers
<1> QED
  BY <1>1, <1>2, FS_CardinalityType DEF Workers, Room

\* A goroutine's step moves it, and no other, from one place to another.
LEMMA Moves ==
  ASSUME MapTyped, NEW g \in Goroutines, NEW from, NEW to, B!At(g, from, to), NEW A
  PROVE  /\ (from \in A /\ to \in A) \/ (from \notin A /\ to \notin A) =>
              Among(A)' = Among(A)
         /\ from \notin A /\ to \in A =>
              Among(A)' = Among(A) \union {g} /\ g \notin Among(A)
              /\ Cardinality(Among(A)') = Cardinality(Among(A)) + 1
         /\ from \in A /\ to \notin A =>
              Among(A)' = Among(A) \ {g} /\ g \in Among(A)
              /\ Cardinality(Among(A)') = Cardinality(Among(A)) - 1
<1>1. step[g] = from /\ \A h \in Goroutines : step'[h] = IF h = g THEN to ELSE step[h]
  BY DEF B!At, MapTyped
<1>2. IsFiniteSet(Among(A))
  BY WorkersFit
<1>3. CASE (from \in A /\ to \in A) \/ (from \notin A /\ to \notin A)
  BY <1>1, <1>3 DEF Among
<1>4. CASE from \notin A /\ to \in A
  <2>1. Among(A)' = Among(A) \union {g} /\ g \notin Among(A)
    BY <1>1, <1>4 DEF Among
  <2> QED
    BY <1>2, <1>4, <2>1, FS_AddElement
<1>5. CASE from \in A /\ to \notin A
  <2>1. Among(A)' = Among(A) \ {g} /\ g \in Among(A)
    BY <1>1, <1>5 DEF Among
  <2> QED
    BY <1>2, <1>5, <2>1, FS_RemoveElement
<1> QED
  BY <1>3, <1>4, <1>5

LEMMA MapTypedStays == MapTyped /\ [B!Next]_(B!vars) => MapTyped'
<1> SUFFICES ASSUME MapTyped, [B!Next]_(B!vars) PROVE MapTyped'
  OBVIOUS
<1> USE DEF MapTyped, B!At
<1>1. CASE UNCHANGED B!vars
  BY <1>1 DEF B!vars
<1>2. ASSUME NEW g \in Goroutines, B!Call(g) PROVE MapTyped'
  BY <1>2 DEF B!Call
<1>3. ASSUME NEW g \in Goroutines, B!Check(g) PROVE MapTyped'
  BY <1>3 DEF B!Check
<1>4. ASSUME NEW g \in Goroutines, B!ClearKey(g) PROVE MapTyped'
  BY <1>4, FS_RemoveElement DEF B!ClearKey, B!Without
<1>5. ASSUME NEW g \in Goroutines, B!EndRange(g) PROVE MapTyped'
  BY <1>5 DEF B!EndRange
<1>6. ASSUME NEW g \in Goroutines, B!Zero(g) PROVE MapTyped'
  BY <1>6 DEF B!Zero
<1>7. ASSUME NEW g \in Goroutines, B!Swap(g) PROVE MapTyped'
  BY <1>7, FS_AddElement DEF B!Swap
<1>8. ASSUME NEW g \in Goroutines, B!Count(g) PROVE MapTyped'
  BY <1>8 DEF B!Count
<1>9. ASSUME NEW g \in Goroutines, B!Remove(g) PROVE MapTyped'
  BY <1>9, FS_RemoveElement DEF B!Remove, B!Without
<1>10. ASSUME NEW g \in Goroutines, B!Uncount(g) PROVE MapTyped'
  BY <1>10 DEF B!Uncount
<1> QED
  BY <1>1, <1>2, <1>3, <1>4, <1>5, <1>6, <1>7, <1>8, <1>9, <1>10 DEF B!Next

LEMMA TallyIs ==
  MapTyped => /\ Tally \in Int
              /\ Tally <= count + Cardinality(Among({"swap", "count"}))
              /\ \A S \in SUBSET held : IsFiniteSet(S) /\ Cardinality(S) \in Nat
<1> SUFFICES ASSUME MapTyped
             PROVE  /\ Tally \in Int
                    /\ Tally <= count + Cardinality(Among({"swap", "count"}))
                    /\ \A S \in SUBSET held : IsFiniteSet(S) /\ Cardinality(S) \in Nat
  OBVIOUS
<1>1. Among({"count"}) \in SUBSET Among({"swap", "count"})
  BY DEF Among
<1>2. Cardinality(Among({"count"})) <= Cardinality(Among({"swap", "count"}))
  BY <1>1, WorkersFit, FS_Subset
<1>3. \A A : Cardinality(Among(A)) \in Nat
  BY WorkersFit
<1>4. \A S \in SUBSET held : IsFiniteSet(S) /\ Cardinality(S) \in Nat
  BY FS_Subset, FS_CardinalityType DEF MapTyped
<1> QED
  BY <1>2, <1>3, <1>4 DEF Tally, MapTyped

\* The room for some goroutines is that for one less, and one more.
LEMMA RoomsAdd ==
  /\ \A k \in Int : k * Room \in Int /\ (k + 1) * Room = k * Room + Room
  /\ \A j, k \in Int : j <= k => j * Room <= k * Room
<1>1. Room \in Nat
  BY WorkersFit
<1>2. ASSUME NEW k \in Int PROVE k * Room \in Int /\ (k + 1) * Room = k * Room + Room
  BY <1>1
<1>3. ASSUME NEW j \in Int, NEW k \in Int, j <= k PROVE j * Room <= k * Room
  <2>1. PICK d \in Nat : k = j + d
    <3>1. k - j \in Nat /\ k = j + (k - j)
      BY <1>3
    <3> QED
      BY <3>1
  <2>2. d * Room \in Nat
    BY <1>1
  <2>3. (j + d) * Room = j * Room + d * Room /\ j * Room \in Int
    BY <1>1
  <2> QED
    BY <2>1, <2>2, <2>3
<1> QED
  BY <1>2, <1>3

\* A step that stores no more than it adds to the tally.
LEMMA KeepsRanks ==
  ASSUME MapTyped, MapTyped', Contained, ~raced, Clearing' = Clearing,
         NEW d \in Int, Tally' = Tally + d,
         (count + Cardinality(Among({"swap", "count"})))' <= Room,
         Cardinality(held') <= Cardinality(held) + d,
         \A g \in Clearing : Cardinality(held' \ due'[g]) <= Cardinality(held \ due[g]) + d
  PROVE  Contained'
<1>1. PICK rank \in [Goroutines -> Nat] : Ranked(rank)
  BY DEF Contained
<1>2. Tally \in Int /\ Workers \in Nat /\ Limit \in Nat /\ Clearing \subseteq Goroutines
        /\ \A k \in Int : k * Room \in Int
  BY TallyIs, WorkersFit, RoomsAdd DEF Clearing, Among
<1>3. Cardinality(held) \in Nat /\ Cardinality(held') \in Nat
        /\ \A g \in Goroutines : Cardinality(held \ due[g]) \in Nat /\ Cardinality(held' \ due'[g]) \in Nat
  BY TallyIs, FS_Subset, FS_CardinalityType DEF MapTyped
<1>4. Few(held, Workers)'
  BY <1>2, <1>3 DEF Contained, Few
<1>5. ASSUME NEW g \in Clearing PROVE Few(held \ due[g], Workers - rank[g])'
  <2> DEFINE rooms == (Workers - rank[g]) * Room
  <2>1. rooms \in Int /\ g \in Goroutines
    BY <1>2
  <2>2. Cardinality(held \ due[g]) <= rooms + Tally + Workers - Limit
    BY <1>1, Zenon DEF Ranked, Few
  <2>3. Cardinality(held \ due[g]) \in Nat /\ Cardinality(held' \ due'[g]) \in Nat
    BY <1>3, <2>1
  <2>4. Cardinality(held' \ due'[g]) <= Cardinality(held \ due[g]) + d
    OBVIOUS
  <2> HIDE DEF rooms
  <2>5. Cardinality(held' \ due'[g]) <= rooms + Tally' + Workers - Limit
    BY <1>2, <2>1, <2>2, <2>3, <2>4
  <2> QED
    BY <2>5 DEF Few, rooms
<1>6. Ranked(rank)'
  BY <1>1, <1>5 DEF Ranked
<1> QED
  BY <1>1, <1>4, <1>6 DEF Contained

\* Whoever begins a Range is ranked last: nothing was stored since.
LEMMA RangeBegins ==
  ASSUME MapTyped, MapTyped', Contained, ~raced, NEW g \in Goroutines, B!Check(g), step'[g] = "range"
  PROVE  Contained'
<1>1. /\ B!At(g, "check", "range") /\ due' = [due EXCEPT ![g] = held] /\ count >= Limit
      /\ held' = held /\ count' = count
  BY DEF B!Check, B!At, MapTyped
<1>2. PICK rank \in [Goroutines -> Nat] : Ranked(rank)
  BY DEF Contained
<1>3. /\ Clearing' = Clearing \union {g} /\ g \notin Clearing
      /\ Cardinality(Clearing') = Cardinality(Clearing) + 1
      /\ Among({"swap", "count"})' = Among({"swap", "count"})
      /\ Among({"count"})' = Among({"count"}) /\ Among({"uncount"})' = Among({"uncount"})
  BY <1>1, Moves DEF Clearing
<1>4. /\ Workers \in Nat /\ Room \in Nat /\ Limit \in Nat
      /\ Cardinality(Clearing) \in Nat /\ Cardinality(Clearing)' \in 0 .. Workers
      /\ Cardinality(Among({"count"})) \in Nat /\ Cardinality(Among({"uncount"})) \in 0 .. Workers
  <2>1. Cardinality(Clearing)' \in 0 .. Workers
    <3>1. Clearing' \in SUBSET Goroutines
      BY DEF Clearing, Among
    <3> QED
      BY <3>1, WorkersFit, FS_Subset, FS_CardinalityType DEF Workers
  <2> QED
    BY <2>1, WorkersFit DEF Clearing
<1>5. Tally' = Tally /\ Tally + Workers - Limit >= 0 /\ Tally \in Int
  BY <1>1, <1>3, <1>4, TallyIs DEF Tally, MapTyped
<1>6. PICK last \in 1 .. Workers : last = Cardinality(Clearing) + 1
  BY <1>3, <1>4
<1>7. PICK rank1 \in [Goroutines -> Nat] :
         rank1[g] = last /\ \A h \in Clearing : rank1[h] = rank[h] /\ h # g
  <2>1. /\ [rank EXCEPT ![g] = last] \in [Goroutines -> Nat] /\ Clearing \subseteq Goroutines
    BY <1>4 DEF Clearing, Among
  <2> QED
    BY <1>3, <2>1
<1>8. \A h \in Clearing : rank[h] \in 1 .. Cardinality(Clearing)
  BY <1>2, Zenon DEF Ranked
<1>9. \A h \in Clearing' : rank1[h] \in 1 .. Cardinality(Clearing')
  BY <1>3, <1>4, <1>6, <1>7, <1>8
<1>10. \A h, k \in Clearing' : h # k => rank1[h] # rank1[k]
  <2>1. \A h, k \in Clearing : h # k => rank[h] # rank[k]
    BY <1>2, Zenon DEF Ranked
  <2>2. \A h \in Clearing : rank[h] # last
    BY <1>4, <1>6, <1>8
  <2> QED
    BY <1>3, <1>7, <2>1, <2>2
<1>11. ASSUME NEW h \in Clearing' PROVE Few(held \ due[h], Workers - rank1[h])'
  <2>1. CASE h = g
    <3>1. held' \ due'[h] = {}
      BY <1>1, <2>1 DEF MapTyped
    <3>2. Cardinality({}) = 0 /\ Workers - last \in Int /\ 0 <= Workers - last
      BY <1>6, <1>4, FS_EmptySet
    <3>3. 0 * Room <= (Workers - last) * Room /\ 0 * Room = 0 /\ (Workers - last) * Room \in Int
      BY <3>2, <1>4, RoomsAdd
    <3> DEFINE rooms == (Workers - last) * Room
    <3> HIDE DEF rooms
    <3>4. 0 <= rooms + Tally' + Workers - Limit
      BY <1>4, <1>5, <3>3 DEF rooms
    <3> QED
      BY <1>7, <2>1, <3>1, <3>2, <3>4 DEF Few, rooms
  <2>2. CASE h # g
    <3>1. h \in Clearing /\ rank1[h] = rank[h] /\ held' \ due'[h] = held \ due[h]
      BY <1>1, <1>3, <1>7, <2>2 DEF MapTyped
    <3>2. Few(held \ due[h], Workers - rank[h])
      BY <1>2, <3>1, Zenon DEF Ranked
    <3> QED
      BY <1>5, <3>1, <3>2 DEF Few
  <2> QED
    BY <2>1, <2>2
<1>12. Ranked(rank1)'
  BY <1>9, <1>10, <1>11 DEF Ranked
<1>13. (count + Cardinality(Among({"swap", "count"})) <= Room /\ Few(held, Workers))'
  BY <1>1, <1>3, <1>5 DEF Contained, Few
<1> QED
  BY <1>12, <1>13 DEF Contained

\* Whoever sets the counter to zero leaves the ranks; those behind it move up by one, and
\* what is in the map came in since its Range began.
LEMMA ZeroRanks ==
  ASSUME MapTyped, MapTyped', Contained, ~raced', NEW y \in Goroutines, B!Zero(y)
  PROVE  Contained'
<1>1. /\ B!At(y, "zero", "swap") /\ due' = due /\ held' = held /\ count' = 0 /\ ~raced
      /\ \A h \in Goroutines : step[h] # "uncount"
  BY DEF B!Zero
<1>2. PICK rank \in [Goroutines -> Nat] : Ranked(rank)
  BY <1>1 DEF Contained
<1>3. /\ Clearing' = Clearing \ {y} /\ y \in Clearing
      /\ Cardinality(Clearing') = Cardinality(Clearing) - 1
      /\ Among({"count"})' = Among({"count"}) /\ Among({"uncount"})' = Among({"uncount"})
  BY <1>1, Moves DEF Clearing
<1>4. /\ Workers \in Nat /\ Room \in Nat /\ Limit \in Nat /\ Room = Limit + Workers
      /\ Cardinality(Clearing) \in 0 .. Workers /\ Clearing \subseteq Goroutines
      /\ Cardinality(Among({"count"})) \in Nat /\ Cardinality(Among({"swap", "count"}))' \in 0 .. Workers
  <2>1. Cardinality(Among({"swap", "count"}))' \in 0 .. Workers
    <3>1. Among({"swap", "count"})' \in SUBSET Goroutines
      BY DEF Among
    <3> QED
      BY <3>1, WorkersFit, FS_Subset, FS_CardinalityType DEF Workers
  <2>2. Clearing \subseteq Goroutines
    BY DEF Clearing, Among
  <2>3. Cardinality(Clearing) \in 0 .. Workers
    BY WorkersFit DEF Clearing
  <2>4. Cardinality(Among({"count"})) \in Nat
    BY WorkersFit
  <2> QED
    BY <2>1, <2>2, <2>3, <2>4, WorkersFit DEF Room
<1>5. /\ Tally \in Int /\ Tally <= Room /\ Tally' \in Nat
  <2>1. Tally \in Int /\ Tally <= Room
    <3>1. /\ Tally \in Int /\ Tally <= count + Cardinality(Among({"swap", "count"}))
          /\ count + Cardinality(Among({"swap", "count"})) <= Room
          /\ count \in Int /\ Cardinality(Among({"swap", "count"})) \in Nat
      BY <1>1, TallyIs, WorkersFit DEF Contained, MapTyped
    <3> QED
      BY <1>4, <3>1
  <2>2. Among({"uncount"}) = {} /\ Cardinality({}) = 0
    BY <1>1, FS_EmptySet DEF Among
  <2>3. Tally' = Cardinality(Among({"count"}))
    <3>1. Tally' = 0 + Cardinality(Among({"count"})) - Cardinality({})
      BY <1>1, <1>3, <2>2 DEF Tally
    <3> QED
      BY <1>4, <2>2, <3>1
  <2> QED
    BY <1>4, <2>1, <2>3
<1>6. due[y] = {} /\ held \ due[y] = held /\ Cardinality(held) \in Nat
  BY <1>1, FS_CardinalityType DEF MapTyped, B!At
<1>7. /\ \A h \in Clearing : rank[h] \in 1 .. Cardinality(Clearing)
      /\ \A h, k \in Clearing : h # k => rank[h] # rank[k]
      /\ \A h \in Clearing : Few(held \ due[h], Workers - rank[h])
  BY <1>2, Zenon DEF Ranked
<1>8. PICK rank1 \in [Goroutines -> Nat] :
        \A h \in Clearing : rank1[h] = IF rank[h] > rank[y] THEN rank[h] - 1 ELSE rank[h]
  <2> DEFINE up == [h \in Goroutines |-> IF h \in Clearing /\ rank[h] > rank[y] THEN rank[h] - 1 ELSE rank[h]]
  <2>1. up \in [Goroutines -> Nat]
    OBVIOUS
  <2>2. \A h \in Clearing : up[h] = IF rank[h] > rank[y] THEN rank[h] - 1 ELSE rank[h]
    BY <1>4
  <2> QED
    BY <2>1, <2>2
<1>9. rank[y] \in 1 .. Cardinality(Clearing)
  BY <1>3, <1>7
<1>10. ASSUME NEW h \in Clearing, h # y
       PROVE  /\ rank[h] \in 1 .. Cardinality(Clearing) /\ rank[h] # rank[y]
              /\ rank1[h] = IF rank[h] > rank[y] THEN rank[h] - 1 ELSE rank[h]
  BY <1>3, <1>7, <1>8, <1>10
<1>11. \A h \in Clearing' : rank1[h] \in 1 .. Cardinality(Clearing')
  BY <1>3, <1>4, <1>9, <1>10
<1>12. \A h, k \in Clearing' : h # k => rank1[h] # rank1[k]
  BY <1>3, <1>4, <1>7, <1>9, <1>10
\* The counter starts again: what was counted until now is another room.
<1>13. ASSUME NEW j \in Int, NEW k \in Int, j < k, NEW n \in Nat, n <= j * Room + Tally + Workers - Limit
       PROVE  n <= k * Room + Tally' + Workers - Limit
  <2>1. /\ j * Room \in Int /\ k * Room \in Int /\ (j + 1) * Room = j * Room + Room
        /\ (j + 1) * Room <= k * Room
    <3>1. j + 1 \in Int /\ j + 1 <= k
      BY <1>13
    <3> QED
      BY <3>1, RoomsAdd
  <2> DEFINE before == j * Room
             after == k * Room
  <2>2. before \in Int /\ after \in Int /\ before + Room <= after /\ n <= before + Tally + Workers - Limit
    BY <1>13, <2>1
  <2> HIDE DEF before, after
  <2>3. n <= after + Tally' + Workers - Limit
    <3>1. n <= before + Room + Workers - Limit
      BY <1>4, <1>5, <2>2
    <3>2. n <= after + Workers - Limit
      BY <1>4, <2>2, <3>1
    <3>3. PICK tally \in Nat : tally = Tally'
      BY <1>5
    <3>4. n <= after + tally + Workers - Limit
      BY <1>4, <2>2, <3>2
    <3> QED
      BY <3>3, <3>4
  <2> QED
    BY <2>3 DEF after
<1>14. Cardinality(held) <= (Workers - rank[y]) * Room + Tally + Workers - Limit
         /\ Workers - rank[y] \in Int /\ Workers - rank[y] < Workers
  BY <1>3, <1>4, <1>6, <1>7, <1>9 DEF Few
<1>15. ASSUME NEW h \in Clearing' PROVE Few(held \ due[h], Workers - rank1[h])'
  <2>1. h \in Clearing /\ h # y /\ held' \ due'[h] = held \ due[h]
    BY <1>1, <1>3
  <2>2. Cardinality(held \ due[h]) \in Nat /\ Cardinality(held \ due[h]) <= Cardinality(held)
    BY FS_Subset, FS_CardinalityType DEF MapTyped
  <2>3. /\ rank[h] \in 1 .. Cardinality(Clearing) /\ rank[h] # rank[y]
        /\ rank1[h] = IF rank[h] > rank[y] THEN rank[h] - 1 ELSE rank[h]
    BY <1>10, <2>1
  <2>4. CASE rank[h] > rank[y]
    <3>1. Cardinality(held \ due[h]) <= (Workers - rank[h]) * Room + Tally + Workers - Limit
      BY <1>7, <2>1 DEF Few
    <3>2. Workers - rank[h] \in Int /\ Workers - rank1[h] \in Int /\ Workers - rank[h] < Workers - rank1[h]
      BY <1>4, <2>3, <2>4
    <3>3. Cardinality(held \ due[h]) <= (Workers - rank1[h]) * Room + Tally' + Workers - Limit
      BY <1>13, <2>2, <3>1, <3>2
    <3> QED
      BY <2>1, <3>3 DEF Few
  <2>5. CASE rank[h] < rank[y]
    <3>1. Workers - rank1[h] \in Int /\ Workers - rank[y] < Workers - rank1[h]
      BY <1>4, <1>9, <2>3, <2>5
    <3>2. Cardinality(held) <= (Workers - rank1[h]) * Room + Tally' + Workers - Limit
      BY <1>6, <1>13, <1>14, <3>1
    <3> DEFINE rooms == (Workers - rank1[h]) * Room
    <3>3. rooms \in Int
      BY <3>1, RoomsAdd
    <3> HIDE DEF rooms
    <3>4. Cardinality(held \ due[h]) <= rooms + Tally' + Workers - Limit
      BY <1>4, <1>5, <1>6, <2>2, <3>2, <3>3 DEF rooms
    <3> QED
      BY <2>1, <3>4 DEF Few, rooms
  <2> QED
    BY <1>9, <2>3, <2>4, <2>5
<1>16. Few(held, Workers)'
  <2>1. Cardinality(held) <= Workers * Room + Tally' + Workers - Limit
    <3>1. Workers \in Int
      BY <1>4
    <3> QED
      BY <1>6, <1>13, <1>14, <3>1
  <2> QED
    BY <1>1, <2>1 DEF Few
<1>17. (count + Cardinality(Among({"swap", "count"})) <= Room)'
  BY <1>1, <1>4
<1>18. Ranked(rank1)'
  BY <1>11, <1>12, <1>15 DEF Ranked
<1> QED
  BY <1>16, <1>17, <1>18 DEF Contained

\* A goroutine that stores or counts moves in step with the tally.
LEMMA StoreKeepsRanks ==
  ASSUME MapTyped, MapTyped', Contained, ~raced, NEW g \in Goroutines,
         \/ B!Check(g) /\ step'[g] # "range"
         \/ B!Swap(g) \/ B!Count(g)
  PROVE  Contained'
<1>1. /\ Cardinality(held) \in Nat /\ count \in Int
      /\ \A h \in Goroutines : Cardinality(held \ due[h]) \in Nat /\ IsFiniteSet(held \ due[h])
  BY FS_Subset, FS_CardinalityType DEF MapTyped
<1>2. /\ \A A : Cardinality(Among(A)) \in 0 .. Workers
      /\ Workers \in Nat /\ Limit \in Nat /\ Room = Limit + Workers
      /\ Clearing \subseteq Goroutines
  BY WorkersFit DEF Clearing, Among, Room
<1>3. count + Cardinality(Among({"swap", "count"})) <= Room
  BY DEF Contained
<1>4. CASE B!Check(g) /\ step'[g] # "range"
  <2>1. /\ B!At(g, "check", "swap") /\ ~(count >= Limit)
        /\ held' = held /\ count' = count /\ due' = due
    BY <1>4 DEF B!Check, B!At, MapTyped
  <2>2. /\ Clearing' = Clearing
        /\ Among({"count"})' = Among({"count"}) /\ Among({"uncount"})' = Among({"uncount"})
        /\ Cardinality(Among({"swap", "count"}))' = Cardinality(Among({"swap", "count"})) + 1
    BY <2>1, Moves DEF Clearing
  <2>3. Cardinality(Among({"swap", "count"}))' <= Workers
    <3>1. Among({"swap", "count"})' \in SUBSET Goroutines
      BY DEF Among
    <3> QED
      BY <3>1, WorkersFit, FS_Subset DEF Workers
  <2>4. (count + Cardinality(Among({"swap", "count"})))' <= Room
    BY <1>1, <1>2, <2>1, <2>2, <2>3
  <2>5. Tally' = Tally + 0
    BY <1>1, <1>2, <2>1, <2>2 DEF Tally
  <2>6. Cardinality(held') <= Cardinality(held) + 0
          /\ \A h \in Clearing : Cardinality(held' \ due'[h]) <= Cardinality(held \ due[h]) + 0
    BY <1>1, <1>2, <2>1
  <2> QED
    BY <2>2, <2>4, <2>5, <2>6, KeepsRanks
<1>5. CASE B!Swap(g) /\ key[g] \notin held
  <2>1. /\ B!At(g, "swap", "count") /\ held' = held \union {key[g]} /\ count' = count /\ due' = due
    BY <1>5 DEF B!Swap
  <2>2. /\ Clearing' = Clearing /\ Among({"swap", "count"})' = Among({"swap", "count"})
        /\ Among({"uncount"})' = Among({"uncount"})
        /\ Cardinality(Among({"count"}))' = Cardinality(Among({"count"})) + 1
    BY <2>1, Moves DEF Clearing
  <2>3. Tally' = Tally + 1
    BY <1>1, <1>2, <2>1, <2>2 DEF Tally
  <2>4. Cardinality(held') <= Cardinality(held) + 1
    BY <1>1, <2>1, FS_AddElement DEF MapTyped
  <2>5. ASSUME NEW h \in Clearing PROVE Cardinality(held' \ due'[h]) <= Cardinality(held \ due[h]) + 1
    <3>1. held' \ due'[h] \in SUBSET ((held \ due[h]) \union {key[g]}) /\ h \in Goroutines
      BY <1>2, <2>1
    <3>2. IsFiniteSet((held \ due[h]) \union {key[g]})
            /\ Cardinality((held \ due[h]) \union {key[g]}) \in Nat
            /\ Cardinality((held \ due[h]) \union {key[g]}) <= Cardinality(held \ due[h]) + 1
      <4>1. IsFiniteSet(held \ due[h]) /\ Cardinality(held \ due[h]) \in Nat
        BY <1>1, <3>1
      <4>2. IsFiniteSet((held \ due[h]) \union {key[g]})
              /\ Cardinality((held \ due[h]) \union {key[g]})
                   = IF key[g] \in held \ due[h] THEN Cardinality(held \ due[h]) ELSE Cardinality(held \ due[h]) + 1
        BY <4>1, FS_AddElement
      <4> QED
        BY <4>1, <4>2
    <3>3. Cardinality(held' \ due'[h]) <= Cardinality((held \ due[h]) \union {key[g]})
            /\ Cardinality(held' \ due'[h]) \in Nat
      BY <3>1, <3>2, FS_Subset, FS_CardinalityType
    <3> QED
      BY <1>1, <3>1, <3>2, <3>3
  <2>6. (count + Cardinality(Among({"swap", "count"})))' <= Room
    BY <1>3, <2>1, <2>2
  <2> QED
    BY <2>2, <2>3, <2>4, <2>5, <2>6, KeepsRanks
<1>6. CASE \/ B!Swap(g) /\ key[g] \in held
           \/ B!Count(g)
  <2>1. /\ held' = held /\ due' = due
        /\ \/ B!At(g, "swap", "idle") /\ count' = count
           \/ B!At(g, "count", "idle") /\ count' = count + 1
    BY <1>6 DEF B!Swap, B!Count
  <2>2. /\ Clearing' = Clearing /\ Among({"uncount"})' = Among({"uncount"})
        /\ Cardinality(Among({"swap", "count"}))' = Cardinality(Among({"swap", "count"})) - 1
    BY <2>1, Moves DEF Clearing
  <2>3. \/ Cardinality(Among({"count"}))' = Cardinality(Among({"count"})) /\ count' = count
        \/ Cardinality(Among({"count"}))' = Cardinality(Among({"count"})) - 1 /\ count' = count + 1
    BY <2>1, Moves
  <2>4. Tally' = Tally + 0
    BY <1>1, <1>2, <2>2, <2>3 DEF Tally
  <2>5. (count + Cardinality(Among({"swap", "count"})))' <= Room
    BY <1>1, <1>2, <1>3, <2>2, <2>3
  <2>6. Cardinality(held') <= Cardinality(held) + 0
          /\ \A h \in Clearing : Cardinality(held' \ due'[h]) <= Cardinality(held \ due[h]) + 0
    BY <1>1, <1>2, <2>1
  <2> QED
    BY <2>2, <2>4, <2>5, <2>6, KeepsRanks
<1> QED
  BY <1>4, <1>5, <1>6

\* A key leaves the map by a Range, or by a Delete while nobody drops the map.
LEMMA DropKeepsRanks ==
  ASSUME MapTyped, MapTyped', Contained, ~raced', NEW g \in Goroutines,
         B!Call(g) \/ B!ClearKey(g) \/ B!EndRange(g) \/ B!Remove(g) \/ B!Uncount(g)
  PROVE  Contained'
<1>1. /\ Cardinality(held) \in Nat /\ count \in Int
      /\ \A h \in Goroutines : Cardinality(held \ due[h]) \in Nat /\ IsFiniteSet(held \ due[h])
  BY FS_Subset, FS_CardinalityType DEF MapTyped
<1>2. /\ \A A : Cardinality(Among(A)) \in 0 .. Workers
      /\ Workers \in Nat /\ Limit \in Nat /\ Room = Limit + Workers
      /\ Clearing \subseteq Goroutines
  BY WorkersFit DEF Clearing, Among, Room
<1>3. ~raced
  BY DEF B!Call, B!ClearKey, B!EndRange, B!Remove, B!Uncount
<1>4. count + Cardinality(Among({"swap", "count"})) <= Room
  BY <1>3 DEF Contained
<1>5. CASE B!ClearKey(g) \/ (B!Remove(g) /\ key[g] \notin held)
  <2>1. /\ \E k : held' = held \ {k} /\ due' = [h \in Goroutines |-> due[h] \ {k}]
                /\ (B!Remove(g) => k \notin held)
        /\ count' = count /\ (UNCHANGED step \/ B!At(g, "remove", "idle"))
    BY <1>5 DEF B!ClearKey, B!Remove, B!Without, B!There
  <2>2. \A A : A \in {{"range", "zero"}, {"swap", "count"}, {"count"}, {"uncount"}} => Among(A)' = Among(A)
    <3>1. CASE UNCHANGED step
      BY <3>1 DEF Among
    <3>2. CASE B!At(g, "remove", "idle")
      BY <3>2, Moves
    <3> QED
      BY <2>1, <3>1, <3>2
  <2>3. Clearing' = Clearing /\ Tally' = Tally + 0 /\ (count + Cardinality(Among({"swap", "count"})))' <= Room
    BY <1>1, <1>2, <1>4, <2>1, <2>2 DEF Clearing, Tally
  <2>4. held' \in SUBSET held
    BY <2>1
  <2>5. ASSUME NEW h \in Clearing PROVE held' \ due'[h] \in SUBSET (held \ due[h]) /\ h \in Goroutines
    BY <1>2, <2>1
  <2>6. Cardinality(held') <= Cardinality(held) + 0
    BY <1>1, <2>4, FS_Subset DEF MapTyped
  <2>7. \A h \in Clearing : Cardinality(held' \ due'[h]) <= Cardinality(held \ due[h]) + 0
    BY <1>1, <2>5, FS_Subset
  <2> QED
    BY <1>3, <2>3, <2>6, <2>7, KeepsRanks
<1>6. CASE B!Remove(g) /\ key[g] \in held
  <2>1. /\ B!At(g, "remove", "uncount") /\ held' = held \ {key[g]} /\ count' = count
        /\ \A h \in Goroutines : step[h] \notin {"range", "zero"}
    BY <1>6 DEF B!Remove, B!There, B!Without
  <2>2. /\ Clearing = {} /\ Clearing' = Clearing
        /\ Among({"swap", "count"})' = Among({"swap", "count"}) /\ Among({"count"})' = Among({"count"})
        /\ Cardinality(Among({"uncount"}))' = Cardinality(Among({"uncount"})) + 1
    <3>1. Clearing = {}
      BY <2>1 DEF Clearing, Among
    <3> QED
      BY <2>1, <3>1, Moves DEF Clearing
  <2>3. Tally' = Tally + (-1)
    BY <1>1, <1>2, <2>1, <2>2 DEF Tally
  <2>4. Cardinality(held') <= Cardinality(held) + (-1)
    BY <1>1, <1>6, <2>1, FS_RemoveElement DEF MapTyped
  <2>5. (count + Cardinality(Among({"swap", "count"})))' <= Room
    BY <1>4, <2>1, <2>2
  <2> QED
    BY <1>3, <2>2, <2>3, <2>4, <2>5, KeepsRanks
<1>7. CASE B!Call(g) \/ B!EndRange(g) \/ B!Uncount(g)
  <2>1. /\ held' = held /\ due' = due
        /\ \/ B!At(g, "idle", "check") /\ count' = count
           \/ B!At(g, "idle", "remove") /\ count' = count
           \/ B!At(g, "range", "zero") /\ count' = count
           \/ B!At(g, "uncount", "idle") /\ count' = count - 1
    BY <1>7 DEF B!Call, B!EndRange, B!Uncount
  <2>2. /\ Clearing' = Clearing /\ Among({"count"})' = Among({"count"})
        /\ Among({"swap", "count"})' = Among({"swap", "count"})
    BY <2>1, Moves DEF Clearing
  <2>3. \/ Cardinality(Among({"uncount"}))' = Cardinality(Among({"uncount"})) /\ count' = count
        \/ Cardinality(Among({"uncount"}))' = Cardinality(Among({"uncount"})) - 1 /\ count' = count - 1
    BY <2>1, Moves
  <2>4. Tally' = Tally + 0
    BY <1>1, <1>2, <2>2, <2>3 DEF Tally
  <2>5. (count + Cardinality(Among({"swap", "count"})))' <= Room
    BY <1>1, <1>2, <1>4, <2>2, <2>3
  <2>6. Cardinality(held') <= Cardinality(held) + 0
          /\ \A h \in Clearing : Cardinality(held' \ due'[h]) <= Cardinality(held \ due[h]) + 0
    BY <1>1, <1>2, <2>1
  <2> QED
    BY <1>3, <2>2, <2>4, <2>5, <2>6, KeepsRanks
<1> QED
  BY <1>5, <1>6, <1>7

LEMMA ContainedStays == MapTyped /\ Contained /\ [B!Next]_(B!vars) => Contained'
<1> SUFFICES ASSUME MapTyped, Contained, [B!Next]_(B!vars), ~raced' PROVE Contained'
  BY DEF Contained
<1>1. MapTyped'
  BY MapTypedStays
<1>2. CASE UNCHANGED B!vars
  BY <1>2 DEF B!vars, Contained, Ranked, Few, Tally, Clearing, Among
<1>3. ASSUME NEW g \in Goroutines, B!Check(g) PROVE Contained'
  <2>1. ~raced
    BY <1>3 DEF B!Check
  <2> QED
    BY <1>1, <1>3, <2>1, RangeBegins, StoreKeepsRanks
<1>4. ASSUME NEW g \in Goroutines, B!Swap(g) \/ B!Count(g) PROVE Contained'
  <2>1. ~raced
    BY <1>4 DEF B!Swap, B!Count
  <2> QED
    BY <1>1, <1>4, <2>1, StoreKeepsRanks
<1>5. ASSUME NEW g \in Goroutines, B!Zero(g) PROVE Contained'
  BY <1>1, <1>5, ZeroRanks
<1>6. ASSUME NEW g \in Goroutines,
             B!Call(g) \/ B!ClearKey(g) \/ B!EndRange(g) \/ B!Remove(g) \/ B!Uncount(g)
      PROVE  Contained'
  BY <1>1, <1>6, DropKeepsRanks
<1> QED
  BY <1>2, <1>3, <1>4, <1>5, <1>6 DEF B!Next

MapInv == part = "map" => MapTyped /\ Contained

LEMMA MapInit == PartsInit => MapInv
<1> SUFFICES ASSUME B!Init PROVE MapTyped /\ Contained
  BY DEF PartsInit, MapInv
<1>1. IsFiniteSet({}) /\ Cardinality({}) = 0
  BY FS_EmptySet
<1>2. MapTyped
  BY <1>1 DEF B!Init, MapTyped
<1>3. \A A : "idle" \notin A => Among(A) = {}
  BY DEF B!Init, Among
<1>4. /\ Clearing = {} /\ Among({"swap", "count"}) = {} /\ Among({"count"}) = {} /\ Among({"uncount"}) = {}
  BY <1>3 DEF Clearing
<1>5. Tally = 0 /\ held = {} /\ count = 0
  BY <1>1, <1>4 DEF Tally, B!Init
<1>6. /\ Workers \in Nat /\ Limit \in Nat /\ Room = Limit + Workers
  BY WorkersFit DEF Room
<1>7. Few(held, Workers)
  <2>1. Workers \in Nat \ {0}
    BY <1>6, PartsAssumption, FS_EmptySet DEF Workers
  <2>2. 1 * Room <= Workers * Room /\ 1 * Room = Room /\ Workers * Room \in Int
    BY <1>6, <2>1, RoomsAdd
  <2> DEFINE rooms == Workers * Room
  <2> HIDE DEF rooms
  <2>3. 0 <= rooms + Tally + Workers - Limit
    BY <1>5, <1>6, <2>2 DEF rooms
  <2> QED
    BY <1>1, <1>5, <2>3 DEF Few, rooms
<1>8. count + Cardinality(Among({"swap", "count"})) <= Room
  BY <1>1, <1>4, <1>5, <1>6
<1>9. Ranked([g \in Goroutines |-> 0])
  BY <1>4 DEF Ranked
<1>10. [g \in Goroutines |-> 0] \in [Goroutines -> Nat]
  OBVIOUS
<1> QED
  BY <1>2, <1>7, <1>8, <1>9, <1>10 DEF Contained

LEMMA MapStays == MapInv /\ [PartsNext]_allVars => MapInv'
<1> SUFFICES ASSUME MapInv, [PartsNext]_allVars, part' = "map"
             PROVE  MapTyped' /\ Contained'
  BY DEF MapInv
<1>1. part = "map" /\ [B!Next]_(B!vars)
  BY DEF PartsNext, UploadStep, TagsStep, IndexStep, MapStep, CallsStep, allVars, map, B!vars
<1> QED
  BY <1>1, MapTypedStays, ContainedStays DEF MapInv

\* However many goroutines store, delete and drop at once, and however often, the map never
\* holds more than a limit for each of them, and a few for each pair, as long as no key is
\* deleted while it is being dropped (boundedMap).
THEOREM MapIsBounded ==
  ASSUME Bound >= Workers * (Limit + Workers + 2)
  PROVE  PartsSpec => []StaysBounded
<1>1. ASSUME MapTyped, Contained, ~raced PROVE Cardinality(held) <= Bound
  <2>1. /\ Workers \in Nat /\ Limit \in Nat /\ Room = Limit + Workers /\ Bound \in Nat
    BY WorkersFit, PartsAssumption DEF Room
  <2>2. Tally \in Int /\ Tally <= Room
    <3>1. /\ Tally \in Int /\ Tally <= count + Cardinality(Among({"swap", "count"}))
          /\ count + Cardinality(Among({"swap", "count"})) <= Room
          /\ count \in Int /\ Cardinality(Among({"swap", "count"})) \in Nat
      BY <1>1, TallyIs, WorkersFit DEF Contained, MapTyped
    <3> QED
      BY <2>1, <3>1
  <2>3. Cardinality(held) <= Workers * Room + Tally + Workers - Limit /\ Cardinality(held) \in Nat
    BY <1>1, FS_CardinalityType DEF Contained, Few, MapTyped
  <2> DEFINE rooms == Workers * Room
  <2>4. rooms \in Int /\ rooms + 2 * Workers <= Bound
    <3>1. Workers * (Limit + Workers + 2) = Workers * Room + 2 * Workers /\ Workers * Room \in Int
      BY <2>1
    <3> QED
      BY <3>1
  <2>5. Cardinality(held) <= rooms + Tally + Workers - Limit
    BY <2>3
  <2> HIDE DEF rooms
  <2> QED
    BY <2>1, <2>2, <2>3, <2>4, <2>5
<1>2. MapInv => StaysBounded
  <2>1. B!Cardinality(held) = Cardinality(held)
    BY Zenon DEF B!Cardinality, Cardinality
  <2> QED
    BY <1>1, <2>1, Zenon DEF MapInv, StaysBounded, B!StaysBounded
<1> QED
  BY <1>2, MapInit, MapStays, PTL DEF PartsSpec
-----------------------------------------------------------------------------
\* The tags of refs.  A set of naturals that holds zero and the next of each of its members
\* is all of them.
LEMMA AllNaturals ==
  ASSUME NEW S, 0 \in S, \A n \in Nat : n \in S => n + 1 \in S
  PROVE  \A n \in Nat : n \in S
<1> SUFFICES ASSUME Nat \ S # {} PROVE FALSE
  OBVIOUS
<1>1. PICK n \in Nat \ S : \A m \in Nat \ S : n <= m
  BY LeastOf
<1>2. n # 0 /\ n - 1 \in Nat /\ ~(n <= n - 1)
  BY <1>1
<1>3. n - 1 \in S
  BY <1>1, <1>2
<1>4. (n - 1) + 1 \in S
  BY <1>2, <1>3
<1> QED
  BY <1>1, <1>4

\* What a function defined by its value at zero and by a step from each value to the next
\* is: the first values are determined one after the other.
Recurs(f, A, start, G) ==
  f \in [Nat -> A] /\ f[0] = start /\ \A n \in Nat : f[n + 1] = G[n + 1][f[n]]

LEMMA RecursionExists ==
  ASSUME NEW A, NEW start \in A, NEW G, G \in [Nat -> [A -> A]]
  PROVE  \E f : Recurs(f, A, start, G)
<1> DEFINE Obeys(g, n) == g[0] = start /\ \A i \in 0 .. n - 1 : g[i + 1] = G[i + 1][g[i]]
           First(n) == {g \in [0 .. n -> A] : Obeys(g, n)}
<1>1. \A n \in Nat : First(n) # {}
  <2> DEFINE There == {n \in Nat : First(n) # {}}
  <2>1. 0 \in There
    <3>1. [i \in 0 .. 0 |-> start] \in First(0)
      OBVIOUS
    <3> QED
      BY <3>1
  <2>2. ASSUME NEW n \in Nat, n \in There PROVE n + 1 \in There
    <3>1. PICK g \in [0 .. n -> A] : Obeys(g, n)
      BY <2>2
    <3> DEFINE h == [i \in 0 .. n + 1 |-> IF i = n + 1 THEN G[n + 1][g[n]] ELSE g[i]]
    <3>2. g[n] \in A /\ G[n + 1] \in [A -> A]
      BY <3>1
    <3>3. h \in [0 .. n + 1 -> A]
      BY <3>1, <3>2
    <3>4. Obeys(h, n + 1)
      <4>1. h[0] = start
        BY <3>1
      <4>2. ASSUME NEW i \in 0 .. n PROVE h[i + 1] = G[i + 1][h[i]]
        <5>1. CASE i = n
          BY <5>1
        <5>2. CASE i # n
          <6>1. i \in 0 .. n - 1 /\ h[i] = g[i] /\ h[i + 1] = g[i + 1]
            BY <5>2
          <6> QED
            BY <3>1, <6>1
        <5> QED
          BY <5>1, <5>2
      <4>3. (n + 1) - 1 = n
        OBVIOUS
      <4> QED
        BY <4>1, <4>2, <4>3
    <3> HIDE DEF h
    <3>5. h \in First(n + 1)
      BY <3>3, <3>4
    <3> HIDE DEF First
    <3> QED
      BY <3>5
  <2> HIDE DEF There
  <2>3. \A n \in Nat : n \in There
    BY <2>1, <2>2, AllNaturals
  <2> QED
    BY <2>3 DEF There
<1>2. ASSUME NEW n \in Nat, NEW g \in First(n), NEW h \in First(n + 1)
      PROVE  g[n] = h[n]
  <2> DEFINE Differ == {i \in 0 .. n : g[i] # h[i]}
  <2> SUFFICES ASSUME Differ # {} PROVE FALSE
    <3>1. n \in 0 .. n
      OBVIOUS
    <3> QED
      BY <3>1
  <2>1. PICK i \in Differ : \A j \in Differ : i <= j
    <3>1. Differ \in SUBSET Nat
      OBVIOUS
    <3> HIDE DEF Differ
    <3> QED
      BY <3>1, LeastOf
  <2>2. i # 0 /\ i \in 0 .. n
    BY <2>1
  <2>3. i - 1 \in 0 .. n - 1 /\ i - 1 \in 0 .. (n + 1) - 1 /\ (i - 1) + 1 = i
    BY <2>2
  <2>4. g[i] = G[i][g[i - 1]] /\ h[i] = G[i][h[i - 1]]
    BY <2>3
  <2>5. g[i - 1] = h[i - 1]
    BY <2>1, <2>3
  <2> QED
    BY <2>1, <2>4, <2>5
<1> DEFINE pick == [n \in Nat |-> CHOOSE g \in First(n) : TRUE]
           f == [n \in Nat |-> pick[n][n]]
<1>3. \A n \in Nat : pick[n] \in First(n)
  BY <1>1
<1> HIDE DEF pick
<1>4. \A n \in Nat : pick[n] \in [0 .. n -> A] /\ Obeys(pick[n], n)
  BY <1>3
<1>5. f \in [Nat -> A]
  BY <1>4
<1>6. f[0] = start
  BY <1>4
<1>7. ASSUME NEW n \in Nat PROVE f[n + 1] = G[n + 1][f[n]]
  <2>1. pick[n + 1][n + 1] = G[n + 1][pick[n + 1][n]]
    <3>1. n \in 0 .. (n + 1) - 1
      OBVIOUS
    <3> QED
      BY <1>4, <3>1
  <2>2. pick[n][n] = pick[n + 1][n]
    <3> HIDE DEF First
    <3> QED
      <4>1. pick[n] \in First(n) /\ pick[n + 1] \in First(n + 1)
        BY <1>3
      <4> QED
        BY <1>2, <4>1
  <2> QED
    BY <2>1, <2>2
<1>8. Recurs(f, A, start, G)
  BY <1>5, <1>6, <1>7 DEF Recurs
<1> QED
  BY <1>8


\* Text is of characters a tag may have.  The letters that encodings add are named, for the
\* provers do not know that they are strings.
Letters == {"_", "2", "d", "e", "f", "h", "t", "r", "x", "a", "l", "o", "c", "k", "-"}
Strings == STRING \union Letters
Chars == Strings \ {"/"}
Text == Seq(Chars)

\* The pieces of p one after the other: U[n] is the first n of them.
IsJoin(U, p) ==
  /\ U \in [Nat -> Text] /\ U[0] = <<>>
  /\ \A n \in Nat : n + 1 \in DOMAIN p => U[n + 1] = U[n] \o p[n + 1]

LEMMA JoinExists ==
  ASSUME NEW p \in Seq(Text)
  PROVE  \E U : IsJoin(U, p)
<1> DEFINE A == Text
           start == <<>>
           G == [n \in Nat |-> [t \in A |-> IF n \in DOMAIN p THEN t \o p[n] ELSE t]]
<1>1. start \in A
  BY DEF Text
<1>2. G \in [Nat -> [A -> A]]
  <2>1. ASSUME NEW n \in Nat, NEW t \in Text, n \in DOMAIN p PROVE t \o p[n] \in Text
    <3>1. p[n] \in Text
      BY <2>1
    <3> QED
      BY <3>1 DEF Text
  <2> QED
    BY <2>1
<1>3. PICK U \in [Nat -> A] : U[0] = start /\ \A n \in Nat : U[n + 1] = G[n + 1][U[n]]
  <2> HIDE DEF A, start, G
  <2>1. PICK U : Recurs(U, A, start, G)
    BY <1>1, <1>2, RecursionExists, Zenon
  <2> QED
    BY <2>1 DEF Recurs
<1>4. ASSUME NEW n \in Nat, n + 1 \in DOMAIN p PROVE U[n + 1] = U[n] \o p[n + 1]
  <2>1. U[n] \in A /\ n + 1 \in Nat
    OBVIOUS
  <2>2. U[n + 1] = G[n + 1][U[n]]
    <3> HIDE DEF G
    <3> QED
      BY <1>3
  <2> QED
    BY <1>4, <2>1, <2>2
<1> QED
  BY <1>3, <1>4 DEF IsJoin

LEMMA Flattened ==
  ASSUME NEW p \in Seq(Text), NEW U, IsJoin(U, p)
  PROVE  T!FlattenSeq(p) = U[Len(p)]
<1> DEFINE Obeys(f) == f = [i \in 1 .. Len(p) |-> IF i = 1 THEN p[i] ELSE f[i - 1] \o p[i]]
           flat == CHOOSE f : Obeys(f)
<1>0. Len(p) \in Nat /\ DOMAIN p = 1 .. Len(p)
  OBVIOUS
<1>1. \E f : Obeys(f)
  <2> DEFINE f == [i \in 1 .. Len(p) |-> U[i]]
  <2>1. ASSUME NEW i \in 1 .. Len(p)
        PROVE  f[i] = IF i = 1 THEN p[i] ELSE f[i - 1] \o p[i]
    <3>1. U[i] = U[i - 1] \o p[i] /\ p[i] \in Text
      <4>1. PICK n \in Nat : n = i - 1
        OBVIOUS
      <4>2. n + 1 = i /\ n + 1 \in DOMAIN p
        BY <1>0, <4>1
      <4>3. U[n + 1] = U[n] \o p[n + 1]
        BY <4>2 DEF IsJoin
      <4> QED
        BY <1>0, <4>1, <4>2, <4>3
    <3>2. CASE i = 1
      <4>1. U[0] = <<>> /\ <<>> \o p[i] = p[i] /\ i - 1 = 0
        BY <3>1, <3>2 DEF IsJoin, Text
      <4>2. U[i] = p[i]
        BY <3>1, <4>1
      <4> QED
        BY <3>2, <4>2
    <3>3. CASE i # 1
      <4>1. i - 1 \in 1 .. Len(p)
        BY <1>0, <3>3
      <4> QED
        BY <3>1, <3>3, <4>1
    <3> QED
      BY <3>2, <3>3
  <2>2. f = [i \in 1 .. Len(p) |-> IF i = 1 THEN p[i] ELSE f[i - 1] \o p[i]]
    BY <2>1
  <2> QED
    BY <2>2
<1>2. Obeys(flat)
  BY <1>1, Zenon
<1> HIDE DEF flat
<1>3. ASSUME NEW n \in Nat PROVE n \in 1 .. Len(p) => flat[n] = U[n]
  <2> DEFINE There == {m \in Nat : m \in 1 .. Len(p) => flat[m] = U[m]}
  <2>1. 0 \in There
    OBVIOUS
  <2>2. ASSUME NEW m \in Nat, m \in There PROVE m + 1 \in There
    <3> SUFFICES ASSUME m + 1 \in 1 .. Len(p) PROVE flat[m + 1] = U[m + 1]
      OBVIOUS
    <3>1. U[m + 1] = U[m] \o p[m + 1] /\ p[m + 1] \in Text
      BY <1>0 DEF IsJoin
    <3>2. flat[m + 1] = IF m + 1 = 1 THEN p[m + 1] ELSE flat[(m + 1) - 1] \o p[m + 1]
      BY <1>2
    <3>3. CASE m = 0
      <4>1. U[0] = <<>> /\ <<>> \o p[m + 1] = p[m + 1]
        BY <3>1 DEF IsJoin, Text
      <4> QED
        BY <3>1, <3>2, <3>3, <4>1
    <3>4. CASE m # 0
      <4>1. m \in 1 .. Len(p) /\ (m + 1) - 1 = m
        BY <1>0, <3>4
      <4>2. flat[m] = U[m]
        BY <2>2, <4>1
      <4>3. m + 1 # 1
        BY <3>4
      <4>4. flat[m + 1] = flat[m] \o p[m + 1]
        BY <3>2, <4>1, <4>3
      <4> QED
        BY <3>1, <4>2, <4>4
    <3> QED
      BY <3>3, <3>4
  <2> HIDE DEF There
  <2>3. \A m \in Nat : m \in There
    BY <2>1, <2>2, AllNaturals
  <2> QED
    BY <2>3 DEF There
<1>4. CASE Len(p) = 0
  <2>1. p = <<>> /\ U[0] = <<>>
    BY <1>4 DEF IsJoin
  <2> QED
    BY <1>4, <2>1 DEF T!FlattenSeq
<1>5. CASE Len(p) # 0
  <2>1. T!FlattenSeq(p) = flat[Len(p)]
    BY <1>5 DEF T!FlattenSeq, flat
  <2>2. Len(p) \in 1 .. Len(p)
    BY <1>0, <1>5
  <2> QED
    BY <1>0, <1>3, <2>1, <2>2
<1> QED
  BY <1>4, <1>5

Begins(s, t) == Len(s) <= Len(t) /\ \A k \in 1 .. Len(s) : t[k] = s[k]

LEMMA ConcatIs ==
  ASSUME NEW s \in Text, NEW t \in Text
  PROVE  /\ s \o t \in Text /\ Len(s) \in Nat /\ Len(t) \in Nat
         /\ Len(s \o t) = Len(s) + Len(t) /\ Begins(s, s \o t)
         /\ \A k \in 1 .. Len(t) : (s \o t)[Len(s) + k] = t[k]
<1>1. /\ s \o t \in Text /\ Len(s) \in Nat /\ Len(t) \in Nat
      /\ Len(s \o t) = Len(s) + Len(t)
      /\ \A i \in 1 .. Len(s) + Len(t) :
           (s \o t)[i] = IF i <= Len(s) THEN s[i] ELSE t[i - Len(s)]
  BY ConcatProperties DEF Text
<1>2. Begins(s, s \o t)
  <2>1. \A i \in 1 .. Len(s) : i \in 1 .. Len(s) + Len(t) /\ i <= Len(s)
    BY <1>1
  <2> QED
    BY <1>1, <2>1 DEF Begins
<1>3. ASSUME NEW k \in 1 .. Len(t) PROVE (s \o t)[Len(s) + k] = t[k]
  <2>1. /\ Len(s) + k \in 1 .. Len(s) + Len(t) /\ ~(Len(s) + k <= Len(s))
        /\ (Len(s) + k) - Len(s) = k
    BY <1>1
  <2> QED
    BY <1>1, <2>1
<1> QED
  BY <1>1, <1>2, <1>3

LEMMA JoinsBegin ==
  ASSUME NEW p \in Seq(Text), NEW U, IsJoin(U, p), NEW i \in Nat, NEW n \in Nat,
         i <= n, n <= Len(p)
  PROVE  Begins(U[i], U[n])
<1> DEFINE There == {m \in Nat : i + m <= Len(p) => Begins(U[i], U[i + m])}
<1>0. \A m \in Nat : U[m] \in Text /\ Len(U[m]) \in Nat
  BY DEF IsJoin, Text
<1>1. 0 \in There
  BY <1>0 DEF Begins
<1>2. ASSUME NEW m \in Nat, m \in There PROVE m + 1 \in There
  <2> SUFFICES ASSUME i + (m + 1) <= Len(p) PROVE Begins(U[i], U[i + (m + 1)])
    OBVIOUS
  <2>1. PICK j \in Nat : j = i + m
    OBVIOUS
  <2>2. j + 1 \in DOMAIN p /\ i + (m + 1) = j + 1 /\ Begins(U[i], U[j])
    BY <1>2, <2>1
  <2>3. U[j + 1] = U[j] \o p[j + 1] /\ p[j + 1] \in Text
    BY <2>2 DEF IsJoin
  <2>4. Begins(U[j], U[j + 1])
    <3>1. U[j] \in Text /\ Begins(U[j], U[j] \o p[j + 1])
      BY <1>0, <2>3, ConcatIs
    <3> QED
      BY <2>3, <3>1
  <2>5. Begins(U[i], U[j + 1])
    <3>1. Len(U[i]) <= Len(U[j + 1]) /\ Len(U[i]) <= Len(U[j])
      BY <1>0, <2>2, <2>4 DEF Begins
    <3>2. \A k \in 1 .. Len(U[i]) : k \in 1 .. Len(U[j])
      BY <1>0, <3>1
    <3> QED
      BY <2>2, <2>4, <3>1, <3>2 DEF Begins
  <2> QED
    BY <2>2, <2>5
<1> HIDE DEF There
<1>3. \A m \in Nat : m \in There
  BY <1>1, <1>2, AllNaturals
<1>4. n - i \in There /\ i + (n - i) = n
  BY <1>3
<1> QED
  BY <1>4 DEF There

\* After its first n characters, e continues with t.
Follows(e, n, t) == \A k \in 1 .. Len(t) : e[n + k] = t[k]

LEMMA PieceAt ==
  ASSUME NEW p \in Seq(Text), NEW U, IsJoin(U, p), NEW n \in Nat, n < Len(p)
  PROVE  /\ U[n] \in Text /\ p[n + 1] \in Text /\ U[n + 1] = U[n] \o p[n + 1]
         /\ Len(U[n]) + Len(p[n + 1]) <= Len(U[Len(p)])
         /\ Follows(U[Len(p)], Len(U[n]), p[n + 1])
<1>1. n + 1 \in Nat /\ n + 1 <= Len(p) /\ Len(p) \in Nat /\ n + 1 \in DOMAIN p
  OBVIOUS
<1>2. U[n] \in Text /\ p[n + 1] \in Text /\ U[n + 1] = U[n] \o p[n + 1]
  BY <1>1 DEF IsJoin
<1>3. Begins(U[n + 1], U[Len(p)])
  BY <1>1, JoinsBegin
<1> DEFINE a == U[n]
           b == p[n + 1]
           e == U[Len(p)]
<1>4. a \in Text /\ b \in Text /\ Begins(a \o b, e)
  BY <1>2, <1>3
<1> HIDE DEF a, b, e
<1>5. /\ Len(a) \in Nat /\ Len(b) \in Nat /\ Len(a \o b) = Len(a) + Len(b)
      /\ \A k \in 1 .. Len(b) : (a \o b)[Len(a) + k] = b[k]
  BY <1>4, ConcatIs
<1>6. \A k \in 1 .. Len(b) : Len(a) + k \in 1 .. Len(a) + Len(b)
  BY <1>5
<1>7. Len(a) + Len(b) <= Len(e) /\ Follows(e, Len(a), b)
  BY <1>4, <1>5, <1>6 DEF Begins, Follows
<1> QED
  BY <1>2, <1>7 DEF a, b, e

\* A character, two underscores, or an underscore and two other characters: none begins with
\* another.
IsCode(t) == \/ Len(t) = 1 /\ t[1] # "_"
             \/ Len(t) = 2 /\ t[1] = "_" /\ t[2] = "_"
             \/ Len(t) = 3 /\ t[1] = "_" /\ t[2] # "_"
Codes == {t \in Text : IsCode(t)}

LEMMA CodesAre ==
  ASSUME NEW t \in Codes
  PROVE  t \in Text /\ IsCode(t) /\ Len(t) \in Nat \ {0}
<1>1. t \in Text /\ IsCode(t)
  BY DEF Codes
<1>2. Len(t) = 1 \/ Len(t) = 2 \/ Len(t) = 3
  BY <1>1, Zenon DEF IsCode
<1> DEFINE n == Len(t)
<1>3. n = 1 \/ n = 2 \/ n = 3
  BY <1>2
<1> HIDE DEF n
<1>4. n \in Nat \ {0}
  BY <1>3
<1> QED
  BY <1>1, <1>4 DEF n

LEMMA CodesArePrefixFree ==
  ASSUME NEW s \in Codes, NEW t \in Codes, NEW e, NEW n \in Nat, Follows(e, n, s), Follows(e, n, t)
  PROVE  s = t
<1>1. s \in Text /\ t \in Text /\ IsCode(s) /\ IsCode(t)
  BY CodesAre
<1> DEFINE l == Len(s)
           m == Len(t)
<1>2. l \in Nat \ {0} /\ m \in Nat \ {0}
  BY CodesAre
<1> HIDE DEF l, m
<1>3. s[1] = t[1]
  <2>1. 1 \in 1 .. l /\ 1 \in 1 .. m
    BY <1>2
  <2> QED
    BY <2>1 DEF l, m, Follows
<1>4. ASSUME l # 1, m # 1 PROVE s[2] = t[2]
  <2>1. 2 \in 1 .. l /\ 2 \in 1 .. m
    BY <1>2, <1>4
  <2> QED
    BY <2>1 DEF l, m, Follows
<1>5. l = m
  <2>0. 1 # 2 /\ 1 # 3
    OBVIOUS
  <2>1. CASE l = 1
    BY <1>1, <1>3, <2>0, <2>1, Zenon DEF IsCode, l, m
  <2>2. CASE m = 1
    BY <1>1, <1>3, <2>0, <2>2, Zenon DEF IsCode, l, m
  <2>3. CASE l # 1 /\ m # 1
    BY <1>1, <1>4, <2>3, Zenon DEF IsCode, l, m
  <2> QED
    BY <2>1, <2>2, <2>3
<1>6. Len(s) = Len(t)
  BY <1>5 DEF l, m
<1>7. \A k \in 1 .. Len(s) : s[k] = t[k]
  BY <1>6 DEF Follows
<1> QED
  BY <1>1, <1>6, <1>7, SeqEqual DEF Text

LEMMA CodesAreText ==
  ASSUME NEW p \in Seq(Codes)
  PROVE  p \in Seq(Text)
<1>1. Codes \subseteq Text
  BY DEF Codes
<1> QED
  BY <1>1, SeqMonotonic

LEMMA CodeAt ==
  ASSUME NEW p \in Seq(Codes), NEW U, IsJoin(U, p), NEW n \in Nat, n < Len(p)
  PROVE  /\ p[n + 1] \in Codes /\ U[n + 1] = U[n] \o p[n + 1]
         /\ Len(U[n]) \in Nat /\ Len(p[n + 1]) \in Nat \ {0}
         /\ Len(U[n]) + Len(p[n + 1]) <= Len(U[Len(p)])
         /\ Follows(U[Len(p)], Len(U[n]), p[n + 1])
<1>1. p[n + 1] \in Codes
  <2>1. n + 1 \in 1 .. Len(p)
    OBVIOUS
  <2> QED
    BY <2>1
<1>2. Len(p[n + 1]) \in Nat \ {0}
  BY <1>1, CodesAre
<1>3. /\ U[n] \in Text /\ U[n + 1] = U[n] \o p[n + 1]
      /\ Len(U[n]) + Len(p[n + 1]) <= Len(U[Len(p)])
      /\ Follows(U[Len(p)], Len(U[n]), p[n + 1])
  BY CodesAreText, PieceAt, Zenon
<1>4. Len(U[n]) \in Nat
  BY <1>3 DEF Text
<1> QED
  BY <1>1, <1>2, <1>3, <1>4

LEMMA LastCode ==
  ASSUME NEW p \in Seq(Codes), NEW U, IsJoin(U, p), NEW n \in Nat, n <= Len(p),
         Len(U[Len(p)]) <= Len(U[n])
  PROVE  n = Len(p)
<1> SUFFICES ASSUME n < Len(p) PROVE FALSE
  OBVIOUS
<1>1. /\ Len(U[n]) \in Nat /\ Len(p[n + 1]) \in Nat \ {0}
      /\ Len(U[n]) + Len(p[n + 1]) <= Len(U[Len(p)])
  BY CodeAt
<1>2. Len(U[Len(p)]) \in Nat
  BY CodesAreText DEF IsJoin, Text
<1> DEFINE a == Len(U[n])
           b == Len(p[n + 1])
           c == Len(U[Len(p)])
<1>3. a \in Nat /\ b \in Nat \ {0} /\ a + b <= c /\ c \in Nat /\ c <= a
  BY <1>1, <1>2
<1> HIDE DEF a, b, c
<1> QED
  BY <1>3

LEMMA SamePieces ==
  ASSUME NEW p \in Seq(Codes), NEW s \in Seq(Codes), NEW U, NEW V, IsJoin(U, p), IsJoin(V, s),
         U[Len(p)] = V[Len(s)]
  PROVE  p = s
<1> DEFINE There == {n \in Nat : n <= Len(p) => /\ n <= Len(s) /\ U[n] = V[n]
                                                /\ \A i \in 1 .. n : p[i] = s[i]}
<1>0. Len(p) \in Nat /\ Len(s) \in Nat
  OBVIOUS
<1>1. \A n \in Nat : Len(U[n]) \in Nat
  BY DEF IsJoin, Text
<1>2. 0 \in There
  BY <1>0 DEF IsJoin
<1>3. ASSUME NEW n \in Nat, n \in There PROVE n + 1 \in There
  <2> SUFFICES ASSUME n + 1 <= Len(p)
               PROVE  /\ n + 1 <= Len(s) /\ U[n + 1] = V[n + 1]
                      /\ \A i \in 1 .. n + 1 : p[i] = s[i]
    OBVIOUS
  <2>0. n < Len(p)
    BY <1>0
  <2>1. n < Len(p) /\ n <= Len(s) /\ U[n] = V[n] /\ \A i \in 1 .. n : p[i] = s[i]
    BY <1>0, <1>3
  <2>2. n < Len(s)
    <3> SUFFICES ASSUME n = Len(s) PROVE FALSE
      BY <1>0, <2>1
    <3>1. U[n] = U[Len(p)]
      BY <2>1
    <3>2. Len(U[Len(p)]) <= Len(U[n])
      BY <1>1, <3>1
    <3> QED
      BY <1>0, <2>1, <3>2, LastCode
  <2>3. /\ p[n + 1] \in Codes /\ U[n + 1] = U[n] \o p[n + 1]
        /\ Follows(U[Len(p)], Len(U[n]), p[n + 1])
    BY <2>0, CodeAt, Zenon
  <2>4. /\ s[n + 1] \in Codes /\ V[n + 1] = V[n] \o s[n + 1]
        /\ Follows(V[Len(s)], Len(V[n]), s[n + 1])
    BY <2>2, CodeAt, Zenon
  <2>5. p[n + 1] = s[n + 1]
    <3>1. Len(U[n]) \in Nat /\ Follows(U[Len(p)], Len(U[n]), s[n + 1])
      BY <1>1, <2>1, <2>4
    <3> QED
      BY <2>3, <2>4, <3>1, CodesArePrefixFree
  <2>6. U[n + 1] = V[n + 1]
    BY <2>1, <2>3, <2>4, <2>5
  <2>7. \A i \in 1 .. n + 1 : i \in 1 .. n \/ i = n + 1
    OBVIOUS
  <2> QED
    BY <1>0, <2>1, <2>2, <2>5, <2>6, <2>7
<1> HIDE DEF There
<1>4. \A n \in Nat : n \in There
  BY <1>2, <1>3, AllNaturals
<1>5. /\ Len(p) <= Len(s) /\ U[Len(p)] = V[Len(p)] /\ \A i \in 1 .. Len(p) : p[i] = s[i]
  BY <1>0, <1>4 DEF There
<1>6. Len(p) = Len(s)
  <2>1. V[Len(s)] = V[Len(p)]
    BY <1>5
  <2>2. Len(V[Len(s)]) <= Len(V[Len(p)])
    BY <1>0, <1>1, <1>5, <2>1
  <2> QED
    BY <1>0, <1>5, <2>2, LastCode
<1> QED
  BY <1>0, <1>5, <1>6, SeqEqual

\* The first piece of a tag, and what it says of the piece at the beginning of every encoding.
IsFirst(t) ==
  \/ Len(t) = 1 /\ t[1] \notin {"_", "-", "."}
  \/ Len(t) = 2 /\ t[1] = "_" /\ t[2] = "_"
  \/ Len(t) = 3 /\ t[1] = "_" /\ t[2] = "2" /\ t[3] # "_"
  \/ Len(t) = 3 /\ t[1] = "_" /\ t[2] \in {"t", "r", "x"} /\ t[3] = "_"

LEMMA RefIs ==
  ASSUME NEW r \in Refs
  PROVE  /\ r.ns \in {"heads", "tags", "refs", "other"} /\ r.name \in Seq(STRING)
         /\ Len(r.name) \in Nat \ {0} /\ DOMAIN r.name = 1 .. Len(r.name)
         /\ r = [ns |-> r.ns, name |-> r.name]
<1>1. /\ r \in [ns : {"heads", "tags", "refs", "other"}, name : Seq(STRING)]
      /\ r.name # <<>>
  BY PartsAssumption, Zenon
<1>2. r.ns \in {"heads", "tags", "refs", "other"} /\ r.name \in Seq(STRING)
      /\ r = [ns |-> r.ns, name |-> r.name]
  BY <1>1
<1>3. Len(r.name) \in Nat \ {0} /\ DOMAIN r.name = 1 .. Len(r.name)
  BY <1>1, <1>2, EmptySeq
<1> QED
  BY <1>2, <1>3

LEMMA LettersAreChars == \A c \in Letters : c \in Chars
BY DEF Letters, Strings, Chars

LEMMA Prefixed ==
  ASSUME NEW a \in Chars, NEW b \in Chars, NEW c \in Chars
  PROVE  <<a>> \o <<b, c>> = <<a, b, c>>
<1> DEFINE s == <<a>>
           t == <<b, c>>
           u == <<a, b, c>>
<1>1. /\ s \in Text /\ t \in Text /\ u \in Text /\ Len(s) = 1 /\ Len(t) = 2 /\ Len(u) = 3
      /\ s[1] = a /\ t[1] = b /\ t[2] = c /\ u[1] = a /\ u[2] = b /\ u[3] = c
  BY DEF Text
<1> HIDE DEF s, t, u
<1>2. /\ s \o t \in Text /\ Len(s \o t) = Len(s) + Len(t)
      /\ \A i \in 1 .. Len(s) + Len(t) :
           (s \o t)[i] = IF i <= Len(s) THEN s[i] ELSE t[i - Len(s)]
  BY <1>1, ConcatProperties, Zenon DEF Text
<1>3. (s \o t)[1] = a /\ (s \o t)[2] = b /\ (s \o t)[3] = c /\ Len(s \o t) = 3
  BY <1>1, <1>2
<1>4. \A i \in 1 .. 3 : i = 1 \/ i = 2 \/ i = 3
  OBVIOUS
<1>5. \A i \in 1 .. Len(s \o t) : (s \o t)[i] = u[i]
  BY <1>1, <1>3, <1>4
<1>6. s \o t = u
  BY <1>1, <1>2, <1>3, <1>5, SeqEqual DEF Text
<1> QED
  BY <1>6 DEF s, t, u

\* What tuples are, apart from what they are of: with strings in sight, the provers take
\* characters for something else.
LEMMA Tuples ==
  ASSUME NEW a, NEW b, NEW c
  PROVE  /\ Len(<<a>>) = 1 /\ <<a>>[1] = a
         /\ Len(<<a, b>>) = 2 /\ <<a, b>>[1] = a /\ <<a, b>>[2] = b
         /\ Len(<<a, b, c>>) = 3 /\ <<a, b, c>>[1] = a /\ <<a, b, c>>[2] = b /\ <<a, b, c>>[3] = c
         /\ 1 # 2 /\ 1 # 3 /\ 2 # 3
OBVIOUS

LEMMA TuplesAreText ==
  ASSUME NEW a \in Chars, NEW b \in Chars, NEW c \in Chars
  PROVE  <<a>> \in Text /\ <<a, b>> \in Text /\ <<a, b, c>> \in Text
BY DEF Text

LEMMA CodeOfOne ==
  ASSUME NEW c \in Chars, c # "_"
  PROVE  <<c>> \in Codes
BY Tuples, TuplesAreText, Zenon DEF Codes, IsCode

LEMMA CodeOfTwo == <<"_", "_">> \in Codes
<1>1. "_" \in Chars
  BY LettersAreChars DEF Letters
<1> QED
  BY <1>1, Tuples, TuplesAreText, Zenon DEF Codes, IsCode

LEMMA CodeOfThree ==
  ASSUME NEW c \in Chars, NEW d \in Chars, c # "_"
  PROVE  <<"_", c, d>> \in Codes
<1>1. "_" \in Chars
  BY LettersAreChars DEF Letters
<1>2. <<"_", c, d>> \in Text
  BY <1>1, TuplesAreText, Zenon
<1>3. Len(<<"_", c, d>>) = 3 /\ <<"_", c, d>>[1] = "_" /\ <<"_", c, d>>[2] = c
  BY Tuples, Zenon
<1> QED
  BY <1>2, <1>3, Zenon DEF Codes, IsCode

\* What stands for character c at place i of a name, which starts at 1.
EscapeOf(i, c) ==
  IF i = 1 /\ c \in {".", "-"} THEN <<"_">> \o T!Code[c] ELSE T!Escaped(c)

LEMMA EscapedIs ==
  ASSUME NEW i \in Nat, NEW c
  PROVE  EscapeOf(i, c) =
           IF c = "_" THEN <<"_", "_">>
           ELSE IF c = "/" THEN <<"_", "2", "f">>
           ELSE IF i = 1 /\ c = "-" THEN <<"_", "2", "d">>
           ELSE IF i = 1 /\ c = "." THEN <<"_", "2", "e">>
           ELSE <<c>>
<1>1. /\ T!Code["/"] = <<"2", "f">> /\ T!Code["-"] = <<"2", "d">> /\ T!Code["."] = <<"2", "e">>
  BY DEF T!Code
<1>2. /\ <<"_">> \o <<"2", "f">> = <<"_", "2", "f">>
      /\ <<"_">> \o <<"2", "d">> = <<"_", "2", "d">>
      /\ <<"_">> \o <<"2", "e">> = <<"_", "2", "e">>
  <2>1. "_" \in Chars /\ "2" \in Chars /\ "d" \in Chars /\ "e" \in Chars /\ "f" \in Chars
    BY LettersAreChars DEF Letters
  <2> QED
    BY <2>1, Prefixed
<1>3. CASE c = "_"
  BY <1>3 DEF EscapeOf, T!Escaped
<1>4. CASE c = "/"
  BY <1>1, <1>2, <1>4 DEF EscapeOf, T!Escaped
<1>5. CASE c \notin {"_", "/"}
  BY <1>1, <1>2, <1>5 DEF EscapeOf, T!Escaped
<1> QED
  BY <1>3, <1>4, <1>5

LEMMA EscapesAreCodes ==
  ASSUME NEW i \in Nat, NEW c \in Strings
  PROVE  EscapeOf(i, c) \in Codes
<1>1. "2" \in Chars /\ "d" \in Chars /\ "e" \in Chars /\ "f" \in Chars
  BY LettersAreChars DEF Letters
<1>2. /\ <<"_", "2", "f">> \in Codes /\ <<"_", "2", "d">> \in Codes
      /\ <<"_", "2", "e">> \in Codes /\ <<"_", "_">> \in Codes
  BY <1>1, CodeOfTwo, CodeOfThree
<1>3. c \notin {"_", "/"} => <<c>> \in Codes
  BY CodeOfOne DEF Chars
<1> QED
  BY <1>2, <1>3, EscapedIs

\* What is seen of it.
Shows(i, c, x) ==
  \/ c = "_" /\ Len(x) = 2 /\ x[1] = "_" /\ x[2] = "_"
  \/ c = "/" /\ Len(x) = 3 /\ x[1] = "_" /\ x[2] = "2" /\ x[3] = "f"
  \/ c = "-" /\ i = 1 /\ Len(x) = 3 /\ x[1] = "_" /\ x[2] = "2" /\ x[3] = "d"
  \/ c = "." /\ i = 1 /\ Len(x) = 3 /\ x[1] = "_" /\ x[2] = "2" /\ x[3] = "e"
  \/ c # "_" /\ (i = 1 => c \notin {"-", "."}) /\ Len(x) = 1 /\ x[1] = c

LEMMA EscapesShow ==
  ASSUME NEW i \in Nat, NEW c
  PROVE  Shows(i, c, EscapeOf(i, c))
<1> SUFFICES ASSUME NEW x, x = EscapeOf(i, c) PROVE Shows(i, c, x)
  OBVIOUS
<1> USE DEF Shows
<1>1. CASE c = "_"
  <2>1. x = <<"_", "_">>
    BY <1>1, EscapedIs
  <2>2. /\ Len(<<"_", "_">>) = 2
        /\ <<"_", "_">>[1] = "_" /\ <<"_", "_">>[2] = "_"
    BY Tuples, Zenon
  <2> QED
    BY <1>1, <2>1, <2>2, Zenon
<1>2. CASE c = "/"
  <2>1. x = <<"_", "2", "f">>
    BY <1>2, EscapedIs
  <2>2. /\ Len(<<"_", "2", "f">>) = 3
        /\ <<"_", "2", "f">>[1] = "_" /\ <<"_", "2", "f">>[2] = "2" /\ <<"_", "2", "f">>[3] = "f"
    BY Tuples, Zenon
  <2> QED
    BY <1>2, <2>1, <2>2, Zenon
<1>3. CASE c = "-" /\ i = 1
  <2>1. x = <<"_", "2", "d">>
    BY <1>3, EscapedIs
  <2>2. /\ Len(<<"_", "2", "d">>) = 3
        /\ <<"_", "2", "d">>[1] = "_" /\ <<"_", "2", "d">>[2] = "2" /\ <<"_", "2", "d">>[3] = "d"
    BY Tuples, Zenon
  <2> QED
    BY <1>3, <2>1, <2>2, Zenon
<1>4. CASE c = "." /\ i = 1
  <2>1. x = <<"_", "2", "e">>
    BY <1>4, EscapedIs
  <2>2. /\ Len(<<"_", "2", "e">>) = 3
        /\ <<"_", "2", "e">>[1] = "_" /\ <<"_", "2", "e">>[2] = "2" /\ <<"_", "2", "e">>[3] = "e"
    BY Tuples, Zenon
  <2> QED
    BY <1>4, <2>1, <2>2, Zenon
<1>5. CASE c \notin {"_", "/"} /\ (i = 1 => c \notin {"-", "."})
  <2>1. x = <<c>>
    BY <1>5, EscapedIs
  <2> QED
    BY <1>5, <2>1, Tuples, Zenon
<1> QED
  BY <1>1, <1>2, <1>3, <1>4, <1>5, Zenon

LEMMA EscapesDiffer ==
  ASSUME NEW i \in Nat, NEW c, NEW d, EscapeOf(i, c) = EscapeOf(i, d)
  PROVE  c = d
<1> SUFFICES ASSUME NEW x, Shows(i, c, x), Shows(i, d, x) PROVE c = d
  BY EscapesShow, Zenon
<1>1. 1 # 2 /\ 1 # 3 /\ 2 # 3
  OBVIOUS
<1>2. CASE Len(x) = 1
  BY <1>1, <1>2, Zenon DEF Shows
<1>3. CASE Len(x) = 2
  BY <1>1, <1>3, Zenon DEF Shows
<1>4. CASE Len(x) = 3
  BY <1>1, <1>4, Zenon DEF Shows
<1> QED
  BY <1>2, <1>3, <1>4, Zenon DEF Shows

LEMMA EscapesAreNotMarkers ==
  ASSUME NEW i \in Nat, NEW c, NEW m
  PROVE  EscapeOf(i, c) # <<"_", m, "_">>
<1> SUFFICES ASSUME NEW x, Shows(i, c, x), x = <<"_", m, "_">> PROVE FALSE
  BY EscapesShow, Zenon
<1>1. Len(<<"_", m, "_">>) = 3 /\ <<"_", m, "_">>[3] = "_" /\ 3 # 1 /\ 3 # 2
  BY Tuples, Zenon
<1>2. Len(x) = 3 /\ x[3] = "_"
  BY <1>1, Zenon
<1> QED
  BY <1>1, <1>2, Zenon DEF Shows

LEMMA EscapesStart ==
  ASSUME NEW c
  PROVE  IsFirst(EscapeOf(1, c))
<1> SUFFICES ASSUME NEW x, Shows(1, c, x) PROVE IsFirst(x)
  BY EscapesShow, Zenon
<1> QED
  BY Zenon DEF Shows, IsFirst

LEMMA EscapesAre ==
  ASSUME NEW r \in Refs
  PROVE  /\ T!Escapes(r.name) \in Seq(Codes) /\ Len(T!Escapes(r.name)) = Len(r.name)
         /\ \A i \in 1 .. Len(r.name) : T!Escapes(r.name)[i] = EscapeOf(i, r.name[i])
<1> DEFINE n == Len(r.name)
           E == [i \in 1 .. n |-> EscapeOf(i, r.name[i])]
<1>1. n \in Nat /\ DOMAIN r.name = 1 .. n
  BY RefIs
<1>2. T!Escapes(r.name) = E
  BY <1>1, Zenon DEF T!Escapes, EscapeOf
<1>3. ASSUME NEW i \in 1 .. n PROVE EscapeOf(i, r.name[i]) \in Codes
  <2>1. r.name[i] \in STRING /\ i \in Nat
    BY RefIs
  <2>2. r.name[i] \in Strings
    BY <2>1 DEF Strings
  <2> QED
    BY <2>1, <2>2, EscapesAreCodes
<1> HIDE DEF n
<1>4. E \in [1 .. n -> Codes]
  BY <1>3
<1>5. \A i \in 1 .. n : E[i] = EscapeOf(i, r.name[i])
  OBVIOUS
<1> HIDE DEF E
<1>6. E \in Seq(Codes) /\ Len(E) = n
  BY <1>1, <1>4
<1> QED
  BY <1>2, <1>5, <1>6, Zenon DEF n

LEMMA MarkerIs ==
  ASSUME NEW r \in Refs
  PROVE  \/ r.ns = "heads" /\ T!Marker(r) = <<>>
         \/ r.ns = "tags" /\ T!Marker(r) = <<"_", "t", "_">>
         \/ r.ns = "refs" /\ T!Marker(r) = <<"_", "r", "_">>
         \/ r.ns = "other" /\ T!Marker(r) = <<"_", "x", "_">>
<1>1. r.ns \in {"heads", "tags", "refs", "other"}
  BY RefIs
<1> QED
  BY <1>1 DEF T!Marker

LEMMA MarkersAre ==
  ASSUME NEW r \in Refs, r.ns # "heads"
  PROVE  /\ T!Marker(r) \in Codes /\ IsFirst(T!Marker(r)) /\ T!Marker(r) # <<>>
         /\ \E m : T!Marker(r) = <<"_", m, "_">>
         /\ \A q \in Refs : T!Marker(q) = T!Marker(r) => q.ns = r.ns
<1>1. PICK m \in {"t", "r", "x"} : T!Marker(r) = <<"_", m, "_">>
  BY MarkerIs, Zenon
<1>2. "_" \in Chars /\ m \in Chars /\ m # "_"
  BY LettersAreChars DEF Letters
<1>3. <<"_", m, "_">> \in Codes
  BY <1>2, CodeOfThree, Zenon
<1>4. /\ Len(<<"_", m, "_">>) = 3 /\ <<"_", m, "_">>[1] = "_" /\ <<"_", m, "_">>[2] = m
      /\ <<"_", m, "_">>[3] = "_"
  BY Tuples, Zenon
<1>5. IsFirst(<<"_", m, "_">>)
  BY <1>4, Zenon DEF IsFirst
<1>6. <<"_", m, "_">> # <<>>
  OBVIOUS
<1>7. ASSUME NEW q \in Refs, T!Marker(q) = T!Marker(r) PROVE q.ns = r.ns
  <2>1. T!Marker(q) # <<>>
    BY <1>1, <1>6, <1>7, Zenon
  <2>2. ASSUME NEW a, NEW b, <<"_", a, "_">> = <<"_", b, "_">> PROVE a = b
    <3>1. <<"_", a, "_">>[2] = a /\ <<"_", b, "_">>[2] = b
      BY Tuples, Zenon
    <3> QED
      BY <2>2, <3>1, Zenon
  <2>3. "t" # "r" /\ "t" # "x" /\ "r" # "x"
    OBVIOUS
  <2> QED
    BY <1>7, <2>1, <2>2, <2>3, MarkerIs, Zenon
<1> QED
  BY <1>1, <1>3, <1>5, <1>6, <1>7, Zenon

\* The place of the name among the pieces.
Offset(r) == IF r.ns = "heads" THEN 0 ELSE 1

LEMMA PiecesAre ==
  ASSUME NEW r \in Refs
  PROVE  /\ T!Pieces(r) \in Seq(Codes) /\ Len(T!Pieces(r)) = Offset(r) + Len(r.name)
         /\ \A i \in 1 .. Len(r.name) : T!Pieces(r)[Offset(r) + i] = EscapeOf(i, r.name[i])
         /\ Offset(r) = 1 => T!Pieces(r)[1] = T!Marker(r)
         /\ IsFirst(T!Pieces(r)[1])
<1> DEFINE E == T!Escapes(r.name)
           n == Len(r.name)
           m == T!Marker(r)
<1>1. E \in Seq(Codes) /\ Len(E) = n /\ \A i \in 1 .. n : E[i] = EscapeOf(i, r.name[i])
  BY EscapesAre, Zenon
<1>2. n \in Nat \ {0}
  BY RefIs
<1>3. CASE r.ns = "heads"
  <2>1. T!Pieces(r) = <<>> \o E /\ Offset(r) = 0
    BY <1>3, MarkerIs DEF T!Pieces, Offset
  <2> HIDE DEF E, n
  <2>2. <<>> \o E = E
    BY <1>1, ConcatEmptySeq
  <2>3. 1 \in 1 .. n /\ \A i \in 1 .. n : 0 + i = i
    BY <1>2
  <2>4. IsFirst(E[1])
    BY <1>1, <2>3, EscapesStart, Zenon
  <2> QED
    BY <1>1, <1>2, <2>1, <2>2, <2>3, <2>4 DEF n
<1>4. CASE r.ns # "heads"
  <2>1. T!Pieces(r) = <<m>> \o E /\ Offset(r) = 1 /\ m \in Codes /\ IsFirst(m)
    BY <1>4, MarkersAre DEF T!Pieces, Offset
  <2> HIDE DEF E, n, m
  <2> DEFINE s == <<m>>
  <2>2. s \in Seq(Codes) /\ Len(s) = 1 /\ s[1] = m
    BY <2>1
  <2> HIDE DEF s
  <2>3. /\ s \o E \in Seq(Codes) /\ Len(s \o E) = Len(s) + Len(E)
        /\ \A i \in 1 .. Len(s) + Len(E) :
             (s \o E)[i] = IF i <= Len(s) THEN s[i] ELSE E[i - Len(s)]
    BY <1>1, <2>2, ConcatProperties, Zenon
  <2>4. Len(s \o E) = 1 + n /\ (s \o E)[1] = m
    BY <1>1, <1>2, <2>2, <2>3
  <2>5. ASSUME NEW i \in 1 .. n PROVE (s \o E)[1 + i] = EscapeOf(i, r.name[i])
    <3>1. 1 + i \in 1 .. Len(s) + Len(E) /\ ~(1 + i <= Len(s)) /\ (1 + i) - Len(s) = i
      BY <1>1, <1>2, <2>2
    <3> QED
      BY <1>1, <2>3, <3>1
  <2> QED
    BY <2>1, <2>3, <2>4, <2>5 DEF s, m, n
<1> QED
  BY <1>3, <1>4

LEMMA SameRef ==
  ASSUME NEW q \in Refs, NEW r \in Refs, T!Pieces(q) = T!Pieces(r)
  PROVE  q = r
<1> DEFINE P == T!Pieces(q)
<1>1. q.ns = r.ns
  <2>1. ASSUME NEW s \in Refs, NEW t \in Refs, T!Pieces(s) = T!Pieces(t), Offset(s) = 0
        PROVE  Offset(t) # 1
    <3> SUFFICES ASSUME Offset(t) = 1 PROVE FALSE
      OBVIOUS
    <3>0. t.ns # "heads"
      BY DEF Offset
    <3>1. PICK m : T!Marker(t) = <<"_", m, "_">>
      BY <3>0, MarkersAre, Zenon
    <3>4. T!Pieces(t)[1] = <<"_", m, "_">>
      BY <3>1, PiecesAre, Zenon
    <3>2. 1 \in 1 .. Len(s.name) /\ 0 + 1 = 1 /\ 1 \in Nat
      BY RefIs
    <3>3. T!Pieces(s)[1] = EscapeOf(1, s.name[1])
      BY <2>1, <3>2, PiecesAre
    <3> QED
      BY <2>1, <3>2, <3>3, <3>4, EscapesAreNotMarkers, Zenon
  <2>2. Offset(q) = Offset(r)
    BY <2>1 DEF Offset
  <2>3. CASE Offset(q) = 0
    BY <2>2, <2>3 DEF Offset
  <2>4. CASE Offset(q) = 1
    <3>1. q.ns # "heads" /\ r.ns # "heads"
      BY <2>2, <2>4 DEF Offset
    <3>2. T!Marker(q) = T!Marker(r)
      BY <2>2, <2>4, PiecesAre, Zenon
    <3> QED
      BY <3>1, <3>2, MarkersAre, Zenon
  <2> QED
    BY <2>3, <2>4 DEF Offset
<1>2. Offset(q) = Offset(r)
  BY <1>1 DEF Offset
<1>3. Len(q.name) = Len(r.name)
  <2>1. Offset(q) \in Nat /\ Len(q.name) \in Nat /\ Len(r.name) \in Nat
    BY RefIs DEF Offset
  <2> QED
    BY <1>2, <2>1, PiecesAre
<1>4. ASSUME NEW i \in 1 .. Len(q.name) PROVE q.name[i] = r.name[i]
  <2>1. EscapeOf(i, q.name[i]) = EscapeOf(i, r.name[i])
    BY <1>2, <1>3, PiecesAre, Zenon
  <2>2. i \in Nat
    BY RefIs
  <2> QED
    BY <2>1, <2>2, EscapesDiffer, Zenon
<1>5. q.name = r.name
  <2>1. q.name \in Seq(STRING) /\ r.name \in Seq(STRING)
    BY RefIs
  <2> QED
    BY <1>3, <1>4, <2>1, SeqEqual
<1> QED
  BY <1>1, <1>5, RefIs, Zenon

\* How encodings begin.
Opens(e) ==
  \/ e[1] \notin {"_", "-", "."}
  \/ e[1] = "_" /\ e[2] \in {"_", "2"}
  \/ e[1] = "_" /\ e[2] \in {"t", "r", "x"} /\ e[3] = "_"

LEMMA EncodedIs ==
  ASSUME NEW r \in Refs
  PROVE  /\ T!Pieces(r) \in Seq(Codes)
         /\ \E U : IsJoin(U, T!Pieces(r)) /\ T!Encoded(r) = U[Len(T!Pieces(r))]
<1>1. T!Pieces(r) \in Seq(Codes) /\ T!Pieces(r) \in Seq(Text)
  BY PiecesAre, CodesAreText, Zenon
<1>2. PICK U : IsJoin(U, T!Pieces(r))
  BY <1>1, JoinExists, Zenon
<1>3. T!Encoded(r) = U[Len(T!Pieces(r))]
  BY <1>1, <1>2, Flattened, Zenon DEF T!Encoded
<1> QED
  BY <1>1, <1>2, <1>3, Zenon

LEMMA EncodedDiffer ==
  ASSUME NEW q \in Refs, NEW r \in Refs, T!Encoded(q) = T!Encoded(r)
  PROVE  q = r
BY EncodedIs, SamePieces, SameRef, Zenon

LEMMA EncodedStarts ==
  ASSUME NEW r \in Refs
  PROVE  T!Encoded(r) \in Text /\ Len(T!Encoded(r)) \in Nat \ {0} /\ Opens(T!Encoded(r))
<1> DEFINE p == T!Pieces(r)
           e == T!Encoded(r)
           t == p[1]
<1>1. p \in Seq(Codes) /\ IsFirst(t) /\ Len(p) \in Nat \ {0}
  <2>1. Len(p) = Offset(r) + Len(r.name) /\ Offset(r) \in Nat /\ Len(r.name) \in Nat \ {0}
    BY PiecesAre, RefIs DEF Offset
  <2> QED
    BY <2>1, PiecesAre
<1>2. PICK U : IsJoin(U, p) /\ e = U[Len(p)]
  BY EncodedIs, Zenon
<1> HIDE DEF p, e
<1>3. U[0] = <<>> /\ Len(U[0]) = 0 /\ e \in Text /\ Len(e) \in Nat
  BY <1>1, <1>2 DEF IsJoin, Text
<1>4. /\ p[0 + 1] \in Codes /\ Len(p[0 + 1]) \in Nat \ {0}
      /\ Len(U[0]) + Len(p[0 + 1]) <= Len(e) /\ Follows(e, Len(U[0]), p[0 + 1])
  <2>1. 0 \in Nat /\ 0 < Len(p)
    BY <1>1
  <2> QED
    BY <1>1, <1>2, <2>1, CodeAt, Zenon
<1>5. Len(t) \in Nat \ {0} /\ Len(t) <= Len(e) /\ \A k \in 1 .. Len(t) : e[k] = t[k]
  <2>1. 0 + 1 = 1 /\ \A k \in Nat : 0 + k = k
    OBVIOUS
  <2>2. Len(t) \in Nat \ {0} /\ Follows(e, 0, t)
    BY <1>3, <1>4, <2>1, Zenon
  <2>3. 0 + Len(t) <= Len(e)
    BY <1>3, <1>4, <2>1, Zenon
  <2>4. ASSUME NEW k \in 1 .. Len(t) PROVE e[k] = t[k]
    <3>1. k \in Nat
      BY <2>2
    <3> QED
      BY <2>1, <2>2, <3>1, Zenon DEF Follows
  <2> QED
    BY <2>2, <2>3, <2>4
<1> HIDE DEF t
<1>6. e[1] = t[1]
  BY <1>5
<1>7. Len(t) = 2 \/ Len(t) = 3 => e[2] = t[2]
  BY <1>5
<1>8. Len(t) = 3 => e[3] = t[3]
  BY <1>5
<1>9. Opens(e)
  BY <1>1, <1>6, <1>7, <1>8, Zenon DEF IsFirst, Opens
<1>10. Len(e) \in Nat \ {0}
  BY <1>3, <1>5
<1> QED
  BY <1>3, <1>9, <1>10 DEF e

LEMMA GreatestOf ==
  ASSUME NEW m \in Nat, NEW S \in SUBSET (0 .. m), S # {}
  PROVE  \E n \in S : \A k \in S : k <= n
<1> DEFINE Above == {x \in Nat : \A k \in S : k <= x}
<1>1. m \in Above /\ Above \in SUBSET Nat
  OBVIOUS
<1>2. PICK x \in Above : \A y \in Above : x <= y
  <2> HIDE DEF Above
  <2> QED
    BY <1>1, LeastOf
<1>3. x \in S
  <2> SUFFICES ASSUME x \notin S PROVE FALSE
    OBVIOUS
  <2>1. \A k \in S : k \in Nat /\ k <= x /\ k # x
    BY <1>2
  <2>2. \A k \in S : k <= x - 1
    BY <1>2, <2>1
  <2>3. x - 1 \in Nat
    <3>1. PICK k \in S : TRUE
      OBVIOUS
    <3>2. k \in Nat /\ k <= x - 1 /\ x \in Nat
      BY <1>2, <2>1, <2>2, <3>1
    <3> QED
      BY <3>2
  <2>4. x - 1 \in Above /\ ~(x <= x - 1)
    BY <1>2, <2>2, <2>3
  <2> QED
    BY <1>2, <2>4
<1> QED
  BY <1>2, <1>3

\* What is kept of a tag that is cut.
LEMMA DigestIs ==
  ASSUME NEW r
  PROVE  /\ T!Digest(r) \in Text /\ Len(T!Digest(r)) = 1 /\ T!Digest(r) = <<T!Digest(r)[1]>>
         /\ T!TruncatedMarker(r) \in Text /\ Len(T!TruncatedMarker(r)) = 3
         /\ T!TruncatedMarker(r)[1] = "_" /\ T!TruncatedMarker(r)[2] = "h"
         /\ <<"-">> \in Text /\ Len(<<"-">>) = 1
<1>1. "a" \in Chars /\ "2" \in Chars /\ "-" \in Chars /\ "_" \in Chars /\ "h" \in Chars
  BY LettersAreChars DEF Letters
<1>2. T!Digest(r) = <<"a">> \/ T!Digest(r) = <<"2">>
  BY Zenon DEF T!Digest
<1>3. T!TruncatedMarker(r) = <<"_", "h", "_">>
  BY Zenon DEF T!TruncatedMarker
<1>4. /\ <<"a">> \in Text /\ <<"2">> \in Text /\ <<"-">> \in Text /\ <<"_", "h", "_">> \in Text
  BY <1>1, TuplesAreText, Zenon
<1>5. /\ Len(<<"a">>) = 1 /\ Len(<<"2">>) = 1 /\ Len(<<"-">>) = 1 /\ Len(<<"_", "h", "_">>) = 3
      /\ <<"_", "h", "_">>[1] = "_" /\ <<"_", "h", "_">>[2] = "h"
      /\ <<"a">>[1] = "a" /\ <<"2">>[1] = "2"
  BY Tuples, Zenon
<1> QED
  BY <1>2, <1>3, <1>4, <1>5, Zenon

LEMMA JoinedText ==
  ASSUME NEW p \in Seq(Codes), NEW n \in 0 .. Len(p)
  PROVE  /\ T!FlattenSeq(SubSeq(p, 1, n)) \in Text
         /\ n = 0 => T!FlattenSeq(SubSeq(p, 1, n)) = <<>>
<1> DEFINE q == SubSeq(p, 1, n)
<1>1. p \in Seq(Text) /\ Len(p) \in Nat
  BY CodesAreText
<1>2. q \in Seq(Text) /\ Len(q) \in Nat /\ (n = 0 => Len(q) = 0)
  <2>1. \A i \in 1 .. n : p[i] \in Text
    BY <1>1
  <2>2. q \in Seq(Text) /\ Len(q) = IF 1 <= n THEN n - 1 + 1 ELSE 0
    BY <2>1, SubSeqProperties
  <2> QED
    BY <2>2
<1> HIDE DEF q
<1>3. PICK U : IsJoin(U, q)
  BY <1>2, JoinExists, Zenon
<1>4. T!FlattenSeq(q) = U[Len(q)]
  BY <1>2, <1>3, Flattened, Zenon
<1>5. U[Len(q)] \in Text /\ U[0] = <<>>
  BY <1>2, <1>3 DEF IsJoin
<1> QED
  BY <1>2, <1>4, <1>5 DEF q

LEMMA KeepIs ==
  ASSUME NEW r \in Refs
  PROVE  T!Keep(r) \in Text /\ Len(T!Keep(r)) \in 1 .. MaxTag - 5
<1> DEFINE limit == MaxTag - Len(T!TruncatedMarker(r)) - Len(T!Digest(r)) - 1
           p == T!Pieces(r)
           upto(n) == T!FlattenSeq(SubSeq(p, 1, n))
           whole == {n \in 0 .. Len(p) : Len(upto(n)) <= limit}
           last == CHOOSE n \in whole : \A m \in whole : m <= n
           s == upto(last)
           ends == {n \in DOMAIN s : s[n] \notin {"-", "."}} \union {0}
           end == CHOOSE n \in ends : \A m \in ends : m <= n
<1>1. T!Keep(r) = IF end = 0 THEN <<"r", "e", "f">> ELSE SubSeq(s, 1, end)
  BY Zenon DEF T!Keep
<1>2. limit = MaxTag - 5 /\ limit \in Nat /\ limit >= 3
  <2>1. MaxTag \in Nat /\ MaxTag >= 8
    BY PartsAssumption
  <2>2. limit = MaxTag - 3 - 1 - 1
    BY DigestIs, Zenon
  <2> HIDE DEF limit
  <2> QED
    BY <2>1, <2>2
<1>3. p \in Seq(Codes)
  BY PiecesAre
<1> HIDE DEF limit, p
<1>4. last \in whole
  <2>1. Len(p) \in Nat /\ 0 \in 0 .. Len(p)
    BY <1>3
  <2>2. upto(0) = <<>>
    BY <1>3, <2>1, JoinedText
  <2>3. Len(upto(0)) <= limit
    BY <1>2, <2>2
  <2>4. 0 \in whole /\ whole \in SUBSET (0 .. Len(p))
    BY <2>1, <2>3
  <2> HIDE DEF whole
  <2>5. \E n \in whole : \A m \in whole : m <= n
    BY <2>1, <2>4, GreatestOf
  <2> QED
    BY <2>5, Zenon
<1> HIDE DEF last
<1>5. s \in Text /\ Len(s) <= limit
  BY <1>3, <1>4, JoinedText
<1> HIDE DEF s
<1>6. Len(s) \in Nat /\ DOMAIN s = 1 .. Len(s) /\ \A i \in 1 .. Len(s) : s[i] \in Chars
  BY <1>5 DEF Text
<1>7. ends \in SUBSET (0 .. Len(s)) /\ 0 \in ends
  BY <1>6
<1> HIDE DEF ends
<1>8. end \in 0 .. Len(s)
  <2>1. \E n \in ends : \A m \in ends : m <= n
    BY <1>6, <1>7, GreatestOf
  <2>2. end \in ends
    BY <2>1, Zenon
  <2> QED
    BY <1>7, <2>2
<1> HIDE DEF end
<1>9. CASE end = 0
  <2>1. "r" \in Chars /\ "e" \in Chars /\ "f" \in Chars
    BY LettersAreChars DEF Letters
  <2>2. <<"r", "e", "f">> \in Text /\ Len(<<"r", "e", "f">>) = 3
    BY <2>1, Tuples, TuplesAreText, Zenon
  <2>3. 3 \in 1 .. MaxTag - 5
    BY <1>2
  <2> QED
    BY <1>1, <1>9, <2>2, <2>3, Zenon
<1>10. CASE end # 0
  <2>1. T!Keep(r) = SubSeq(s, 1, end)
    BY <1>1, <1>10, Zenon
  <2>2. end \in 1 .. Len(s)
    BY <1>6, <1>8, <1>10
  <2>3. \A i \in 1 .. end : s[i] \in Chars
    BY <1>6, <2>2
  <2>4. SubSeq(s, 1, end) \in Seq(Chars) /\ Len(SubSeq(s, 1, end)) = IF 1 <= end THEN end - 1 + 1 ELSE 0
    BY <2>2, <2>3, SubSeqProperties
  <2>5. Len(SubSeq(s, 1, end)) = end
    BY <2>2, <2>4
  <2>6. end \in 1 .. MaxTag - 5
    BY <1>2, <1>5, <1>6, <2>2
  <2> QED
    BY <2>1, <2>4, <2>5, <2>6, Zenon DEF Text
<1> QED
  BY <1>9, <1>10

CutTag(r) == T!TruncatedMarker(r) \o T!Keep(r) \o <<"-">> \o T!Digest(r)

LEMMA CutTagIs ==
  ASSUME NEW r \in Refs
  PROVE  /\ CutTag(r) \in Text /\ Len(CutTag(r)) \in 1 .. MaxTag
         /\ CutTag(r)[1] = "_" /\ CutTag(r)[2] = "h"
         /\ CutTag(r)[Len(CutTag(r))] = T!Digest(r)[1]
<1> DEFINE m == T!TruncatedMarker(r)
           k == T!Keep(r)
           h == <<"-">>
           d == T!Digest(r)
           a == m \o k
           b == a \o h
           x == b \o d
<1>0. m[1] = "_" /\ m[2] = "h"
  BY DigestIs, Zenon
<1>1. /\ m \in Text /\ k \in Text /\ h \in Text /\ d \in Text
      /\ Len(m) = 3 /\ Len(h) = 1 /\ Len(d) = 1
  BY DigestIs, KeepIs, Zenon
<1>2. Len(k) \in 1 .. MaxTag - 5
  BY KeepIs, Zenon
<1>3. CutTag(r) = x
  BY Zenon DEF CutTag
<1> HIDE DEF m, k, h, d, a, b, x
<1>4. a \in Text /\ Len(a) = Len(m) + Len(k) /\ Begins(m, a)
  BY <1>1, ConcatIs, Zenon DEF a
<1>5. b \in Text /\ Len(b) = Len(a) + Len(h) /\ Begins(a, b)
  BY <1>1, <1>4, ConcatIs, Zenon DEF b
<1>6. /\ x \in Text /\ Len(x) = Len(b) + Len(d) /\ Begins(b, x)
      /\ \A i \in 1 .. Len(d) : x[Len(b) + i] = d[i]
  BY <1>1, <1>5, ConcatIs, Zenon DEF x
<1>7. MaxTag \in Nat
  BY PartsAssumption
<1>8. Len(k) \in Nat \ {0} /\ Len(k) + 5 <= MaxTag
  BY <1>2, <1>7
<1>9. Len(a) = 3 + Len(k) /\ Len(b) = 4 + Len(k) /\ Len(x) = 5 + Len(k)
  <2>1. Len(a) = 3 + Len(k)
    BY <1>1, <1>4, Zenon
  <2>2. Len(b) = (3 + Len(k)) + 1 /\ Len(x) = ((3 + Len(k)) + 1) + 1
    BY <1>1, <1>5, <1>6, <2>1, Zenon
  <2> QED
    BY <1>8, <2>1, <2>2
<1> DEFINE n == Len(k)
<1>10. /\ Len(m) = 3 /\ Len(d) = 1 /\ Len(a) = 3 + n /\ Len(b) = 4 + n /\ Len(x) = 5 + n
       /\ n \in Nat \ {0} /\ n + 5 <= MaxTag
  BY <1>1, <1>8, <1>9, Zenon
<1> HIDE DEF n
<1>11. /\ 1 \in 1 .. 3 /\ 1 \in 1 .. 3 + n /\ 1 \in 1 .. 4 + n /\ 1 \in 1 .. 1
       /\ 2 \in 1 .. 3 /\ 2 \in 1 .. 3 + n /\ 2 \in 1 .. 4 + n
       /\ 5 + n = (4 + n) + 1 /\ 5 + n \in 1 .. MaxTag
  BY <1>7, <1>10
<1>12. x[1] = m[1] /\ x[2] = m[2]
  <2>1. a[1] = m[1] /\ a[2] = m[2]
    BY <1>4, <1>10, <1>11, Zenon DEF Begins
  <2>2. b[1] = a[1] /\ b[2] = a[2]
    BY <1>5, <1>10, <1>11, Zenon DEF Begins
  <2>3. x[1] = b[1] /\ x[2] = b[2]
    BY <1>6, <1>10, <1>11, Zenon DEF Begins
  <2> QED
    BY <2>1, <2>2, <2>3, Zenon
<1>13. x[Len(x)] = d[1]
  BY <1>6, <1>10, <1>11, Zenon
<1> QED
  BY <1>0, <1>3, <1>6, <1>10, <1>11, <1>12, <1>13, Zenon DEF d

LEMMA TagIs ==
  ASSUME NEW r \in Refs
  PROVE  LET t == T!EncodeRefTag(r)
         IN  /\ t = IF T!Truncated(r) THEN CutTag(r) ELSE T!Encoded(r)
             /\ t \in Text /\ Len(t) \in 1 .. MaxTag
             /\ IF T!Truncated(r) THEN t[1] = "_" /\ t[2] = "h" ELSE Opens(t)
<1>1. T!EncodeRefTag(r) = IF T!Truncated(r) THEN CutTag(r) ELSE T!Encoded(r)
  BY Zenon DEF T!EncodeRefTag, CutTag
<1>2. CASE T!Truncated(r)
  BY <1>1, <1>2, CutTagIs, Zenon
<1>3. CASE ~T!Truncated(r)
  <2>1. T!Encoded(r) \in Text /\ Len(T!Encoded(r)) \in Nat \ {0} /\ Opens(T!Encoded(r))
    BY EncodedStarts, Zenon
  <2>2. ~(Len(T!Encoded(r)) > MaxTag)
    BY <1>3, Zenon DEF T!Truncated
  <2>3. MaxTag \in Nat
    BY PartsAssumption
  <2>4. Len(T!Encoded(r)) \in 1 .. MaxTag
    BY <2>1, <2>2, <2>3
  <2> QED
    BY <1>1, <1>3, <2>1, <2>4, Zenon
<1> QED
  BY <1>2, <1>3, Zenon

Alike(q, r) ==
  \/ q = r
  \/ T!Truncated(q) /\ T!Truncated(r) /\ T!Digest(q) = T!Digest(r)

LEMMA TagsDiffer ==
  ASSUME NEW q \in Refs, NEW r \in Refs, T!EncodeRefTag(q) = T!EncodeRefTag(r)
  PROVE  Alike(q, r)
<1>1. CASE T!Truncated(q) /\ T!Truncated(r)
  <2>1. CutTag(q) = CutTag(r)
    BY <1>1, TagIs, Zenon
  <2>2. T!Digest(q)[1] = T!Digest(r)[1]
    BY <2>1, CutTagIs, Zenon
  <2>3. T!Digest(q) = <<T!Digest(q)[1]>> /\ T!Digest(r) = <<T!Digest(r)[1]>>
    BY DigestIs, Zenon
  <2>4. T!Digest(q) = T!Digest(r)
    BY <2>2, <2>3, Zenon
  <2> QED
    BY <1>1, <2>4, Zenon DEF Alike
<1>2. CASE ~T!Truncated(q) /\ ~T!Truncated(r)
  <2>1. T!Encoded(q) = T!Encoded(r)
    BY <1>2, TagIs, Zenon
  <2> QED
    BY <2>1, EncodedDiffer, Zenon DEF Alike
<1>3. ASSUME NEW s \in Refs, NEW t \in Refs, T!Truncated(s), ~T!Truncated(t),
             T!EncodeRefTag(s) = T!EncodeRefTag(t)
      PROVE  FALSE
  <2>1. PICK x : x = T!EncodeRefTag(t)
    OBVIOUS
  <2>2. x[1] = "_" /\ x[2] = "h" /\ Opens(x)
    BY <1>3, <2>1, TagIs, Zenon
  <2>3. "h" # "_" /\ "h" # "2" /\ "h" # "t" /\ "h" # "r" /\ "h" # "x"
    OBVIOUS
  <2> QED
    BY <2>2, <2>3, Zenon DEF Opens
<1> QED
  BY <1>1, <1>2, <1>3, Zenon

LEMMA SamePrefix ==
  ASSUME NEW s \in Text, NEW t \in Text, NEW u \in Text, s \o t = s \o u
  PROVE  t = u
<1> DEFINE Joins(v, x) == /\ Len(v) \in Nat /\ Len(x) = Len(s) + Len(v)
                          /\ \A k \in 1 .. Len(v) : x[Len(s) + k] = v[k]
<1>1. Len(s) \in Nat /\ Joins(t, s \o t) /\ Joins(u, s \o u)
  BY ConcatIs
<1>2. PICK x : x = s \o t
  OBVIOUS
<1>3. Joins(t, x) /\ Joins(u, x)
  BY <1>1, <1>2
<1>4. Len(t) = Len(u)
  BY <1>1, <1>3
<1>5. \A k \in 1 .. Len(t) : t[k] = u[k]
  BY <1>3, <1>4
<1> QED
  BY <1>4, <1>5, SeqEqual DEF Text

LEMMA LongTuples ==
  ASSUME NEW a, NEW b, NEW c, NEW d, NEW e, NEW f
  PROVE  /\ Len(<<a, b, c, d>>) = 4 /\ <<a, b, c, d>>[1] = a
         /\ <<a, b, c, d, e>>[1] = a /\ <<a, b, c, d, e>>[2] = b /\ <<a, b, c, d, e>>[3] = c
         /\ <<a, b, c, d, e, f>>[1] = a /\ <<a, b, c, d, e, f>>[2] = b
         /\ Len(<<a, b, c, d, e, f>>) = 6
OBVIOUS

LEMMA LongTuplesAreText ==
  ASSUME NEW a \in Chars, NEW b \in Chars, NEW c \in Chars, NEW d \in Chars, NEW e \in Chars,
         NEW f \in Chars
  PROVE  <<a, b, c, d>> \in Text /\ <<a, b, c, d, e, f>> \in Text
BY DEF Text

IdPrefix == <<"r", "e", "f", "-">>

LEMMA PrefixesAre ==
  /\ IdPrefix \in Text /\ Len(IdPrefix) = 4 /\ IdPrefix[1] = "r"
  /\ T!LockPrefix \in Text /\ Len(T!LockPrefix) = 6 /\ T!LockPrefix[1] = "_"
  /\ T!LockPrefix[2] = "l"
<1>1. /\ "r" \in Chars /\ "e" \in Chars /\ "f" \in Chars /\ "-" \in Chars /\ "_" \in Chars
      /\ "l" \in Chars /\ "o" \in Chars /\ "c" \in Chars /\ "k" \in Chars
  BY LettersAreChars DEF Letters
<1>2. IdPrefix \in Text /\ T!LockPrefix \in Text
  BY <1>1, LongTuplesAreText, Zenon DEF IdPrefix, T!LockPrefix
<1>3. Len(IdPrefix) = 4 /\ IdPrefix[1] = "r"
  BY LongTuples, Zenon DEF IdPrefix
<1>4. Len(T!LockPrefix) = 6 /\ T!LockPrefix[1] = "_" /\ T!LockPrefix[2] = "l"
  BY LongTuples, Zenon DEF T!LockPrefix
<1> QED
  BY <1>2, <1>3, <1>4, Zenon

LEMMA ManifestTagIs ==
  ASSUME NEW r \in Refs
  PROVE  LET t == T!RefManifestTag(r)
             e == T!EncodeRefTag(r)
         IN  /\ t \in Text /\ Len(t) \in 1 .. MaxTag
             /\ IF T!IsObjectID(e) THEN t = IdPrefix \o e /\ t[1] = "r" /\ Len(t) # IdLength
                ELSE t = e /\ (Opens(t) \/ (t[1] = "_" /\ t[2] = "h"))
<1> DEFINE t == T!RefManifestTag(r)
           e == T!EncodeRefTag(r)
<1>1. e \in Text /\ Len(e) \in 1 .. MaxTag /\ (Opens(e) \/ (e[1] = "_" /\ e[2] = "h"))
  BY TagIs, Zenon
<1>2. t = IF T!IsObjectID(e) THEN IdPrefix \o e ELSE e
  BY Zenon DEF T!RefManifestTag, IdPrefix
<1> HIDE DEF t, e
<1>3. CASE T!IsObjectID(e)
  <2>1. t = IdPrefix \o e /\ Len(e) = IdLength
    BY <1>2, <1>3, Zenon DEF T!IsObjectID
  <2>2. /\ t \in Text /\ Len(t) = 4 + IdLength /\ Begins(IdPrefix, t)
    <3>1. /\ IdPrefix \o e \in Text /\ Len(IdPrefix \o e) = Len(IdPrefix) + Len(e)
          /\ Begins(IdPrefix, IdPrefix \o e)
      BY <1>1, PrefixesAre, ConcatIs, Zenon
    <3> QED
      BY <2>1, <3>1, PrefixesAre, Zenon
  <2>3. MaxTag \in Nat /\ IdLength \in Nat /\ MaxTag >= IdLength + 4
    BY PartsAssumption
  <2>4. Len(t) \in 1 .. MaxTag /\ Len(t) # IdLength /\ 1 \in 1 .. 4
    BY <2>2, <2>3
  <2>5. t[1] = "r"
    BY <2>2, <2>4, PrefixesAre, Zenon DEF Begins
  <2> QED
    BY <1>3, <2>1, <2>2, <2>4, <2>5, Zenon DEF t, e
<1>4. CASE ~T!IsObjectID(e)
  BY <1>1, <1>2, <1>4, Zenon DEF t, e
<1> QED
  BY <1>3, <1>4

LEMMA NotTaken ==
  ASSUME NEW r \in Refs
  PROVE  LET t == T!RefManifestTag(r)
         IN  t \notin T!Reserved /\ ~T!IsPrefix(T!LockPrefix, t) /\ ~T!IsObjectID(t)
<1> DEFINE t == T!RefManifestTag(r)
           e == T!EncodeRefTag(r)
<1>1. IF T!IsObjectID(e) THEN t[1] = "r" /\ Len(t) # IdLength
      ELSE t = e /\ (Opens(t) \/ (t[1] = "_" /\ t[2] = "h"))
  BY ManifestTagIs, Zenon
<1>2. ~T!IsObjectID(t)
  BY <1>1, Zenon DEF T!IsObjectID
<1> HIDE DEF t, e
<1>3. ~(t[1] = "_" /\ t[2] \in {"i", "l"}) /\ ~(t[1] = "_" /\ t[2] = "r" /\ t[3] = "e")
  <2>1. CASE T!IsObjectID(e)
    BY <1>1, <2>1, Zenon
  <2>2. CASE ~T!IsObjectID(e)
    BY <1>1, <2>2, Zenon DEF Opens
  <2> QED
    BY <2>1, <2>2
<1>4. t \notin T!Reserved
  <2> DEFINE refs == <<"_", "r", "e", "f", "s">>
             indexes == <<"_", "i", "n", "d", "e", "x">>
             locks == <<"_", "l", "f", "s", "_", "l", "o", "c", "k", "s">>
  <2>1. T!Reserved = {refs, indexes, locks}
    BY Zenon DEF T!Reserved
  <2>2. refs[1] = "_" /\ refs[2] = "r" /\ refs[3] = "e" /\ indexes[1] = "_" /\ indexes[2] = "i"
    BY LongTuples, Zenon
  <2>3. locks[1] = "_" /\ locks[2] = "l"
    OBVIOUS
  <2> HIDE DEF refs, indexes, locks
  <2> QED
    BY <1>3, <2>1, <2>2, <2>3, Zenon
<1>5. ~T!IsPrefix(T!LockPrefix, t)
  <2> SUFFICES ASSUME T!IsPrefix(T!LockPrefix, t) PROVE FALSE
    OBVIOUS
  <2> DEFINE p == T!LockPrefix
  <2>1. /\ Len(p) = 6 /\ t \in Text /\ p \in Text /\ Len(p) <= Len(t)
        /\ SubSeq(p, 1, Len(p)) = SubSeq(t, 1, Len(p))
    BY PrefixesAre, ManifestTagIs, Zenon DEF T!IsPrefix, t
  <2> HIDE DEF p
  <2>2. t[1] = p[1] /\ t[2] = p[2]
    <3>1. \A i \in 1 .. 6 : SubSeq(p, 1, 6)[i] = p[i] /\ SubSeq(t, 1, 6)[i] = t[i]
      BY <2>1 DEF Text
    <3> QED
      BY <2>1, <3>1
  <2> QED
    BY <1>3, <2>2, PrefixesAre, Zenon DEF p
<1> QED
  BY <1>2, <1>4, <1>5, Zenon DEF t

LEMMA CharsOf ==
  ASSUME NEW t \in Text
  PROVE  \A i \in DOMAIN t : t[i] \in Chars
BY DEF Text

LEMMA Fits ==
  ASSUME NEW r \in Refs
  PROVE  LET t == T!RefManifestTag(r)
         IN  /\ Len(t) \in 1 .. MaxTag
             /\ t[1] \notin {"-", "."} /\ \A i \in DOMAIN t : t[i] # "/"
<1> DEFINE t == T!RefManifestTag(r)
           e == T!EncodeRefTag(r)
<1>1. /\ t \in Text /\ Len(t) \in 1 .. MaxTag
      /\ t[1] = "r" \/ Opens(t) \/ t[1] = "_"
  BY ManifestTagIs, Zenon
<1> HIDE DEF t
<1>2. t[1] \notin {"-", "."}
  BY <1>1, Zenon DEF Opens
<1>3. \A i \in DOMAIN t : t[i] \in Chars
  BY <1>1, CharsOf, Zenon
<1>4. \A i \in DOMAIN t : t[i] # "/"
  BY <1>3, Zenon DEF Chars
<1> QED
  BY <1>1, <1>2, <1>4, Zenon DEF t

\* No ref is named like another that reads like a commit id, with the prefix that one gets: the
\* one case where two refs do share a tag.
PrefixIsFree ==
  \A r \in Refs : T!IsObjectID(T!EncodeRefTag(r)) =>
    \A q \in Refs : T!EncodeRefTag(q) # <<"r", "e", "f", "-">> \o T!EncodeRefTag(r)

LEMMA ManifestTagsDiffer ==
  ASSUME PrefixIsFree, NEW q \in Refs, NEW r \in Refs,
         \/ T!RefManifestTag(q) = T!RefManifestTag(r)
         \/ T!LockTag(q) = T!LockTag(r)
  PROVE  Alike(q, r)
<1>1. \A s \in Refs : T!EncodeRefTag(s) \in Text
  BY TagIs, Zenon
<1>2. CASE T!LockTag(q) = T!LockTag(r)
  <2>1. T!LockPrefix \o T!EncodeRefTag(q) = T!LockPrefix \o T!EncodeRefTag(r)
    BY <1>2, Zenon DEF T!LockTag
  <2> QED
    BY <1>1, <2>1, SamePrefix, PrefixesAre, TagsDiffer, Zenon
<1>3. CASE T!RefManifestTag(q) = T!RefManifestTag(r)
  <2>1. CASE T!IsObjectID(T!EncodeRefTag(q)) /\ T!IsObjectID(T!EncodeRefTag(r))
    <3>1. IdPrefix \o T!EncodeRefTag(q) = IdPrefix \o T!EncodeRefTag(r)
      BY <1>3, <2>1, ManifestTagIs, Zenon
    <3> QED
      BY <1>1, <3>1, SamePrefix, PrefixesAre, TagsDiffer, Zenon
  <2>2. CASE ~T!IsObjectID(T!EncodeRefTag(q)) /\ ~T!IsObjectID(T!EncodeRefTag(r))
    <3>1. T!EncodeRefTag(q) = T!EncodeRefTag(r)
      BY <1>3, <2>2, ManifestTagIs, Zenon
    <3> QED
      BY <3>1, TagsDiffer, Zenon
  <2>3. ASSUME NEW s \in Refs, NEW t \in Refs, T!RefManifestTag(s) = T!RefManifestTag(t),
               T!IsObjectID(T!EncodeRefTag(s)), ~T!IsObjectID(T!EncodeRefTag(t))
        PROVE  FALSE
    <3>1. T!EncodeRefTag(t) = IdPrefix \o T!EncodeRefTag(s)
      BY <2>3, ManifestTagIs, Zenon
    <3> QED
      BY <2>3, <3>1, Zenon DEF PrefixIsFree, IdPrefix
  <2> QED
    BY <1>3, <2>1, <2>2, <2>3, Zenon
<1> QED
  BY <1>2, <1>3

\* The refs that are compared.
TagsInv == part = "tags" => left \in Refs /\ right \in Refs \union {NoRef}

\* Two refs of any names share no tag and no lock unless both were cut and their digests are the
\* same, or one is named like the prefixed id of the other; and every tag is one a registry
\* takes, and no index, lock or commit has.
THEOREM TagsDoNotMeet ==
  ASSUME PrefixIsFree
  PROVE  PartsSpec => []TagsAreApart
<1>1. PartsInit => TagsInv
  BY DEF PartsInit, T!Init, TagsInv
<1>2. TagsInv /\ [PartsNext]_allVars => TagsInv'
  <2> SUFFICES ASSUME TagsInv, [PartsNext]_allVars, part' = "tags" PROVE TagsInv'
    BY DEF TagsInv
  <2>1. CASE UNCHANGED <<part, tags>>
    BY <2>1 DEF TagsInv, tags
  <2>2. CASE part = "tags" /\ part' = part /\ T!Next
    BY <2>2 DEF TagsInv, T!Next, T!Compare
  <2> QED
    BY <2>1, <2>2
    DEF PartsNext, UploadStep, TagsStep, IndexStep, MapStep, CallsStep, allVars, tags
<1>3. TagsInv => TagsAreApart
  <2> SUFFICES ASSUME part = "tags", left \in Refs, right \in Refs \union {NoRef}
               PROVE  T!TagsAreDistinct /\ T!TagsAreNotTaken /\ T!TagsFit
    BY DEF TagsInv, TagsAreApart
  <2>1. T!TagsAreDistinct
    <3> SUFFICES ASSUME right \in Refs, T!RefManifestTag(left) = T!RefManifestTag(right)
                                          \/ T!LockTag(left) = T!LockTag(right)
                 PROVE  Alike(left, right)
      BY Zenon DEF T!TagsAreDistinct, Alike
    <3> QED
      BY ManifestTagsDiffer, Zenon
  <2>2. T!TagsAreNotTaken
    BY NotTaken, Zenon DEF T!TagsAreNotTaken
  <2>3. T!TagsFit
    BY Fits, Zenon DEF T!TagsFit
  <2> QED
    BY <2>1, <2>2, <2>3
<1> QED
  BY <1>1, <1>2, <1>3, PTL DEF PartsSpec
=============================================================================
