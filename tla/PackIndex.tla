------------------------------ MODULE PackIndex ------------------------------
(****************************************************************************)
(* The object index beside a packfile (pkg/oci/packindex.go): a blob of     *)
(* sorted lines of one width, which readers search by halves.  Builds of    *)
(* three ages meet in a registry: this one writes ids with sizes, an older  *)
(* one wrote ids alone, and a newer one may write sizes this one cannot     *)
(* represent.                                                               *)
(*                                                                          *)
(* An id is the number of hex digits it has and a row of them; a digit is   *)
(* its place in the byte order, where A..F come before a..f.                *)
(****************************************************************************)
EXTENDS Integers, SequencesExt

CONSTANTS
  Ids,         \* spellings: [digits |-> Seq(Int), hex |-> BOOLEAN]
  MaxInt64,
  Entries,     \* the lists a packfile is indexed from: [oid |-> ..., size |-> Int]
  Wants        \* what readers ask about: sets of ids

\* isObjectID.
IsId(oid) == oid.hex /\ Len(oid.digits) \in {1, 2}

VARIABLES
  entries,   \* of the packfile
  blob,      \* what is published: its lines, and whether they carry sizes
  wants,     \* the ids a reader asks about
  contains,  \* PackIndexContains
  told       \* PackIndexSize of each of them

vars == <<entries, blob, wants, contains, told>>

NoBlob == [lines |-> <<>>, kind |-> "none"]
Unknown == -1
-----------------------------------------------------------------------------
\* The characters "0" to "9" are 0 .. 9, "A" to "F" 10 .. 15 and "a" to "f" 16 .. 21.
Lower(c) == IF c \in 10 .. 15 THEN c + 6 ELSE c
ToLower(oid) == [oid EXCEPT !.digits = [i \in DOMAIN oid.digits |-> Lower(oid.digits[i])]]
Width(oid) == Len(oid.digits)

\* Byte order.
Before(a, b) ==
  \/ IsStrictPrefix(a.digits, b.digits)
  \/ \E i \in DOMAIN a.digits \intersect DOMAIN b.digits :
       a.digits[i] < b.digits[i] /\ \A j \in 1 .. i - 1 : a.digits[j] = b.digits[j]
-----------------------------------------------------------------------------
\* What a line can hold: an id in hex, and a size.
Valid(e) == IsId(e.oid) /\ e.size >= 0
Kept(list) == {e \in ToSet(list) : Valid(e)}
Normalised(e) == [e EXCEPT !.oid = ToLower(@)]

InOrder(lines) == \A i, j \in DOMAIN lines : i < j => Before(lines[i].oid, lines[j].oid)

\* At most n lines in order, one per object.  The sort is not stable and the first of a run
\* is kept, so that any entry of an object may be the one.
Listings(es, n) ==
  {lines \in SeqOf(es, n) : InOrder(lines) /\ \A e \in es : \E i \in DOMAIN lines : lines[i].oid = e.oid}

\* Mutants of the definitions below.
SpelledOrder(list) ==
  {[i \in DOMAIN lines |-> Normalised(lines[i])] : lines \in Listings(Kept(list), Len(list))}
Wrapped(size) == IF size > MaxInt64 THEN size - 2 * (MaxInt64 + 1) ELSE size

\* Lower case first, then the order.
Sorted(list) == Listings({Normalised(e) : e \in Kept(list)}, Len(list))

OneWidth(list) == \A i \in DOMAIN list : Width(list[i].oid) = Width(list[1].oid)

EncodePackIndex(list) == {IF OneWidth(lines) THEN lines ELSE <<>> : lines \in Sorted(list)}
-----------------------------------------------------------------------------
\* packIndexStride, and a blob that has no layout.
Readable(b) == b.kind \in {"v1", "v2"} /\ b.lines # <<>>
NotEmpty(b) == b.kind = "garbled"

\* sort.Search among the lines: where those before want end.
LowerBound(lines, want) ==
  CHOOSE i \in 1 .. Len(lines) + 1 :
    /\ i > 1 => Before(lines[i - 1].oid, want)
    /\ i <= Len(lines) => ~Before(lines[i].oid, want)

\* searchPackIndex: the line of oid, or 0.
SearchPackIndex(b, oid) ==
  LET want == ToLower(oid)
      i == LowerBound(b.lines, want)
  IN  IF Width(want) = Width(b.lines[1].oid) /\ i <= Len(b.lines) /\ b.lines[i].oid = want
      THEN i ELSE 0

PackIndexContains(b, oids) ==
  IF Readable(b) THEN \E oid \in oids : SearchPackIndex(b, oid) # 0 ELSE NotEmpty(b)

\* sizeAt.
SizeAt(size) == IF size > MaxInt64 THEN Unknown ELSE size

PackIndexSize(b, oid) ==
  IF Readable(b) /\ b.kind = "v2" /\ SearchPackIndex(b, oid) # 0
  THEN SizeAt(b.lines[SearchPackIndex(b, oid)].size) ELSE Unknown
-----------------------------------------------------------------------------
Init ==
  /\ entries \in Entries
  /\ blob = NoBlob /\ wants = {} /\ contains = TRUE /\ told = <<>>

OfInt64 == \A i \in DOMAIN entries : entries[i].size <= MaxInt64

Publish(kind) ==
  /\ blob = NoBlob /\ wants = {}
  /\ \E lines \in EncodePackIndex(entries) \ {<<>>} :
       blob' = [lines |-> IF kind = "garbled" THEN <<>> ELSE lines, kind |-> kind]
  /\ UNCHANGED <<entries, wants, contains, told>>

\* PushPackIndex: nothing is published when there is nothing to say.
PushPackIndex == OfInt64 /\ Publish("v2")

\* What another build left for the same packfile: ids alone, sizes beyond an int64, or a blob
\* without a layout.
OtherBuild ==
  \/ Publish("v1")
  \/ ~OfInt64 /\ Publish("v2")
  \/ Publish("garbled")

\* graphMayHold and sizesFromPackIndexes, of one manifest.  No layer, or one that cannot be
\* fetched, rules nothing out; only the newer kind is asked for sizes.
Ask(oids) ==
  /\ wants = {}
  /\ wants' = oids
  /\ \/ /\ contains' = PackIndexContains(blob, oids) /\ blob # NoBlob
        /\ told' = [oid \in oids |-> PackIndexSize(blob, oid)]
     \/ contains' = TRUE /\ told' = [oid \in oids |-> Unknown]
  /\ UNCHANGED <<entries, blob>>

Next ==
  \/ PushPackIndex
  \/ OtherBuild
  \/ \E oids \in Wants : Ask(oids)

Spec == Init /\ [][Next]_vars
-----------------------------------------------------------------------------
Held(oid) == \E i \in DOMAIN entries : Valid(entries[i]) /\ ToLower(entries[i].oid) = ToLower(oid)

\* A pack that holds one of the wanted objects is never ruled out, however the ids are
\* spelled, whatever else the list holds and whoever wrote the index ("A false absence is
\* the one answer this must never give", packindex.go:125).
NoFalseAbsence == (\E oid \in wants : Held(oid)) => contains

\* A size that is told is the size of that object in the pack ("A size is either known or it
\* is not", packindex.go:233).
SizesAreRecorded ==
  \A oid \in wants : told[oid] # Unknown =>
    /\ told[oid] \in 0 .. MaxInt64
    /\ \E i \in DOMAIN entries :
         ToLower(entries[i].oid) = ToLower(oid) /\ entries[i].size = told[oid]
=============================================================================
