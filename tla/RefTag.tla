------------------------------- MODULE RefTag -------------------------------
(***************************************************************************)
(* Ref names to registry tags (pkg/oci/reftag.go, RefManifestTag, LockTag):*)
(* two refs must never share a tag, nor a ref a tag with anything else the *)
(* repository keeps.                                                       *)
(*                                                                         *)
(* A tag is a sequence of characters; lengths are scaled down by the       *)
(* constants.  A behaviour picks two refs; the properties compare their    *)
(* tags.                                                                   *)
(***************************************************************************)
EXTENDS Naturals, SequencesExt

CONSTANTS
  Refs,      \* [ns |-> ..., name |-> ...], where ns is heads, tags, refs or other
  MaxTag,    \* maxTagLength
  IdLength,  \* the length of an object id in hex
  NoRef

VARIABLES left, right
vars == <<left, right>>

Hex == {"0", "1", "2", "3", "4", "5", "6", "7", "8", "9", "a", "b", "c", "d", "e", "f"}
Code == [c \in {"/", "-", "."} |->
           CASE c = "/" -> <<"2", "f">> [] c = "-" -> <<"2", "d">> [] OTHER -> <<"2", "e">>]

\* sha256 of the ref name, cut to one digit.
Digest(r) == IF Len(r.name) % 2 = 0 THEN <<"a">> ELSE <<"2">>
-----------------------------------------------------------------------------
\* Mutants of the definitions below.
BareUnderscore(c) ==
  CASE c = "_" -> <<"_">> [] c = "/" -> <<"_">> \o Code[c] [] OTHER -> <<c>>
Unmarked(r) == <<>>

\* escapeTag, for one character, and for a name: "." and "-" may not come first.
Escaped(c) ==
  CASE c = "_" -> <<"_", "_">> [] c = "/" -> <<"_">> \o Code[c] [] OTHER -> <<c>>
Escapes(name) ==
  [i \in DOMAIN name |-> IF i = 1 /\ name[i] \in {".", "-"} THEN <<"_">> \o Code[name[i]]
                         ELSE Escaped(name[i])]

\* nsTag, nsRef, nsOther.
Marker(r) ==
  CASE r.ns = "heads" -> <<>>
    [] r.ns = "tags" -> <<"_", "t", "_">>
    [] r.ns = "refs" -> <<"_", "r", "_">>
    [] r.ns = "other" -> <<"_", "x", "_">>

\* nsTruncated.
TruncatedMarker(r) == <<"_", "h", "_">>

\* The encoding, in the pieces truncateEscaped does not cut.
Pieces(r) == (IF Marker(r) = <<>> THEN <<>> ELSE <<Marker(r)>>) \o Escapes(r.name)
Encoded(r) == FlattenSeq(Pieces(r))

Truncated(r) == Len(Encoded(r)) > MaxTag

\* truncateEscaped: whole pieces, without "-" and "." at the end.
Keep(r) ==
  LET limit == MaxTag - Len(TruncatedMarker(r)) - Len(Digest(r)) - 1
      upto(n) == FlattenSeq(SubSeq(Pieces(r), 1, n))
      whole == {n \in 0 .. Len(Pieces(r)) : Len(upto(n)) <= limit}
      s == upto(CHOOSE n \in whole : \A m \in whole : m <= n)
      ends == {n \in DOMAIN s : s[n] \notin {"-", "."}} \union {0}
      end == CHOOSE n \in ends : \A m \in ends : m <= n
  IN  IF end = 0 THEN <<"r", "e", "f">> ELSE SubSeq(s, 1, end)

EncodeRefTag(r) ==
  IF Truncated(r) THEN TruncatedMarker(r) \o Keep(r) \o <<"-">> \o Digest(r) ELSE Encoded(r)

\* isObjectID.
IsObjectID(tag) == Len(tag) = IdLength /\ \A i \in DOMAIN tag : tag[i] \in Hex

RefManifestTag(r) ==
  LET tag == EncodeRefTag(r) IN
  IF IsObjectID(tag) THEN <<"r", "e", "f", "-">> \o tag ELSE tag

LockPrefix == <<"_", "l", "o", "c", "k", "_">>
LockTag(r) == LockPrefix \o EncodeRefTag(r)

\* _refs, _index and _lfs_locks.
Reserved == {<<"_", "r", "e", "f", "s">>, <<"_", "i", "n", "d", "e", "x">>,
             <<"_", "l", "f", "s", "_", "l", "o", "c", "k", "s">>}
-----------------------------------------------------------------------------
Init == left \in Refs /\ right = NoRef

Compare == right = NoRef /\ right' \in Refs /\ UNCHANGED left

Next == Compare
Spec == Init /\ [][Next]_vars
-----------------------------------------------------------------------------
\* Two refs share no tag and no lock, unless both were cut and their digests are the same
\* ("two distinct refs MUST NOT share a tag", FORMAT.md:186).
TagsAreDistinct ==
  right # NoRef /\ (RefManifestTag(left) = RefManifestTag(right)
                      \/ LockTag(left) = LockTag(right)) =>
    \/ left = right
    \/ Truncated(left) /\ Truncated(right) /\ Digest(left) = Digest(right)

\* No ref is kept where the indexes, the locks or the commits are.
TagsAreNotTaken ==
  LET tag == RefManifestTag(left) IN
  tag \notin Reserved /\ ~IsPrefix(LockPrefix, tag) /\ ~IsObjectID(tag)

\* A registry takes every tag: "An OCI tag must match [a-zA-Z0-9_][a-zA-Z0-9._-]{0,127}"
\* (reftag.go:10-11).
TagsFit ==
  LET tag == RefManifestTag(left) IN
  /\ Len(tag) \in 1 .. MaxTag
  /\ tag[1] \notin {"-", "."} /\ \A i \in DOMAIN tag : tag[i] # "/"
=============================================================================
