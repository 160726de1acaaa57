----------------------------- MODULE MCOciParts -----------------------------
(* Blobs of up to three chunks, the last one short.  Every legal name of up  *)
(* to four characters, one of each kind, and names that spell what is        *)
(* reserved.  Ids of one and of two digits, one in both cases, one not in    *)
(* hex.  A cache of one entry and two goroutines.  Two calls, each with any  *)
(* request, and two retries where the code has three: the first repeats, the *)
(* second is the last.                                                       *)
EXTENDS OciParts, Integers, Sequences

CONSTANTS g1, g2, k1, k2, k3, k4

Alphabet == {"a", "_", "/", "-"}
Legal(name) ==
  /\ name[1] # "/" /\ name[Len(name)] # "/"
  /\ \A i \in 2 .. Len(name) : ~(name[i] = "/" /\ name[i - 1] = "/")
Short == {name \in UNION {[1 .. n -> Alphabet] : n \in 1 .. 4} : Legal(name)}
Spelled == {<<"_", "r", "e", "f", "s">>, <<"_", "i", "n", "d", "e", "x">>,
            <<"_", "l", "o", "c", "k", "_", "a">>, <<"_", "t", "_", "a">>}
In(ns, names) == [ns : ns, name : names]

MCRefs ==
  In({"heads", "tags"}, Short) \union In({"refs", "other"}, {<<"a">>, <<"a", "_">>, <<"a", "/", "a">>})
    \union In({"heads", "tags", "refs", "other"}, Spelled)

Oid(digits) == [digits |-> digits, hex |-> TRUE]
MCIds == {Oid(<<1>>), Oid(<<10>>), Oid(<<16>>), Oid(<<11>>), Oid(<<21>>), Oid(<<1, 1>>),
          [digits |-> <<16>>, hex |-> FALSE]}
MCEntries ==
  LET lists(k, sizes) == [1 .. k -> [oid : MCIds, size : sizes]]
  IN  lists(1, {-1, 0, 1, 5}) \union lists(2, {-1, 0, 1, 5}) \union lists(3, {1})
MCWants == {{oid} : oid \in MCIds} \union {{Oid(<<1>>), Oid(<<11>>)}}
=============================================================================
