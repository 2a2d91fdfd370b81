----------------------------- MODULE MCEntryData -----------------------------
(***************************************************************************)
(* EntryData on data of every type, at the edges of the size and pointer   *)
(* encodings, alone and in arrays and maps up to three deep.               *)
(***************************************************************************)
EXTENDS EntryData

Scalar(type, bytes) == [type |-> type, size |-> Len(bytes), bytes |-> bytes, items |-> <<>>]

Boolean(b) == [type |-> "boolean", size |-> b, bytes |-> <<>>, items |-> <<>>]

Array(items) == [type |-> "array", size |-> Len(items), bytes |-> <<>>, items |-> items]

Map(items) == [type |-> "map", size |-> Len(items) \div 2, bytes |-> <<>>, items |-> items]

\* (The concatenation makes TLC store the sequence as a tuple.)
Repeat(x, n) == <<>> \o [i \in 1..n |-> x]

K == Scalar("utf8_string", <<107>>)
L == Scalar("utf8_string", <<108>>)
X == Scalar("utf8_string", <<120>>)
BadText == Scalar("utf8_string", <<107, NotUtf8>>)

Big == Scalar("uint32", <<128, 0, 0, 0>>)
BadDouble == Scalar("double", Repeat(1, 7))
Unknown == Scalar("unknown", <<>>)

Scalars ==
  {K, L, X, BadText, Big, BadDouble, Unknown, Boolean(0), Boolean(1),
   Scalar("double", Repeat(64, 8)), Scalar("float", Repeat(64, 4)), Scalar("bytes", <<0, 255>>),
   Scalar("uint16", <<>>), Scalar("uint16", <<1, 0>>), Scalar("uint32", <<127, 255, 255, 255>>),
   Scalar("int32", <<>>), Scalar("int32", <<128>>), Scalar("int32", <<255, 255, 255, 254>>),
   Scalar("uint64", Repeat(255, 8)), Scalar("uint64", <<1, 0>>),
   Scalar("uint128", Repeat(1, 1)), Scalar("uint128", <<16>> \o Repeat(0, 14) \o <<2>>)}

\* Sizes on both sides of each change of width.
Long == {Scalar("utf8_string", Repeat(97, n)) : n \in {28, 29, 284, 285, 65820, 65821}}
          \cup {Array(Repeat(Boolean(1), 30))}

\* What is nested.
Few == {K, Boolean(1), Big, BadText}

Keys == {K, L, BadText}

Flat ==
  {Array(<<>>), Map(<<>>)} \cup {Array(<<a>>) : a \in Scalars} \cup {Array(<<a, b>>) : a, b \in Few}
    \cup {Map(<<key, a>>) : key \in Keys, a \in Few}
    \cup {Map(<<key, a, key2, b>>) : key, key2 \in Keys, a, b \in {Boolean(1), Big, BadText}}

Inner == {Map(<<>>), Array(<<K>>), Map(<<K, Big>>), Map(<<K, K, BadText, K>>), Array(<<K, BadText>>)}

Nested ==
  {Array(<<a, b>>) : a \in Inner, b \in Inner \cup {BadDouble, Unknown}}
    \cup {Map(<<K, a, key, b>>) : key \in Keys, a, b \in Inner}
    \cup {Map(<<K, a, L, b, X, a>>) : a \in {Boolean(1), Array(<<K>>)}, b \in {K, BadText}}

Deep == {Map(<<K, Array(<<Map(<<L, a>>), K>>)>>) : a \in {K, BadText}}

DeepParts == {Array(<<Map(<<L, a>>), K>>) : a \in {K, BadText}} \cup {Map(<<L, a>>) : a \in {K, BadText}}

MCData == Scalars \cup Long \cup Flat \cup Inner \cup Nested \cup Deep \cup DeepParts

\* Two fields stand for the nine.
MCFields == {<<"str", <<107>>>>, <<"str", <<108>>>>}

\* Data that lie at the edges of the pointer encodings, and across them.
MCStarts == {0, 2046, 526333, 134744061}

MCMarker == <<1, 2>>

MCFiles == UNION {[1..n -> 0..2] : n \in 1..6}

=============================================================================
