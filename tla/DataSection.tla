----------------------------- MODULE DataSection -----------------------------
(***************************************************************************)
(* The data section of a MaxMind DB file from its writer's side: the data  *)
(* that are stored, the Python value each stands for, the bytes a writer   *)
(* may choose for it, and the list libmaxminddb makes of it.  Decoder      *)
(* reads the bytes, EntryData the list.                                    *)
(*                                                                         *)
(* A datum is [type, size, bytes, items].  The size of a boolean is its    *)
(* value; the items of a map are its keys and values in turn.              *)
(***************************************************************************)
EXTENDS Bytes, SequencesExt

CONSTANT Data  \* the data that are stored, and the items of each

TypeNumber ==
  [utf8_string |-> 2, double |-> 3, bytes |-> 4, uint16 |-> 5, uint32 |-> 6, map |-> 7,
   int32 |-> 8, uint64 |-> 9, uint128 |-> 10, array |-> 11, unknown |-> 12,
   boolean |-> 14, float |-> 15]

ASSUME DataAssumption ==
  \A d \in Data :
    /\ d.type \in DOMAIN TypeNumber
    /\ \A i \in DOMAIN d.items : d.items[i] \in Data
    /\ d.type = "map" => \A i \in DOMAIN d.items : i % 2 = 1 => d.items[i].type = "utf8_string"

-----------------------------------------------------------------------------
(* Python values, as <<type, ...>>.  An int is its sign and its bytes; a    *)
(* dict is a function; bytes also stands for bytearray, which equals it.    *)

Raise(exception) == <<"raise", exception>>

Raises(value) == value[1] = "raise"

Unsigned(bytes) == <<"int", FALSE, DropZeros(bytes)>>

\* Four bytes in two's complement.
Signed(bytes) == IF bytes[1] >= 128 THEN <<"int", TRUE, bytes>> ELSE Unsigned(bytes)

\* The only byte that no text of Data holds.
NotUtf8 == 255

Text(bytes) ==
  IF \E k \in DOMAIN bytes : bytes[k] = NotUtf8 THEN Raise("UnicodeDecodeError") ELSE <<"str", bytes>>

EmptyDict == [key \in {} |-> {}]

SetItem(dict, key, value) ==
  [k \in DOMAIN dict \cup {key} |-> IF k = key THEN value ELSE dict[k]]

WrongSize(d) == (d.type = "double" /\ d.size # 8) \/ (d.type = "float" /\ d.size # 4)

\* The value a datum stands for.  The first exception among the items of a
\* container is the container's; the last of several values of a key counts.
Value ==
  LET value[d \in Data] ==
        LET items == [i \in DOMAIN d.items |-> value[d.items[i]]]
            bad   == {i \in DOMAIN items : Raises(items[i])}
            last(key) == Max({i \in DOMAIN items : i % 2 = 1 /\ items[i] = key})
        IN  CASE bad # {}                  -> items[Min(bad)]
              [] WrongSize(d) \/ d.type = "unknown" -> Raise("InvalidDatabaseError")
              [] d.type = "array" /\ bad = {} -> <<"list", items>>
              [] d.type = "map" /\ bad = {}   ->
                   <<"dict", [key \in {items[i] : i \in {j \in DOMAIN items : j % 2 = 1}} |->
                                items[last(key) + 1]]>>
              [] d.type = "utf8_string"    -> Text(d.bytes)
              [] d.type = "bytes"          -> <<"bytes", d.bytes>>
              [] d.type \in {"double", "float"} /\ ~WrongSize(d) -> <<"float", d.bytes>>
              [] d.type = "boolean"        -> <<"bool", d.size # 0>>
              [] d.type = "int32"          -> Signed(RJust(d.bytes, 4))
              [] d.type \in {"uint16", "uint32", "uint64", "uint128"} -> Unsigned(d.bytes)
  IN  value

-----------------------------------------------------------------------------
(* The bytes.                                                               *)

\* A control byte and what belongs to it.
Header(type, size) ==
  LET form == CASE size < 29                     -> <<size, <<>>>>
                [] size >= 29 /\ size < 285      -> <<29, BigEndian(size - 29, 1)>>
                [] size >= 285 /\ size < 65821   -> <<30, BigEndian(size - 285, 2)>>
                [] size >= 65821                 -> <<31, BigEndian(size - 65821, 3)>>
      number == TypeNumber[type]
  IN  (IF number < 8 THEN <<32 * number + form[1]>> ELSE <<form[1], number - 7>>) \o form[2]

Pointer(p) ==
  LET form(ss, v, w) == <<32 + 8 * ss + v \div 256^w>> \o BigEndian(v % 256^w, w) IN
  CASE p < 2048                          -> form(0, p, 1)
    [] p >= 2048 /\ p < 526336           -> form(1, p - 2048, 2)
    [] p >= 526336 /\ p < 134744064      -> form(2, p - 526336, 3)
    [] p >= 134744064                    -> <<56>> \o BigEndian(p, 4)

\* What a writer stores elsewhere and points to: nothing, keys, or all items.
PointerModes == {"none", "keys", "all"}

\* enc[d, at]: the bytes of d, and the items they point to, which lie at `at`.
Encoding(mode, base) ==
  LET enc[d \in Data, at \in Nat] ==
        LET upTo[i \in 0..Len(d.items)] ==
              IF i = 0 THEN [pool |-> <<>>, inline |-> Header(d.type, d.size) \o d.bytes]
              ELSE LET before == upTo[i - 1]
                       item   == enc[d.items[i], at + Len(before.pool)]
                       pool   == before.pool \o item.pool
                   IN  IF mode = "all" \/ (mode = "keys" /\ d.type = "map" /\ i % 2 = 1)
                       THEN [pool |-> pool \o item.inline,
                             inline |-> before.inline \o Pointer(at + Len(pool) - base)]
                       ELSE [pool |-> pool, inline |-> before.inline \o item.inline]
        IN  upTo[Len(d.items)]
  IN  enc

\* A buffer whose bytes from `start` on are known; the datum is at `offset`.
Buffer(d, mode, start, base) ==
  LET e == Encoding(mode, base)[d, start] IN
  [start |-> start, bytes |-> e.pool \o e.inline, base |-> base, offset |-> start + Len(e.pool)]

-----------------------------------------------------------------------------
\* libmaxminddb: MMDB_get_entry_data_list.  A datum's entry, then those of its
\* items; pointers are followed.  (key: the entry is a map's key.)
EntryDataList ==
  LET list[d \in Data] ==
        LET item(i) == list[d.items[i]]
            isKey(i) == d.type = "map" /\ i % 2 = 1
        IN  <<[type |-> d.type, data_size |-> d.size, bytes |-> d.bytes, key |-> FALSE]>>
              \o FlattenSeq([i \in DOMAIN d.items |->
                              IF isKey(i) THEN <<[item(i)[1] EXCEPT !.key = TRUE]>> ELSE item(i)])
  IN  list

\* It fails for a double or float of the wrong size, wherever that is.
ListFails(d) ==
  LET fails[e \in Data] == WrongSize(e) \/ \E i \in DOMAIN e.items : fails[e.items[i]] IN fails[d]

=============================================================================
