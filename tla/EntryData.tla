------------------------------ MODULE EntryData ------------------------------
(***************************************************************************)
(* Making Python objects of what a database stores: from_entry_data_list   *)
(* and the Metadata type of the C extension, the Decoder and Metadata of   *)
(* the pure Python reader, each on every datum of a set.                   *)
(*                                                                         *)
(* Of the C side the references are modelled too.  The object made of the  *)
(* entry at position p of the list is p; `alive` are the objects allocated *)
(* and not freed, `held` those the result keeps alive.  One allocation of  *)
(* a conversion may fail.                                                  *)
(***************************************************************************)
EXTENDS Decoder

CONSTANTS
  Starts,   \* the distances from pointer_base at which data are stored
  Fields,   \* the keys that are keywords of Metadata
  Files,    \* the files that are searched for the metadata marker
  Marker,   \* _METADATA_START_MARKER
  Window    \* how far from the end the search begins (128 KiB)

\* (Of an empty file pread is asked for -1 bytes and fails.)
ASSUME EntryDataAssumption ==
  /\ Starts \subseteq Nat /\ Window \in Nat \ {0}
  /\ Files \subseteq Seq(Nat) \ {<<>>} /\ Marker \in Seq(Nat) \ {<<>>}

VARIABLES
  input,   \* what is converted, by which reader and for which call
  pc,      \* "begin", "converted", "returned" or "disposed"
  result,  \* C: what from_entry_data_list left
  outcome  \* what the caller gets: a value or an exception

vars == <<input, pc, result, outcome>>

-----------------------------------------------------------------------------
(* from_entry_data_list.  It returns the object or NULL, where it left the  *)
(* list's cursor, and the exception that is set.                            *)

NULL == <<"NULL">>

Made(p, value) ==
  [ret |-> value, cursor |-> p, alive |-> {p}, held |-> {p}, parts |-> EmptyDict, exc |-> "none"]

Failed(p, exc, alive) ==
  [ret |-> NULL, cursor |-> p, alive |-> alive, held |-> {}, parts |-> EmptyDict, exc |-> exc]

NoFailure == <<"none", 0>>

\* Mutant: a container is not released.
Released_nothing(container, item) == container.alive \cup item.alive

\* What Py_DECREF of a container leaves, when the conversion of an item failed.
Released(container, item) == (container.alive \ container.held) \cup item.alive

Pending(container, item) == IF item.exc = "none" THEN container.exc ELSE item.exc

\* One turn of the loop of from_map.  A key that cannot be made leaves py_obj
\* as it is; a failure of PyDict_SetItem is not looked at.  parts[k] are the
\* objects of the key and of the value that the dict holds.
map_turn(list, fail, from, map) ==
  LET kp    == map.cursor + 1
      key   == IF fail = <<"alloc", kp>> THEN Raise("MemoryError") ELSE Text(list[kp].bytes)
      value == from[kp + 1]
      old   == IF key \in DOMAIN map.parts THEN map.parts[key] ELSE [key |-> {kp}, value |-> {}]
  IN  CASE map.ret = NULL -> map
        [] map.ret # NULL /\ Raises(key) -> Failed(kp, key[2], map.alive)
        [] map.ret # NULL /\ ~Raises(key) ->
             CASE value.ret = NULL -> Failed(value.cursor, value.exc, Released(map, value))
               [] value.ret # NULL /\ fail = <<"setitem", kp>> ->
                    [map EXCEPT !.cursor = value.cursor, !.exc = "MemoryError",
                                !.alive = @ \cup (value.alive \ value.held)]
               [] value.ret # NULL /\ fail # <<"setitem", kp>> ->
                    [ret    |-> <<"dict", SetItem(map.ret[2], key, value.ret)>>,
                     cursor |-> value.cursor,
                     alive  |-> (map.alive \ old.value) \cup old.key \cup value.alive,
                     held   |-> (map.held \ old.value) \cup old.key \cup value.held,
                     parts  |-> SetItem(map.parts, key, [key |-> old.key, value |-> value.held]),
                     exc    |-> Pending(map, value)]

from_map(list, fail, p, from) ==
  LET upTo[i \in 0..list[p].data_size] ==
        IF i = 0 THEN Made(p, <<"dict", EmptyDict>>) ELSE map_turn(list, fail, from, upTo[i - 1])
  IN  upTo[list[p].data_size]

from_array(list, p, from) ==
  LET turn(array) ==
        LET value == from[array.cursor + 1] IN
        CASE array.ret = NULL -> array
          [] array.ret # NULL ->
               IF value.ret = NULL
                 THEN Failed(value.cursor, value.exc, Released(array, value))
                 ELSE [array EXCEPT !.ret = <<"list", Append(@[2], value.ret)>>,
                                    !.cursor = value.cursor, !.exc = Pending(array, value),
                                    !.alive = @ \cup value.alive, !.held = @ \cup value.held]
      upTo[i \in 0..list[p].data_size] ==
        IF i = 0 THEN Made(p, <<"list", <<>>>>) ELSE turn(upTo[i - 1])
  IN  upTo[list[p].data_size]

\* Mutant: "%X".
Hex16_unpadded(bytes) == DropZeros([k \in 1..16 |->
  IF k % 2 = 1 THEN bytes[(k + 1) \div 2] \div 16 ELSE bytes[k \div 2] % 16])

\* Hexadecimal digits of eight bytes, "%016X".
Hex16(bytes) == [k \in 1..16 |-> IF k % 2 = 1 THEN bytes[(k + 1) \div 2] \div 16 ELSE bytes[k \div 2] % 16]

\* PyLong_FromString(s, NULL, 16)
FromHex(digits) ==
  LET even == RJust(digits, Len(digits) + (Len(digits) % 2)) IN
  Unsigned([k \in 1..(Len(even) \div 2) |-> 16 * even[2 * k - 1] + even[2 * k]])

from_uint128(bytes) ==
  LET all == RJust(bytes, 16) IN FromHex(Hex16(SubSeq(all, 1, 8)) \o Hex16(SubSeq(all, 9, 16)))

\* PyLong_FromLong of a uint32: long has 32 bits in some builds.
from_uint32(bytes, long32) ==
  IF long32 THEN Signed(RJust(bytes, 4)) ELSE Unsigned(bytes)

from_entry_data_list(list, fail, long32) ==
  LET from[p \in DOMAIN list] ==
        LET e     == list[p]
            value == CASE e.type = "utf8_string" -> Text(e.bytes)
                       [] e.type = "bytes" -> <<"bytes", e.bytes>>
                       [] e.type \in {"double", "float"} -> <<"float", e.bytes>>
                       [] e.type \in {"uint16", "uint64"} -> Unsigned(e.bytes)
                       [] e.type = "uint32" -> from_uint32(e.bytes, long32)
                       [] e.type = "uint128" -> from_uint128(e.bytes)
                       [] e.type = "int32" -> Signed(RJust(e.bytes, 4))
                       [] e.type = "boolean" -> <<"bool", e.data_size # 0>>
                       [] e.type = "unknown" -> Raise("InvalidDatabaseError")
        IN  CASE e.type = "map" /\ fail # <<"alloc", p>>   -> from_map(list, fail, p, from)
              [] e.type = "array" /\ fail # <<"alloc", p>> -> from_array(list, p, from)
              [] e.type \notin {"map", "array"} /\ fail # <<"alloc", p>> ->
                   IF Raises(value) THEN Failed(p, value[2], {}) ELSE Made(p, value)
              [] fail = <<"alloc", p>>                     -> Failed(p, "MemoryError", {})
  IN  from[1]

-----------------------------------------------------------------------------
(* The calls.                                                               *)

Convert ==
  /\ input.reader = "c" /\ pc = "begin"
  /\ result' = IF ListFails(input.datum) THEN Failed(0, "InvalidDatabaseError", {})
               ELSE from_entry_data_list(EntryDataList[input.datum], input.fail, input.long32)
  /\ pc' = "converted"
  /\ UNCHANGED <<input, outcome>>

\* The interpreter's check of a method's result: NULL with an exception or an
\* object without one; it releases an object that comes with an exception.
CheckResult(value, alive, held) ==
  IF value # NULL /\ result.exc = "none"
    THEN outcome' = value /\ result' = [result EXCEPT !.alive = alive, !.held = held]
    ELSE /\ outcome' = Raise(IF value = NULL THEN result.exc ELSE "SystemError")
         /\ result' = [result EXCEPT !.alive = alive \ held, !.held = {}]

\* Mutant: NULL is taken for a record.
get_unchecked ==
  /\ pc = "converted" /\ input.call = "get"
  /\ outcome' = result.ret
  /\ pc' = "returned"
  /\ UNCHANGED <<input, result>>

\* Reader_get, Reader_get_with_prefix_len.
get ==
  /\ pc = "converted" /\ input.call = "get"
  /\ CheckResult(result.ret, result.alive, result.held)
  /\ pc' = "returned"
  /\ UNCHANGED input

\* The objects a Metadata refers to.
FieldObjects == UNION {result.parts[key].value : key \in DOMAIN result.parts}

\* Metadata(**metadata_dict), then Py_DECREF(metadata_dict).  A keyword that is
\* missing leaves a local of Metadata_init unset; one that is not known makes it
\* fail, and Metadata_dealloc drops fields that were never set.
Metadata_init ==
  IF DOMAIN result.ret[2] = Fields
    THEN CheckResult(<<"Metadata", result.ret[2]>>,
                     (result.alive \ result.held) \cup FieldObjects, FieldObjects)
    ELSE outcome' = <<"undefined">> /\ UNCHANGED result

\* Reader_metadata, after the conversion.  What is not a dict is not released.
Reader_metadata ==
  /\ pc = "converted" /\ input.call = "metadata"
  /\ \/ /\ result.ret[1] # "dict"
        /\ outcome' = Raise("InvalidDatabaseError")
        /\ result' = [result EXCEPT !.held = {}]
     \/ /\ result.ret[1] = "dict" /\ input.fail[1] = "args"
        /\ outcome' = Raise("MemoryError")
        /\ result' = [result EXCEPT !.alive = @ \ result.held, !.held = {}]
     \/ /\ result.ret[1] = "dict" /\ input.fail[1] # "args"
        /\ Metadata_init
  /\ pc' = "returned"
  /\ UNCHANGED input

Metadata_dealloc ==
  /\ pc = "returned" /\ input.reader = "c" /\ outcome[1] = "Metadata"
  /\ result' = [result EXCEPT !.alive = @ \ result.held, !.held = {}]
  /\ pc' = "disposed"
  /\ UNCHANGED <<input, outcome>>

\* Mutant: keywords that are missing or not known do not matter.
metadata_of_any_dict(value) ==
  CASE Raises(value)      -> value
    [] ~Raises(value) /\ value[1] # "dict" -> Raise("InvalidDatabaseError")
    [] value[1] = "dict"  -> <<"Metadata", value[2]>>

\* The pure Python reader: get() decodes a record, Reader.__init__ the metadata.
metadata_of(value) ==
  CASE Raises(value)      -> value
    [] ~Raises(value) /\ value[1] # "dict" -> Raise("InvalidDatabaseError")
    [] value[1] = "dict"  ->
         IF DOMAIN value[2] = Fields THEN <<"Metadata", value[2]>> ELSE Raise("TypeError")

pointer_base == 3

Decode ==
  /\ input.reader = "python" /\ pc = "begin"
  /\ LET value == decode(Buffer(input.datum, input.mode, pointer_base + input.start, pointer_base)).value
     IN  outcome' = IF input.call = "get" THEN value ELSE metadata_of(value)
  /\ pc' = "returned"
  /\ UNCHANGED <<input, result>>

\* Reader.__init__ looks for the marker near the end of the file.
SearchStart(file) == Max({0, Len(file) - Window})

\* In MODE_FILE.
find_metadata ==
  /\ input.reader = "file" /\ pc = "begin"
  /\ outcome' = <<"found", FileBuffer_rfind(input.file, Marker, SearchStart(input.file))>>
  /\ pc' = "returned"
  /\ UNCHANGED <<input, result>>

-----------------------------------------------------------------------------

Input(reader, call, datum, fail, long32, mode, start) ==
  [reader |-> reader, call |-> call, datum |-> datum, fail |-> fail, long32 |-> long32,
   mode |-> mode, start |-> start]

\* The allocations of a conversion.  Booleans need none.
Failures(d) ==
  LET list == EntryDataList[d] IN
  ({"alloc"} \X {p \in DOMAIN list : list[p].type \notin {"boolean", "unknown"}})
    \cup ({"setitem"} \X {p \in DOMAIN list : list[p].key})

Calls == {"get", "metadata"}

\* TRUE for data on which every failure is tried, FALSE for the long ones.
Short(d) == Len(EntryDataList[d]) < 10 /\ d.size < 10

Init ==
  /\ result = Failed(0, "none", {}) /\ outcome = <<"none">>
  /\ pc = "begin"
  /\ \/ \E d \in Data, call \in Calls :
             \/ \E long32 \in BOOLEAN : input = Input("c", call, d, NoFailure, long32, "none", 0)
             \/ /\ Short(d)
                /\ \E fail \in Failures(d) \cup (IF call = "metadata" THEN {<<"args", 0>>} ELSE {}) :
                     input = Input("c", call, d, fail, FALSE, "none", 0)
             \/ \E mode \in PointerModes, start \in Starts :
                  input = Input("python", call, d, NoFailure, FALSE, mode, start)
     \/ \E file \in Files : input = [reader |-> "file", file |-> file]

Next == Convert \/ get \/ Reader_metadata \/ Metadata_dealloc \/ Decode \/ find_metadata

Spec == Init /\ [][Next]_vars

-----------------------------------------------------------------------------
(* Properties.                                                              *)

\* Every variable has its type.
TypeOK ==
  /\ input.reader \in {"c", "python", "file"}
  /\ pc \in {"begin", "converted", "returned", "disposed"}
  /\ result.cursor \in Nat /\ result.alive \subseteq Nat /\ result.held \subseteq Nat
  /\ outcome[1] \in {"none", "raise", "str", "bytes", "int", "float", "bool", "list", "dict",
                     "Metadata", "undefined", "found"}

Returned(reader, call) == pc = "returned" /\ input.reader = reader /\ input.call = call

\* A uint32 that a long of 32 bits cannot hold.
Wraps ==
  /\ input.long32
  /\ \E i \in DOMAIN EntryDataList[input.datum] :
       LET e == EntryDataList[input.datum][i] IN
       e.type = "uint32" /\ Signed(RJust(e.bytes, 4))[2]

\* The C reader's get() gives the value that is stored, with every entry of the
\* list used up, or the exception the data call for; when an allocation fails it
\* raises and never gives a value with something missing.  Only a build whose
\* long has 32 bits gives a wrong one, for a uint32 above 2^31 - 1.
ConversionExact ==
  Returned("c", "get") =>
    LET list     == EntryDataList[input.datum]
        expected == IF ListFails(input.datum) THEN Raise("InvalidDatabaseError") ELSE Value[input.datum]
    IN  IF input.fail # NoFailure
        THEN outcome \in {Raise("MemoryError"), Raise("SystemError")}
                          \cup (IF Raises(expected) THEN {expected} ELSE {})
        ELSE /\ outcome = expected \/ Wraps
             /\ ~Raises(outcome) => result.cursor = Len(list)

\* Every object that was made is freed or belongs to the result, whatever
\* failed, and a Metadata keeps its fields alive until it goes.  Two paths leak:
\* a map whose key cannot be made, and metadata that is not a map.
ReferencesExact ==
  pc \in {"returned", "disposed"} /\ input.reader = "c" /\ outcome # <<"undefined">> =>
    LET list   == EntryDataList[input.datum]
        leaked == result.alive \ result.held
    IN  /\ result.held \subseteq result.alive
        /\ \/ leaked = {}
           \/ /\ result.ret = NULL /\ list[result.cursor].key
              /\ list[Min(leaked)].type = "map" /\ leaked \subseteq Min(leaked)..(result.cursor - 1)
           \/ input.call = "metadata" /\ result.ret # NULL /\ result.ret[1] # "dict"

\* The Decoder gives the value that is stored, whatever sizes and pointers the
\* writer used and wherever the data lie, or the exception the data call for.
DecoderInverts == Returned("python", "get") => outcome = Value[input.datum]

\* metadata() of both readers has exactly the fields that are stored, when these
\* are the nine it knows; what the C reader does is undefined only when they are
\* not, or when PyDict_SetItem failed unseen.
MetadataExact ==
  \A reader \in {"c", "python"} :
    Returned(reader, "metadata") =>
      LET value  == Value[input.datum]
          proper == value[1] = "dict" /\ DOMAIN value[2] = Fields
      IN  /\ proper /\ input.fail = NoFailure /\ ~Wraps => outcome = <<"Metadata", value[2]>>
          /\ outcome[1] = "Metadata" => proper
          /\ outcome = <<"undefined">> =>
               reader = "c" /\ value[1] = "dict" /\ (~proper \/ input.fail[1] = "setitem")

\* A FileBuffer finds the marker where bytes and mmap find it.  Of a marker at
\* the very end, which no metadata follow, it does not see the last byte.
MarkerFound ==
  input.reader = "file" /\ pc = "returned" =>
    LET file == input.file
        at   == rfind(file, Marker, SearchStart(file))
    IN  IF at + Len(Marker) < Len(file)
        THEN outcome[2] = at
        ELSE outcome[2] = rfind(Front(file), Marker, SearchStart(file))

=============================================================================
