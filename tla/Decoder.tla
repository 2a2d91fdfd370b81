------------------------------- MODULE Decoder -------------------------------
(***************************************************************************)
(* The pure Python Decoder (maxminddb/decoder.py) and FileBuffer.rfind.    *)
(* A method that returns (value, new_offset) is an operator that returns   *)
(* [value, offset]; an exception is the value Raise(...).                  *)
(***************************************************************************)
EXTENDS DataSection

At(buf, offset) == buf.bytes[offset - buf.start + 1]

Slice(buf, offset, size) ==
  SubSeq(buf.bytes, offset - buf.start + 1, offset - buf.start + size)

\* Mutant: the second range of sizes starts one too low.
_size_from_ctrl_byte_off_by_one(buf, ctrl_byte, offset, type_num) ==
  LET size == ctrl_byte % 32 IN
  CASE type_num = 1 \/ size < 29 -> [size |-> size, offset |-> offset]
    [] type_num # 1 /\ size >= 29 ->
         [size   |-> <<29, 284, 65821>>[size - 28] + FromBytes(Slice(buf, offset, size - 28)),
          offset |-> offset + (size - 28)]

\* 29, 30 or 31 in the control byte: the size is in the next 1, 2 or 3 bytes.
_size_from_ctrl_byte(buf, ctrl_byte, offset, type_num) ==
  LET size == ctrl_byte % 32 IN
  CASE type_num = 1 \/ size < 29 -> [size |-> size, offset |-> offset]
    [] type_num # 1 /\ size >= 29 ->
         [size   |-> <<29, 285, 65821>>[size - 28] + FromBytes(Slice(buf, offset, size - 28)),
          offset |-> offset + (size - 28)]

\* The type in the control byte, or 0 and the type in the next byte.
Extended(buf, offset) == At(buf, offset) \div 32 = 0

TypeNum(buf, offset) ==
  IF Extended(buf, offset) THEN At(buf, offset + 1) + 7 ELSE At(buf, offset) \div 32

\* What decode reads before it calls the type's decoder.
DatumSize(buf, offset) ==
  _size_from_ctrl_byte(buf, At(buf, offset), offset + (IF Extended(buf, offset) THEN 2 ELSE 1),
                       TypeNum(buf, offset))

\* The offset a pointer stands for.
_decode_pointer(buf, size, offset) ==
  LET pointer_size == size \div 8 + 1
      bytes        == Slice(buf, offset, pointer_size)
      low          == size % 8
  IN  buf.base + (CASE pointer_size = 1 -> FromBytes(<<low>> \o bytes)
                    [] pointer_size = 2 -> FromBytes(<<low>> \o bytes) + 2048
                    [] pointer_size = 3 -> FromBytes(<<low>> \o bytes) + 526336
                    [] pointer_size = 4 -> FromBytes(bytes))

\* The decoders of the types without items.
decode_scalar(type_num, size, bytes) ==
  CASE type_num = 2                   -> Text(bytes)
    [] type_num \in {3, 15}           ->
         IF size = (IF type_num = 3 THEN 8 ELSE 4) THEN <<"float", bytes>>
         ELSE Raise("InvalidDatabaseError")
    [] type_num = 4                   -> <<"bytes", bytes>>
    [] type_num \in {5, 6, 9, 10}     -> Unsigned(bytes)
    [] type_num = 8                   -> IF size = 0 THEN Unsigned(<<>>) ELSE Signed(RJust(bytes, 4))
    [] type_num = 14                  -> <<"bool", size # 0>>
    [] type_num \notin 2..15 \ {7, 11, 12, 13} -> Raise("InvalidDatabaseError")

\* One turn of the loops of _decode_array and _decode_map.
_decode_items(dec, type_num, before) ==
  LET first  == dec[before.offset]
      second == dec[first.offset]
  IN  CASE Raises(before.value) -> before
        [] type_num = 11 /\ ~Raises(before.value) ->
             IF Raises(first.value) THEN first
             ELSE [value |-> <<"list", Append(before.value[2], first.value)>>, offset |-> first.offset]
        [] type_num = 7 /\ ~Raises(before.value) ->
             CASE Raises(first.value) -> first
               [] ~Raises(first.value) ->
                    IF Raises(second.value) THEN second
                    ELSE [value |-> <<"dict", SetItem(before.value[2], first.value, second.value)>>,
                          offset |-> second.offset]

\* Decoder.decode, with _read_extended and the dispatch on the type.
decode(buf) ==
  LET dec[offset \in Nat] ==
        LET type_num == TypeNum(buf, offset)
            head     == DatumSize(buf, offset)
            empty    == [value |-> IF type_num = 7 THEN <<"dict", EmptyDict>> ELSE <<"list", <<>>>>,
                         offset |-> head.offset]
            upTo[i \in 0..head.size] ==
              IF i = 0 THEN empty ELSE _decode_items(dec, type_num, upTo[i - 1])
        IN  CASE type_num = 1 ->
                   [value  |-> dec[_decode_pointer(buf, head.size, head.offset)].value,
                    offset |-> head.offset + head.size \div 8 + 1]
              [] type_num \in {7, 11} -> upTo[head.size]
              [] type_num \notin {1, 7, 11} ->
                   LET n == IF type_num = 14 THEN 0 ELSE head.size IN
                   [value |-> decode_scalar(type_num, head.size, Slice(buf, head.offset, n)),
                    offset |-> head.offset + n]
  IN  dec[buf.offset]

-----------------------------------------------------------------------------
\* bytes.rfind and mmap.rfind: the last place of needle at or after start.
rfind(file, needle, start) ==
  Max({k \in start..(Len(file) - Len(needle)) :
         SubSeq(file, k + 1, k + Len(needle)) = needle} \cup {-1})

\* Mutant: the position in what was read is not moved by start.
FileBuffer_rfind_unshifted(file, needle, start) ==
  rfind(SubSeq(file, start + 1, Len(file) - 1), needle, 0)

\* FileBuffer reads size - start - 1 bytes from start.
FileBuffer_rfind(file, needle, start) ==
  LET pos == rfind(SubSeq(file, start + 1, Len(file) - 1), needle, 0) IN
  IF pos = -1 THEN pos ELSE start + pos

=============================================================================
