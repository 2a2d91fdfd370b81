-------------------------------- MODULE Bytes --------------------------------
(* Byte strings, as sequences of integers below 256.                         *)
EXTENDS Integers, Sequences, FiniteSetsExt

\* n as w bytes, most significant first.
BigEndian(n, w) == [k \in 1..w |-> (n \div 256^(w - k)) % 256]

FromBytes(s) ==
  LET acc[k \in 0..Len(s)] == IF k = 0 THEN 0 ELSE 256 * acc[k - 1] + s[k] IN acc[Len(s)]

\* s.rjust(w, b"\x00")
RJust(s, w) == IF Len(s) >= w THEN s ELSE [k \in 1..(w - Len(s)) |-> 0] \o s

DropZeros(s) == SubSeq(s, Min({k \in DOMAIN s : s[k] # 0} \cup {Len(s) + 1}), Len(s))

=============================================================================
