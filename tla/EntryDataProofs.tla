--------------------------- MODULE EntryDataProofs ---------------------------
(***************************************************************************)
(* The Decoder's numbers and the search for the metadata marker:           *)
(*   SizesInvert        the type and size of every header are read back    *)
(*   PointersInvert     so is every pointer, in each of its four forms     *)
(*   MarkerFoundSafety  FileBuffer.rfind finds the metadata marker         *)
(* The first two say of all sizes and pointers what DecoderInverts tries   *)
(* at the edges.  What the Decoder makes of nested values is recursion     *)
(* over data and not proved.                                               *)
(***************************************************************************)
EXTENDS EntryData, SequenceTheorems, WellFoundedInduction, TLAPS

-----------------------------------------------------------------------------
(* Parts of sequences.                                                      *)

\* t is w elements of s, from the one after the first j.
IsPart(t, s, j, w) ==
  t \in Seq(Nat) /\ Len(t) = w /\ \A i \in 1..w : t[i] = s[j + i]

\* SubSeq gives such a part.
LEMMA Part ==
  ASSUME NEW s \in Seq(Nat), NEW j \in Nat, NEW w \in Nat, j + w <= Len(s)
  PROVE  IsPart(SubSeq(s, j + 1, j + w), s, j, w)
<1> DEFINE t == SubSeq(s, j + 1, j + w)
<1>1. \A i \in (j + 1)..(j + w) : s[i] \in Nat
  <2>1. Len(s) \in Nat /\ \A i \in 1..Len(s) : s[i] \in Nat
    OBVIOUS
  <2> QED BY <2>1
<1>2. j + 1 \in Int /\ j + w \in Int
  OBVIOUS
<1>3. /\ t \in Seq(Nat)
      /\ Len(t) = IF j + 1 <= j + w THEN (j + w) - (j + 1) + 1 ELSE 0
      /\ \A i \in 1..((j + w) - (j + 1) + 1) : t[i] = s[(j + 1) + i - 1]
  BY <1>1, <1>2, SubSeqProperties
<1> HIDE DEF t
<1>4. Len(t) = w
  BY <1>3, SMT
<1>5. ASSUME NEW i \in 1..w PROVE t[i] = s[j + i]
  <2>1. i \in 1..((j + w) - (j + 1) + 1) /\ (j + 1) + i - 1 = j + i
    OBVIOUS
  <2> QED BY <1>3, <2>1
<1>6. IsPart(t, s, j, w)
  BY <1>3, <1>4, <1>5 DEF IsPart
<1> QED BY <1>6 DEF t

-----------------------------------------------------------------------------
(* Numbers as bytes.                                                        *)

\* FromBytes takes one byte after the other.  (The equation for its recursive
\* function has a solution, which for so few bytes can be written down.)
LEMMA FromBytesSteps ==
  ASSUME NEW s \in Seq(Nat), Len(s) <= 4
  PROVE  \E a : /\ a[0] = 0
                /\ \A k \in 1..Len(s) : a[k] = 256 * a[k - 1] + s[k]
                /\ FromBytes(s) = a[Len(s)]
<1> DEFINE n == Len(s)
           Solves(acc) == acc = [k \in 0..n |-> IF k = 0 THEN 0 ELSE 256 * acc[k - 1] + s[k]]
           A == CHOOSE acc : Solves(acc)
           one == 256 * 0 + s[1]
           two == 256 * one + s[2]
           three == 256 * two + s[3]
           four == 256 * three + s[4]
           f == [k \in 0..n |-> IF k = 0 THEN 0 ELSE IF k = 1 THEN one ELSE
                                IF k = 2 THEN two ELSE IF k = 3 THEN three ELSE four]
<1>1. n \in 0..4
  <2>1. n \in Nat /\ n <= 4
    BY LenProperties
  <2> HIDE DEF n
  <2> QED BY <2>1, SMT
<1> HIDE DEF n
<1>2. ASSUME NEW k \in 0..n PROVE f[k] = IF k = 0 THEN 0 ELSE 256 * f[k - 1] + s[k]
  <2> HIDE DEF one, two, three, four
  <2>1. k = 0 \/ k = 1 \/ k = 2 \/ k = 3 \/ k = 4
    BY <1>1, SMT
  <2>2. k # 0 => k - 1 \in 0..n
    BY <1>1, SMT
  <2>3. CASE k = 0
    BY <2>3
  <2>4. CASE k = 1
    BY <2>2, <2>4, SMT DEF one
  <2>5. CASE k = 2
    BY <2>2, <2>5, SMT DEF two
  <2>6. CASE k = 3
    BY <2>2, <2>6, SMT DEF three
  <2>7. CASE k = 4
    BY <2>2, <2>7, SMT DEF four
  <2> QED BY <2>1, <2>3, <2>4, <2>5, <2>6, <2>7
<1>3. f = [k \in 0..n |-> f[k]]
  OBVIOUS
<1> HIDE DEF f
<1>4. Solves(f)
  <2> HIDE DEF one, two, three, four, A
  <2> QED BY <1>2, <1>3, Zenon
<1>5. Solves(A)
  <2> HIDE DEF Solves
  <2> QED BY <1>4, Zenon
<1> HIDE DEF A
<1>6. A[0] = 0
  BY <1>1, <1>5, SMT
<1>7. ASSUME NEW k \in 1..n PROVE A[k] = 256 * A[k - 1] + s[k]
  <2>1. k \in 0..n /\ k # 0
    BY <1>1
  <2> QED BY <1>5, <2>1
<1>8. FromBytes(s) = A[n]
  BY Zenon DEF FromBytes, A, n
<1> QED BY <1>6, <1>7, <1>8 DEF n

\* What few bytes stand for.
LEMMA FromFewBytes ==
  ASSUME NEW s \in Seq(Nat)
  PROVE  /\ Len(s) = 1 => FromBytes(s) = s[1]
         /\ Len(s) = 2 => FromBytes(s) = 256 * s[1] + s[2]
         /\ Len(s) = 3 => FromBytes(s) = 256 * (256 * s[1] + s[2]) + s[3]
         /\ Len(s) = 4 => FromBytes(s) = 256 * (256 * (256 * s[1] + s[2]) + s[3]) + s[4]
<1> SUFFICES ASSUME Len(s) \in 1..4
             PROVE  /\ Len(s) = 1 => FromBytes(s) = s[1]
                    /\ Len(s) = 2 => FromBytes(s) = 256 * s[1] + s[2]
                    /\ Len(s) = 3 => FromBytes(s) = 256 * (256 * s[1] + s[2]) + s[3]
                    /\ Len(s) = 4 =>
                         FromBytes(s) = 256 * (256 * (256 * s[1] + s[2]) + s[3]) + s[4]
  BY SMT
<1>1. PICK a : /\ a[0] = 0
               /\ \A k \in 1..Len(s) : a[k] = 256 * a[k - 1] + s[k]
               /\ FromBytes(s) = a[Len(s)]
  <2> DEFINE n == Len(s)
  <2>1. n <= 4
    <3>1. n \in 1..4
      OBVIOUS
    <3> HIDE DEF n
    <3> QED BY <3>1
  <2> QED BY <2>1, FromBytesSteps, Zenon
<1>2. \A k \in 1..Len(s) : s[k] \in Nat
  OBVIOUS
<1>3. /\ a[1] = 256 * a[0] + s[1]
      /\ 2 <= Len(s) => a[2] = 256 * a[1] + s[2]
      /\ 3 <= Len(s) => a[3] = 256 * a[2] + s[3]
      /\ 4 <= Len(s) => a[4] = 256 * a[3] + s[4]
  BY <1>1, SMT
<1>4. /\ a[1] = s[1] /\ s[1] \in Nat
      /\ 2 <= Len(s) => s[2] \in Nat
      /\ 3 <= Len(s) => s[3] \in Nat
      /\ 4 <= Len(s) => s[4] \in Nat
  BY <1>1, <1>2, <1>3, SMT
<1>5. CASE Len(s) = 1
  BY <1>1, <1>4, <1>5, SMT
<1>6. CASE Len(s) = 2
  BY <1>1, <1>3, <1>4, <1>6, SMT
<1>7. CASE Len(s) = 3
  BY <1>1, <1>3, <1>4, <1>7, SMT
<1>8. CASE Len(s) = 4
  BY <1>1, <1>3, <1>4, <1>8, SMT
<1>9. Len(s) = 1 \/ Len(s) = 2 \/ Len(s) = 3 \/ Len(s) = 4
  BY SMT
<1> QED BY <1>5, <1>6, <1>7, <1>8, <1>9, Zenon

\* t is n as w bytes.
IsBigEndian(t, n, w) ==
  t \in Seq(Nat) /\ Len(t) = w /\ \A k \in 1..w : t[k] = (n \div 256^(w - k)) % 256

\* BigEndian gives these bytes.
LEMMA BigEndianIs ==
  ASSUME NEW n \in Nat, NEW w \in 1..4
  PROVE  IsBigEndian(BigEndian(n, w), n, w)
<1> DEFINE t == BigEndian(n, w)
<1>1. t = [k \in 1..w |-> t[k]]
  BY DEF BigEndian
<1>2. \A k \in 1..w : t[k] = (n \div 256^(w - k)) % 256
  BY DEF BigEndian
<1>3. 256^0 = 1 /\ 256^1 = 256 /\ 256^2 = 65536 /\ 256^3 = 16777216
  BY SMT
<1> HIDE DEF t
<1>4. ASSUME NEW k \in 1..w PROVE t[k] \in Nat
  <2>1. w - k = 0 \/ w - k = 1 \/ w - k = 2 \/ w - k = 3
    BY SMT
  <2>2. /\ 256^(w - k) = 256^0 \/ 256^(w - k) = 256^1
           \/ 256^(w - k) = 256^2 \/ 256^(w - k) = 256^3
    BY <2>1, Zenon
  <2> DEFINE d == 256^(w - k)
  <2>3. d \in Nat /\ d > 0 /\ t[k] = (n \div d) % 256
    <3>1. d = 256^0 \/ d = 256^1 \/ d = 256^2 \/ d = 256^3
      BY <2>2
    <3> HIDE DEF d
    <3>2. d \in Nat /\ d > 0
      BY <1>3, <3>1
    <3> QED BY <1>2, <3>2 DEF d
  <2> HIDE DEF d
  <2>4. n \div d \in Nat
    BY <2>3, SMT
  <2> QED BY <2>3, <2>4, SMT
<1>5. t \in Seq(Nat) /\ Len(t) = w
  BY <1>1, <1>4
<1>6. IsBigEndian(t, n, w)
  BY <1>2, <1>5 DEF IsBigEndian
<1> QED BY <1>6 DEF t

\* The bytes one by one, by the number of them.
LEMMA BigEndianDigits ==
  ASSUME NEW n \in Nat, NEW w \in 1..4, NEW t, IsBigEndian(t, n, w)
  PROVE  /\ w = 1 => t[1] = n % 256
         /\ w = 2 => t[1] = (n \div 256) % 256 /\ t[2] = n % 256
         /\ w = 3 => /\ t[1] = (n \div 65536) % 256 /\ t[2] = (n \div 256) % 256
                     /\ t[3] = n % 256
         /\ w = 4 => /\ t[1] = (n \div 16777216) % 256 /\ t[2] = (n \div 65536) % 256
                     /\ t[3] = (n \div 256) % 256 /\ t[4] = n % 256
<1>1. 256^0 = 1 /\ 256^1 = 256 /\ 256^2 = 65536 /\ 256^3 = 16777216 /\ n \div 1 = n
  BY SMT
<1>2. \A k \in 1..w : t[k] = (n \div 256^(w - k)) % 256
  BY DEF IsBigEndian
<1>3. /\ 1 <= w => t[w] = (n \div 256^0) % 256
      /\ 2 <= w => t[w - 1] = (n \div 256^1) % 256
      /\ 3 <= w => t[w - 2] = (n \div 256^2) % 256
      /\ 4 <= w => t[w - 3] = (n \div 256^3) % 256
  <2>1. ASSUME NEW j \in 0..3, j < w PROVE t[w - j] = (n \div 256^j) % 256
    <3>1. w - j \in 1..w /\ w - (w - j) = j
      BY <2>1, SMT
    <3>2. t[w - j] = (n \div 256^(w - (w - j))) % 256
      BY <1>2, <3>1, Zenon
    <3> QED BY <3>1, <3>2
  <2> QED BY <2>1
<1>4. /\ 1 <= w => t[w] = n % 256
      /\ 2 <= w => t[w - 1] = (n \div 256) % 256
      /\ 3 <= w => t[w - 2] = (n \div 65536) % 256
      /\ 4 <= w => t[w - 3] = (n \div 16777216) % 256
  BY <1>1, <1>3
<1> QED BY <1>4, SMT

\* The range of w bytes.
Below(w) == IF w = 1 THEN 256 ELSE IF w = 2 THEN 65536 ELSE IF w = 3 THEN 16777216 ELSE 4294967296

\* A number from its bytes.
LEMMA BytesInvert ==
  ASSUME NEW n \in Nat, NEW w \in 1..4, n < Below(w), NEW t, IsBigEndian(t, n, w)
  PROVE  FromBytes(t) = n
<1>1. t \in Seq(Nat) /\ Len(t) = w
  BY DEF IsBigEndian
<1> DEFINE a == n \div 256
           b == n \div 65536
           c == n \div 16777216
<1>2. a \in Nat /\ n = 256 * a + (n % 256)
  BY SMT
<1>3. b \in Nat /\ a = 256 * b + (a % 256)
  <2>1. b = a \div 256
    BY SMT
  <2> QED BY <1>2, <2>1, SMT
<1>4. c \in Nat /\ b = 256 * c + (b % 256)
  <2>1. c = b \div 256
    BY SMT
  <2> QED BY <1>3, <2>1, SMT
<1>5. /\ w = 1 => t[1] = n % 256
      /\ w = 2 => t[1] = a % 256 /\ t[2] = n % 256
      /\ w = 3 => t[1] = b % 256 /\ t[2] = a % 256 /\ t[3] = n % 256
      /\ w = 4 => t[1] = c % 256 /\ t[2] = b % 256 /\ t[3] = a % 256 /\ t[4] = n % 256
  BY BigEndianDigits
<1>6. /\ w = 1 => FromBytes(t) = t[1]
      /\ w = 2 => FromBytes(t) = 256 * t[1] + t[2]
      /\ w = 3 => FromBytes(t) = 256 * (256 * t[1] + t[2]) + t[3]
      /\ w = 4 => FromBytes(t) = 256 * (256 * (256 * t[1] + t[2]) + t[3]) + t[4]
  <2>1. /\ Len(t) = 1 => FromBytes(t) = t[1]
        /\ Len(t) = 2 => FromBytes(t) = 256 * t[1] + t[2]
        /\ Len(t) = 3 => FromBytes(t) = 256 * (256 * t[1] + t[2]) + t[3]
        /\ Len(t) = 4 => FromBytes(t) = 256 * (256 * (256 * t[1] + t[2]) + t[3]) + t[4]
    BY <1>1, FromFewBytes, Zenon
  <2> QED BY <1>1, <2>1
<1>7. w = 1 \/ w = 2 \/ w = 3 \/ w = 4
  BY SMT
<1> HIDE DEF a, b, c
<1>8. CASE w = 1
  BY <1>5, <1>6, <1>8, SMT DEF Below
<1>9. CASE w = 2
  <2>1. n < 65536
    BY <1>9 DEF Below
  <2>2. a < 256
    BY <1>2, <2>1, SMT
  <2>3. a % 256 = a
    BY <1>2, <2>2, SMT
  <2> QED BY <1>2, <1>5, <1>6, <1>9, <2>3, SMT
<1>10. CASE w = 3
  <2>1. n < 16777216
    BY <1>10 DEF Below
  <2>2. b < 256
    BY <1>2, <1>3, <2>1, SMT
  <2>3. b % 256 = b
    BY <1>3, <2>2, SMT
  <2> QED BY <1>2, <1>3, <1>5, <1>6, <1>10, <2>3, SMT
<1>11. CASE w = 4
  <2>1. n < 4294967296
    BY <1>11 DEF Below
  <2>2. c < 256
    BY <1>2, <1>3, <1>4, <2>1, SMT
  <2>3. c % 256 = c
    BY <1>4, <2>2, SMT
  <2> QED BY <1>2, <1>3, <1>4, <1>5, <1>6, <1>11, <2>3, SMT
<1> QED BY <1>7, <1>8, <1>9, <1>10, <1>11

-----------------------------------------------------------------------------
(* Sizes and pointers: the Decoder reads what a writer wrote.               *)

\* From offset on, the buffer holds the bytes t.
Holds(buf, offset, t) ==
  /\ buf.bytes \in Seq(Nat) /\ buf.start \in Nat /\ offset - buf.start \in Nat
  /\ (offset - buf.start) + Len(t) <= Len(buf.bytes)
  /\ \A k \in 1..Len(t) : buf.bytes[(offset - buf.start) + k] = t[k]

\* A slice of the buffer is the bytes that are there.
LEMMA SliceHeld ==
  ASSUME NEW buf, NEW offset \in Nat, NEW s \in Seq(Nat), NEW t \in Seq(Nat),
         Holds(buf, offset, s \o t)
  PROVE  Slice(buf, offset + Len(s), Len(t)) = t
<1> DEFINE i == offset - buf.start
           j == i + Len(s)
           w == Len(t)
           u == buf.bytes
           a == SubSeq(u, j + 1, j + w)
<1>1. Len(s) \in Nat /\ w \in Nat
  BY LenProperties
<1>2. /\ s \o t \in Seq(Nat) /\ Len(s \o t) = Len(s) + w
      /\ \A k \in 1..(Len(s) + w) : (s \o t)[k] = IF k <= Len(s) THEN s[k] ELSE t[k - Len(s)]
  BY ConcatProperties
<1>3. /\ u \in Seq(Nat) /\ buf.start \in Nat /\ i \in Nat /\ i + Len(s \o t) <= Len(u)
      /\ \A k \in 1..Len(s \o t) : u[i + k] = (s \o t)[k]
  BY DEF Holds
<1>4. Len(u) \in Nat
  BY <1>3, LenProperties
<1> DEFINE l == Len(s)
           m == Len(u)
           all == s \o t
<1>5. /\ l \in Nat /\ w \in Nat /\ m \in Nat /\ Len(all) = l + w /\ i \in Nat /\ i + (l + w) <= m
      /\ \A k \in 1..(l + w) : u[i + k] = all[k]
      /\ \A k \in 1..(l + w) : all[k] = IF k <= l THEN s[k] ELSE t[k - l]
  BY <1>1, <1>2, <1>3, <1>4
<1>6. Slice(buf, offset + l, w) = a
  <2> DEFINE b == buf.start
  <2>1. b \in Nat /\ l \in Nat /\ w \in Nat
    BY <1>3, <1>5
  <2> HIDE DEF b, l, w
  <2>2. /\ (offset + l) - b + 1 = ((offset - b) + l) + 1
        /\ (offset + l) - b + w = ((offset - b) + l) + w
    BY <2>1, SMT
  <2> QED BY <2>2, Zenon DEF Slice, b, l, w
<1> HIDE DEF i, l, w, m, all
<1>7. j \in Nat /\ j + w <= m /\ j = i + l
  <2>1. j = i + l
    BY DEF l
  <2> HIDE DEF j
  <2> QED BY <1>5, <2>1, SMT
<1> HIDE DEF u, j
<1>8. IsPart(a, u, j, w)
  BY <1>3, <1>5, <1>7, Part, Zenon DEF m
<1> HIDE DEF a
<1>9. ASSUME NEW k \in 1..w PROVE a[k] = t[k]
  <2>1. l + k \in 1..(l + w) /\ ~ (l + k <= l) /\ (l + k) - l = k /\ j + k = i + (l + k)
    BY <1>5, <1>7, SMT
  <2> QED BY <1>5, <1>8, <2>1 DEF IsPart
<1>10. a = t
  <2>1. a \in Seq(Nat) /\ Len(a) = Len(t) /\ \A k \in 1..Len(a) : a[k] = t[k]
    BY <1>8, <1>9 DEF IsPart, w
  <2> QED BY <2>1, SeqEqual
<1> QED BY <1>6, <1>10 DEF l, w

\* So is a single byte.
LEMMA ByteHeld ==
  ASSUME NEW buf, NEW offset \in Nat, NEW s \in Seq(Nat), NEW t \in Seq(Nat),
         Holds(buf, offset, s \o t), NEW k \in Nat, k < Len(s)
  PROVE  At(buf, offset + k) = s[k + 1]
<1> DEFINE i == offset - buf.start
           l == Len(s)
           w == Len(t)
<1>1. l \in Nat /\ w \in Nat
  BY LenProperties
<1>2. /\ Len(s \o t) = l + w
      /\ \A n \in 1..(l + w) : (s \o t)[n] = IF n <= l THEN s[n] ELSE t[n - l]
  BY ConcatProperties
<1>3. /\ buf.start \in Nat /\ i \in Nat
      /\ \A n \in 1..Len(s \o t) : buf.bytes[i + n] = (s \o t)[n]
  BY DEF Holds
<1>4. (offset + k) - buf.start + 1 = i + (k + 1)
  <2> DEFINE b == buf.start
  <2>1. b \in Nat
    BY <1>3
  <2> HIDE DEF b
  <2>2. (offset + k) - b + 1 = (offset - b) + (k + 1)
    BY <2>1, SMT
  <2> QED BY <2>2 DEF b
<1>5. k < l
  OBVIOUS
<1> HIDE DEF i, l, w
<1>6. k + 1 \in 1..(l + w) /\ k + 1 <= l
  BY <1>1, <1>5, SMT
<1>7. buf.bytes[i + (k + 1)] = s[k + 1]
  BY <1>2, <1>3, <1>6
<1> QED BY <1>4, <1>7 DEF At

\* The first of them is at offset.
LEMMA FirstByteHeld ==
  ASSUME NEW buf, NEW offset \in Nat, NEW s \in Seq(Nat), NEW t \in Seq(Nat),
         Holds(buf, offset, s \o t), Len(s) = 1
  PROVE  At(buf, offset) = s[1]
<1>1. 0 \in Nat /\ 0 < Len(s) /\ offset + 0 = offset /\ 0 + 1 = 1
  BY SMT
<1>2. At(buf, offset + 0) = s[0 + 1]
  BY <1>1, ByteHeld, Zenon
<1> QED BY <1>1, <1>2

\* The length of a concatenation.
LEMMA ConcatLength ==
  ASSUME NEW s \in Seq(Nat), NEW t \in Seq(Nat)
  PROVE  Len(s \o t) = Len(s) + Len(t)
BY ConcatProperties, Zenon

\* The type's part of a control byte, and what is left of it for the size.
Lead(type, first) ==
  IF TypeNumber[type] < 8 THEN <<32 * TypeNumber[type] + first>> ELSE <<first, TypeNumber[type] - 7>>

\* The numbers of the types a datum has: neither a pointer's nor beyond one byte.
LEMMA TypeNumbers ==
  ASSUME NEW type \in DOMAIN TypeNumber
  PROVE  TypeNumber[type] \in 2..15
BY DEF TypeNumber

\* How many bytes hold a size, from which they count, and what they hold.
Width(size) == IF size < 285 THEN 1 ELSE IF size < 65821 THEN 2 ELSE 3
Base(size) == IF size < 285 THEN 29 ELSE IF size < 65821 THEN 285 ELSE 65821

\* The form of the size: the five bits and the bytes after the type.
Form(size) ==
  CASE size < 29                     -> <<size, <<>>>>
    [] size >= 29 /\ size < 285      -> <<29, BigEndian(size - 29, 1)>>
    [] size >= 285 /\ size < 65821   -> <<30, BigEndian(size - 285, 2)>>
    [] size >= 65821                 -> <<31, BigEndian(size - 65821, 3)>>

\* A header is the type's part and the size's.
LEMMA HeaderParts ==
  ASSUME NEW type, NEW size \in Nat
  PROVE  Header(type, size) = Lead(type, Form(size)[1]) \o Form(size)[2]
BY SMT DEF Header, Lead, Form

\* A size of 29 or more has bytes of its own.
LEMMA LongForm ==
  ASSUME NEW size \in Nat, 29 <= size
  PROVE  /\ Form(size)[1] = 28 + Width(size)
         /\ Form(size)[2] = BigEndian(size - Base(size), Width(size))
<1>1. CASE size < 285
  <2>1. Width(size) = 1 /\ Base(size) = 29
    BY <1>1, SMT DEF Width, Base
  <2>2. Form(size)[1] = 29 /\ Form(size)[2] = BigEndian(size - 29, 1)
    BY <1>1, SMT DEF Form
  <2> QED BY <2>1, <2>2
<1>2. CASE ~ (size < 285) /\ size < 65821
  <2>1. Width(size) = 2 /\ Base(size) = 285
    BY <1>2, SMT DEF Width, Base
  <2>2. Form(size)[1] = 30 /\ Form(size)[2] = BigEndian(size - 285, 2)
    BY <1>2, SMT DEF Form
  <2> QED BY <2>1, <2>2
<1>3. CASE ~ (size < 285) /\ ~ (size < 65821)
  <2>1. Width(size) = 3 /\ Base(size) = 65821
    BY <1>3, SMT DEF Width, Base
  <2>2. Form(size)[1] = 31 /\ Form(size)[2] = BigEndian(size - 65821, 3)
    BY <1>3, SMT DEF Form
  <2> QED BY <2>1, <2>2
<1> QED BY <1>1, <1>2, <1>3

\* Where the type ends.
AfterType(buf, offset) == offset + (IF Extended(buf, offset) THEN 2 ELSE 1)

\* decode tells the type, the five bits of the size, and where they end.
ReadsLead(buf, offset, type, first) ==
  /\ TypeNum(buf, offset) = TypeNumber[type]
  /\ At(buf, offset) % 32 = first
  /\ AfterType(buf, offset) = offset + Len(Lead(type, first))
  /\ Lead(type, first) \in Seq(Nat)

\* It does where the buffer holds that.
LEMMA LeadRead ==
  ASSUME NEW buf, NEW offset \in Nat, NEW type \in DOMAIN TypeNumber, NEW first \in 0..31,
         NEW t \in Seq(Nat), Holds(buf, offset, Lead(type, first) \o t)
  PROVE  ReadsLead(buf, offset, type, first)
<1> DEFINE n == TypeNumber[type]
           s == Lead(type, first)
<1>1. n \in 2..15
  BY TypeNumbers
<1>2. s = IF n < 8 THEN <<32 * n + first>> ELSE <<first, n - 7>>
  BY Zenon DEF Lead
<1>3. Holds(buf, offset, s \o t)
  OBVIOUS
<1> HIDE DEF n, s
<1>4. CASE n < 8
  <2>1. s = <<32 * n + first>> /\ 32 * n + first \in Nat
    BY <1>1, <1>2, <1>4, SMT
  <2>2. s \in Seq(Nat) /\ Len(s) = 1 /\ s[0 + 1] = 32 * n + first
    BY <2>1
  <2>3. 0 \in Nat /\ 0 < Len(s) /\ offset + 0 = offset
    BY <2>2
  <2>4. At(buf, offset) = 32 * n + first
    <3>1. At(buf, offset + 0) = s[0 + 1]
      BY <1>3, <2>2, <2>3, ByteHeld, Zenon
    <3> QED BY <2>2, <2>3, <3>1
  <2>5. (32 * n + first) \div 32 = n /\ (32 * n + first) % 32 = first
    BY <1>1, SMT
  <2>6. ~ Extended(buf, offset)
    BY <1>1, <2>4, <2>5 DEF Extended
  <2> QED BY <2>2, <2>4, <2>5, <2>6 DEF ReadsLead, TypeNum, AfterType, n, s
<1>5. CASE ~ (n < 8)
  <2>1. s = <<first, n - 7>> /\ n - 7 \in Nat /\ first \in Nat
    BY <1>1, <1>2, <1>5, SMT
  <2>2. s \in Seq(Nat) /\ Len(s) = 2 /\ s[0 + 1] = first /\ s[1 + 1] = n - 7
    BY <2>1
  <2>3. 0 \in Nat /\ 0 < Len(s) /\ offset + 0 = offset /\ 1 \in Nat /\ 1 < Len(s)
    BY <2>2
  <2>4. At(buf, offset) = first /\ At(buf, offset + 1) = n - 7
    <3>1. At(buf, offset + 0) = s[0 + 1]
      BY <1>3, <2>2, <2>3, ByteHeld, Zenon
    <3>2. At(buf, offset + 1) = s[1 + 1]
      BY <1>3, <2>2, <2>3, ByteHeld, Zenon
    <3> QED BY <2>2, <2>3, <3>1, <3>2
  <2>5. first \div 32 = 0 /\ first % 32 = first /\ (n - 7) + 7 = n
    BY <1>1, SMT
  <2>6. Extended(buf, offset)
    BY <2>4, <2>5 DEF Extended
  <2> QED BY <2>2, <2>4, <2>5, <2>6 DEF ReadsLead, TypeNum, AfterType, n, s
<1> QED BY <1>4, <1>5

\* The greatest size: what 24 bits hold, from 65821 on.
MaxSize == 65821 + 16777215

\* Of every datum up to the greatest size, the Decoder reads the type and the
\* size that were written, and goes on at the byte after them.
THEOREM SizesInvert ==
  ASSUME NEW buf, NEW offset \in Nat, NEW type \in DOMAIN TypeNumber,
         NEW size \in Nat, size <= MaxSize,
         Holds(buf, offset, Header(type, size))
  PROVE  /\ TypeNum(buf, offset) = TypeNumber[type]
         /\ DatumSize(buf, offset) = [size |-> size, offset |-> offset + Len(Header(type, size))]
<1> DEFINE ctrl == At(buf, offset)
           num == TypeNum(buf, offset)
           after == AfterType(buf, offset)
<1>1. size <= 65821 + 16777215
  BY SMT DEF MaxSize
<1>2. TypeNumber[type] \in 2..15
  BY TypeNumbers
<1>3. DatumSize(buf, offset) = _size_from_ctrl_byte(buf, ctrl, after, num)
  BY Zenon DEF DatumSize, AfterType
<1>4. CASE size < 29
  <2>1. Header(type, size) = Lead(type, size) \o <<>>
    <3>1. Form(size)[1] = size /\ Form(size)[2] = <<>>
      BY <1>1, <1>4, SMT DEF Form
    <3> QED BY <3>1, HeaderParts, Zenon
  <2>2. size \in 0..31 /\ <<>> \in Seq(Nat)
    BY <1>1, <1>4
  <2>3. /\ num = TypeNumber[type] /\ ctrl % 32 = size
        /\ after = offset + Len(Lead(type, size)) /\ Lead(type, size) \in Seq(Nat)
    <3>1. ReadsLead(buf, offset, type, size)
      BY <2>1, <2>2, LeadRead, Zenon
    <3> QED BY <3>1 DEF ReadsLead
  <2>4. Len(Header(type, size)) = Len(Lead(type, size))
    BY <2>1, <2>3
  <2> HIDE DEF ctrl, num, after
  <2>5. _size_from_ctrl_byte(buf, ctrl, after, num) = [size |-> size, offset |-> after]
    BY <1>1, <1>4, <2>3, SMT DEF _size_from_ctrl_byte
  <2> QED BY <1>3, <2>3, <2>4, <2>5 DEF ctrl, num, after
<1>5. CASE 29 <= size
  <2> DEFINE w == Width(size)
             base == Base(size)
             s == Lead(type, 28 + w)
             t == BigEndian(size - base, w)
  <2>1. /\ w \in 1..3 /\ size - base \in Nat /\ size - base < Below(w) /\ base \in Nat
        /\ base = <<29, 285, 65821>>[w]
    <3>1. CASE size < 285
      <4>1. w = 1 /\ base = 29
        BY <3>1, SMT DEF Width, Base
      <4> HIDE DEF w, base
      <4> QED BY <1>1, <1>5, <3>1, <4>1, SMT DEF Below
    <3>2. CASE ~ (size < 285) /\ size < 65821
      <4>1. w = 2 /\ base = 285
        BY <3>2, SMT DEF Width, Base
      <4> HIDE DEF w, base
      <4> QED BY <1>1, <3>2, <4>1, SMT DEF Below
    <3>3. CASE ~ (size < 285) /\ ~ (size < 65821)
      <4>1. w = 3 /\ base = 65821
        BY <3>3, SMT DEF Width, Base
      <4> HIDE DEF w, base
      <4> QED BY <1>1, <3>3, <4>1, SMT DEF Below
    <3> QED BY <3>1, <3>2, <3>3
  <2>2. Header(type, size) = s \o t
    <3>1. Form(size)[1] = 28 + w /\ Form(size)[2] = t
      BY <1>1, <1>5, LongForm
    <3> QED BY <3>1, HeaderParts, Zenon
  <2> HIDE DEF w, base
  <2>3. w \in 1..4 /\ 28 + w \in 0..31
    BY <2>1, SMT
  <2>4. IsBigEndian(t, size - base, w)
    BY <2>1, <2>3, BigEndianIs
  <2>5. FromBytes(t) = size - base
    <3> HIDE DEF t
    <3> QED BY <2>1, <2>3, <2>4, BytesInvert
  <2>6. t \in Seq(Nat) /\ Len(t) = w
    BY <2>4 DEF IsBigEndian
  <2> HIDE DEF t
  <2>7. /\ num = TypeNumber[type] /\ ctrl % 32 = 28 + w
        /\ after = offset + Len(s) /\ s \in Seq(Nat)
    <3>1. ReadsLead(buf, offset, type, 28 + w)
      BY <2>2, <2>3, <2>6, LeadRead, Zenon
    <3> QED BY <3>1 DEF ReadsLead
  <2> HIDE DEF s
  <2>8. Slice(buf, after, w) = t
    BY <2>2, <2>6, <2>7, SliceHeld
  <2>9. Len(Header(type, size)) = Len(s) + w
    BY <2>2, <2>6, <2>7, ConcatProperties
  <2> HIDE DEF ctrl, num, after
  <2>10. _size_from_ctrl_byte(buf, ctrl, after, num) =
           [size |-> base + (size - base), offset |-> after + w]
    <3>1. /\ (28 + w) - 28 = w /\ ~ (num = 1 \/ 28 + w < 29)
          /\ num # 1 /\ 28 + w >= 29
      <4>1. num \in 2..15 /\ w \in 1..3
        BY <1>2, <2>1, <2>7
      <4> QED BY <4>1, SMT
    <3> QED BY <2>1, <2>5, <2>7, <2>8, <3>1 DEF _size_from_ctrl_byte
  <2>11. base + (size - base) = size /\ after + w = offset + (Len(s) + w)
    <3>1. Len(s) \in Nat
      BY <2>7, LenProperties
    <3> DEFINE l == Len(s)
    <3> HIDE DEF l
    <3>2. l \in Nat /\ after = offset + l
      BY <2>7, <3>1 DEF l
    <3>3. base + (size - base) = size /\ after + w = offset + (l + w)
      BY <1>1, <2>1, <3>2, SMT
    <3> QED BY <3>3 DEF l
  <2> QED BY <1>3, <2>7, <2>9, <2>10, <2>11 DEF ctrl, num, after
<1> QED BY <1>1, <1>4, <1>5, SMT

\* A byte in front of few bytes counts as much as the range of those.
LEMMA ByteInFront ==
  ASSUME NEW low \in Nat, NEW t \in Seq(Nat), NEW w \in 1..3, Len(t) = w
  PROVE  FromBytes(<<low>> \o t) = Below(w) * low + FromBytes(t)
<1> DEFINE s == <<low>>
           u == s \o t
<1>1. s \in Seq(Nat) /\ Len(s) = 1 /\ s[1] = low
  OBVIOUS
<1> HIDE DEF s
<1>2. /\ u \in Seq(Nat) /\ Len(u) = 1 + w
      /\ \A k \in 1..(1 + w) : u[k] = IF k <= 1 THEN s[k] ELSE t[k - 1]
  <2>1. /\ u \in Seq(Nat) /\ Len(u) = Len(s) + Len(t)
        /\ \A k \in 1..(Len(s) + Len(t)) : u[k] = IF k <= Len(s) THEN s[k] ELSE t[k - Len(s)]
    BY <1>1, ConcatProperties
  <2> QED BY <1>1, <2>1
<1> HIDE DEF u
<1>3. /\ Len(u) = 1 => FromBytes(u) = u[1]
      /\ Len(u) = 2 => FromBytes(u) = 256 * u[1] + u[2]
      /\ Len(u) = 3 => FromBytes(u) = 256 * (256 * u[1] + u[2]) + u[3]
      /\ Len(u) = 4 => FromBytes(u) = 256 * (256 * (256 * u[1] + u[2]) + u[3]) + u[4]
  BY <1>2, FromFewBytes, ZenonT(30)
<1>4. /\ Len(t) = 1 => FromBytes(t) = t[1]
      /\ Len(t) = 2 => FromBytes(t) = 256 * t[1] + t[2]
      /\ Len(t) = 3 => FromBytes(t) = 256 * (256 * t[1] + t[2]) + t[3]
      /\ Len(t) = 4 => FromBytes(t) = 256 * (256 * (256 * t[1] + t[2]) + t[3]) + t[4]
  BY FromFewBytes, ZenonT(30)
<1>5. \A k \in 1..Len(t) : t[k] \in Nat
  OBVIOUS
<1>6. \A k \in 1..w : t[k] \in Nat
  BY <1>5
<1>7. u[1] = low /\ u[2] = t[1] /\ (2 <= w => u[3] = t[2]) /\ (3 <= w => u[4] = t[3])
  BY <1>1, <1>2, SMT
<1>8. CASE w = 1
  <2>1. t[1] \in Nat /\ FromBytes(t) = t[1] /\ FromBytes(u) = 256 * low + t[1] /\ Below(w) = 256
    BY <1>2, <1>3, <1>4, <1>6, <1>7, <1>8, SMT DEF Below
  <2> QED BY <2>1 DEF u, s
<1>9. CASE w = 2
  <2>1. t[1] \in Nat /\ t[2] \in Nat /\ FromBytes(t) = 256 * t[1] + t[2]
    BY <1>4, <1>6, <1>9, SMT
  <2>2. FromBytes(u) = 256 * (256 * low + t[1]) + t[2] /\ Below(w) = 65536
    BY <1>2, <1>3, <1>7, <1>9, SMT DEF Below
  <2>3. FromBytes(u) = 65536 * low + FromBytes(t)
    <3> DEFINE a == t[1]
               b == t[2]
    <3>1. /\ a \in Nat /\ b \in Nat /\ FromBytes(t) = 256 * a + b
          /\ FromBytes(u) = 256 * (256 * low + a) + b
      BY <2>1, <2>2, SMT
    <3> HIDE DEF a, b
    <3> QED BY <3>1, SMT
  <2> QED BY <2>2, <2>3, SMT DEF u, s
<1>10. CASE w = 3
  <2>1. /\ t[1] \in Nat /\ t[2] \in Nat /\ t[3] \in Nat
        /\ FromBytes(t) = 256 * (256 * t[1] + t[2]) + t[3]
    BY <1>4, <1>6, <1>10, SMT
  <2>2. FromBytes(u) = 256 * (256 * (256 * low + t[1]) + t[2]) + t[3] /\ Below(w) = 16777216
    BY <1>2, <1>3, <1>7, <1>10, SMT DEF Below
  <2>3. FromBytes(u) = 16777216 * low + FromBytes(t)
    <3> DEFINE a == t[1]
               b == t[2]
               e == t[3]
    <3>1. /\ a \in Nat /\ b \in Nat /\ e \in Nat /\ FromBytes(t) = 256 * (256 * a + b) + e
          /\ FromBytes(u) = 256 * (256 * (256 * low + a) + b) + e
      BY <2>1, <2>2, SMT
    <3> HIDE DEF a, b, e
    <3> QED BY <3>1, SMT
  <2> QED BY <2>2, <2>3, SMT DEF u, s
<1> QED BY <1>8, <1>9, <1>10, SMT

\* A pointer that stands for v in w bytes and three bits of the control byte.
ShortPointer(v, ss, w) == <<32 + 8 * ss + v \div 256^w>> \o BigEndian(v % 256^w, w)

\* The four forms.
PointerForm(p) ==
  CASE p < 2048                          -> ShortPointer(p, 0, 1)
    [] p >= 2048 /\ p < 526336           -> ShortPointer(p - 2048, 1, 2)
    [] p >= 526336 /\ p < 134744064      -> ShortPointer(p - 526336, 2, 3)
    [] p >= 134744064                    -> <<56>> \o BigEndian(p, 4)

\* Pointer gives one of them.
LEMMA PointerForms ==
  ASSUME NEW p \in Nat
  PROVE  /\ p < 2048 => Pointer(p) = ShortPointer(p, 0, 1)
         /\ 2048 <= p /\ p < 526336 => Pointer(p) = ShortPointer(p - 2048, 1, 2)
         /\ 526336 <= p /\ p < 134744064 => Pointer(p) = ShortPointer(p - 526336, 2, 3)
         /\ 134744064 <= p => Pointer(p) = <<56>> \o BigEndian(p, 4)
<1>1. Pointer(p) = PointerForm(p)
  BY SMT DEF Pointer, PointerForm, ShortPointer
<1>2. /\ p < 2048 => PointerForm(p) = ShortPointer(p, 0, 1)
      /\ 2048 <= p /\ p < 526336 => PointerForm(p) = ShortPointer(p - 2048, 1, 2)
      /\ 526336 <= p /\ p < 134744064 => PointerForm(p) = ShortPointer(p - 526336, 2, 3)
      /\ 134744064 <= p => PointerForm(p) = <<56>> \o BigEndian(p, 4)
  BY SMT DEF PointerForm
<1> QED BY <1>1, <1>2, SMT

\* What _decode_pointer takes out of a short pointer.
ReadsShort(buf, offset, size, v, ss, w) ==
  /\ At(buf, offset) \div 32 = 1
  /\ size \div 8 + 1 = w
  /\ FromBytes(<<size % 8>> \o Slice(buf, offset + 1, w)) = v
  /\ Len(ShortPointer(v, ss, w)) = 1 + w

\* It does where the buffer holds one.
LEMMA ShortPointerRead ==
  ASSUME NEW buf, NEW offset \in Nat, NEW ss \in 0..2, NEW w, w = ss + 1, NEW v \in Nat,
         v < 8 * Below(w), Holds(buf, offset, ShortPointer(v, ss, w)),
         NEW size, size = At(buf, offset) % 32
  PROVE  ReadsShort(buf, offset, size, v, ss, w)
<1> DEFINE d == Below(w)
           top == v \div d
           c == 32 + 8 * ss + top
           s == <<c>>
           t == BigEndian(v % d, w)
<1>1. d \in {256, 65536, 16777216} /\ w \in 1..3
  BY SMT DEF Below
<1>2. v < 8 * d /\ ShortPointer(v, ss, w) = s \o t
  <2>1. 256^w = d
    <3>1. 256^1 = 256 /\ 256^2 = 65536 /\ 256^3 = 16777216
      BY SMT
    <3>2. w = 1 \/ w = 2 \/ w = 3
      BY SMT
    <3>3. CASE w = 1
      <4>1. 256^w = 256^1
        BY <3>3, Zenon
      <4>2. d = 256
        BY <3>3, SMT DEF Below
      <4> QED BY <3>1, <4>1, <4>2, SMT
    <3>4. CASE w = 2
      <4>1. 256^w = 256^2
        BY <3>4, Zenon
      <4>2. d = 65536
        BY <3>4, SMT DEF Below
      <4> QED BY <3>1, <4>1, <4>2, SMT
    <3>5. CASE w = 3
      <4>1. 256^w = 256^3
        BY <3>5, Zenon
      <4>2. d = 16777216
        BY <3>5, SMT DEF Below
      <4> QED BY <3>1, <4>1, <4>2, SMT
    <3> QED BY <3>3, <3>4, <3>5, <3>2, Zenon
  <2> HIDE DEF d
  <2>2. ShortPointer(v, ss, w) = s \o t
    BY <2>1, ZenonT(30) DEF ShortPointer
  <2> QED BY <2>2, Zenon DEF d
<1>3. d = Below(w)
  OBVIOUS
<1> HIDE DEF d
<1>4. top \in 0..7 /\ v % d \in Nat /\ v % d < d /\ v = d * top + (v % d)
  <2>1. CASE d = 256
    BY <1>2, <2>1, SMT
  <2>2. CASE d = 65536
    BY <1>2, <2>2, SMT
  <2>3. CASE d = 16777216
    BY <1>2, <2>3, SMT
  <2> QED BY <1>1, <2>1, <2>2, <2>3, SMT
<1> HIDE DEF top
<1>5. c \in Nat /\ c \div 32 = 1 /\ c % 32 = 8 * ss + top
  BY <1>4, SMT
<1>6. (8 * ss + top) \div 8 + 1 = w /\ (8 * ss + top) % 8 = top
  BY <1>4, SMT
<1> HIDE DEF c
<1>7. s \in Seq(Nat) /\ Len(s) = 1 /\ s[1] = c
  BY <1>5
<1>8. w \in 1..3 /\ w \in 1..4
  BY SMT
<1>9. IsBigEndian(t, v % d, w)
  BY <1>4, <1>8, BigEndianIs
<1> HIDE DEF t
<1>10. FromBytes(t) = v % d
  BY <1>3, <1>4, <1>8, <1>9, BytesInvert, Zenon
<1>11. t \in Seq(Nat) /\ Len(t) = w
  BY <1>9 DEF IsBigEndian
<1>12. Holds(buf, offset, s \o t)
  BY <1>2
<1> HIDE DEF s
<1>13. At(buf, offset) = c
  BY <1>7, <1>11, <1>12, FirstByteHeld
<1>14. Slice(buf, offset + 1, w) = t
  <2>1. Slice(buf, offset + Len(s), Len(t)) = t
    BY <1>7, <1>11, <1>12, SliceHeld, Zenon
  <2> QED BY <1>7, <1>11, <2>1
<1>15. FromBytes(<<top>> \o t) = v
  <2>1. top \in Nat
    BY <1>4
  <2>2. FromBytes(<<top>> \o t) = d * top + (v % d)
    BY <1>3, <1>8, <1>10, <1>11, <2>1, ByteInFront, Zenon
  <2> QED BY <1>4, <2>2
<1>16. Len(s \o t) = 1 + w
  BY <1>7, <1>11, ConcatLength
<1>17. size = 8 * ss + top
  BY <1>5, <1>13
<1> QED BY <1>2, <1>5, <1>6, <1>13, <1>14, <1>15, <1>16, <1>17 DEF ReadsShort

\* The greatest pointer.
MaxPointer == 4294967295

\* Of every pointer that 32 bits hold, whichever form it needs, the Decoder reads
\* the place that was written, and goes on at the byte after it.
THEOREM PointersInvert ==
  ASSUME NEW buf, NEW offset \in Nat, NEW p \in Nat, p <= MaxPointer,
         Holds(buf, offset, Pointer(p)),
         NEW size, size = At(buf, offset) % 32
  PROVE  /\ TypeNum(buf, offset) = 1
         /\ DatumSize(buf, offset) = [size |-> size, offset |-> offset + 1]
         /\ _decode_pointer(buf, size, offset + 1) = buf.base + p
         /\ Len(Pointer(p)) = 1 + (size \div 8 + 1)
<1> DEFINE bytes == Slice(buf, offset + 1, size \div 8 + 1)
<1>1. ASSUME At(buf, offset) \div 32 = 1
      PROVE  /\ TypeNum(buf, offset) = 1
             /\ DatumSize(buf, offset) = [size |-> size, offset |-> offset + 1]
  <2>1. ~ Extended(buf, offset) /\ TypeNum(buf, offset) = 1
    BY <1>1 DEF TypeNum, Extended
  <2>2. DatumSize(buf, offset) = _size_from_ctrl_byte(buf, At(buf, offset), offset + 1, 1)
    BY <2>1, Zenon DEF DatumSize
  <2>3. _size_from_ctrl_byte(buf, At(buf, offset), offset + 1, 1) = [size |-> size, offset |-> offset + 1]
    BY SMT DEF _size_from_ctrl_byte
  <2> QED BY <2>1, <2>2, <2>3, Zenon
<1>2. Below(1) = 256 /\ Below(2) = 65536 /\ Below(3) = 16777216 /\ Below(4) = 4294967296
  BY SMT DEF Below
<1>3. ASSUME NEW v \in Nat, NEW ss \in 0..2, NEW w, w = ss + 1, v < 8 * Below(w),
             Pointer(p) = ShortPointer(v, ss, w)
      PROVE  /\ At(buf, offset) \div 32 = 1 /\ size \div 8 + 1 = w
             /\ FromBytes(<<size % 8>> \o bytes) = v
             /\ Len(Pointer(p)) = 1 + w
  <2> HIDE DEF bytes
  <2>1. Holds(buf, offset, ShortPointer(v, ss, w))
    BY <1>3
  <2>2. ReadsShort(buf, offset, size, v, ss, w)
    BY <1>3, <2>1, ShortPointerRead, Zenon
  <2> QED BY <1>3, <2>2 DEF bytes, ReadsShort
<1> HIDE DEF bytes
<1>4. CASE p < 2048
  <2>1. /\ Pointer(p) = ShortPointer(p, 0, 1) /\ p < 8 * Below(1)
        /\ 0 \in 0..2 /\ 1 = 0 + 1
    BY <1>2, <1>4, PointerForms, SMT
  <2>2. /\ At(buf, offset) \div 32 = 1 /\ size \div 8 + 1 = 1
        /\ FromBytes(<<size % 8>> \o bytes) = p /\ Len(Pointer(p)) = 1 + 1
    BY <1>3, <2>1, Zenon
  <2>3. _decode_pointer(buf, size, offset + 1) = buf.base + FromBytes(<<size % 8>> \o bytes)
    BY <2>2, SMT DEF _decode_pointer, bytes
  <2> QED BY <1>1, <2>2, <2>3, SMT
<1>5. CASE 2048 <= p /\ p < 526336
  <2> DEFINE v == p - 2048
  <2>1. /\ Pointer(p) = ShortPointer(v, 1, 2) /\ v < 8 * Below(2)
        /\ v \in Nat /\ 1 \in 0..2 /\ 2 = 1 + 1
    BY <1>2, <1>5, PointerForms, SMT
  <2>2. v + 2048 = p
    BY SMT
  <2> HIDE DEF v
  <2>3. /\ At(buf, offset) \div 32 = 1 /\ size \div 8 + 1 = 2
        /\ FromBytes(<<size % 8>> \o bytes) = v /\ Len(Pointer(p)) = 1 + 2
    BY <1>3, <2>1, Zenon
  <2>4. _decode_pointer(buf, size, offset + 1) =
          buf.base + (FromBytes(<<size % 8>> \o bytes) + 2048)
    BY <2>3, SMT DEF _decode_pointer, bytes
  <2> QED BY <1>1, <2>2, <2>3, <2>4, SMT
<1>6. CASE 526336 <= p /\ p < 134744064
  <2> DEFINE v == p - 526336
  <2>1. /\ Pointer(p) = ShortPointer(v, 2, 3) /\ v < 8 * Below(3)
        /\ v \in Nat /\ 2 \in 0..2 /\ 3 = 2 + 1
    BY <1>2, <1>6, PointerForms, SMT
  <2>2. v + 526336 = p
    BY SMT
  <2> HIDE DEF v
  <2>3. /\ At(buf, offset) \div 32 = 1 /\ size \div 8 + 1 = 3
        /\ FromBytes(<<size % 8>> \o bytes) = v /\ Len(Pointer(p)) = 1 + 3
    BY <1>3, <2>1, Zenon
  <2>4. _decode_pointer(buf, size, offset + 1) =
          buf.base + (FromBytes(<<size % 8>> \o bytes) + 526336)
    BY <2>3, SMT DEF _decode_pointer, bytes
  <2> QED BY <1>1, <2>2, <2>3, <2>4, SMT
<1>7. CASE 134744064 <= p
  <2> DEFINE s == <<56>>
             t == BigEndian(p, 4)
  <2>1. s \in Seq(Nat) /\ Len(s) = 1 /\ s[1] = 56
    OBVIOUS
  <2>2. IsBigEndian(t, p, 4)
    BY BigEndianIs
  <2>3. Pointer(p) = s \o t
    BY <1>7, PointerForms, SMT
  <2> HIDE DEF s, t
  <2>4. FromBytes(t) = p
    <3>1. p < Below(4)
      BY <1>2, SMT DEF MaxPointer
    <3>2. 4 \in 1..4
      BY SMT
    <3> QED BY <2>2, <3>1, <3>2, BytesInvert, Zenon
  <2>5. t \in Seq(Nat) /\ Len(t) = 4
    BY <2>2 DEF IsBigEndian
  <2>6. Holds(buf, offset, s \o t)
    BY <2>3
  <2>7. At(buf, offset) = 56
    BY <2>1, <2>5, <2>6, FirstByteHeld
  <2>8. 56 \div 32 = 1 /\ 56 % 32 = 24 /\ 24 \div 8 + 1 = 4
    BY SMT
  <2>9. Slice(buf, offset + 1, 4) = t
    <3>1. Slice(buf, offset + Len(s), Len(t)) = t
      BY <2>1, <2>5, <2>6, SliceHeld, ZenonT(30)
    <3> QED BY <2>1, <2>5, <3>1
  <2>10. size = 24 /\ bytes = t
    BY <2>7, <2>8, <2>9 DEF bytes
  <2>11. _decode_pointer(buf, size, offset + 1) = buf.base + FromBytes(bytes)
    BY <2>8, <2>10, SMT DEF _decode_pointer, bytes
  <2>12. Len(Pointer(p)) = 1 + 4
    <3>1. Len(s \o t) = Len(s) + Len(t)
      BY <2>1, <2>5, ConcatLength
    <3> QED BY <2>1, <2>3, <2>5, <3>1
  <2> QED BY <1>1, <2>4, <2>7, <2>8, <2>10, <2>11, <2>12
<1> QED BY <1>4, <1>5, <1>6, <1>7, SMT

-----------------------------------------------------------------------------
(* The search for the metadata marker.                                      *)

\* A set of numbers from -1 to n that is not empty has a greatest element, and
\* Max is that.
LEMMA MaxOfBounded ==
  ASSUME NEW n \in Nat, NEW T, T \subseteq (-1)..n, T # {}
  PROVE  Max(T) \in T /\ \A y \in T : y <= Max(T)
<1> DEFINE R == {ss \in Nat \X Nat : ss[1] < ss[2]}
           Beneath == {n - x : x \in T}
<1>1. IsWellFoundedOn(R, Nat)
  BY NatLessThanWellFounded, Zenon DEF OpToRel
<1>2. Beneath \subseteq Nat /\ Beneath # {}
  <2>1. ASSUME NEW x \in T PROVE n - x \in Nat
    <3>1. x \in (-1)..n
      OBVIOUS
    <3> QED BY <3>1, SMT
  <2>2. \A z \in Beneath : \E x \in T : z = n - x
    OBVIOUS
  <2>3. \E x \in T : n - x \in Beneath
    OBVIOUS
  <2> HIDE DEF Beneath
  <2> QED BY <2>1, <2>2, <2>3, Zenon
<1>3. PICK x \in Beneath : \A y \in Beneath : ~ (<<y, x>> \in R)
  <2> HIDE DEF R, Beneath
  <2> QED BY <1>1, <1>2, WFMin, Zenon
<1>4. PICK m \in T : x = n - m
  BY <1>3
<1>5. ASSUME NEW y \in T PROVE m >= y
  <2>1. n - y \in Beneath /\ n - y \in Nat /\ x \in Nat /\ m \in Int /\ y \in Int
    BY <1>2, <1>3
  <2>2. <<n - y, x>> \in Nat \X Nat /\ <<n - y, x>>[1] = n - y /\ <<n - y, x>>[2] = x
    BY <2>1
  <2>3. ~ (n - y < x)
    BY <1>3, <2>1, <2>2
  <2> QED BY <1>4, <2>1, <2>3
<1>6. Max(T) \in T /\ \A y \in T : Max(T) >= y
  <2>1. \E z \in T : \A y \in T : z >= y
    BY <1>5
  <2> QED BY <2>1, Zenon DEF Max
<1> QED BY <1>6

\* The places of needle in s, at or after start.
Places(s, needle, start) ==
  {k \in start..(Len(s) - Len(needle)) : SubSeq(s, k + 1, k + Len(needle)) = needle}

\* rfind gives -1 where there is no place, and otherwise the last one.
LEMMA LastPlace ==
  ASSUME NEW s \in Seq(Nat), NEW needle \in Seq(Nat), NEW start \in Nat
  PROVE  /\ rfind(s, needle, start) \in Places(s, needle, start) \cup {-1}
         /\ \A k \in Places(s, needle, start) : k <= rfind(s, needle, start)
         /\ rfind(s, needle, start) = -1 => Places(s, needle, start) = {}
<1> DEFINE P == Places(s, needle, start)
           T == P \cup {-1}
<1>1. Len(s) \in Nat /\ Len(needle) \in Nat
  OBVIOUS
<1>2. P \subseteq 0..Len(s)
  BY <1>1, SMT DEF Places
<1>3. rfind(s, needle, start) = Max(T)
  BY Zenon DEF rfind, Places
<1> HIDE DEF P
<1>4. T \subseteq (-1)..Len(s) /\ T # {}
  BY <1>1, <1>2, SMT
<1> HIDE DEF T
<1>5. Max(T) \in T /\ \A y \in T : y <= Max(T)
  BY <1>1, <1>4, MaxOfBounded, Zenon
<1>6. Max(T) = -1 => P = {}
  <2> SUFFICES ASSUME Max(T) = -1, NEW k \in P PROVE FALSE
    OBVIOUS
  <2>1. k \in 0..Len(s) /\ k <= -1
    BY <1>2, <1>5 DEF T
  <2> QED BY <1>1, <2>1
<1>7. Max(T) \in P \cup {-1} /\ \A k \in P : k <= Max(T)
  BY <1>5 DEF T
<1> QED BY <1>3, <1>6, <1>7, Zenon DEF P

\* A number with these properties is what rfind gives.
LEMMA LastPlaceUnique ==
  ASSUME NEW s \in Seq(Nat), NEW needle \in Seq(Nat), NEW start \in Nat,
         NEW m, m \in Places(s, needle, start) \cup {-1},
         \A k \in Places(s, needle, start) : k <= m
  PROVE  rfind(s, needle, start) = m
<1>1. /\ rfind(s, needle, start) \in Places(s, needle, start) \cup {-1}
      /\ \A k \in Places(s, needle, start) : k <= rfind(s, needle, start)
      /\ rfind(s, needle, start) = -1 => Places(s, needle, start) = {}
  BY LastPlace
<1>2. Places(s, needle, start) \subseteq Nat
  BY DEF Places
<1> DEFINE r == rfind(s, needle, start)
           P == Places(s, needle, start)
<1>3. /\ r \in P \cup {-1} /\ \A k \in P : k <= r
      /\ m \in P \cup {-1} /\ \A k \in P : k <= m /\ P \subseteq Nat
  BY <1>1, <1>2, Zenon
<1> HIDE DEF r, P
<1>4. r = m
  BY <1>3, SMT
<1> QED BY <1>4 DEF r

\* Front is all of a sequence but its last element.
LEMMA FrontOfSeq ==
  ASSUME NEW s \in Seq(Nat), s # <<>>
  PROVE  /\ Front(s) \in Seq(Nat) /\ Len(Front(s)) = Len(s) - 1
         /\ \A k \in 1..(Len(s) - 1) : Front(s)[k] = s[k]
<1> DEFINE n == Len(s) - 1
<1>1. n \in Nat /\ 0 \in Nat /\ 0 + n <= Len(s) /\ 0 + 1 = 1 /\ 0 + n = n
  BY EmptySeq
<1>2. Front(s) = SubSeq(s, 0 + 1, 0 + n)
  BY <1>1 DEF Front
<1> HIDE DEF n
<1>3. IsPart(SubSeq(s, 0 + 1, 0 + n), s, 0, n)
  BY <1>1, Part, Zenon
<1>4. \A i \in 1..n : s[0 + i] = s[i]
  BY <1>1
<1> QED BY <1>2, <1>3, <1>4 DEF n, IsPart

\* What FileBuffer.rfind reads is the end of Front(file).
LEMMA PlacesInWhatIsRead ==
  ASSUME NEW file \in Seq(Nat), file # <<>>, NEW needle \in Seq(Nat), needle # <<>>,
         NEW start \in 0..(Len(file) - 1), NEW k \in Nat
  PROVE  k \in Places(SubSeq(file, start + 1, Len(file) - 1), needle, 0)
           <=> start + k \in Places(Front(file), needle, start)
<1> DEFINE n == Len(file)
           w == Len(needle)
           tail == SubSeq(file, start + 1, n - 1)
           front == Front(file)
<1>1. n \in Nat \ {0} /\ w \in Nat \ {0}
  BY EmptySeq
<1>2. front \in Seq(Nat) /\ Len(front) = n - 1 /\ \A i \in 1..(n - 1) : front[i] = file[i]
  BY FrontOfSeq
<1>3. start \in Nat /\ start <= n - 1
  BY <1>1
<1> HIDE DEF w, tail, front
<1>4. (n - 1) - start \in Nat /\ start + ((n - 1) - start) = n - 1 /\ n - 1 <= Len(file)
  BY <1>1, <1>3
<1>5. /\ tail \in Seq(Nat) /\ Len(tail) = (n - 1) - start
      /\ \A i \in 1..((n - 1) - start) : tail[i] = file[start + i]
  <2> DEFINE v == (n - 1) - start
  <2>1. v \in Nat /\ start + v <= Len(file) /\ tail = SubSeq(file, start + 1, start + v)
    BY <1>4 DEF tail
  <2> HIDE DEF v, n
  <2>2. IsPart(tail, file, start, v)
    BY <1>3, <2>1, Part, Zenon
  <2> QED BY <2>2 DEF v, IsPart
<1> HIDE DEF n
<1>6. k \in 0..(Len(tail) - w) <=> start + k \in start..(Len(front) - w)
  BY <1>1, <1>2, <1>3, <1>5, SMT
<1>7. ASSUME k \in 0..(Len(tail) - w)
      PROVE  SubSeq(tail, k + 1, k + w) = SubSeq(front, (start + k) + 1, (start + k) + w)
  <2> DEFINE a == SubSeq(tail, k + 1, k + w)
             b == SubSeq(front, (start + k) + 1, (start + k) + w)
  <2>1. w \in Nat /\ start + k \in Nat /\ k + w <= Len(tail) /\ (start + k) + w <= Len(front)
    BY <1>1, <1>2, <1>3, <1>5, <1>7, SMT
  <2>2. IsPart(a, tail, k, w)
    BY <1>5, <2>1, Part, Zenon
  <2>3. IsPart(b, front, start + k, w)
    BY <1>2, <2>1, Part, Zenon
  <2> HIDE DEF a, b
  <2>4. ASSUME NEW i \in 1..w PROVE a[i] = b[i]
    <3>1. /\ (start + k) + i = start + (k + i)
          /\ k + i \in 1..((n - 1) - start) /\ start + (k + i) \in 1..(n - 1)
      BY <1>1, <1>3, <1>5, <2>1, SMT
    <3>2. a[i] = tail[k + i] /\ b[i] = front[(start + k) + i]
      BY <2>2, <2>3 DEF IsPart
    <3>3. tail[k + i] = file[start + (k + i)]
      BY <1>5, <3>1
    <3>4. front[start + (k + i)] = file[start + (k + i)]
      BY <1>2, <3>1
    <3> QED BY <3>1, <3>2, <3>3, <3>4, Zenon
  <2>5. a = b
    BY <2>2, <2>3, <2>4, SeqEqual DEF IsPart
  <2> QED BY <2>5 DEF a, b
<1>8. k \in Places(tail, needle, 0) <=> start + k \in Places(front, needle, start)
  BY <1>6, <1>7 DEF Places, w
<1> QED BY <1>8 DEF tail, front, n

\* FileBuffer.rfind finds the needle in all but the last byte of the file.
LEMMA FileBufferFinds ==
  ASSUME NEW file \in Seq(Nat), file # <<>>, NEW needle \in Seq(Nat), needle # <<>>,
         NEW start \in 0..(Len(file) - 1)
  PROVE  FileBuffer_rfind(file, needle, start) = rfind(Front(file), needle, start)
<1> DEFINE tail == SubSeq(file, start + 1, Len(file) - 1)
           front == Front(file)
           pos == rfind(tail, needle, 0)
           P == Places(tail, needle, 0)
           Q == Places(front, needle, start)
           m == IF pos = -1 THEN pos ELSE start + pos
<1>1. start \in Nat /\ Len(file) \in Nat
  OBVIOUS
<1>2. tail \in Seq(Nat)
  <2>1. \A i \in (start + 1)..(Len(file) - 1) : file[i] \in Nat
    BY <1>1
  <2>2. start + 1 \in Int /\ Len(file) - 1 \in Int
    BY <1>1
  <2> QED BY <2>1, <2>2, SubSeqProperties
<1>3. front \in Seq(Nat)
  BY FrontOfSeq
<1>4. /\ pos \in P \cup {-1} /\ \A k \in P : k <= pos
      /\ pos = -1 => P = {}
  <2> HIDE DEF tail
  <2>1. 0 \in Nat
    OBVIOUS
  <2> QED BY <1>2, <2>1, LastPlace, Zenon
<1>5. \A k \in Nat : k \in P <=> start + k \in Q
  BY PlacesInWhatIsRead
<1>6. P \subseteq Nat /\ \A q \in Q : q \in Nat /\ start <= q
  BY <1>1 DEF Places
<1>7. FileBuffer_rfind(file, needle, start) = m
  BY DEF FileBuffer_rfind
<1> HIDE DEF tail, front, pos, P, Q
<1>8. m \in Q \cup {-1}
  BY <1>4, <1>5, <1>6, SMT
<1>9. \A q \in Q : q <= m
  <2> SUFFICES ASSUME NEW q \in Q PROVE q <= m
    OBVIOUS
  <2>1. q \in Nat /\ q - start \in Nat /\ start + (q - start) = q
    BY <1>1, <1>6
  <2>2. q - start \in P
    BY <1>5, <2>1
  <2>3. pos # -1 /\ q - start <= pos /\ pos \in Nat
    BY <1>4, <1>6, <2>2
  <2> QED BY <1>1, <2>1, <2>3
<1> HIDE DEF m
<1>10. rfind(front, needle, start) = m
  BY <1>1, <1>3, <1>8, <1>9, LastPlaceUnique, Zenon DEF Q
<1> QED BY <1>7, <1>10 DEF front

\* What is not at the very end is found in Front(file) as in the file.
LEMMA NotAtTheEnd ==
  ASSUME NEW file \in Seq(Nat), file # <<>>, NEW needle \in Seq(Nat), needle # <<>>,
         NEW start \in Nat, rfind(file, needle, start) + Len(needle) < Len(file)
  PROVE  rfind(Front(file), needle, start) = rfind(file, needle, start)
<1> DEFINE n == Len(file)
           w == Len(needle)
           front == Front(file)
           at == rfind(file, needle, start)
           P == Places(file, needle, start)
           Q == Places(front, needle, start)
<1>1. n \in Nat \ {0} /\ w \in Nat \ {0}
  BY EmptySeq
<1>2. front \in Seq(Nat) /\ Len(front) = n - 1 /\ \A i \in 1..(n - 1) : front[i] = file[i]
  BY FrontOfSeq
<1>3. /\ at \in P \cup {-1} /\ \A k \in P : k <= at
      /\ at = -1 => P = {}
  BY LastPlace, Zenon
<1>4. ASSUME NEW k \in start..((n - 1) - w)
      PROVE  SubSeq(front, k + 1, k + w) = SubSeq(file, k + 1, k + w)
  <2> DEFINE a == SubSeq(front, k + 1, k + w)
             b == SubSeq(file, k + 1, k + w)
  <2>1. k \in Nat /\ w \in Nat /\ k + w <= Len(front) /\ k + w <= Len(file)
    BY <1>1, <1>2
  <2> HIDE DEF front, n, w
  <2>2. IsPart(a, front, k, w)
    BY <1>2, <2>1, Part, Zenon
  <2>3. IsPart(b, file, k, w)
    BY <2>1, Part, Zenon
  <2> HIDE DEF a, b
  <2>4. ASSUME NEW i \in 1..w PROVE a[i] = b[i]
    <3>1. k + i \in 1..(n - 1)
      BY <1>1, <1>2, <2>1, SMT
    <3> QED BY <1>2, <2>2, <2>3, <3>1 DEF IsPart
  <2>5. a = b
    BY <2>2, <2>3, <2>4, SeqEqual DEF IsPart
  <2> QED BY <2>5 DEF a, b
<1>5. at + w < n
  OBVIOUS
<1> HIDE DEF n, w, front, at
<1>6. P = {k \in start..(n - w) : SubSeq(file, k + 1, k + w) = needle}
  BY Zenon DEF Places, n, w
<1>7. Q = {k \in start..((n - 1) - w) : SubSeq(front, k + 1, k + w) = needle}
  BY <1>2, Zenon DEF Places, n, w
<1> HIDE DEF P, Q
<1>8. \A k \in Q : k \in P
  <2> SUFFICES ASSUME NEW k \in Q PROVE k \in P
    OBVIOUS
  <2>1. k \in start..((n - 1) - w) /\ SubSeq(front, k + 1, k + w) = needle
    BY <1>7, Zenon
  <2>2. k \in start..(n - w) /\ SubSeq(file, k + 1, k + w) = needle
    <3>1. SubSeq(file, k + 1, k + w) = needle
      BY <1>4, <2>1, Zenon
    <3>2. k \in start..(n - w)
      BY <1>1, <2>1, SMT
    <3> QED BY <3>1, <3>2
  <2> QED BY <1>6, <2>2
<1>9. at \in Q \cup {-1}
  <2>1. CASE at \in P
    <3>1. at \in start..((n - 1) - w) /\ SubSeq(file, at + 1, at + w) = needle
      BY <1>1, <1>5, <1>6, <2>1
    <3> QED BY <1>4, <1>7, <3>1
  <2> QED BY <1>3, <2>1
<1>10. rfind(front, needle, start) = at
  BY <1>2, <1>3, <1>8, <1>9, LastPlaceUnique, Zenon DEF Q
<1> QED BY <1>10 DEF front, at

\* The search begins in the file.
LEMMA StartInFile ==
  ASSUME NEW file \in Seq(Nat), file # <<>>
  PROVE  SearchStart(file) \in 0..(Len(file) - 1)
<1> DEFINE d == Len(file) - Window
           m == IF d > 0 THEN d ELSE 0
<1>1. Len(file) \in Nat \ {0} /\ Window \in Nat \ {0}
  BY EmptySeq, EntryDataAssumption
<1>2. m \in {0, d} /\ \A y \in {0, d} : m >= y /\ y \in Int
  BY <1>1
<1>3. Max({0, d}) \in {0, d} /\ \A y \in {0, d} : Max({0, d}) >= y
  <2>1. \E z \in {0, d} : \A y \in {0, d} : z >= y
    BY <1>2
  <2> QED BY <2>1, Zenon DEF Max
<1>4. SearchStart(file) = Max({0, d})
  BY DEF SearchStart
<1> QED BY <1>1, <1>3, <1>4

\* What a search in a file has done.
FileInv ==
  input.reader = "file" =>
    /\ input.file \in Files
    /\ pc \in {"begin", "returned"}
    /\ pc = "returned" =>
         outcome = <<"found", FileBuffer_rfind(input.file, Marker, SearchStart(input.file))>>

\* The answer is the right one.
LEMMA FileInvSuffices == FileInv => MarkerFound
<1> SUFFICES ASSUME FileInv, input.reader = "file", pc = "returned" PROVE MarkerFound
  BY DEF MarkerFound
<1> DEFINE file == input.file
           start == SearchStart(file)
<1>1. file \in Seq(Nat) /\ file # <<>> /\ Marker \in Seq(Nat) /\ Marker # <<>>
  BY EntryDataAssumption DEF FileInv
<1>2. outcome[2] = FileBuffer_rfind(file, Marker, start)
  BY DEF FileInv
<1>3. start \in 0..(Len(file) - 1) /\ start \in Nat
  BY <1>1, StartInFile
<1> HIDE DEF file, start
<1>4. outcome[2] = rfind(Front(file), Marker, start)
  BY <1>1, <1>2, <1>3, FileBufferFinds
<1>5. rfind(file, Marker, start) + Len(Marker) < Len(file) =>
        outcome[2] = rfind(file, Marker, start)
  BY <1>1, <1>3, <1>4, NotAtTheEnd
<1> QED BY <1>4, <1>5 DEF MarkerFound, file, start

\* FileBuffer.rfind finds the metadata marker where bytes.rfind and mmap.rfind
\* find it, in every file that is not empty, unless it ends the file.
THEOREM MarkerFoundSafety == Spec => []MarkerFound
<1>1. Init => FileInv
  <2> SUFFICES ASSUME Init, input.reader = "file" PROVE FileInv
    BY DEF FileInv
  <2>1. \E file \in Files : input = [reader |-> "file", file |-> file]
    BY DEF Init, Input
  <2> QED BY <2>1 DEF Init, FileInv
<1>2. FileInv /\ [Next]_vars => FileInv'
  <2> SUFFICES ASSUME FileInv, [Next]_vars, input'.reader = "file" PROVE FileInv'
    BY DEF FileInv
  <2>1. CASE Convert
    BY <2>1 DEF Convert
  <2>2. CASE get
    BY <2>2 DEF get, FileInv
  <2>3. CASE Reader_metadata
    BY <2>3 DEF Reader_metadata, FileInv
  <2>4. CASE Metadata_dealloc
    BY <2>4 DEF Metadata_dealloc
  <2>5. CASE Decode
    BY <2>5 DEF Decode
  <2>6. CASE find_metadata
    BY <2>6 DEF find_metadata, FileInv
  <2>7. CASE UNCHANGED vars
    BY <2>7 DEF vars, FileInv
  <2> QED BY <2>1, <2>2, <2>3, <2>4, <2>5, <2>6, <2>7 DEF Next
<1> QED BY <1>1, <1>2, FileInvSuffices, PTL DEF Spec

=============================================================================
