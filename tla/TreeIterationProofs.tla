------------------------- MODULE TreeIterationProofs -------------------------
(***************************************************************************)
(* Theorems about TreeIteration, for every set of search trees and for     *)
(* every width of addresses.                                               *)
(***************************************************************************)
EXTENDS TreeIteration, SearchTreeProofs, FiniteSetTheorems

-----------------------------------------------------------------------------
(* The file that is open.                                                   *)

\* What the theorems use of a database file.
File(d) ==
  /\ ReadsNodes(d) /\ d.node_count > 0
  /\ d.ip_version \in {4, 6} /\ d.record_size \in {24, 28, 32} /\ d.data_size \in Nat

\* Every database that is opened is such a file.
LEMMA DatabaseIsFile ==
  ASSUME NEW size \in RecordSizes, NEW version \in {4, 6}, NEW tree \in Trees[size]
  PROVE  File(Database(tree, version, size, DataSize[size]))
<1>1. size \in {24, 28, 32} /\ DataSize[size] \in Nat /\ tree \in TreesOf(size) /\ tree # <<>>
  BY TreesAssumption
<1> DEFINE d == Database(tree, version, size, DataSize[size])
<1>2. ReadsNodes(d)
  BY <1>1, DatabaseReadsNodes
<1>3. /\ d.node_count = Len(tree) /\ d.ip_version = version /\ d.record_size = size
      /\ d.data_size = DataSize[size]
  BY DEF Database
<1>4. Len(tree) > 0
  BY <1>1 DEF TreesOf
<1> HIDE DEF d
<1>5. File(d)
  BY <1>1, <1>2, <1>3, <1>4 DEF File
<1> QED BY <1>5 DEF d

\* And stays one.
LEMMA FileOpened == Spec => []File(db)
<1>1. Init => File(db)
  BY DatabaseIsFile DEF Init
<1>2. File(db) /\ [Next]_vars => File(db)'
  BY DEF Next, Start, Stop, _generate_children, ReaderIter_next, vars
<1> QED BY <1>1, <1>2, PTL DEF Spec

-----------------------------------------------------------------------------
(* Lookups.                                                                 *)

\* The numbers of a length that some addresses have.
LEMMA AddressLengths == V4Bits # V6Bits /\ 2^V4Bits \in Nat /\ 2^V6Bits \in Nat
BY Widths, WidthAssumption, PowerPositive

\* A text, as both readers take it.
LEMMA TextCases ==
  ASSUME NEW arg \in Texts
  PROVE  \/ /\ arg.form = "notation" /\ arg.address \in Nat
            /\ \/ arg.version = 4 /\ ip_converter(arg) = "AF_INET"
               \/ arg.version = 6 /\ ip_converter(arg) = "AF_INET6"
         \/ arg.form = "legacy" /\ arg.address \in Nat /\ ip_converter(arg) = "AF_INET"
         \/ /\ arg.form = "zone" /\ arg.address \in Nat /\ arg.version = 6
            /\ ip_converter(arg) = "ValueError"
         \/ arg.form = "text" /\ ip_converter(arg) = "ValueError"
         \/ arg.form \in {"nul", "surrogate"} /\ ip_converter(arg) = "TypeError"
<1>1. CASE \E form \in {"notation", "legacy"}, a \in 0..(2^V4Bits - 1) :
             arg = Argument(form, 4, a, V4Bits)
  BY <1>1, AddressLengths DEF Argument, ip_converter
<1>2. CASE \E form \in {"notation", "zone"}, a \in 0..(2^V6Bits - 1) :
             arg = Argument(form, 6, a, V6Bits)
  BY <1>2, AddressLengths DEF Argument, ip_converter
<1>3. CASE \E form \in {"text", "nul", "surrogate"} : arg = Argument(form, 0, 0, 0)
  BY <1>3 DEF Argument, ip_converter
<1> QED BY <1>1, <1>2, <1>3 DEF Texts

\* An object, as both readers take it.
LEMMA ObjectCases ==
  ASSUME NEW arg \in Objects
  PROVE  \/ /\ arg.form \in {"bytes", "bytearray"} /\ arg.version \in {0, 4, 6}
            /\ arg.bits \in {V4Bits, V6Bits} => arg.address \in Nat
         \/ arg.form \in {"unusable", "unpacked"} /\ ip_converter(arg) = "TypeError"
<1>1. ASSUME NEW bits \in 0..(V6Bits + 1), arg \in ObjectsOf(bits)
      PROVE  /\ arg.form \in {"bytes", "bytearray"} /\ arg.version \in {0, 4, 6}
             /\ arg.bits \in {V4Bits, V6Bits} => arg.address \in Nat
  <2>1. PICK form \in {"bytes", "bytearray"}, version \in {0, 4, 6}, a \in 0..(2^bits - 1) :
               arg = Argument(form, version, a, bits)
    BY <1>1 DEF ObjectsOf
  <2>2. /\ arg.form = form /\ arg.version = version /\ arg.bits = bits /\ arg.address = a
    BY <2>1 DEF Argument
  <2>3. bits \in {V4Bits, V6Bits} => a \in Nat
    BY AddressLengths
  <2> QED BY <2>2, <2>3
<1>2. ASSUME arg \in {Argument(form, 0, 0, 0) : form \in {"unusable", "unpacked"}}
      PROVE  arg.form \in {"unusable", "unpacked"} /\ ip_converter(arg) = "TypeError"
  BY <1>2 DEF Argument, ip_converter
<1> DEFINE Packed == UNION {ObjectsOf(bits) : bits \in 0..(V6Bits + 1)}
           Others == {Argument(form, 0, 0, 0) : form \in {"unusable", "unpacked"}}
<1>3. Objects = Packed \cup Others
  BY DEF Objects
<1>4. arg \in Packed => \E bits \in 0..(V6Bits + 1) : arg \in ObjectsOf(bits)
  OBVIOUS
<1>5. arg \in Others => arg \in {Argument(form, 0, 0, 0) : form \in {"unusable", "unpacked"}}
  OBVIOUS
<1> HIDE DEF Packed, Others
<1>6. arg \in Packed \/ arg \in Others
  BY <1>3
<1> QED BY <1>1, <1>2, <1>4, <1>5, <1>6

\* What kinds of result a lookup has.
LEMMA PackedKinds ==
  ASSUME NEW d, NEW a, NEW n, NEW version
  PROVE  LET kind == get_packed(d, a, n, version).kind IN
         /\ kind = "ValueError" <=> version = 6 /\ d.ip_version = 4
         /\ kind \in {"ValueError", "None", "record", "InvalidDatabaseError"}
BY DEF get_packed, Raised, Found, NotFound

LEMMA RecordKinds ==
  ASSUME NEW d, NEW a, NEW version
  PROVE  LET kind == get_record(d, a, version).kind IN
         /\ kind = "ValueError" <=> version = 6 /\ d.ip_version = 4
         /\ kind \in {"ValueError", "None", "record", "InvalidDatabaseError"}
BY DEF get_record, Raised, Found, NotFound

\* An answer does not depend on the version that an object says it has.
LEMMA VersionOnlyRefuses ==
  ASSUME NEW d, NEW a, NEW n, NEW v, NEW w,
         ~ (v = 6 /\ d.ip_version = 4), ~ (w = 6 /\ d.ip_version = 4)
  PROVE  get_packed(d, a, n, v) = get_packed(d, a, n, w)
BY DEF get_packed

\* Both readers on an object that has a `packed`.
LEMMA ObjectsAgree ==
  ASSUME File(db), NEW arg \in Objects, arg.form \in {"bytes", "bytearray"},
         arg.version \in {0, 4, 6}, arg.bits \in {V4Bits, V6Bits} => arg.address \in Nat
  PROVE  Agree(arg, get_by_argument(db, arg), get_by_argument_c(db, arg))
<1> DEFINE python == get_by_argument(db, arg)
           c == get_by_argument_c(db, arg)
           packed == get_packed(db, arg.address, arg.bits, arg.version)
<1>1. python = IF arg.version = 0 THEN Raised("AttributeError") ELSE packed
  BY DEF get_by_argument
<1>2. ASSUME arg.version # 0, arg.bits = AddressBits(arg.version), arg.form = "bytes"
      PROVE  python = c
  <2>1. arg.version \in {4, 6} /\ arg.bits \in {V4Bits, V6Bits}
    BY <1>2 DEF AddressBits
  <2>2. packed = get_record(db, arg.address, arg.version)
    BY <1>2, <2>1, LookupsAgree DEF File, get_with_prefix_len
  <2>3. ip_converter(arg) = IF arg.version = 6 THEN "AF_INET6" ELSE "AF_INET"
    BY <1>2, <2>1, AddressLengths DEF ip_converter, AddressBits
  <2> QED BY <1>1, <1>2, <2>1, <2>2, <2>3 DEF get_by_argument_c
<1>3. /\ python.kind = "AttributeError" <=> arg.version = 0
      /\ python.kind = "ValueError" <=> arg.version = 6 /\ db.ip_version = 4
      /\ python.kind # "TypeError"
  BY <1>1, PackedKinds DEF Raised
<1>4. ASSUME arg.form = "bytearray"
      PROVE  c.kind = "TypeError"
  BY <1>4 DEF get_by_argument_c, ip_converter, Raised
<1>5. ASSUME arg.form = "bytes", arg.bits \notin {V4Bits, V6Bits}
      PROVE  c.kind = "ValueError"
  BY <1>5 DEF get_by_argument_c, ip_converter, Raised
<1>6. ASSUME arg.form = "bytes", NEW w \in {4, 6}, arg.bits = AddressBits(w)
      PROVE  /\ c.kind = "ValueError" <=> arg.bits = V6Bits /\ db.ip_version = 4
             /\ c.kind \notin {"TypeError", "AttributeError"}
             /\ python.kind \in Answers /\ c.kind \in Answers => python = c
  <2>1. arg.address \in Nat /\ (w = 6 <=> arg.bits = V6Bits)
    BY <1>6, AddressLengths DEF AddressBits
  <2>2. ip_converter(arg) = IF w = 6 THEN "AF_INET6" ELSE "AF_INET"
    BY <1>6, AddressLengths DEF ip_converter, AddressBits
  <2>3. c = get_record(db, arg.address, w)
    BY <2>2, <1>6 DEF get_by_argument_c
  <2>4. c = get_packed(db, arg.address, arg.bits, w)
    BY <1>6, <2>1, <2>3, LookupsAgree DEF File, get_with_prefix_len
  <2>5. /\ c.kind = "ValueError" <=> w = 6 /\ db.ip_version = 4
        /\ c.kind \in {"ValueError", "None", "record", "InvalidDatabaseError"}
    BY <2>4, PackedKinds
  <2>6. ASSUME python.kind \in Answers, c.kind \in Answers
        PROVE  python = c
    <3>1. python = packed /\ packed.kind \in Answers
      BY <1>1, <2>6 DEF Raised, Answers
    <3>2. ~ (arg.version = 6 /\ db.ip_version = 4) /\ ~ (w = 6 /\ db.ip_version = 4)
      BY <2>5, <2>6, <3>1, PackedKinds DEF Answers
    <3> QED BY <2>4, <3>1, <3>2, VersionOnlyRefuses
  <2> QED BY <2>1, <2>5, <2>6
<1>7. ASSUME \/ arg.form = "bytearray" \/ arg.version = 0 \/ arg.bits # AddressBits(arg.version)
      PROVE  ObjectsDiffer(arg, python, c)
  <2>1. CASE arg.form = "bytearray"
    BY <2>1, <1>3, <1>4 DEF ObjectsDiffer
  <2>2. CASE arg.form = "bytes" /\ arg.bits \notin {V4Bits, V6Bits}
    BY <2>2, <1>3, <1>5 DEF ObjectsDiffer
  <2>3. CASE arg.form = "bytes" /\ arg.bits = V4Bits
    <3>1. arg.bits = AddressBits(4)
      BY <2>3 DEF AddressBits
    <3> QED BY <2>3, <3>1, <1>3, <1>6 DEF ObjectsDiffer
  <2>4. CASE arg.form = "bytes" /\ arg.bits = V6Bits
    <3>1. arg.bits = AddressBits(6)
      BY <2>4 DEF AddressBits
    <3> QED BY <2>4, <3>1, <1>3, <1>6 DEF ObjectsDiffer
  <2> QED BY <2>1, <2>2, <2>3, <2>4
<1> HIDE DEF python, c
<1>8. Agree(arg, python, c)
  <2>1. CASE arg.form = "bytearray" \/ arg.version = 0 \/ arg.bits # AddressBits(arg.version)
    BY <1>7, <2>1 DEF Agree
  <2>2. CASE ~ (arg.form = "bytearray" \/ arg.version = 0 \/ arg.bits # AddressBits(arg.version))
    BY <1>2, <2>2 DEF Agree
  <2> QED BY <2>1, <2>2
<1> QED BY <1>8 DEF python, c

\* The two readers on every argument: the same result, but for the spellings,
\* the exceptions and the objects that ReadersAgree names.
THEOREM ReadersAgreeSafety == Spec => []ReadersAgree
<1>1. File(db) => ReadersAgree
  <2> SUFFICES ASSUME File(db), NEW arg \in Arguments
               PROVE  Agree(arg, get_by_argument(db, arg), get_by_argument_c(db, arg))
    BY DEF ReadersAgree
  <2>1. ASSUME arg.address \in Nat, NEW version \in {4, 6}
        PROVE  get_record(db, arg.address, version) = get_with_prefix_len(db, arg.address, version)
    BY <2>1, LookupsAgree DEF File
  <2> DEFINE python == get_by_argument(db, arg)
             c == get_by_argument_c(db, arg)
  <2>2. CASE arg \in Texts
    <3>1. CASE /\ arg.form = "notation" /\ arg.address \in Nat
               /\ \/ arg.version = 4 /\ ip_converter(arg) = "AF_INET"
                  \/ arg.version = 6 /\ ip_converter(arg) = "AF_INET6"
      <4>1. python = c
        BY <2>1, <3>1 DEF get_by_argument, get_by_argument_c
      <4> HIDE DEF python, c
      <4>2. Agree(arg, python, c)
        BY <3>1, <4>1 DEF Agree
      <4> QED BY <4>2 DEF python, c
    <3>2. CASE arg.form = "legacy" /\ arg.address \in Nat /\ ip_converter(arg) = "AF_INET"
      <4>1. python.kind = "ValueError" /\ c = get_with_prefix_len(db, arg.address, 4)
        BY <2>1, <3>2 DEF get_by_argument, get_by_argument_c, Raised
      <4> HIDE DEF python, c
      <4>2. Agree(arg, python, c)
        BY <3>2, <4>1 DEF Agree
      <4> QED BY <4>2 DEF python, c
    <3>3. CASE /\ arg.form = "zone" /\ arg.address \in Nat /\ arg.version = 6
               /\ ip_converter(arg) = "ValueError"
      <4>1. python = get_record(db, arg.address, 6)
        BY <2>1, <3>3 DEF get_by_argument
      <4>2. c.kind = "ValueError"
        BY <3>3 DEF get_by_argument_c, Raised
      <4> HIDE DEF python, c
      <4>3. Agree(arg, python, c)
        BY <3>3, <4>1, <4>2 DEF Agree
      <4> QED BY <4>3 DEF python, c
    <3>4. CASE arg.form = "text" /\ ip_converter(arg) = "ValueError"
      <4>1. python = c
        BY <3>4 DEF get_by_argument, get_by_argument_c
      <4> HIDE DEF python, c
      <4>2. Agree(arg, python, c)
        BY <3>4, <4>1 DEF Agree
      <4> QED BY <4>2 DEF python, c
    <3>5. CASE arg.form \in {"nul", "surrogate"} /\ ip_converter(arg) = "TypeError"
      <4>1. python.kind = "ValueError" /\ c.kind = "TypeError"
        BY <3>5 DEF get_by_argument, get_by_argument_c, Raised
      <4> HIDE DEF python, c
      <4>2. Agree(arg, python, c)
        BY <3>5, <4>1 DEF Agree
      <4> QED BY <4>2 DEF python, c
    <3> QED BY <2>2, <3>1, <3>2, <3>3, <3>4, <3>5, TextCases
  <2>3. CASE arg \in Objects
    <3>1. CASE arg.form \in {"unusable", "unpacked"} /\ ip_converter(arg) = "TypeError"
      <4>1. python = c
        BY <3>1 DEF get_by_argument, get_by_argument_c
      <4> HIDE DEF python, c
      <4>2. Agree(arg, python, c)
        BY <3>1, <4>1 DEF Agree
      <4> QED BY <4>2 DEF python, c
    <3>2. CASE /\ arg.form \in {"bytes", "bytearray"} /\ arg.version \in {0, 4, 6}
               /\ arg.bits \in {V4Bits, V6Bits} => arg.address \in Nat
      BY <2>3, <3>2, ObjectsAgree
    <3> QED BY <2>3, <3>1, <3>2, ObjectCases
  <2> QED BY <2>2, <2>3 DEF Arguments
<1> QED BY <1>1, FileOpened, PTL

\* An IPv4 lookup in an IPv6 tree finds what the lookup of ::a finds.
THEOREM V4StartIsShortcutSafety == Spec => []V4StartIsShortcut
<1>1. File(db) => V4StartIsShortcut
  BY ShortcutFinds DEF File, V4StartIsShortcut
<1> QED BY <1>1, FileOpened, PTL

\* The prefix length of an answer covers only addresses with that answer.
THEOREM PrefixLenCoversSafety == Spec => []PrefixLenCovers
<1>1. File(db) => PrefixLenCovers
  <2> SUFFICES ASSUME File(db), NEW version \in {4, 6}
               PROVE  LET n      == AddressBits(version)
                          answer == [a \in 0..(2^n - 1) |-> get_with_prefix_len(db, a, version)]
                      IN  \A a \in DOMAIN answer :
                            LET size  == 2^(n - answer[a].prefix)
                                first == a - (a % size)
                            IN  answer[a].kind \in {"record", "None"} =>
                                  \A b \in first..(first + size - 1) : answer[b] = answer[a]
    BY DEF PrefixLenCovers
  <2> DEFINE n == AddressBits(version)
             answer == [a \in 0..(2^n - 1) |-> get_with_prefix_len(db, a, version)]
             size(a) == 2^(n - answer[a].prefix)
             first(a) == a - (a % size(a))
  <2>1. ASSUME NEW a \in 0..(2^n - 1), answer[a].kind \in {"record", "None"},
               NEW b \in first(a)..(first(a) + size(a) - 1)
        PROVE  answer[b] = answer[a]
    <3>1. answer[a] = get_with_prefix_len(db, a, version)
      OBVIOUS
    <3> HIDE DEF answer
    <3>2. b \in 0..(2^n - 1) /\ get_with_prefix_len(db, b, version) = answer[a]
      BY <2>1, <3>1, PrefixSpeaks DEF File
    <3> QED BY <3>2 DEF answer
  <2> QED BY <2>1
<1> QED BY <1>1, FileOpened, PTL

-----------------------------------------------------------------------------
(* Iteration.                                                               *)

\* The walk of an address that is as long as the tree is deep.
TreeWalk(a) == PythonWalk(db, a, db.ip_version)

\* The walks of all addresses with a prefix of so many bits are at the record
\* then, and were at nodes before.
At(depth, prefix, record) ==
  \A a \in 0..(2^Bits(db) - 1) :
    HasPrefix(a, Bits(db), depth, prefix) =>
      /\ \A k \in 0..(depth - 1) : TreeWalk(a)[k] < db.node_count
      /\ TreeWalk(a)[depth] = record

\* A call that is pending is at the record that the prefix has which its ip
\* stands for, as long as it is no deeper than an address is long.
Placed(call) ==
  call.depth <= Bits(db) =>
    \E prefix \in 0..(2^call.depth - 1) :
      /\ At(call.depth, prefix, call.record)
      /\ call.ip = IF impl = "python" THEN prefix ELSE prefix * 2^(V6Bits - call.depth)

CallOK(call) == call.record \in Nat /\ call.depth \in Nat /\ Placed(call)

\* Every address of a network is answered with the pointer, by both readers.
Answered(net, pointer) ==
  LET n == AddressBits(net.version)
  IN  \A a \in net.address..(net.address + 2^(n - net.prefix) - 1) :
        {get_with_prefix_len(db, a, net.version), get_record(db, a, net.version)}
          = {Found(pointer, net.prefix)}

\* What the property names of a call that raises.
MayRaise(call) ==
  \/ /\ call.record > db.node_count
     /\ \/ call.depth > Bits(db) \/ PastEnd(call.record)
        \/ db.ip_version = 6 /\ call.ip = 0 /\ call.depth < Gap
        \/ impl = "python" /\ call.ip * 2^(Bits(db) - call.depth) = 2^V4Bits
  \/ impl = "c" /\ call.record = 0 /\ call.depth > 0

CallsOK == \E S : pending \in Seq(S) /\ \A call \in S : CallOK(call)

ItemsOK == \E S : out \in Seq(S) /\ \A item \in S : Answered(item.net, item.pointer)

\* The invariant.
IterationInvariant ==
  /\ File(db) /\ impl \in {"python", "c"}
  /\ CallsOK /\ ItemsOK
  /\ status = "raised" => MayRaise(Head(pending))

\* The numbers that the proofs below use.
LEMMA BitsAreWidth ==
  ASSUME File(db)
  PROVE  /\ Bits(db) = AddressBits(db.ip_version) /\ Bits(db) \in Nat /\ Bits(db) <= V6Bits
         /\ Bits(db) >= 1 /\ db.ip_version \in {4, 6} /\ db.node_count \in Nat
         /\ V6Bits \in Nat /\ V4Bits \in Nat /\ Gap \in Nat
         /\ V6Bits = Gap + V4Bits /\ Gap > V4Bits /\ V4Bits >= 1
         /\ db.ip_version = 6 => Bits(db) = V6Bits
         /\ db.ip_version = 4 => Bits(db) = V4Bits
BY Widths, WidthAssumption DEF File, Bits, AddressBits, ReadsNodes

\* Every walk is one of numbers.
LEMMA TreeWalkIsWalk ==
  ASSUME File(db), NEW a \in Nat
  PROVE  Walk(TreeWalk(a), 0, Bits(db), 0, db.node_count, RecordsOf(db, a, Bits(db), 0))
<1>1. _start_node(db, AddressBits(db.ip_version)) = 0
  <2>1. ~ (db.ip_version = 6 /\ db.ip_version = 4)
    OBVIOUS
  <2> QED BY <2>1, StartNode DEF File
<1>2. db.ip_version \in {4, 6} /\ ReadsNodes(db) /\ Bits(db) = AddressBits(db.ip_version)
  BY BitsAreWidth DEF File
<1> QED BY <1>1, <1>2, PythonWalkIsWalk DEF TreeWalk

\* There is an address with every prefix.
LEMMA PrefixIsTaken ==
  ASSUME File(db), NEW depth \in 0..Bits(db), NEW prefix \in 0..(2^depth - 1)
  PROVE  \E a \in 0..(2^Bits(db) - 1) : HasPrefix(a, Bits(db), depth, prefix)
<1> DEFINE n == Bits(db)
           size == 2^(n - depth)
           x == prefix * size
<1>1. n \in Nat /\ n <= V6Bits
  BY BitsAreWidth
<1>2. size \in Nat \ {0}
  <2>1. n - depth \in 0..V6Bits
    BY <1>1, Widths
  <2> QED BY <2>1, PowerPositive
<1>3. x \in x..(x + size - 1)
  <2>1. x \in Int
    <3>1. prefix \in Int /\ size \in Int
      <4>1. 2^depth \in Nat
        BY <1>1, Widths, PowerPositive
      <4> QED BY <1>2, <4>1
    <3> HIDE DEF size
    <3> QED BY <3>1
  <2> HIDE DEF x, size
  <2> QED BY <1>2, <2>1
<1>4. HasPrefix(x, n, depth, prefix)
  <2> HIDE DEF n
  <2>1. depth \in 0..n
    BY DEF n
  <2> QED BY <1>1, <1>3, <2>1, Block
<1>5. x \in 0..(2^n - 1)
  BY <1>4 DEF HasPrefix
<1> QED BY <1>4, <1>5

\* The children of a node that has a prefix.
LEMMA ChildPlaced ==
  ASSUME File(db), NEW depth \in 0..(Bits(db) - 1), NEW prefix \in 0..(2^depth - 1),
         NEW record \in 0..(db.node_count - 1), At(depth, prefix, record), NEW index \in {0, 1}
  PROVE  /\ 2 * prefix + index \in 0..(2^(depth + 1) - 1)
         /\ At(depth + 1, 2 * prefix + index, db.tree[record + 1][index + 1])
<1> DEFINE n == Bits(db)
           q == 2 * prefix + index
<1>1. n \in Nat /\ n <= V6Bits /\ V6Bits \in Nat
  BY BitsAreWidth
<1>2. /\ depth \in 0..(V6Bits - 1) /\ depth \in 0..V6Bits /\ depth + 1 \in 0..V6Bits
      /\ depth \in Nat /\ depth + 1 \in 0..n
  BY <1>1
<1>3. 2^(depth + 1) = 2 * 2^depth /\ 2^depth \in Nat
  BY <1>2, NextPower, PowerPositive
<1>4. q \in 0..(2^(depth + 1) - 1) /\ prefix \in Nat
  <2> DEFINE p == 2^depth
  <2>1. prefix \in 0..(p - 1) /\ p \in Nat
    BY <1>3
  <2> HIDE DEF p
  <2>2. CASE index = 0
    BY <1>3, <2>1, <2>2 DEF p
  <2>3. CASE index = 1
    BY <1>3, <2>1, <2>3 DEF p
  <2> QED BY <2>2, <2>3
<1>5. ASSUME NEW a \in 0..(2^n - 1), HasPrefix(a, n, depth + 1, q)
      PROVE  /\ \A k \in 0..((depth + 1) - 1) : TreeWalk(a)[k] < db.node_count
             /\ TreeWalk(a)[depth + 1] = db.tree[record + 1][index + 1]
  <2> DEFINE p == 2^(n - (depth + 1))
             w == TreeWalk(a)
  <2>1. p \in Nat \ {0} /\ 2^(n - depth) = 2 * p /\ a \in Nat
    <3>1. n - (depth + 1) \in 0..(V6Bits - 1) /\ n - (depth + 1) \in 0..V6Bits
          /\ (n - (depth + 1)) + 1 = n - depth
      BY <1>1, <1>2
    <3>2. 2^n \in Nat
      BY <1>1, PowerPositive
    <3> QED BY <3>1, <3>2, NextPower, PowerPositive
  <2>2. a \div p = q
    BY <1>5 DEF HasPrefix
  <2>3. a \div 2^(n - depth) = prefix
    <3> HIDE DEF p, q
    <3>1. a \div (2 * p) = (a \div p) \div 2
      BY <2>1, Halved
    <3>2. q \div 2 = prefix
      <4>1. CASE index = 0
        BY <1>4, <4>1 DEF q
      <4>2. CASE index = 1
        BY <1>4, <4>2 DEF q
      <4> QED BY <4>1, <4>2
    <3> QED BY <2>1, <2>2, <3>1, <3>2, Zenon
  <2>4. Bit(a, n, depth) = index
    <3>1. n - 1 - depth = n - (depth + 1)
      BY <1>1, <1>2
    <3>2. Bit(a, n, depth) = (a \div p) % 2
      BY <3>1, Zenon DEF Bit
    <3>3. q % 2 = index
      <4> HIDE DEF p
      <4>1. CASE index = 0
        BY <1>4, <4>1
      <4>2. CASE index = 1
        BY <1>4, <4>2
      <4> QED BY <4>1, <4>2
    <3> QED BY <2>2, <3>2, <3>3, Zenon
  <2>5. (\A k \in 0..(depth - 1) : w[k] < db.node_count) /\ w[depth] = record
    <3>1. HasPrefix(a, n, depth, prefix)
      BY <1>5, <2>3 DEF HasPrefix
    <3> QED BY <1>5, <3>1 DEF At
  <2>6. Walk(w, 0, n, 0, db.node_count, RecordsOf(db, a, n, 0))
    BY <2>1, TreeWalkIsWalk
  <2> HIDE DEF p, w, n, q
  <2>7. depth + 1 \in (0 + 1)..n /\ (depth + 1) - 1 = depth /\ db.node_count \in Nat
    BY <1>1, <1>2, BitsAreWidth
  <2>8. w[depth + 1] = RecordsOf(db, a, n, 0)[depth + 1][record]
    BY <2>5, <2>6, <2>7, SMTT(30) DEF Walk
  <2>9. RecordsOf(db, a, n, 0)[depth + 1][record] = db.tree[record + 1][index + 1]
    BY <2>4, <2>7 DEF RecordsOf
  <2>10. ASSUME NEW k \in 0..((depth + 1) - 1) PROVE w[k] < db.node_count
    <3>1. k \in 0..(depth - 1) \/ k = depth
      BY <1>2
    <3>2. record < db.node_count
      BY <2>7
    <3> QED BY <2>5, <3>1, <3>2
  <2> QED BY <2>8, <2>9, <2>10 DEF w
<1>6. At(depth + 1, q, db.tree[record + 1][index + 1])
  <2>1. ASSUME NEW a \in 0..(2^Bits(db) - 1), HasPrefix(a, Bits(db), depth + 1, q)
        PROVE  /\ \A k \in 0..((depth + 1) - 1) : TreeWalk(a)[k] < db.node_count
               /\ TreeWalk(a)[depth + 1] = db.tree[record + 1][index + 1]
    BY <1>5, <2>1
  <2> HIDE DEF q
  <2> QED BY <2>1 DEF At
<1> QED BY <1>4, <1>6

-----------------------------------------------------------------------------
(* The networks that are yielded.                                           *)

\* What a lookup finds whose walk comes to a data record.
LEMMA LookupAt ==
  ASSUME File(db), NEW depth \in 0..Bits(db), NEW prefix, NEW record \in Nat,
         At(depth, prefix, record), record > db.node_count, ~ PointsPastEnd(db, record),
         NEW a \in 0..(2^Bits(db) - 1), HasPrefix(a, Bits(db), depth, prefix)
  PROVE  /\ get_with_prefix_len(db, a, db.ip_version) = Found(record, depth)
         /\ get_record(db, a, db.ip_version) = Found(record, depth)
<1> DEFINE n == Bits(db)
           N == db.node_count
           w == TreeWalk(a)
<1>1. /\ n \in Nat /\ 0 <= n /\ 0 \in Nat /\ N \in Nat /\ n = AddressBits(db.ip_version)
      /\ db.ip_version \in {4, 6} /\ a \in Nat
  BY BitsAreWidth
<1>2. (\A k \in 0..(depth - 1) : w[k] < N) /\ w[depth] = record
  BY DEF At
<1>3. Walk(w, 0, n, 0, N, RecordsOf(db, a, n, 0))
  BY <1>1, TreeWalkIsWalk
<1>4. _find_address_in_tree(db, a, AddressBits(db.ip_version))
        = [node |-> w[Stops(w, 0, n, N)], steps |-> Stops(w, 0, n, N)]
  BY <1>1, PythonFinds DEF TreeWalk
<1> HIDE DEF n, N, w
<1>5. depth \in 0..n /\ n \in Nat
  BY <1>1 DEF n
<1>6. Stops(w, 0, n, N) = depth
  <2>1. ASSUME NEW k \in 0..(depth - 1) PROVE ~ (w[k] >= N)
    <3>1. k \in 0..n
      BY <1>5
    <3>2. w[k] \in Nat /\ w[k] < N
      BY <1>2, <1>3, <3>1 DEF Walk
    <3> QED BY <1>1, <3>2
  <2>2. w[depth] >= N
    BY <1>1, <1>2 DEF N
  <2> QED BY <1>1, <1>5, <2>1, <2>2, StopsThere
<1>7. /\ _find_address_in_tree(db, a, AddressBits(db.ip_version)).node = record
      /\ _find_address_in_tree(db, a, AddressBits(db.ip_version)).steps = depth
  BY <1>2, <1>4, <1>6
<1>8. ~ (db.ip_version = 6 /\ db.ip_version = 4) /\ record # N
  BY <1>1 DEF N
<1>9. get_with_prefix_len(db, a, db.ip_version) = Found(record, depth)
  BY <1>7, <1>8 DEF get_with_prefix_len, get_packed, N
<1>10. get_record(db, a, db.ip_version) = get_with_prefix_len(db, a, db.ip_version)
  BY <1>1, LookupsAgree DEF File
<1> QED BY <1>9, <1>10

\* The network of a prefix, which is an IPv4 network below ::/96.
NetworkFor(net, depth, prefix) ==
  LET address == prefix * 2^(Bits(db) - depth)
  IN  \/ /\ db.ip_version = 4 \/ address >= 2^V4Bits
         /\ net = Network(db.ip_version, address, depth)
      \/ /\ db.ip_version = 6 /\ depth >= Gap /\ address < 2^V4Bits
         /\ net = Network(4, address, depth - Gap)

\* Every address of that network is answered with the record and with the
\* network's prefix length: the one below ::/96 by the shortcut.
LEMMA NetworkIsAnswered ==
  ASSUME File(db), NEW depth \in 0..Bits(db), NEW prefix \in 0..(2^depth - 1),
         NEW record \in Nat, At(depth, prefix, record),
         record > db.node_count, ~ PointsPastEnd(db, record),
         NEW net, NetworkFor(net, depth, prefix)
  PROVE  Answered(net, record)
<1> DEFINE n == Bits(db)
           size == 2^(n - depth)
           address == prefix * size
<1>1. /\ n \in Nat /\ n <= V6Bits /\ n = AddressBits(db.ip_version)
      /\ db.ip_version \in {4, 6} /\ depth \in 0..n
  BY BitsAreWidth
<1>2. ASSUME NEW a \in address..(address + size - 1)
      PROVE  a \in 0..(2^n - 1) /\ HasPrefix(a, n, depth, prefix)
  <2> HIDE DEF n
  <2>1. HasPrefix(a, n, depth, prefix)
    BY <1>1, <1>2, Block
  <2> QED BY <2>1 DEF HasPrefix
<1>3. ASSUME NEW a \in address..(address + size - 1)
      PROVE  /\ get_with_prefix_len(db, a, db.ip_version) = Found(record, depth)
             /\ get_record(db, a, db.ip_version) = Found(record, depth)
  BY <1>2, <1>3, LookupAt
<1>4. CASE net = Network(db.ip_version, address, depth)
  <2> HIDE DEF address
  <2>1. /\ net.version = db.ip_version /\ net.address = address /\ net.prefix = depth
        /\ AddressBits(net.version) = n
    BY <1>1, <1>4 DEF Network
  <2> HIDE DEF n
  <2> QED BY <1>3, <2>1 DEF Answered
<1>5. CASE /\ db.ip_version = 6 /\ depth >= Gap /\ address < 2^V4Bits
           /\ net = Network(4, address, depth - Gap)
  <2>1. /\ Gap \in Nat /\ V4Bits \in Nat /\ V4Bits \in 0..V6Bits /\ V4Bits <= V6Bits
        /\ n = V6Bits /\ AddressBits(4) = V4Bits
        /\ depth - Gap \in 0..V4Bits /\ V4Bits - (depth - Gap) = n - depth
    BY <1>1, <1>5, Widths DEF Bits
  <2>2. prefix \in 0..(2^(depth - Gap) - 1)
    <3> DEFINE p == 2^(depth - Gap)
    <3>1. 2^V4Bits = p * size /\ p \in Nat \ {0} /\ size \in Nat \ {0} /\ 2^depth \in Nat
      <4>1. /\ depth - Gap \in 0..V6Bits /\ V4Bits - (depth - Gap) \in 0..(V6Bits - (depth - Gap))
            /\ (depth - Gap) + (V4Bits - (depth - Gap)) = V4Bits
            /\ V4Bits - (depth - Gap) \in 0..V6Bits /\ depth \in 0..V6Bits
        BY <2>1, Widths
      <4>2. 2^((depth - Gap) + (V4Bits - (depth - Gap))) = 2^(depth - Gap) * 2^(V4Bits - (depth - Gap))
        BY <4>1, PowerOfSum
      <4>3. 2^(V4Bits - (depth - Gap)) = size
        BY <2>1
      <4> QED BY <4>1, <4>2, <4>3, PowerPositive
    <3>2. prefix \in Nat
      BY <3>1
    <3> HIDE DEF p, size
    <3>3. prefix < p
      <4>1. SUFFICES ASSUME p <= prefix PROVE FALSE
        BY <3>1, <3>2
      <4>2. p * size <= prefix * size
        BY <3>1, <3>2, <4>1
      <4>3. prefix * size < p * size
        BY <1>5, <3>1
      <4> DEFINE x == p * size
                 y == prefix * size
      <4>4. x \in Int /\ y \in Int
        BY <3>1, <3>2
      <4>5. x <= y /\ y < x
        BY <4>2, <4>3
      <4> HIDE DEF x, y
      <4> QED BY <4>4, <4>5
    <3> QED BY <3>1, <3>2, <3>3 DEF p
  <2>3. ASSUME NEW a \in address..(address + size - 1)
        PROVE  {get_with_prefix_len(db, a, 4), get_record(db, a, 4)} = {Found(record, depth - Gap)}
    <3>1. size = 2^(V4Bits - (depth - Gap))
      BY <2>1
    <3>2. HasPrefix(a, V4Bits, depth - Gap, prefix)
      <4>1. a \in (prefix * 2^(V4Bits - (depth - Gap)))..
                    (prefix * 2^(V4Bits - (depth - Gap)) + 2^(V4Bits - (depth - Gap)) - 1)
        BY <3>1
      <4> HIDE DEF size, address
      <4> QED BY <2>1, <2>2, <4>1, Block
    <3>3. a \in 0..(2^V4Bits - 1) /\ a \in Nat
      <4>1. a \in 0..(2^V4Bits - 1)
        BY <3>2 DEF HasPrefix
      <4> QED BY <4>1
    <3>4. get_with_prefix_len(db, a, 6) = Found(record, depth)
      BY <1>3, <1>5
    <3> DEFINE short == get_with_prefix_len(db, a, 4)
               long  == get_with_prefix_len(db, a, 6)
    <3>5. /\ short.kind = long.kind /\ short.pointer = long.pointer
          /\ short.prefix = IF long.prefix >= Gap THEN long.prefix - Gap ELSE 0
      BY <1>5, <3>3, ShortcutFinds DEF File
    <3>6. \/ \E x : short = NotFound(x)
          \/ \E x, y : short = Found(x, y)
          \/ \E x : short = Raised(x)
      BY DEF get_with_prefix_len, get_packed
    <3>7. short = [kind |-> short.kind, pointer |-> short.pointer, prefix |-> short.prefix]
      <4> HIDE DEF short
      <4> QED BY <3>6 DEF NotFound, Found, Raised
    <3>8. short = Found(record, depth - Gap)
      <4> HIDE DEF short
      <4> QED BY <1>5, <3>4, <3>5, <3>7 DEF Found
    <3>9. get_record(db, a, 4) = short
      BY <3>3, LookupsAgree DEF File
    <3> QED BY <3>8, <3>9
  <2>4. /\ net.version = 4 /\ net.address = address /\ net.prefix = depth - Gap
        /\ 2^(AddressBits(net.version) - net.prefix) = size
    <3> HIDE DEF address
    <3>1. net.version = 4 /\ net.address = address /\ net.prefix = depth - Gap
      BY <1>5 DEF Network
    <3>2. V4Bits - (depth - Gap) = n - depth
      BY <2>1
    <3> QED BY <2>1, <3>1, <3>2
  <2> HIDE DEF size, address
  <2> QED BY <2>3, <2>4 DEF Answered
<1> HIDE DEF address
<1> QED BY <1>4, <1>5 DEF NetworkFor, address

-----------------------------------------------------------------------------
(* What the two implementations make of an address and a depth.             *)

\* A number less than the divisor is the remainder.
LEMMA SmallRemainder ==
  ASSUME NEW s \in Nat \ {0}, NEW x \in Nat, x < s
  PROVE  (x % s) = x
BY SMT

\* The remainder and the quotient of a multiple.
LEMMA Multiple ==
  ASSUME NEW s \in Nat \ {0}, NEW q \in Nat
  PROVE  (q * s) % s = 0 /\ (q * s) \div s = q
<1> DEFINE x == q * s
<1>1. x \in Nat /\ x = s * q /\ s * q <= x /\ x < s * q + s
  <2>1. x \in Nat
    BY SMT
  <2>2. x = s * q
    BY SMT
  <2> QED BY <2>1, <2>2, SMT
<1> HIDE DEF x
<1>2. x \div s = q
  BY <1>1, Quotient
<1>3. x = s * (x \div s) + (x % s) /\ x % s \in Nat
  BY <1>1, QuotientBounds
<1>4. x % s = 0
  <2> DEFINE y == s * q
  <2>1. x = y /\ x = y + (x % s) /\ x % s \in Nat
    BY <1>1, <1>2, <1>3
  <2> HIDE DEF y
  <2> QED BY <1>1, <2>1
<1> QED BY <1>2, <1>4 DEF x

\* The first address of a prefix.
LEMMA FirstAddress ==
  ASSUME File(db), NEW depth \in 0..Bits(db), NEW prefix \in 0..(2^depth - 1)
  PROVE  LET size    == 2^(Bits(db) - depth)
             address == prefix * size
         IN  /\ prefix \in Nat /\ size \in Nat \ {0}
             /\ address \in 0..(2^Bits(db) - 1) /\ address % size = 0
             /\ 2^V4Bits \in Nat \ {0}
<1> DEFINE n == Bits(db)
           size == 2^(n - depth)
           x == prefix * size
<1>1. n \in Nat /\ n <= V6Bits /\ depth \in 0..n
  BY BitsAreWidth
<1>2. size \in Nat \ {0} /\ 2^depth \in Nat /\ 2^V4Bits \in Nat \ {0}
  <2>1. n - depth \in 0..V6Bits /\ depth \in 0..V6Bits /\ V4Bits \in 0..V6Bits
    BY <1>1, Widths
  <2> QED BY <2>1, PowerPositive
<1>3. prefix \in Nat
  BY <1>2
<1>4. x \in x..(x + size - 1)
  <2>1. x \in Int
    <3> HIDE DEF size
    <3> QED BY <1>2, <1>3
  <2> HIDE DEF x, size
  <2> QED BY <1>2, <2>1
<1>5. x \in 0..(2^n - 1)
  <2> HIDE DEF n
  <2>1. HasPrefix(x, n, depth, prefix)
    BY <1>1, <1>4, Block
  <2> QED BY <2>1 DEF HasPrefix
<1>6. x % size = 0
  <2> HIDE DEF size
  <2> QED BY <1>2, <1>3, Multiple
<1> QED BY <1>2, <1>3, <1>5, <1>6

\* An address below 2^V4Bits with a prefix that is longer than ::/96 or, when it
\* is not, has no bit set.
LEMMA ShortPrefixIsZero ==
  ASSUME File(db), db.ip_version = 6, NEW depth \in 0..Bits(db), depth < Gap, NEW prefix \in Nat,
         prefix * 2^(Bits(db) - depth) < 2^V4Bits
  PROVE  prefix = 0
<1> DEFINE size == 2^(V6Bits - depth)
           y == 2^V4Bits
<1>1. V6Bits - depth \in V4Bits..V6Bits /\ V4Bits \in 0..V6Bits /\ Bits(db) = V6Bits
  BY BitsAreWidth
<1>2. y <= size /\ size \in Nat \ {0} /\ y \in Nat
  BY <1>1, PowersGrow, PowerPositive
<1>3. prefix * size < y
  BY <1>1
<1> HIDE DEF size, y
<1>4. SUFFICES ASSUME prefix >= 1 PROVE FALSE
  OBVIOUS
<1> DEFINE x == prefix * size
<1>5. x >= size /\ x \in Int
  BY <1>2, <1>4
<1>6. x < y
  BY <1>3
<1> HIDE DEF x
<1> QED BY <1>2, <1>5, <1>6

\* The network that starts at 2^V4Bits has host bits set when Gap bits are
\* taken off its prefix.
LEMMA NotAligned ==
  ASSUME File(db), NEW depth \in Gap..V6Bits
  PROVE  2^V4Bits % 2^(V6Bits - (depth - Gap)) # 0
<1> DEFINE y == 2^V4Bits
           size == 2^(V6Bits - (depth - Gap))
<1>1. /\ V4Bits \in 0..(V6Bits - 1) /\ V4Bits + 1 \in 0..V6Bits /\ V4Bits \in 0..V6Bits
      /\ V6Bits - (depth - Gap) \in (V4Bits + 1)..V6Bits
      /\ V6Bits - (depth - Gap) \in 0..V6Bits
  BY BitsAreWidth
<1>2. 2^(V4Bits + 1) = 2 * y /\ y \in Nat \ {0} /\ size \in Nat \ {0} /\ 2^(V4Bits + 1) <= size
  BY <1>1, NextPower, PowersGrow, PowerPositive
<1> HIDE DEF y, size
<1>3. y < size
  BY <1>2
<1>4. (y % size) = y
  BY <1>2, <1>3, SmallRemainder
<1>5. (y % size) # 0
  BY <1>2, <1>4
<1> QED BY <1>5 DEF y, size

\* The calls at a data record for which ip_network raises.
Unlisted(call) ==
  \/ db.ip_version = 6 /\ call.ip = 0 /\ call.depth < Gap
  \/ impl = "python" /\ call.ip * 2^(Bits(db) - call.depth) = 2^V4Bits

\* What ip_network takes.
LEMMA NetworkTaken ==
  ASSUME NEW version, NEW address, NEW prefix \in 0..AddressBits(version),
         (address % 2^(AddressBits(version) - prefix)) = 0
  PROVE  ip_network(version, address, prefix) = Network(version, address, prefix)
BY Zenon DEF ip_network

\* What it refuses.
LEMMA NetworkRefused ==
  ASSUME NEW version, NEW address, NEW prefix,
         \/ prefix \notin 0..AddressBits(version)
         \/ (address % 2^(AddressBits(version) - prefix)) # 0
  PROVE  ip_network(version, address, prefix) = NoNetwork
BY Zenon DEF ip_network

\* Python's network of an address and a depth: what NetworkFor says, or none.
LEMMA NetworkOfPython ==
  ASSUME File(db), impl = "python", NEW call, call.depth \in 0..Bits(db),
         call.ip \in 0..(2^call.depth - 1)
  PROVE  \/ NetworkFor(network_of_python(call), call.depth, call.ip)
         \/ network_of_python(call) = NoNetwork /\ Unlisted(call)
<1> DEFINE n == Bits(db)
           d == call.depth
           size == 2^(n - d)
           x == call.ip * size
           y == 2^V4Bits
           net == network_of_python(call)
<1> SUFFICES NetworkFor(net, d, call.ip) \/ (net = NoNetwork /\ Unlisted(call))
  OBVIOUS
<1>1. call.ip \in Nat /\ x \in Nat /\ x < 2^n /\ x % size = 0 /\ y \in Nat /\ size \in Nat
  <2>1. 2^n \in Nat
    BY BitsAreWidth, PowerPositive
  <2>2. /\ call.ip \in Nat /\ size \in Nat \ {0} /\ x \in 0..(2^n - 1)
        /\ x % size = 0 /\ y \in Nat \ {0}
    BY FirstAddress
  <2> HIDE DEF x, n, y, size
  <2> QED BY <2>1, <2>2
<1>2. /\ n \in Nat /\ d \in 0..n /\ Gap \in Nat /\ V4Bits \in Nat /\ V6Bits = Gap + V4Bits
      /\ AddressBits(4) = V4Bits /\ AddressBits(6) = V6Bits /\ Gap > V4Bits
  BY BitsAreWidth, Widths
<1>3. net = ip_network_of_int(x, IF x <= y /\ db.ip_version = 6 THEN d - Gap ELSE d)
  <2>1. ~ (d > n)
    BY <1>2
  <2> QED BY <2>1 DEF network_of_python, _IPV4_MAX_NUM
<1>4. NetworkFor(net, d, call.ip) <=>
        \/ (db.ip_version = 4 \/ x >= y) /\ net = Network(db.ip_version, x, d)
        \/ db.ip_version = 6 /\ d >= Gap /\ x < y /\ net = Network(4, x, d - Gap)
  BY DEF NetworkFor
<1>5. Unlisted(call) <=> (db.ip_version = 6 /\ call.ip = 0 /\ d < Gap) \/ x = y
  BY DEF Unlisted
<1>6. db.ip_version = 6 /\ d < Gap /\ x < y => call.ip = 0
  BY <1>1, <1>2, ShortPrefixIsZero
<1>7. CASE db.ip_version = 4
  <2>1. n = V4Bits /\ x < y /\ d \in 0..V4Bits
    BY <1>1, <1>2, <1>7, BitsAreWidth
  <2>2. size = 2^(V4Bits - d)
    BY <2>1
  <2> HIDE DEF x, y, size, net
  <2>3. net = ip_network_of_int(x, d)
    BY <1>3, <1>7
  <2>4. net = ip_network(4, x, d)
    BY <2>1, <2>3 DEF ip_network_of_int, y
  <2>5. net = Network(4, x, d)
    <3>1. d \in 0..AddressBits(4) /\ (x % 2^(AddressBits(4) - d)) = 0
      BY <1>1, <1>2, <2>1, <2>2, Zenon
    <3> QED BY <2>4, <3>1, NetworkTaken, Zenon
  <2> QED BY <1>4, <1>7, <2>5
<1>8. CASE db.ip_version = 6
  <2>1. n = V6Bits
    BY <1>8, BitsAreWidth
  <2>2. size = 2^(V6Bits - d)
    BY <2>1
  <2>3. d >= Gap => V6Bits - d = V4Bits - (d - Gap)
    BY <1>2, <2>1
  <2> HIDE DEF x, size, net
  <2>4. CASE x < y /\ d >= Gap
    <3>1. d - Gap \in 0..V4Bits
      BY <1>2, <2>1, <2>4
    <3>2. net = ip_network_of_int(x, d - Gap)
      BY <1>1, <1>3, <1>8, <2>4
    <3>3. net = ip_network(4, x, d - Gap)
      BY <2>4, <3>1, <3>2 DEF ip_network_of_int
    <3>4. net = Network(4, x, d - Gap)
      <4>1. d - Gap \in 0..AddressBits(4) /\ (x % 2^(AddressBits(4) - (d - Gap))) = 0
        BY <1>1, <1>2, <2>2, <2>3, <2>4, <3>1, Zenon
      <4> QED BY <3>3, <4>1, NetworkTaken, Zenon
    <3> QED BY <1>4, <1>8, <2>4, <3>4
  <2>5. CASE x < y /\ ~ (d >= Gap)
    <3>1. d - Gap \notin 0..V4Bits /\ d - Gap \notin 0..V6Bits /\ d < Gap
      BY <1>2, <2>5
    <3>2. net = ip_network_of_int(x, d - Gap)
      BY <1>1, <1>3, <1>8, <2>5
    <3>3. net = ip_network(6, x, d - Gap)
      BY <3>1, <3>2 DEF ip_network_of_int
    <3>4. net = NoNetwork
      <4>1. d - Gap \notin 0..AddressBits(6)
        BY <1>2, <3>1, Zenon
      <4> QED BY <3>3, <4>1, NetworkRefused, Zenon
    <3> QED BY <1>5, <1>6, <1>8, <2>5, <3>1, <3>4
  <2>6. CASE x = y
    <3>1. net = ip_network_of_int(y, d - Gap)
      BY <1>1, <1>3, <1>8, <2>6
    <3>2. net = ip_network(6, y, d - Gap)
      BY <1>1, <3>1 DEF ip_network_of_int
    <3>3. net = NoNetwork
      <4>1. CASE d >= Gap
        <5>1. d \in Gap..V6Bits
          BY <1>2, <2>1, <4>1
        <5>2. (y % 2^(V6Bits - (d - Gap))) # 0
          BY <5>1, NotAligned
        <5>3. (y % 2^(AddressBits(6) - (d - Gap))) # 0
          BY <1>2, <5>2, Zenon
        <5> QED BY <3>2, <5>3, NetworkRefused, Zenon
      <4>2. CASE ~ (d >= Gap)
        <5>1. d - Gap \notin 0..V6Bits
          BY <1>2, <4>2
        <5>2. d - Gap \notin 0..AddressBits(6)
          BY <1>2, <5>1, Zenon
        <5> QED BY <3>2, <5>2, NetworkRefused, Zenon
      <4> QED BY <4>1, <4>2
    <3> QED BY <1>5, <2>6, <3>3
  <2>7. CASE x > y
    <3>1. net = ip_network_of_int(x, d)
      BY <1>1, <1>3, <2>7
    <3>2. net = ip_network(6, x, d)
      BY <1>1, <2>7, <3>1 DEF ip_network_of_int
    <3>3. net = Network(6, x, d)
      <4>1. d \in 0..AddressBits(6) /\ (x % 2^(AddressBits(6) - d)) = 0
        BY <1>1, <1>2, <2>1, <2>2, Zenon
      <4> QED BY <3>2, <4>1, NetworkTaken, Zenon
    <3>4. x >= y
      <4> HIDE DEF y
      <4> QED BY <1>1, <2>7
    <3> QED BY <1>4, <1>8, <3>3, <3>4
  <2> HIDE DEF y
  <2>8. x < y \/ x = y \/ x > y
    BY <1>1
  <2> QED BY <2>4, <2>5, <2>6, <2>7, <2>8
<1> QED BY <1>7, <1>8, BitsAreWidth

\* The same of the C extension.
LEMMA NetworkOfC ==
  ASSUME File(db), impl = "c", NEW call, call.depth \in 0..Bits(db),
         NEW prefix \in 0..(2^call.depth - 1), call.ip = prefix * 2^(V6Bits - call.depth)
  PROVE  \/ NetworkFor(network_of_c(call), call.depth, prefix)
         \/ network_of_c(call) = NoNetwork /\ Unlisted(call)
<1> DEFINE n == Bits(db)
           d == call.depth
           size == 2^(n - d)
           x == prefix * size
           y == 2^V4Bits
           net == network_of_c(call)
<1> SUFFICES NetworkFor(net, d, prefix) \/ (net = NoNetwork /\ Unlisted(call))
  OBVIOUS
<1>1. prefix \in Nat /\ x \in Nat /\ x < 2^n /\ x % size = 0 /\ y \in Nat /\ size \in Nat \ {0}
  <2>1. 2^n \in Nat
    BY BitsAreWidth, PowerPositive
  <2>2. /\ prefix \in Nat /\ size \in Nat \ {0} /\ x \in 0..(2^n - 1)
        /\ x % size = 0 /\ y \in Nat \ {0}
    BY FirstAddress
  <2> HIDE DEF x, n, y, size
  <2> QED BY <2>1, <2>2
<1>2. /\ n \in Nat /\ d \in 0..n /\ Gap \in Nat /\ V4Bits \in Nat /\ V6Bits = Gap + V4Bits
      /\ AddressBits(4) = V4Bits /\ AddressBits(6) = V6Bits /\ Gap > V4Bits
  BY BitsAreWidth, Widths
<1>3. NetworkFor(net, d, prefix) <=>
        \/ (db.ip_version = 4 \/ x >= y) /\ net = Network(db.ip_version, x, d)
        \/ db.ip_version = 6 /\ d >= Gap /\ x < y /\ net = Network(4, x, d - Gap)
  BY DEF NetworkFor
<1>4. db.ip_version = 6 /\ d < Gap /\ x < y => prefix = 0
  BY <1>1, <1>2, ShortPrefixIsZero
<1>5. CASE db.ip_version = 4
  <2>1. n = V4Bits /\ d \in 0..V4Bits /\ size = 2^(V4Bits - d)
    BY <1>2, <1>5, BitsAreWidth
  <2>2. call.ip \div 2^Gap = x
    <3> DEFINE g == 2^Gap
    <3>1. 2^(V6Bits - d) = size * g /\ g \in Nat \ {0}
      <4>1. /\ V4Bits - d \in 0..V6Bits /\ Gap \in 0..(V6Bits - (V4Bits - d))
            /\ (V4Bits - d) + Gap = V6Bits - d /\ Gap \in 0..V6Bits
        BY <1>2, <2>1
      <4>2. 2^((V4Bits - d) + Gap) = 2^(V4Bits - d) * 2^Gap
        BY <4>1, PowerOfSum
      <4> QED BY <2>1, <4>1, <4>2, PowerPositive
    <3> HIDE DEF g, size
    <3>2. call.ip = x * g
      <4>1. prefix * (size * g) = x * g
        BY <1>1, <3>1
      <4> QED BY <3>1, <4>1
    <3> HIDE DEF x
    <3>3. (x * g) \div g = x
      BY <1>1, <3>1, Multiple
    <3> QED BY <3>2, <3>3 DEF g
  <2> HIDE DEF x, size, net
  <2>3. net = ip_network(4, x, d)
    BY <1>5, <2>2 DEF network_of_c, net
  <2>4. net = Network(4, x, d)
    <3>1. d \in 0..AddressBits(4) /\ (x % 2^(AddressBits(4) - d)) = 0
      BY <1>1, <1>2, <2>1, Zenon
    <3> QED BY <2>3, <3>1, NetworkTaken, Zenon
  <2> QED BY <1>3, <1>5, <2>4
<1>6. CASE db.ip_version = 6
  <2>1. n = V6Bits
    BY <1>6, BitsAreWidth
  <2>2. call.ip = x /\ size = 2^(V6Bits - d)
    BY <2>1
  <2>3. d >= Gap => V6Bits - d = V4Bits - (d - Gap)
    BY <1>2, <2>1
  <2>4. net = IF x >= y THEN ip_network(6, x, d) ELSE ip_network(4, x % y, d - Gap)
    BY <1>6, <2>2 DEF network_of_c, is_ipv6
  <2> HIDE DEF x, size, net
  <2>5. CASE x >= y
    <3>1. net = Network(6, x, d)
      <4>1. d \in 0..AddressBits(6) /\ (x % 2^(AddressBits(6) - d)) = 0
        BY <1>1, <1>2, <2>1, <2>2, Zenon
      <4>2. net = ip_network(6, x, d)
        BY <2>4, <2>5
      <4> QED BY <4>1, <4>2, NetworkTaken, Zenon
    <3> QED BY <1>3, <1>6, <2>5, <3>1, Zenon
  <2>6. CASE ~ (x >= y)
    <3>1. x % y = x /\ x < y
      <4> HIDE DEF y
      <4>1. y \in Nat \ {0} /\ x < y
        BY <1>1, <2>6
      <4> QED BY <1>1, <4>1, SmallRemainder
    <3>2. net = ip_network(4, x, d - Gap)
      BY <2>4, <2>6, <3>1
    <3>3. CASE d >= Gap
      <4>1. d - Gap \in 0..V4Bits
        BY <1>2, <2>1, <3>3
      <4>2. net = Network(4, x, d - Gap)
        <5>1. d - Gap \in 0..AddressBits(4) /\ (x % 2^(AddressBits(4) - (d - Gap))) = 0
          BY <1>1, <1>2, <2>2, <2>3, <3>3, <4>1, Zenon
        <5> QED BY <3>2, <5>1, NetworkTaken, Zenon
      <4> QED BY <1>3, <1>6, <3>1, <3>3, <4>2
    <3>4. CASE ~ (d >= Gap)
      <4>1. d - Gap \notin 0..V4Bits /\ d < Gap
        BY <1>2, <3>4
      <4>2. net = NoNetwork
        <5>1. d - Gap \notin 0..AddressBits(4)
          BY <1>2, <4>1, Zenon
        <5> QED BY <3>2, <5>1, NetworkRefused, Zenon
      <4>3. call.ip = 0
        <5> DEFINE p == 2^(V6Bits - d)
        <5>1. prefix = 0
          BY <1>4, <1>6, <3>1, <4>1
        <5>2. p = size /\ call.ip = prefix * p
          BY <2>2
        <5> HIDE DEF p
        <5> QED BY <1>1, <5>1, <5>2
      <4> QED BY <1>6, <4>1, <4>2, <4>3 DEF Unlisted
    <3> QED BY <3>3, <3>4
  <2> HIDE DEF y
  <2> QED BY <2>5, <2>6
<1> QED BY <1>5, <1>6, BitsAreWidth

-----------------------------------------------------------------------------
(* The steps.                                                               *)

\* What is said of a call or of an item depends on db and impl alone.
LEMMA Lasting ==
  ASSUME UNCHANGED <<db, impl>>
  PROVE  /\ \A call : CallOK(call)' <=> CallOK(call)
         /\ \A net, pointer : Answered(net, pointer)' <=> Answered(net, pointer)
         /\ \A call : MayRaise(call)' <=> MayRaise(call)
<1>1. db' = db /\ impl' = impl
  OBVIOUS
<1>2. ASSUME NEW call PROVE CallOK(call)' <=> CallOK(call)
  BY <1>1 DEF CallOK, Placed, At, TreeWalk
<1>3. ASSUME NEW net, NEW pointer PROVE Answered(net, pointer)' <=> Answered(net, pointer)
  BY <1>1 DEF Answered
<1>4. ASSUME NEW call PROVE MayRaise(call)' <=> MayRaise(call)
  BY <1>1 DEF MayRaise, PastEnd
<1> QED BY <1>2, <1>3, <1>4

\* A call is taken off the list.
LEMMA Dropped ==
  ASSUME CallsOK, pending # <<>>, UNCHANGED <<db, impl>>, pending' = Tail(pending)
  PROVE  CallsOK'
<1>1. PICK S : pending \in Seq(S) /\ \A call \in S : CallOK(call)
  BY DEF CallsOK
<1>2. Tail(pending) \in Seq(S)
  BY <1>1
<1>3. pending' \in Seq(S) /\ \A call \in S : CallOK(call)'
  BY <1>1, <1>2, Lasting
<1> QED BY <1>3 DEF CallsOK

\* A call is replaced by two.
LEMMA Replaced ==
  ASSUME CallsOK, pending # <<>>, UNCHANGED <<db, impl>>,
         NEW a, NEW b, CallOK(a), CallOK(b), pending' = <<a, b>> \o Tail(pending)
  PROVE  CallsOK'
<1>1. PICK S : pending \in Seq(S) /\ \A call \in S : CallOK(call)
  BY DEF CallsOK
<1> DEFINE T == S \cup {a, b}
<1>2. Tail(pending) \in Seq(T)
  <2>1. pending \in Seq(T)
    BY <1>1
  <2> HIDE DEF T
  <2> QED BY <2>1
<1>3. <<a, b>> \in Seq(T)
  OBVIOUS
<1>4. \A call \in T : CallOK(call)
  BY <1>1
<1> HIDE DEF T
<1>5. pending' \in Seq(T)
  BY <1>2, <1>3
<1>6. \A call \in T : CallOK(call)'
  BY <1>4, Lasting
<1> QED BY <1>5, <1>6 DEF CallsOK

\* Nothing is taken off the list.
LEMMA Kept ==
  ASSUME CallsOK, UNCHANGED <<db, impl, pending>>
  PROVE  CallsOK'
<1>1. PICK S : pending \in Seq(S) /\ \A call \in S : CallOK(call)
  BY DEF CallsOK
<1>2. pending' \in Seq(S) /\ \A call \in S : CallOK(call)'
  BY <1>1, Lasting
<1> QED BY <1>2 DEF CallsOK

\* Nothing is yielded.
LEMMA OutKept ==
  ASSUME ItemsOK, UNCHANGED <<db, impl, out>>
  PROVE  ItemsOK'
<1>1. PICK S : out \in Seq(S) /\ \A item \in S : Answered(item.net, item.pointer)
  BY DEF ItemsOK
<1>2. out' \in Seq(S) /\ \A item \in S : Answered(item.net, item.pointer)'
  BY <1>1, Lasting
<1> QED BY <1>2 DEF ItemsOK

\* A network is yielded.
LEMMA OutGrown ==
  ASSUME ItemsOK, UNCHANGED <<db, impl>>, NEW net, NEW pointer, Answered(net, pointer),
         out' = Append(out, [net |-> net, pointer |-> pointer])
  PROVE  ItemsOK'
<1>1. PICK S : out \in Seq(S) /\ \A item \in S : Answered(item.net, item.pointer)
  BY DEF ItemsOK
<1> DEFINE new == [net |-> net, pointer |-> pointer]
           T   == S \cup {new}
<1>2. \A item \in T : Answered(item.net, item.pointer)
  BY <1>1
<1>3. out \in Seq(T) /\ new \in T
  BY <1>1
<1> HIDE DEF T
<1>4. out' \in Seq(T)
  BY <1>3
<1>5. \A item \in T : Answered(item.net, item.pointer)'
  BY <1>2, Lasting
<1> QED BY <1>4, <1>5 DEF ItemsOK

\* The call that starts an iteration.
LEMMA RootOK ==
  ASSUME File(db)
  PROVE  CallOK([record |-> 0, depth |-> 0, ip |-> 0])
<1> DEFINE call == [record |-> 0, depth |-> 0, ip |-> 0]
<1>1. call.record = 0 /\ call.depth = 0 /\ call.ip = 0
  OBVIOUS
<1>2. At(0, 0, 0)
  <2>1. ASSUME NEW a \in 0..(2^Bits(db) - 1) PROVE TreeWalk(a)[0] = 0
    <3>1. a \in Nat
      <4>1. 2^Bits(db) \in Nat
        BY BitsAreWidth, PowerPositive
      <4> QED BY <4>1
    <3> QED BY <3>1, TreeWalkIsWalk DEF Walk
  <2> QED BY <2>1 DEF At
<1>3. 0 \in 0..(2^0 - 1)
  BY PowersAssumption
<1>4. 0 * 2^(V6Bits - 0) = 0
  <2> DEFINE p == 2^(V6Bits - 0)
  <2>1. p \in Nat
    <3>1. V6Bits - 0 \in 0..V6Bits
      BY Widths
    <3> QED BY <3>1, PowerPositive
  <2> HIDE DEF p
  <2>2. 0 * p = 0
    BY <2>1
  <2> QED BY <2>2 DEF p
<1> HIDE DEF call
<1>5. CallOK(call)
  <2>1. \E prefix \in 0..(2^call.depth - 1) :
          /\ At(call.depth, prefix, call.record)
          /\ call.ip = IF impl = "python" THEN prefix ELSE prefix * 2^(V6Bits - call.depth)
    BY <1>1, <1>2, <1>3, <1>4
  <2> QED BY <1>1, <2>1 DEF CallOK, Placed
<1> QED BY <1>5 DEF call

\* A call for a child of the node of a call.
ChildOf(call, index, child) ==
  /\ child.record = db.tree[call.record + 1][index + 1] /\ child.depth = call.depth + 1
  /\ child.ip = IF impl = "python" THEN 2 * call.ip + index
                ELSE call.ip + index * BitValue(call.depth)

\* The calls for the children of a node are at their prefixes.
LEMMA ChildOK ==
  ASSUME File(db), NEW call, CallOK(call), call.record < db.node_count,
         NEW index \in {0, 1}, NEW child, ChildOf(call, index, child)
  PROVE  CallOK(child)
<1>1. /\ child.record = db.tree[call.record + 1][index + 1] /\ child.depth = call.depth + 1
      /\ child.ip = IF impl = "python" THEN 2 * call.ip + index
                    ELSE call.ip + index * BitValue(call.depth)
  BY DEF ChildOf
<1>2. call.record \in Nat /\ call.depth \in Nat /\ Placed(call)
  BY DEF CallOK
<1>3. /\ db.node_count \in Nat /\ Bits(db) \in Nat /\ Bits(db) <= V6Bits /\ V6Bits \in Nat
      /\ call.record \in 0..(db.node_count - 1)
  BY <1>2, BitsAreWidth
<1>4. child.record \in Nat /\ child.depth \in Nat
  BY <1>1, <1>2, <1>3 DEF File, ReadsNodes
<1>5. ASSUME child.depth <= Bits(db)
      PROVE  \E prefix \in 0..(2^child.depth - 1) :
               /\ At(child.depth, prefix, child.record)
               /\ child.ip = IF impl = "python" THEN prefix ELSE prefix * 2^(V6Bits - child.depth)
  <2>1. call.depth \in 0..(Bits(db) - 1) /\ call.depth <= Bits(db)
    BY <1>1, <1>2, <1>3, <1>5
  <2>2. PICK p \in 0..(2^call.depth - 1) :
          /\ At(call.depth, p, call.record)
          /\ call.ip = IF impl = "python" THEN p ELSE p * 2^(V6Bits - call.depth)
    BY <1>2, <2>1 DEF Placed
  <2> DEFINE q == 2 * p + index
  <2>3. q \in 0..(2^(call.depth + 1) - 1) /\ At(call.depth + 1, q, child.record)
    BY <1>1, <1>3, <2>1, <2>2, ChildPlaced
  <2>4. p \in Nat
    <3>1. 2^call.depth \in Nat
      BY <1>3, <2>1, PowerPositive
    <3> QED BY <3>1
  <2>5. child.ip = IF impl = "python" THEN q ELSE q * 2^(V6Bits - child.depth)
    <3>1. CASE impl = "python"
      BY <1>1, <2>2, <3>1
    <3>2. CASE impl # "python"
      <4> DEFINE s == 2^(V6Bits - child.depth)
      <4>1. 2^(V6Bits - call.depth) = 2 * s /\ s \in Nat /\ BitValue(call.depth) = s
        <5>1. /\ V6Bits - child.depth \in 0..(V6Bits - 1) /\ V6Bits - child.depth \in 0..V6Bits
              /\ (V6Bits - child.depth) + 1 = V6Bits - call.depth
              /\ V6Bits - 1 - call.depth = V6Bits - child.depth
          BY <1>1, <1>3, <2>1
        <5>2. 2^((V6Bits - child.depth) + 1) = 2 * 2^(V6Bits - child.depth)
          BY <5>1, NextPower
        <5>3. BitValue(call.depth) = 2^(V6Bits - 1 - call.depth)
          BY <1>3, <2>1 DEF BitValue
        <5> QED BY <5>1, <5>2, <5>3, PowerPositive
      <4>2. call.ip = p * (2 * s) /\ child.ip = call.ip + index * s
        BY <1>1, <2>2, <3>2, <4>1
      <4> HIDE DEF s
      <4>3. child.ip = (2 * p + index) * s
        <5>1. CASE index = 0
          BY <2>4, <4>1, <4>2, <5>1
        <5>2. CASE index = 1
          BY <2>4, <4>1, <4>2, <5>2
        <5> QED BY <5>1, <5>2
      <4> QED BY <3>2, <4>3 DEF s
    <3> QED BY <3>1, <3>2
  <2>6. q \in 0..(2^child.depth - 1) /\ At(child.depth, q, child.record)
    BY <1>1, <2>3
  <2> HIDE DEF q
  <2> QED BY <2>5, <2>6
<1> QED BY <1>4, <1>5 DEF CallOK, Placed

\* What a data record comes to: an item that the lookups confirm, or an
\* exception that the property names.
Settled(net, call) ==
  IF net = NoNetwork THEN MayRaise(call) ELSE Answered(net, call.record)

\* A record that is deeper than an address is long has no network.
LEMMA TooDeep ==
  ASSUME File(db), NEW call, call.depth \in Nat, call.depth > Bits(db),
         NEW net, net = IF impl = "python" THEN network_of_python(call) ELSE network_of_c(call)
  PROVE  net = NoNetwork
<1>1. CASE impl = "python"
  BY <1>1 DEF network_of_python
<1>2. CASE impl # "python" /\ db.ip_version = 4
  <2>1. net = ip_network(4, call.ip \div 2^Gap, call.depth)
    BY <1>2 DEF network_of_c
  <2>2. call.depth \notin 0..AddressBits(4)
    BY <1>2, BitsAreWidth
  <2> QED BY <2>1, <2>2, NetworkRefused, Zenon
<1>3. CASE impl # "python" /\ db.ip_version = 6
  <2>1. \/ net = ip_network(6, call.ip, call.depth)
        \/ net = ip_network(4, call.ip % 2^V4Bits, call.depth - Gap)
    BY <1>3 DEF network_of_c
  <2>2. call.depth \notin 0..AddressBits(6) /\ call.depth - Gap \notin 0..AddressBits(4)
    BY <1>3, BitsAreWidth, Widths
  <2> QED BY <2>1, <2>2, NetworkRefused, Zenon
<1> QED BY <1>1, <1>2, <1>3, BitsAreWidth

\* Either implementation settles every data record.
LEMMA RecordSettled ==
  ASSUME File(db), impl \in {"python", "c"}, NEW call, CallOK(call),
         call.record > db.node_count, ~ PointsPastEnd(db, call.record),
         NEW net, net = IF impl = "python" THEN network_of_python(call) ELSE network_of_c(call)
  PROVE  Settled(net, call)
<1>1. /\ call.record \in Nat /\ call.depth \in Nat /\ Placed(call)
      /\ Bits(db) \in Nat /\ Bits(db) <= V6Bits /\ db.ip_version \in {4, 6}
  BY BitsAreWidth DEF CallOK
<1>2. CASE call.depth > Bits(db)
  <2>1. MayRaise(call)
    BY <1>2 DEF MayRaise
  <2>2. net = NoNetwork
    BY <1>1, <1>2, TooDeep
  <2> QED BY <2>1, <2>2 DEF Settled
<1>3. CASE ~ (call.depth > Bits(db))
  <2>1. call.depth \in 0..Bits(db) /\ call.depth <= Bits(db)
    BY <1>1, <1>3
  <2>2. PICK prefix \in 0..(2^call.depth - 1) :
          /\ At(call.depth, prefix, call.record)
          /\ call.ip = IF impl = "python" THEN prefix ELSE prefix * 2^(V6Bits - call.depth)
    BY <1>1, <2>1 DEF Placed
  <2>3. NetworkFor(net, call.depth, prefix) \/ (net = NoNetwork /\ Unlisted(call))
    <3>1. CASE impl = "python"
      <4>1. call.ip = prefix /\ net = network_of_python(call)
        BY <2>2, <3>1
      <4> QED BY <2>1, <3>1, <4>1, NetworkOfPython
    <3>2. CASE impl # "python"
      <4>1. impl = "c" /\ call.ip = prefix * 2^(V6Bits - call.depth) /\ net = network_of_c(call)
        BY <2>2, <3>2
      <4> QED BY <2>1, <4>1, NetworkOfC
    <3> QED BY <3>1, <3>2
  <2>4. CASE NetworkFor(net, call.depth, prefix)
    <3>1. net # NoNetwork
      <4>1. \A address, length : \A version \in {4, 6} : Network(version, address, length) # NoNetwork
        BY DEF NoNetwork, Network
      <4> QED BY <1>1, <2>4, <4>1, Zenon DEF NetworkFor
    <3>2. Answered(net, call.record)
      BY <1>1, <2>1, <2>2, <2>4, NetworkIsAnswered
    <3> QED BY <3>1, <3>2 DEF Settled
  <2>5. CASE net = NoNetwork /\ Unlisted(call)
    BY <2>5 DEF Settled, MayRaise, Unlisted
  <2> QED BY <2>3, <2>4, <2>5
<1> QED BY <1>2, <1>3

\* Python and the specification agree on what is past the end.
LEMMA PastEndAgrees ==
  ASSUME File(db), NEW p \in Nat
  PROVE  PointsPastEnd(db, p) <=> PastEnd(p)
<1>1. db.node_count \in Nat /\ db.data_size \in Nat
  BY BitsAreWidth DEF File
<1>2. search_tree_size(db) \in Nat
  <2>1. db.record_size \in {24, 28, 32}
    BY DEF File
  <2>2. node_byte_size(db) \in Nat
    BY <2>1 DEF node_byte_size
  <2> QED BY <1>1, <2>2 DEF search_tree_size
<1> QED BY <1>1, <1>2 DEF PointsPastEnd, PastEnd, buffer_size, _DATA_SECTION_SEPARATOR_SIZE

\* What yield_network does with a record that is settled.
LEMMA YieldKeepsInvariant ==
  ASSUME IterationInvariant, status = "running", pending # <<>>, UNCHANGED <<db, impl>>,
         NEW net, Settled(net, Head(pending)), yield_network(net, Head(pending).record)
  PROVE  IterationInvariant'
<1> USE DEF IterationInvariant
<1>1. CASE net = NoNetwork
  <2>1. MayRaise(Head(pending)) /\ status' = "raised" /\ UNCHANGED <<pending, out>>
    BY <1>1 DEF Settled, yield_network, Raise
  <2>2. MayRaise(Head(pending))'
    BY <2>1 DEF MayRaise, PastEnd
  <2>3. CallsOK' /\ ItemsOK'
    BY <2>1, Kept, OutKept
  <2> QED BY <2>2, <2>3
<1>2. CASE net # NoNetwork
  <2>1. /\ Answered(net, Head(pending).record) /\ pending' = Tail(pending) /\ status' = status
        /\ out' = Append(out, [net |-> net, pointer |-> Head(pending).record])
    BY <1>2 DEF Settled, yield_network, Yield
  <2>2. CallsOK'
    BY <2>1, Dropped
  <2>3. ItemsOK'
    BY <2>1, OutGrown
  <2> QED BY <2>1, <2>2, <2>3
<1> QED BY <1>1, <1>2

\* The types of records of the C iterator.
LEMMA TypeOfRecord ==
  ASSUME IterationInvariant, impl = "c", NEW call, CallOK(call)
  PROVE  /\ type_of(call) = "invalid" => MayRaise(call)
         /\ type_of(call) = "node" => call.record < db.node_count
         /\ type_of(call) = "data" => /\ call.record > db.node_count
                                      /\ ~ PointsPastEnd(db, call.record)
<1>1. /\ File(db) /\ call.record \in Nat /\ call.depth \in Nat /\ Placed(call)
      /\ db.node_count \in Nat /\ db.node_count > 0 /\ db.data_size \in Nat
  BY BitsAreWidth DEF IterationInvariant, CallOK, File
<1>2. PointsPastEnd(db, call.record) <=> PastEnd(call.record)
  BY <1>1, PastEndAgrees
<1>3. CASE call.depth = 0
  <2>1. type_of(call) = "node"
    BY <1>3 DEF type_of
  <2>2. call.record = 0
    <3>1. 0 \in 0..Bits(db) /\ 0 <= Bits(db)
      BY <1>1, BitsAreWidth
    <3>2. PICK p \in 0..(2^0 - 1) : At(0, p, call.record)
      BY <1>1, <1>3, <3>1 DEF Placed
    <3>3. PICK a \in 0..(2^Bits(db) - 1) : HasPrefix(a, Bits(db), 0, p)
      BY <1>1, <3>1, PrefixIsTaken
    <3>4. TreeWalk(a)[0] = call.record
      BY <3>2, <3>3 DEF At
    <3>5. a \in Nat
      <4>1. 2^Bits(db) \in Nat
        BY <1>1, BitsAreWidth, PowerPositive
      <4> QED BY <4>1
    <3>6. TreeWalk(a)[0] = 0
      BY <1>1, <3>5, TreeWalkIsWalk DEF Walk
    <3> QED BY <3>4, <3>6
  <2> QED BY <1>1, <2>1, <2>2
<1>4. CASE call.depth # 0
  <2>1. type_of(call) = record_type(db, call.record)
    BY <1>4 DEF type_of
  <2>2. CASE call.record = 0
    <3>1. MayRaise(call) /\ type_of(call) = "invalid"
      BY <1>1, <1>4, <2>1, <2>2 DEF MayRaise, record_type
    <3> QED BY <3>1
  <2>3. CASE call.record # 0 /\ call.record < db.node_count
    BY <2>1, <2>3 DEF record_type
  <2>4. CASE call.record # 0 /\ call.record = db.node_count
    BY <1>1, <2>1, <2>4 DEF record_type
  <2>5. CASE /\ call.record > db.node_count
             /\ call.record < db.node_count + _DATA_SECTION_SEPARATOR_SIZE + db.data_size
    <3>1. ~ PastEnd(call.record)
      BY <1>1, <2>5 DEF PastEnd, _DATA_SECTION_SEPARATOR_SIZE
    <3>2. type_of(call) = "data"
      BY <1>1, <2>1, <2>5 DEF record_type
    <3> QED BY <1>2, <2>5, <3>1, <3>2
  <2>6. CASE /\ call.record > db.node_count
             /\ ~ (call.record < db.node_count + _DATA_SECTION_SEPARATOR_SIZE + db.data_size)
    <3>1. PastEnd(call.record)
      BY <1>1, <2>6 DEF PastEnd, _DATA_SECTION_SEPARATOR_SIZE
    <3>2. type_of(call) = "invalid"
      BY <1>1, <2>1, <2>6 DEF record_type
    <3> QED BY <2>6, <3>1, <3>2 DEF MayRaise
  <2> QED BY <1>1, <2>2, <2>3, <2>4, <2>5, <2>6
<1> QED BY <1>3, <1>4

\* A step that takes the next call off the list and does nothing else.
LEMMA DropKeepsInvariant ==
  ASSUME IterationInvariant, status = "running", pending # <<>>, UNCHANGED <<db, impl>>, Drop
  PROVE  IterationInvariant'
<1>1. pending' = Tail(pending) /\ out' = out /\ status' = "running"
  BY DEF Drop
<1>2. CallsOK' /\ ItemsOK'
  BY <1>1, Dropped, OutKept DEF IterationInvariant
<1> QED BY <1>1, <1>2 DEF IterationInvariant

\* A step that goes on to the children of a node.
LEMMA DescendKeepsInvariant ==
  ASSUME IterationInvariant, status = "running", pending # <<>>, UNCHANGED <<db, impl, out, status>>,
         Head(pending).record < db.node_count,
         NEW left, NEW right, ChildOf(Head(pending), 0, left), ChildOf(Head(pending), 1, right),
         pending' = <<left, right>> \o Tail(pending)
  PROVE  IterationInvariant'
<1>1. CallOK(Head(pending))
  <2>1. PICK S : pending \in Seq(S) /\ \A call \in S : CallOK(call)
    BY DEF IterationInvariant, CallsOK
  <2> QED BY <2>1
<1>2. CallOK(left) /\ CallOK(right)
  BY <1>1, ChildOK DEF IterationInvariant
<1>3. CallsOK' /\ ItemsOK'
  BY <1>2, Replaced, OutKept DEF IterationInvariant
<1> QED BY <1>3 DEF IterationInvariant

\* A step of the Python generator keeps the invariant.
LEMMA PythonStep ==
  ASSUME IterationInvariant, _generate_children
  PROVE  IterationInvariant'
<1> DEFINE call  == Head(pending)
           child == [index \in 0..1 |->
                       [record |-> _read_node(db, call.record, index),
                        depth |-> call.depth + 1, ip |-> 2 * call.ip + index]]
<1>1. /\ impl = "python" /\ status = "running" /\ pending # <<>> /\ UNCHANGED <<db, impl>>
      /\ \/ skip_alias_python(call) /\ Drop
         \/ /\ ~skip_alias_python(call) /\ call.record > db.node_count
            /\ IF PointsPastEnd(db, call.record)
                 THEN Raise ELSE yield_network(network_of_python(call), call.record)
         \/ ~skip_alias_python(call) /\ call.record = db.node_count /\ Drop
         \/ /\ ~skip_alias_python(call) /\ call.record < db.node_count
            /\ pending' = <<child[0], child[1]>> \o Tail(pending)
            /\ UNCHANGED <<out, status>>
  BY DEF _generate_children
<1>2. CallOK(call) /\ File(db) /\ CallsOK /\ ItemsOK
  <2>1. PICK S : pending \in Seq(S) /\ \A c \in S : CallOK(c)
    BY DEF IterationInvariant, CallsOK
  <2> QED BY <1>1, <2>1 DEF IterationInvariant
<1>3. CASE Drop
  BY <1>1, <1>3, DropKeepsInvariant
<1>4. CASE call.record > db.node_count /\ PointsPastEnd(db, call.record) /\ Raise
  <2>1. PastEnd(call.record)
    BY <1>2, <1>4, PastEndAgrees DEF CallOK
  <2>2. MayRaise(call)
    BY <1>4, <2>1 DEF MayRaise
  <2>3. UNCHANGED <<pending, out>>
    BY <1>4 DEF Raise
  <2>4. MayRaise(call)'
    BY <1>1, <2>2, <2>3 DEF MayRaise, PastEnd
  <2>5. CallsOK' /\ ItemsOK'
    BY <1>1, <1>2, <2>3, Kept, OutKept
  <2> QED BY <1>1, <2>4, <2>5 DEF IterationInvariant
<1>5. CASE /\ call.record > db.node_count /\ ~ PointsPastEnd(db, call.record)
           /\ yield_network(network_of_python(call), call.record)
  <2>1. Settled(network_of_python(call), call)
    BY <1>1, <1>2, <1>5, RecordSettled
  <2> QED BY <1>1, <1>5, <2>1, YieldKeepsInvariant
<1>6. CASE /\ call.record < db.node_count /\ pending' = <<child[0], child[1]>> \o Tail(pending)
           /\ UNCHANGED <<out, status>>
  <2>1. call.record \in 0..(db.node_count - 1)
    BY <1>2, <1>6, BitsAreWidth DEF CallOK
  <2>2. ASSUME NEW index \in {0, 1} PROVE ChildOf(call, index, child[index])
    <3>1. _read_node(db, call.record, index) = db.tree[call.record + 1][index + 1]
      BY <1>2, <2>1 DEF File, ReadsNodes
    <3>2. index \in 0..1
      OBVIOUS
    <3> HIDE DEF call
    <3>3. /\ child[index].record = _read_node(db, call.record, index)
          /\ child[index].depth = call.depth + 1 /\ child[index].ip = 2 * call.ip + index
      BY <3>2
    <3> QED BY <1>1, <3>1, <3>3 DEF ChildOf
  <2> HIDE DEF child
  <2>3. ChildOf(call, 0, child[0]) /\ ChildOf(call, 1, child[1])
    BY <2>2
  <2> QED BY <1>1, <1>6, <2>3, DescendKeepsInvariant
<1> QED BY <1>1, <1>3, <1>4, <1>5, <1>6

\* A step of the C iterator keeps the invariant.
LEMMA CStep ==
  ASSUME IterationInvariant, ReaderIter_next
  PROVE  IterationInvariant'
<1> DEFINE rec  == Head(pending)
           side == [index \in 0..1 |->
                      [record |-> db.tree[rec.record + 1][index + 1], depth |-> rec.depth + 1,
                       ip |-> rec.ip + index * BitValue(rec.depth)]]
<1>1. /\ impl = "c" /\ status = "running" /\ pending # <<>> /\ UNCHANGED <<db, impl>>
      /\ \/ type_of(rec) = "invalid" /\ Raise
         \/ type_of(rec) = "node" /\ skip_alias_c(rec) /\ Drop
         \/ /\ type_of(rec) = "node" /\ ~skip_alias_c(rec)
            /\ pending' = <<side[0], side[1]>> \o Tail(pending)
            /\ UNCHANGED <<out, status>>
         \/ type_of(rec) = "empty" /\ Drop
         \/ type_of(rec) = "data" /\ yield_network(network_of_c(rec), rec.record)
  BY DEF ReaderIter_next
<1>2. CallOK(rec) /\ File(db) /\ CallsOK /\ ItemsOK
  <2>1. PICK S : pending \in Seq(S) /\ \A c \in S : CallOK(c)
    BY DEF IterationInvariant, CallsOK
  <2> QED BY <1>1, <2>1 DEF IterationInvariant
<1>3. CASE Drop
  BY <1>1, <1>3, DropKeepsInvariant
<1>4. CASE type_of(rec) = "invalid" /\ Raise
  <2>1. MayRaise(rec)
    BY <1>1, <1>2, <1>4, TypeOfRecord
  <2>2. UNCHANGED <<pending, out>>
    BY <1>4 DEF Raise
  <2>3. MayRaise(rec)'
    BY <1>1, <2>1, <2>2 DEF MayRaise, PastEnd
  <2>4. CallsOK' /\ ItemsOK'
    BY <1>1, <1>2, <2>2, Kept, OutKept
  <2> QED BY <1>1, <2>3, <2>4 DEF IterationInvariant
<1>5. CASE type_of(rec) = "data" /\ yield_network(network_of_c(rec), rec.record)
  <2>1. rec.record > db.node_count /\ ~ PointsPastEnd(db, rec.record)
    BY <1>1, <1>2, <1>5, TypeOfRecord
  <2>2. Settled(network_of_c(rec), rec)
    BY <1>1, <1>2, <2>1, RecordSettled
  <2> QED BY <1>1, <1>5, <2>2, YieldKeepsInvariant
<1>6. CASE /\ type_of(rec) = "node" /\ pending' = <<side[0], side[1]>> \o Tail(pending)
           /\ UNCHANGED <<out, status>>
  <2>1. rec.record < db.node_count
    BY <1>1, <1>2, <1>6, TypeOfRecord
  <2>2. ASSUME NEW index \in {0, 1} PROVE ChildOf(rec, index, side[index])
    <3>1. index \in 0..1
      OBVIOUS
    <3> HIDE DEF rec
    <3>2. /\ side[index].record = db.tree[rec.record + 1][index + 1]
          /\ side[index].depth = rec.depth + 1
          /\ side[index].ip = rec.ip + index * BitValue(rec.depth)
      BY <3>1
    <3> QED BY <1>1, <3>2 DEF ChildOf
  <2> HIDE DEF side
  <2>3. ChildOf(rec, 0, side[0]) /\ ChildOf(rec, 1, side[1])
    BY <2>2
  <2> QED BY <1>1, <1>6, <2>1, <2>3, DescendKeepsInvariant
<1> QED BY <1>1, <1>3, <1>4, <1>5, <1>6

\* The invariant holds.
LEMMA IterationInvariantHolds == Spec => []IterationInvariant
<1>1. Init => IterationInvariant
  <2> SUFFICES ASSUME Init PROVE IterationInvariant
    OBVIOUS
  <2>1. File(db) /\ impl \in {"python", "c"} /\ status # "raised"
    BY DatabaseIsFile DEF Init
  <2>2. CallsOK /\ ItemsOK
    <3>1. pending \in Seq({}) /\ out \in Seq({})
      BY DEF Init
    <3> QED BY <3>1 DEF CallsOK, ItemsOK
  <2> QED BY <2>1, <2>2 DEF IterationInvariant
<1>2. IterationInvariant /\ [Next]_vars => IterationInvariant'
  <2> SUFFICES ASSUME IterationInvariant, [Next]_vars PROVE IterationInvariant'
    OBVIOUS
  <2>1. CASE Start
    <3> DEFINE root == [record |-> 0, depth |-> 0, ip |-> 0]
    <3>1. pending' = <<root>> /\ status' = "running" /\ UNCHANGED <<db, impl, out>>
      BY <2>1 DEF Start
    <3>2. CallOK(root) /\ CallOK(root)'
      BY <3>1, RootOK, Lasting DEF IterationInvariant
    <3> HIDE DEF root
    <3>3. CallsOK'
      <4>1. pending' \in Seq({root}) /\ \A call \in {root} : CallOK(call)'
        BY <3>1, <3>2
      <4> QED BY <4>1 DEF CallsOK
    <3>4. ItemsOK'
      BY <3>1, OutKept DEF IterationInvariant
    <3> QED BY <3>1, <3>3, <3>4 DEF IterationInvariant
  <2>2. CASE Stop
    <3>1. status' = "stopped" /\ UNCHANGED <<db, impl, pending, out>>
      BY <2>2 DEF Stop
    <3>2. CallsOK' /\ ItemsOK'
      BY <3>1, Kept, OutKept DEF IterationInvariant
    <3> QED BY <3>1, <3>2 DEF IterationInvariant
  <2>3. CASE UNCHANGED vars
    <3>1. UNCHANGED <<db, impl, pending, out, status>>
      BY <2>3 DEF vars
    <3>2. CallsOK' /\ ItemsOK'
      BY <3>1, Kept, OutKept DEF IterationInvariant
    <3> QED BY <3>1, <3>2 DEF IterationInvariant, MayRaise, PastEnd
  <2> QED BY <2>1, <2>2, <2>3, PythonStep, CStep DEF Next
<1> QED BY <1>1, <1>2, PTL DEF Spec

\* Each address of a network that an iteration yields has that network's record
\* and prefix length by the lookups of both readers, whichever yields it.
THEOREM YieldsMatchLookupsSafety == Spec => []YieldsMatchLookups
<1>1. IterationInvariant => YieldsMatchLookups
  <2> SUFFICES ASSUME IterationInvariant, NEW k \in DOMAIN out
               PROVE  Answered(out[k].net, out[k].pointer)
    BY DEF YieldsMatchLookups, Answered
  <2>1. PICK S : out \in Seq(S) /\ \A item \in S : Answered(item.net, item.pointer)
    BY DEF IterationInvariant, ItemsOK
  <2>2. out[k] \in S
    BY <2>1
  <2> QED BY <2>1, <2>2
<1> QED BY <1>1, IterationInvariantHolds, PTL

\* An iteration raises at nothing but the records that RaisesOnlyAt names.
THEOREM RaisesOnlyAtSafety == Spec => []RaisesOnlyAt
<1>1. IterationInvariant => RaisesOnlyAt
  BY DEF IterationInvariant, MayRaise, RaisesOnlyAt
<1> QED BY <1>1, IterationInvariantHolds, PTL

-----------------------------------------------------------------------------
(* The records of a shallow tree.                                           *)

\* The ranks that make a tree shallow.
Ranks(tree, rank) ==
  /\ rank \in [0..(Len(tree) - 1) -> 0..(Len(tree) - 1)]
  /\ \A n \in DOMAIN rank :
       /\ rank[n] < V6Bits
       /\ \A index \in {1, 2} :
            tree[n + 1][index] < Len(tree) => rank[n] < rank[tree[n + 1][index]]

\* Powers of two up to n.
PowersTo(n) == \A k \in 1..n : 2^k = 2 * 2^(k - 1)

\* A file with a shallow tree.
ShallowFile(d) ==
  /\ File(d) /\ d.node_count = Len(d.tree) /\ PowersTo(d.node_count)
  /\ \E rank : Ranks(d.tree, rank)

\* A database with a shallow tree that is opened is such a file.
LEMMA ShallowFileOpened ==
  ASSUME Init, Shallow(db.tree)
  PROVE  ShallowFile(db)
<1>1. PICK size \in RecordSizes, version \in {4, 6} : \E tree \in Trees[size] :
        db = Database(tree, version, size, DataSize[size])
  BY DEF Init
<1>2. PICK tree \in Trees[size] : db = Database(tree, version, size, DataSize[size])
  BY <1>1
<1>3. File(db)
  BY <1>2, DatabaseIsFile
<1>4. db.tree = tree /\ db.node_count = Len(tree)
  BY <1>2 DEF Database
<1>5. PowersTo(Len(tree))
  BY DeepPowersAssumption, Zenon DEF PowersTo
<1>6. Shallow(tree)
  BY <1>4
<1>7. \E rank : Ranks(tree, rank)
  BY <1>6, Zenon DEF Shallow, Ranks
<1> QED BY <1>3, <1>4, <1>5, <1>7, Zenon DEF ShallowFile

\* Powers of two are positive, and each is twice the one before.
LEMMA PathPowers ==
  ASSUME NEW n \in Nat, PowersTo(n)
  PROVE  /\ \A k \in 0..n : 2^k \in Nat \ {0}
         /\ \A k \in 0..(n - 1) : 2^(k + 1) = 2 * 2^k
<1>1. ASSUME NEW k \in 0..(n - 1) PROVE 2^(k + 1) = 2 * 2^k
  <2>1. k + 1 \in 1..n /\ (k + 1) - 1 = k
    OBVIOUS
  <2> QED BY <2>1 DEF PowersTo
<1> DEFINE T == {k \in 0..n : 2^k \in Nat \ {0}}
<1>2. 0 \in T
  BY PowersAssumption
<1>3. ASSUME NEW k \in 0..(n - 1), k \in T PROVE k + 1 \in T
  <2>1. 2^(k + 1) = 2 * 2^k /\ k + 1 \in 0..n /\ 2^k \in Nat \ {0}
    BY <1>1, <1>3
  <2> QED BY <2>1
<1>4. 0 \in Nat /\ 0..n \subseteq T
  <2> HIDE DEF T
  <2> QED BY <1>2, <1>3, Upwards
<1> QED BY <1>1, <1>4

\* A prefix ends here: nothing of the iteration lies below it.
Ends(record, depth, prefix) ==
  record = Ended \/ record >= db.node_count \/ Alias(record, depth, prefix)

\* What RecordAt says of a prefix, by the prefix that is shorter by a bit.
Follows(depth, prefix) ==
  /\ prefix \div 2 \in 0..(2^(depth - 1) - 1)
  /\ RecordAt[depth][prefix] =
       IF Ends(RecordAt[depth - 1][prefix \div 2], depth - 1, prefix \div 2) THEN Ended
       ELSE db.tree[RecordAt[depth - 1][prefix \div 2] + 1][(prefix % 2) + 1]

\* The numbers that the proofs below use of a shallow tree.
LEMMA ShallowNumbers ==
  ASSUME ShallowFile(db)
  PROVE  /\ File(db) /\ db.node_count \in Nat \ {0} /\ db.node_count = Len(db.tree)
         /\ \A k \in 0..db.node_count : 2^k \in Nat \ {0}
         /\ \A k \in 0..(db.node_count - 1) : 2^(k + 1) = 2 * 2^k
         /\ 2^0 = 1
<1>1. File(db) /\ db.node_count \in Nat \ {0} /\ db.node_count = Len(db.tree)
  BY BitsAreWidth DEF ShallowFile, File
<1>2. PowersTo(db.node_count)
  BY DEF ShallowFile
<1> QED BY <1>1, <1>2, PathPowers, PowersAssumption

\* RecordAt's recursion has a solution: its equations hold.
LEMMA RecordAtFollows ==
  ASSUME ShallowFile(db)
  PROVE  /\ RecordAt[0][0] = 0
         /\ \A depth \in 1..db.node_count : \A prefix \in 0..(2^depth - 1) : Follows(depth, prefix)
<1> DEFINE N == db.node_count
           S == [Nat -> Nat \cup {Ended}]
           Step(h, depth) ==
             [prefix \in Nat |->
                IF Ends(h[prefix \div 2], depth - 1, prefix \div 2) THEN Ended
                ELSE db.tree[h[prefix \div 2] + 1][(prefix % 2) + 1]]
           G == [depth \in (0 + 1)..N |-> [h \in S |-> Step(h, depth)]]
           root == [prefix \in Nat |-> 0]
           Solves(at) == at = [depth \in 0..N |-> [prefix \in 0..(2^depth - 1) |->
             IF depth = 0 THEN 0
             ELSE IF Ends(at[depth - 1][prefix \div 2], depth - 1, prefix \div 2) THEN Ended
             ELSE db.tree[at[depth - 1][prefix \div 2] + 1][(prefix % 2) + 1]]]
<1>1. /\ N \in Nat \ {0} /\ N = Len(db.tree) /\ 2^0 = 1
      /\ \A k \in 0..N : 2^k \in Nat \ {0}
      /\ \A k \in 0..(N - 1) : 2^(k + 1) = 2 * 2^k
  BY ShallowNumbers
<1>2. ASSUME NEW x \in 0..(N - 1), NEW b \in {0, 1} PROVE db.tree[x + 1][b + 1] \in Nat
  BY ShallowNumbers DEF File, ReadsNodes
<1>3. RecordAt = CHOOSE at : Solves(at)
  BY <1>1, Zenon DEF RecordAt, Ends
<1>4. ASSUME NEW h \in S, NEW depth \in (0 + 1)..N PROVE Step(h, depth) \in S
  <2>1. ASSUME NEW prefix \in Nat,
               ~ Ends(h[prefix \div 2], depth - 1, prefix \div 2)
        PROVE  db.tree[h[prefix \div 2] + 1][(prefix % 2) + 1] \in Nat
    <3>1. prefix \div 2 \in Nat /\ prefix % 2 \in {0, 1}
      OBVIOUS
    <3>2. h[prefix \div 2] \in Nat \cup {Ended}
      BY <3>1
    <3>3. h[prefix \div 2] # Ended /\ ~ (h[prefix \div 2] >= N)
      BY <2>1 DEF Ends
    <3>4. h[prefix \div 2] \in 0..(N - 1)
      BY <1>1, <3>2, <3>3
    <3> QED BY <1>2, <3>1, <3>4
  <2> QED BY <2>1
<1>5. G \in [(0 + 1)..N -> [S -> S]]
  <2> HIDE DEF Step, S, N
  <2> QED BY <1>4
<1>6. PICK f : Recursion(f, 0, N, S, root, G)
  <2>1. root \in S /\ 0 \in Nat /\ N \in Nat /\ 0 <= N
    BY <1>1
  <2> HIDE DEF S, root, G, N
  <2> QED BY <1>5, <2>1, RecursionExists, Zenon
<1> DEFINE g == [depth \in 0..N |-> [prefix \in 0..(2^depth - 1) |-> f[depth][prefix]]]
<1>7. ASSUME NEW depth \in 1..N, NEW prefix \in 0..(2^depth - 1)
      PROVE  prefix \in Nat /\ prefix \div 2 \in 0..(2^(depth - 1) - 1)
  <2>1. depth - 1 \in 0..(N - 1) /\ (depth - 1) + 1 = depth /\ depth - 1 \in 0..N
    BY <1>1
  <2> DEFINE p == 2^(depth - 1)
  <2>2. 2^depth = 2 * p /\ p \in Nat
    BY <1>1, <2>1
  <2> HIDE DEF p
  <2>3. prefix \in 0..(2 * p - 1)
    BY <2>2
  <2> QED BY <2>2, <2>3 DEF p
<1>8. Solves(g)
  <2>1. ASSUME NEW depth \in 0..N, NEW prefix \in 0..(2^depth - 1)
        PROVE  f[depth][prefix] =
                 IF depth = 0 THEN 0
                 ELSE IF Ends(g[depth - 1][prefix \div 2], depth - 1, prefix \div 2) THEN Ended
                 ELSE db.tree[g[depth - 1][prefix \div 2] + 1][(prefix % 2) + 1]
    <3>1. CASE depth = 0
      <4>1. prefix \in Nat
        BY <1>1
      <4>2. f[0] = root
        BY <1>6 DEF Recursion
      <4> QED BY <3>1, <4>1, <4>2
    <3>2. CASE depth # 0
      <4>1. depth \in 1..N /\ depth \in (0 + 1)..N /\ depth - 1 \in 0..N
        BY <1>1, <3>2
      <4>2. prefix \in Nat /\ prefix \div 2 \in 0..(2^(depth - 1) - 1)
        BY <1>7, <4>1
      <4>3. f[depth - 1] \in S /\ f[depth] = G[depth][f[depth - 1]]
        BY <1>6, <4>1 DEF Recursion
      <4>4. G[depth][f[depth - 1]] = Step(f[depth - 1], depth)
        <5> HIDE DEF Step, S
        <5> QED BY <4>1, <4>3
      <4>5. g[depth - 1][prefix \div 2] = f[depth - 1][prefix \div 2]
        BY <4>1, <4>2
      <4>6. Step(f[depth - 1], depth)[prefix] =
              IF Ends(f[depth - 1][prefix \div 2], depth - 1, prefix \div 2) THEN Ended
              ELSE db.tree[f[depth - 1][prefix \div 2] + 1][(prefix % 2) + 1]
        BY <4>2
      <4> HIDE DEF Step, G, g, S
      <4> QED BY <3>2, <4>3, <4>4, <4>5, <4>6, Zenon
    <3> QED BY <3>1, <3>2
  <2> DEFINE Value(depth, prefix) ==
        IF depth = 0 THEN 0
        ELSE IF Ends(g[depth - 1][prefix \div 2], depth - 1, prefix \div 2) THEN Ended
        ELSE db.tree[g[depth - 1][prefix \div 2] + 1][(prefix % 2) + 1]
  <2>2. \A depth \in 0..N : \A prefix \in 0..(2^depth - 1) : f[depth][prefix] = Value(depth, prefix)
    BY <2>1, Zenon
  <2>3. g = [depth \in 0..N |-> [prefix \in 0..(2^depth - 1) |-> Value(depth, prefix)]]
    <3> HIDE DEF Value
    <3> QED BY <2>2
  <2> HIDE DEF g
  <2> QED BY <2>3, Zenon
<1>9. Solves(RecordAt)
  <2> HIDE DEF Solves, g
  <2> QED BY <1>3, <1>8, Zenon
<1> HIDE DEF G, g, root, Step
<1>10. RecordAt[0][0] = 0
  <2>1. 0 \in 0..N /\ 0 \in 0..(2^0 - 1)
    BY <1>1
  <2> QED BY <1>9, <2>1
<1>11. ASSUME NEW depth \in 1..N, NEW prefix \in 0..(2^depth - 1) PROVE Follows(depth, prefix)
  <2>1. prefix \div 2 \in 0..(2^(depth - 1) - 1)
    BY <1>7
  <2>2. depth # 0 /\ depth \in 0..N
    BY <1>1
  <2>3. RecordAt[depth] = [p \in 0..(2^depth - 1) |->
             IF depth = 0 THEN 0
             ELSE IF Ends(RecordAt[depth - 1][p \div 2], depth - 1, p \div 2) THEN Ended
             ELSE db.tree[RecordAt[depth - 1][p \div 2] + 1][(p % 2) + 1]]
    BY <1>9, <2>2, Zenon
  <2>4. RecordAt[depth][prefix] =
          IF Ends(RecordAt[depth - 1][prefix \div 2], depth - 1, prefix \div 2) THEN Ended
          ELSE db.tree[RecordAt[depth - 1][prefix \div 2] + 1][(prefix % 2) + 1]
    BY <2>2, <2>3, Zenon
  <2> QED BY <2>1, <2>4, Zenon DEF Follows
<1> QED BY <1>10, <1>11

\* A prefix has a number for a record, or has ended.
LEMMA RecordIsNumber ==
  ASSUME ShallowFile(db)
  PROVE  \A depth \in 0..db.node_count : \A prefix \in 0..(2^depth - 1) :
           RecordAt[depth][prefix] \in Nat \cup {Ended}
<1> DEFINE N == db.node_count
           T == {depth \in 0..N :
                   \A prefix \in 0..(2^depth - 1) : RecordAt[depth][prefix] \in Nat \cup {Ended}}
<1>1. N \in Nat \ {0} /\ 2^0 = 1
  BY ShallowNumbers
<1>2. 0 \in T
  <2>1. \A prefix \in 0..(2^0 - 1) : prefix = 0
    BY <1>1
  <2> QED BY <1>1, <2>1, RecordAtFollows
<1>3. ASSUME NEW depth \in 0..(N - 1), depth \in T PROVE depth + 1 \in T
  <2>1. depth + 1 \in 1..N /\ depth + 1 \in 0..N /\ (depth + 1) - 1 = depth
    BY <1>1
  <2>2. ASSUME NEW prefix \in 0..(2^(depth + 1) - 1)
        PROVE  RecordAt[depth + 1][prefix] \in Nat \cup {Ended}
    <3> DEFINE above == RecordAt[depth][prefix \div 2]
    <3>1. Follows(depth + 1, prefix)
      BY <2>1, RecordAtFollows
    <3>2. prefix \div 2 \in 0..(2^depth - 1)
      BY <2>1, <3>1 DEF Follows
    <3>3. above \in Nat \cup {Ended}
      BY <1>3, <3>2
    <3>4. RecordAt[depth + 1][prefix] =
            IF Ends(above, depth, prefix \div 2) THEN Ended
            ELSE db.tree[above + 1][(prefix % 2) + 1]
      BY <2>1, <3>1 DEF Follows
    <3>5. prefix % 2 \in {0, 1}
      <4>1. prefix \in Int
        <5>1. 2^(depth + 1) \in Nat
          BY <2>1, ShallowNumbers
        <5> QED BY <5>1
      <4> QED BY <4>1
    <3>6. CASE ~ Ends(above, depth, prefix \div 2)
      <4>1. above \in 0..(N - 1)
        BY <1>1, <3>3, <3>6 DEF Ends
      <4>2. db.tree[above + 1][(prefix % 2) + 1] \in Nat
        BY <3>5, <4>1, ShallowNumbers DEF File, ReadsNodes
      <4> QED BY <3>4, <3>6, <4>2
    <3> QED BY <3>4, <3>6
  <2> QED BY <2>1, <2>2
<1>4. 0 \in Nat /\ 0..N \subseteq T
  <2> HIDE DEF T
  <2> QED BY <1>1, <1>2, <1>3, Upwards
<1> QED BY <1>4

\* What the records above a prefix of the iteration are, j bits up.
Met(depth, prefix, j, rank) ==
  /\ prefix \div 2^j \in 0..(2^(depth - j) - 1)
  /\ RecordAt[depth - j][prefix \div 2^j] \in Nat
  /\ j > 0 => ~ Ends(RecordAt[depth - j][prefix \div 2^j], depth - j, prefix \div 2^j)
  /\ RecordAt[depth][prefix] < db.node_count =>
       rank[RecordAt[depth - j][prefix \div 2^j]] + j <= rank[RecordAt[depth][prefix]]

\* The way to a prefix that has not ended: nodes that are no aliases, of
\* growing rank.
LEMMA PathMeets ==
  ASSUME ShallowFile(db), NEW rank, Ranks(db.tree, rank),
         NEW depth \in 0..db.node_count, NEW prefix \in 0..(2^depth - 1),
         RecordAt[depth][prefix] # Ended
  PROVE  \A j \in 0..depth : Met(depth, prefix, j, rank)
<1> DEFINE N == db.node_count
           T == {j \in 0..depth : Met(depth, prefix, j, rank)}
           r == RecordAt[depth][prefix]
<1>1. N \in Nat \ {0} /\ 2^0 = 1 /\ depth \in Nat /\ 2^depth \in Nat /\ prefix \in Nat
      /\ N = Len(db.tree)
  <2>1. 2^depth \in Nat
    BY ShallowNumbers
  <2> QED BY <2>1, ShallowNumbers
<1>2. r \in Nat
  BY RecordIsNumber
<1>3. \A n \in 0..(N - 1) : rank[n] \in Nat /\ rank[n] < N
  BY <1>1 DEF Ranks
<1>4. 0 \in T
  <2>1. prefix \div 2^0 = prefix /\ depth - 0 = depth
    BY <1>1
  <2>2. r < N => rank[r] + 0 <= rank[r]
    BY <1>1, <1>2, <1>3
  <2> QED BY <1>1, <1>2, <2>1, <2>2 DEF Met
<1>5. ASSUME NEW j \in 0..(depth - 1), j \in T PROVE j + 1 \in T
  <2> DEFINE d == depth - j
             q == prefix \div 2^j
             above == RecordAt[d - 1][q \div 2]
             here == RecordAt[d][q]
  <2>1. /\ d \in 1..N /\ j + 1 \in 0..depth /\ depth - (j + 1) = d - 1 /\ j \in 0..N
        /\ j \in 0..(N - 1) /\ d - 1 \in 0..N
    BY <1>1
  <2>2. Met(depth, prefix, j, rank)
    BY <1>5
  <2>3. q \in 0..(2^d - 1) /\ here \in Nat
    BY <2>2 DEF Met
  <2>4. prefix \div 2^(j + 1) = q \div 2
    <3> DEFINE p == 2^j
    <3>1. 2^(j + 1) = 2 * p /\ p \in Nat \ {0}
      BY <2>1, ShallowNumbers
    <3> HIDE DEF p
    <3>2. prefix \div (2 * p) = (prefix \div p) \div 2
      BY <1>1, <3>1, Halved
    <3> QED BY <3>1, <3>2 DEF p
  <2> HIDE DEF d, q
  <2>5. Follows(d, q)
    BY <2>1, <2>3, RecordAtFollows
  <2>6. here # Ended
    BY <2>3 DEF Ended
  <2>7. q \div 2 \in 0..(2^(d - 1) - 1) /\ ~ Ends(above, d - 1, q \div 2)
        /\ here = db.tree[above + 1][(q % 2) + 1]
    BY <2>5, <2>6 DEF Follows
  <2>8. above \in Nat \cup {Ended}
    BY <2>1, <2>7, RecordIsNumber
  <2>9. above \in 0..(N - 1)
    BY <1>1, <2>7, <2>8 DEF Ends
  <2>10. (q % 2) + 1 \in {1, 2}
    <3>1. q \in Int
      <4>1. 2^d \in Nat
        BY <2>1, ShallowNumbers
      <4> QED BY <2>3, <4>1
    <3> QED BY <3>1
  <2>11. here < N => rank[above] < rank[here]
    BY <1>1, <2>7, <2>9, <2>10 DEF Ranks
  <2>12. ASSUME r < N PROVE rank[above] + (j + 1) <= rank[r]
    <3>1. rank[here] + j <= rank[r]
      BY <2>2, <2>12 DEF Met, d, q
    <3>2. here < N
      <4>1. CASE j = 0
        <5>1. d = depth /\ q = prefix
          BY <1>1, <4>1 DEF d, q
        <5> QED BY <2>12, <5>1
      <4>2. CASE j # 0
        <5>1. j > 0
          BY <4>2
        <5>2. ~ Ends(here, d, q)
          BY <2>2, <5>1 DEF Met, d, q
        <5> QED BY <1>1, <2>3, <5>2 DEF Ends
      <4> QED BY <4>1, <4>2
    <3>3. rank[here] \in Nat /\ rank[above] \in Nat /\ rank[r] \in Nat
      <4>1. here \in 0..(N - 1) /\ r \in 0..(N - 1)
        BY <1>1, <1>2, <2>3, <2>12, <3>2
      <4> QED BY <1>3, <2>9, <4>1
    <3> HIDE DEF here, above, r
    <3> QED BY <2>11, <3>1, <3>2, <3>3
  <2> HIDE DEF above, here, r
  <2>13. above = RecordAt[depth - (j + 1)][prefix \div 2^(j + 1)]
    BY <2>1, <2>4 DEF above
  <2>14. Met(depth, prefix, j + 1, rank)
    BY <2>1, <2>4, <2>7, <2>9, <2>12, <2>13 DEF Met, r, above
  <2> QED BY <2>1, <2>14
<1>6. 0 \in Nat /\ 0..depth \subseteq T
  <2> HIDE DEF T
  <2> QED BY <1>1, <1>4, <1>5, Upwards
<1> QED BY <1>6

\* No path is longer than an IPv6 address, and none comes back to the root.
LEMMA PathIsShort ==
  ASSUME ShallowFile(db), NEW depth \in 0..db.node_count, NEW prefix \in 0..(2^depth - 1),
         RecordAt[depth][prefix] # Ended
  PROVE  /\ depth <= V6Bits
         /\ RecordAt[depth][prefix] < db.node_count =>
              depth < V6Bits /\ depth < db.node_count /\ (RecordAt[depth][prefix] = 0 => depth = 0)
<1> DEFINE N == db.node_count
<1>1. N \in Nat \ {0} /\ 2^0 = 1 /\ N = Len(db.tree) /\ V6Bits \in Nat
  BY ShallowNumbers, Widths
<1>2. PICK rank : Ranks(db.tree, rank)
  BY DEF ShallowFile
<1>3. \A n \in 0..(N - 1) : rank[n] \in Nat /\ rank[n] < N /\ rank[n] < V6Bits
  BY <1>1, <1>2 DEF Ranks
<1>4. ASSUME NEW d \in 0..N, NEW q \in 0..(2^d - 1), RecordAt[d][q] # Ended, RecordAt[d][q] < N
      PROVE  d < V6Bits /\ d < N /\ (RecordAt[d][q] = 0 => d = 0)
  <2>1. Met(d, q, d, rank)
    <3>1. d \in 0..d
      OBVIOUS
    <3> QED BY <1>2, <1>4, <3>1, PathMeets
  <2>2. d - d = 0 /\ q \div 2^d = 0
    <3>1. d - d = 0
      OBVIOUS
    <3>2. q \div 2^d \in 0..(2^0 - 1)
      BY <2>1, <3>1 DEF Met
    <3> QED BY <1>1, <3>1, <3>2
  <2>3. RecordAt[0][0] = 0
    BY RecordAtFollows
  <2> DEFINE r == RecordAt[d][q]
  <2>4. rank[0] + d <= rank[r]
    BY <1>4, <2>1, <2>2, <2>3 DEF Met
  <2>5. r \in 0..(N - 1)
    BY <1>1, <1>4, RecordIsNumber
  <2>6. rank[0] \in Nat /\ rank[r] \in Nat /\ rank[r] < N /\ rank[r] < V6Bits
    <3> HIDE DEF r, N
    <3>1. 0 \in 0..(N - 1)
      BY <1>1
    <3> QED BY <1>3, <2>5, <3>1
  <2> HIDE DEF r
  <2>7. d < V6Bits /\ d < N
    BY <1>1, <2>4, <2>6
  <2>8. r = 0 => d = 0
    BY <1>1, <2>4, <2>6
  <2> QED BY <2>7, <2>8 DEF r
<1>5. depth <= V6Bits
  <2>1. CASE depth = 0
    BY <1>1, <2>1
  <2>2. CASE depth # 0
    <3> DEFINE d == depth - 1
               q == prefix \div 2
               above == RecordAt[d][q]
    <3>1. depth \in 1..N /\ d \in 0..N
      BY <1>1, <2>2
    <3>2. Follows(depth, prefix)
      BY <3>1, RecordAtFollows
    <3>3. q \in 0..(2^d - 1) /\ ~ Ends(above, d, q)
      BY <3>2 DEF Follows
    <3>4. above \in Nat \cup {Ended}
      BY <3>1, <3>3, RecordIsNumber
    <3>5. above # Ended /\ above < N
      BY <1>1, <3>3, <3>4 DEF Ends
    <3>6. d < V6Bits
      BY <1>4, <3>1, <3>3, <3>5
    <3> QED BY <1>1, <3>1, <3>6
  <2> QED BY <2>1, <2>2
<1> QED BY <1>4, <1>5

\* The start nodes of the two readers are one.
LEMMA V4RootIsStart ==
  ASSUME File(db)
  PROVE  /\ _ipv4_start(db) = V4Root /\ V4Root \in Nat
         /\ db.ip_version = 4 => V4Root = 0
         /\ db.ip_version = 6 => V4Root = StartWalk(db)[Gap]
<1>1. ReadsNodes(db) /\ db.ip_version \in {4, 6}
  BY DEF File
<1>2. _ipv4_start(db) = IF db.ip_version = 6 THEN StartWalk(db)[Gap] ELSE 0
  BY Zenon DEF _ipv4_start, StartWalk
<1>3. CASE db.ip_version = 6
  <2>1. V4Root = StartWalk(db)[Gap]
    BY <1>1, <1>3, StartNodeC DEF V4Root
  <2>2. StartWalk(db)[Gap] \in Nat
    BY <1>1, StartWalkIsWalk, Widths DEF Walk
  <2> QED BY <1>2, <1>3, <2>1, <2>2
<1>4. CASE db.ip_version = 4
  <2>1. ~ (db.ip_version = 6)
    BY <1>4
  <2>2. V4Root = 0
    BY <2>1, Zenon DEF V4Root, ipv4_start_node
  <2> QED BY <1>2, <1>4, <2>1, <2>2
<1> QED BY <1>1, <1>3, <1>4

\* The IPv4 subtree lies at ::/96.
LEMMA V4RootAtGap ==
  ASSUME ShallowFile(db), db.ip_version = 6, V4Root < db.node_count
  PROVE  Gap < db.node_count /\ RecordAt[Gap][0] = V4Root
<1> DEFINE N == db.node_count
           w == StartWalk(db)
           T == {i \in 0..Gap : i < N /\ RecordAt[i][0] = w[i]}
<1>1. /\ N \in Nat \ {0} /\ 2^0 = 1 /\ Gap \in Nat /\ V4Root = w[Gap] /\ V4Root \in Nat
      /\ ReadsNodes(db)
  BY ShallowNumbers, Widths, V4RootIsStart DEF File
<1>2. Walk(w, 0, Gap, 0, N, LeftOf(db))
  BY <1>1, StartWalkIsWalk
<1>3. ASSUME NEW i \in 0..Gap PROVE w[i] \in Nat /\ w[i] < N
  <2>1. w[i] \in Nat
    BY <1>2 DEF Walk
  <2>2. ASSUME w[i] >= N PROVE FALSE
    <3>1. \A j \in i..Gap : w[j] = w[i]
      <4> HIDE DEF N, w
      <4> QED BY <1>1, <1>2, <2>2, WalkStays
    <3>2. w[Gap] = w[i]
      BY <1>1, <3>1
    <3> QED BY <1>1, <2>2, <3>2
  <2> QED BY <1>1, <2>1, <2>2
<1>4. 0 \in T
  BY <1>1, <1>2, RecordAtFollows DEF Walk
<1>5. ASSUME NEW i \in 0..(Gap - 1), i \in T PROVE i + 1 \in T
  <2>1. /\ i + 1 \in 1..N /\ i + 1 \in 0..N /\ (i + 1) - 1 = i /\ i \in 0..Gap /\ i + 1 \in 0..Gap
        /\ i + 1 \in (0 + 1)..Gap
    BY <1>1, <1>5
  <2>2. 0 \in 0..(2^(i + 1) - 1)
    <3>1. 2^(i + 1) \in Nat \ {0}
      BY <2>1, ShallowNumbers
    <3> QED BY <3>1
  <2>3. Follows(i + 1, 0)
    BY <2>1, <2>2, RecordAtFollows
  <2>4. 0 \div 2 = 0 /\ (0 % 2) + 1 = 1
    OBVIOUS
  <2>5. RecordAt[i][0] = w[i] /\ w[i] \in 0..(N - 1)
    BY <1>1, <1>3, <1>5, <2>1
  <2>6. ~ Ends(w[i], i, 0)
    <3>1. ~ Alias(w[i], i, 0)
      <4>1. V6Bits - i \in 0..V6Bits /\ V4Bits \in 0..V6Bits
        BY <2>1, Widths
      <4>2. 2^(V6Bits - i) \in Nat /\ 2^V4Bits \in Nat \ {0}
        BY <4>1, PowerPositive
      <4>3. ~ (0 * 2^(V6Bits - i) >= 2^V4Bits)
        BY <4>2
      <4> QED BY <4>3 DEF Alias
    <3> QED BY <1>1, <2>5, <3>1 DEF Ends, Ended
  <2>7. RecordAt[i + 1][0] = db.tree[w[i] + 1][1]
    BY <2>1, <2>3, <2>4, <2>5, <2>6 DEF Follows
  <2>8. w[i + 1] = db.tree[w[i] + 1][1]
    <3>1. LeftOf(db)[i + 1][w[i]] = db.tree[w[i] + 1][1]
      BY <2>1, <2>5 DEF LeftOf
    <3>2. w[i + 1] = IF w[i] >= N THEN w[i] ELSE LeftOf(db)[i + 1][w[i]]
      BY <1>2, <2>1 DEF Walk
    <3> QED BY <1>1, <1>3, <2>1, <3>1, <3>2
  <2>9. RecordAt[i + 1][0] # Ended /\ RecordAt[i + 1][0] < N
    BY <1>3, <2>1, <2>7, <2>8 DEF Ended
  <2>10. i + 1 < N
    BY <2>1, <2>2, <2>9, PathIsShort
  <2> QED BY <2>1, <2>7, <2>8, <2>10
<1>6. 0 \in Nat /\ 0..Gap \subseteq T
  <2> HIDE DEF T
  <2> QED BY <1>1, <1>4, <1>5, Upwards
<1>7. Gap \in T
  BY <1>1, <1>6
<1> QED BY <1>1, <1>7

\* Where a prefix begins, as an IPv6 address.
First(depth, prefix) == prefix * 2^(V6Bits - depth)

\* The records that either implementation takes for an alias of the IPv4
\* subtree: Python by a prefix that is not zero, C by an address above ::/96.
LEMMA AliasSkipped ==
  ASSUME ShallowFile(db), NEW depth \in 0..db.node_count, NEW prefix \in 0..(2^depth - 1),
         NEW record \in 0..(db.node_count - 1), RecordAt[depth][prefix] = record
  PROVE  /\ Alias(record, depth, prefix) <=> record = V4Root /\ prefix # 0
         /\ Alias(record, depth, prefix) <=> record = V4Root /\ First(depth, prefix) >= 2^V4Bits
<1> DEFINE N == db.node_count
           x == First(depth, prefix)
           y == 2^V4Bits
<1>1. /\ N \in Nat \ {0} /\ 2^0 = 1 /\ Gap \in Nat /\ V4Bits \in Nat /\ V6Bits = Gap + V4Bits
      /\ File(db) /\ db.ip_version \in {4, 6} /\ record < N /\ record # Ended
  <2>1. N \in Nat \ {0} /\ 2^0 = 1 /\ File(db)
    BY ShallowNumbers
  <2>2. record < N /\ record # Ended
    BY <2>1 DEF Ended
  <2> QED BY <2>1, <2>2, Widths DEF File
<1>2. depth \in 0..V6Bits /\ depth \in Nat /\ (record = 0 => depth = 0)
  BY <1>1, PathIsShort
<1>3. prefix \in Nat /\ y \in Nat \ {0} /\ 2^(V6Bits - depth) \in Nat \ {0} /\ x \in Nat
  <2>1. V6Bits - depth \in 0..V6Bits /\ V4Bits \in 0..V6Bits
    BY <1>1, <1>2
  <2>2. y \in Nat \ {0} /\ 2^(V6Bits - depth) \in Nat \ {0} /\ 2^depth \in Nat
    BY <1>2, <2>1, PowerPositive
  <2> DEFINE s == 2^(V6Bits - depth)
  <2>3. prefix \in Nat /\ s \in Nat
    BY <2>2
  <2> HIDE DEF s
  <2>4. prefix * s \in Nat
    BY <2>3
  <2> QED BY <2>2, <2>3, <2>4 DEF First, s
<1>4. prefix = 0 => x = 0
  <2> DEFINE s == 2^(V6Bits - depth)
  <2>1. s \in Nat
    BY <1>3
  <2> HIDE DEF s
  <2>2. 0 * s = 0
    BY <2>1
  <2> QED BY <2>2 DEF First, s
<1>5. depth = 0 => prefix = 0
  BY <1>1
<1>6. Alias(record, depth, prefix) <=> db.ip_version = 6 /\ record = V4Root /\ x >= y
  BY <1>1 DEF Alias, First
<1>7. CASE db.ip_version = 4
  <2>1. V4Root = 0
    BY <1>1, <1>7, V4RootIsStart
  <2> HIDE DEF x, y
  <2> QED BY <1>2, <1>3, <1>4, <1>5, <1>6, <1>7, <2>1 DEF x, y
<1>8. CASE db.ip_version = 6
  <2>1. ASSUME record = V4Root, prefix # 0, x < y PROVE FALSE
    <3>1. depth \in 0..Bits(db) /\ Bits(db) = V6Bits
      BY <1>1, <1>2, <1>8, BitsAreWidth
    <3>2. ~ (depth < Gap)
      <4>1. x = prefix * 2^(Bits(db) - depth)
        BY <3>1 DEF First
      <4> QED BY <1>1, <1>3, <1>8, <2>1, <3>1, <4>1, ShortPrefixIsZero
    <3> DEFINE p == 2^(depth - Gap)
               s == 2^(V6Bits - depth)
    <3>3. y = p * s /\ p \in Nat \ {0} /\ s \in Nat \ {0} /\ depth - Gap \in 0..V6Bits
      <4>1. /\ depth - Gap \in 0..V6Bits /\ V6Bits - depth \in 0..(V6Bits - (depth - Gap))
            /\ V6Bits - depth \in 0..V6Bits /\ (depth - Gap) + (V6Bits - depth) = V4Bits
        BY <1>1, <1>2, <3>2
      <4>2. 2^((depth - Gap) + (V6Bits - depth)) = 2^(depth - Gap) * 2^(V6Bits - depth)
        BY <4>1, PowerOfSum
      <4> QED BY <4>1, <4>2, PowerPositive
    <3>4. x = prefix * s
      BY DEF First
    <3>5. prefix < p
      <4> HIDE DEF x, y, p, s
      <4>1. ASSUME p <= prefix PROVE FALSE
        <5>1. p * s <= prefix * s
          BY <1>3, <3>3, <4>1
        <5> DEFINE u == p * s
                   v == prefix * s
        <5>2. u \in Int /\ v \in Int /\ u <= v /\ v < u
          BY <1>3, <2>1, <3>3, <3>4, <5>1
        <5> HIDE DEF u, v
        <5> QED BY <5>2
      <4> QED BY <1>3, <3>3, <4>1
    <3>6. prefix \div p = 0
      <4> HIDE DEF p
      <4> QED BY <1>3, <3>3, <3>5
    <3>7. depth # Gap
      <4>1. ASSUME depth = Gap PROVE FALSE
        <5>1. p = 1
          <6>1. depth - Gap = 0
            BY <1>1, <4>1
          <6> QED BY <1>1, <6>1
        <5> HIDE DEF p
        <5> QED BY <1>3, <2>1, <3>5, <5>1
      <4> QED BY <4>1
    <3>8. PICK rank : Ranks(db.tree, rank)
      BY DEF ShallowFile
    <3> DEFINE j == depth - Gap
    <3>9. j \in 0..depth /\ depth - j = Gap /\ j > 0
      BY <1>1, <1>2, <3>2, <3>7
    <3>10. Met(depth, prefix, j, rank)
      BY <1>1, <3>8, <3>9, PathMeets
    <3>11. RecordAt[Gap][0] = record
      BY <1>1, <1>8, <2>1, V4RootAtGap
    <3>12. rank[record] + j <= rank[record]
      BY <1>1, <3>6, <3>9, <3>10, <3>11 DEF Met
    <3>13. rank[record] \in Nat
      BY <1>1, <3>8, ShallowNumbers DEF Ranks
    <3> HIDE DEF j
    <3> QED BY <3>9, <3>12, <3>13
  <2> HIDE DEF x, y
  <2> QED BY <1>3, <1>4, <1>6, <1>8, <2>1 DEF x, y
<1> QED BY <1>1, <1>7, <1>8

-----------------------------------------------------------------------------
(* A whole iteration.                                                       *)

\* The calls that wait, and the items that are yielded.
Calls == [record : Nat, depth : Nat, ip : Nat]

YieldedItems == [net : [version : {4, 6}, address : Nat, prefix : Nat], pointer : Nat]

\* The prefix that a call stands for.
PrefixOf(call) == IF impl = "python" THEN call.ip ELSE call.ip \div 2^(V6Bits - call.depth)

\* The IPv6 addresses that have it: the first, and the one after the last.
Begin(call) == First(call.depth, PrefixOf(call))

End(call) == Begin(call) + 2^(V6Bits - call.depth)

\* The first address of a network, as an IPv6 address.
NetBegin(net) == net.address * 2^(V6Bits - Bits(db))

\* A call is at the record of its prefix.
OnPath(call) ==
  /\ call.depth <= V6Bits /\ call.depth <= db.node_count
  /\ PrefixOf(call) \in 0..(2^call.depth - 1)
  /\ RecordAt[call.depth][PrefixOf(call)] = call.record
  /\ impl = "c" => call.ip = Begin(call)

\* The item of a data record.
Item(depth, prefix) == [net |-> NetworkOf(depth, prefix), pointer |-> RecordAt[depth][prefix]]

\* A prefix is that of a call, or lies below it.
Lies(call, depth, prefix) ==
  call.depth <= depth /\ prefix \div 2^(depth - call.depth) = PrefixOf(call)

\* The calls are in address order and do not overlap; the items that were
\* yielded are to be listed, in address order, and lie before every call.
Listing(calls, items) ==
  /\ calls \in Seq(Calls) /\ \A k \in 1..Len(calls) : OnPath(calls[k])
  /\ \A j, k \in 1..Len(calls) : j < k => End(calls[j]) <= Begin(calls[k])
  /\ items \in Seq(YieldedItems) /\ \A k \in 1..Len(items) : items[k] \in Listed
  /\ \A j, k \in 1..Len(items) : j < k => items[j].net.address < items[k].net.address
  /\ \A j \in 1..Len(items) : \A k \in 1..Len(calls) : NetBegin(items[j].net) < Begin(calls[k])

\* What is to be listed has been yielded, or lies below a call.
Covered(calls, items) ==
  \A p \in DataPrefixes : Item(p[1], p[2]) \in Listed =>
    \/ \E k \in 1..Len(items) : items[k] = Item(p[1], p[2])
    \/ \E k \in 1..Len(calls) : Lies(calls[k], p[1], p[2])

\* The inductive invariant of an iteration over a shallow tree.
ListingInvariant ==
  /\ ShallowFile(db) /\ impl \in {"python", "c"}
  /\ status \in {"opened", "running", "stopped", "raised"}
  /\ status = "opened" => out = <<>>
  /\ status \in {"opened", "stopped"} => pending = <<>>
  /\ Listing(pending, out)
  /\ status # "opened" => Covered(pending, out)

\* The reference depends on db and impl alone.
LEMMA ReferenceLasts ==
  ASSUME UNCHANGED <<db, impl>>
  PROVE  /\ RecordAt' = RecordAt /\ DataPrefixes' = DataPrefixes /\ Listed' = Listed
         /\ \A depth, prefix : NetworkOf(depth, prefix)' = NetworkOf(depth, prefix)
<1>1. db' = db /\ impl' = impl
  OBVIOUS
<1>2. RecordAt' = RecordAt
  BY <1>1, SMT DEF RecordAt, Alias, V4Root
<1>3. DataPrefixes' = DataPrefixes
  BY <1>1, <1>2, Zenon DEF DataPrefixes
<1>4. \A depth, prefix : NetworkOf(depth, prefix)' = NetworkOf(depth, prefix)
  BY <1>1 DEF NetworkOf
<1>5. Items' = Items
  <2> DEFINE ItemOf(p) == [net |-> NetworkOf(p[1], p[2]), pointer |-> RecordAt[p[1]][p[2]]]
  <2>1. Items = {ItemOf(p) : p \in DataPrefixes}
    BY Zenon DEF Items
  <2>2. Items' = {ItemOf(p)' : p \in DataPrefixes'}
    BY Zenon DEF Items
  <2>3. \A p : ItemOf(p)' = ItemOf(p)
    BY <1>1, <1>2 DEF NetworkOf
  <2> HIDE DEF ItemOf
  <2> QED BY <1>3, <2>1, <2>2, <2>3
<1>6. Listed' = Listed
  BY <1>1, <1>5, Zenon DEF Listed, V4Root
<1> QED BY <1>2, <1>3, <1>4, <1>6

\* So the invariant may be shown of the new calls and items in the old state.
LEMMA ListingLasts ==
  ASSUME UNCHANGED <<db, impl>>, Listing(pending', out')
  PROVE  Listing(pending, out)'
<1>1. db' = db /\ impl' = impl /\ RecordAt' = RecordAt /\ Listed' = Listed
  BY ReferenceLasts
<1> QED BY <1>1 DEF Listing, OnPath, Begin, End, First, PrefixOf, NetBegin

\* The same of what is covered.
LEMMA CoveredLasts ==
  ASSUME UNCHANGED <<db, impl>>, Covered(pending', out')
  PROVE  Covered(pending, out)'
<1>1. /\ db' = db /\ impl' = impl /\ RecordAt' = RecordAt /\ Listed' = Listed
      /\ DataPrefixes' = DataPrefixes
  BY ReferenceLasts
<1> QED BY <1>1 DEF Covered, Item, Lies, PrefixOf, NetworkOf

\* The first element of a sequence and the others.
LEMMA TailIs ==
  ASSUME NEW S, NEW s \in Seq(S), s # <<>>
  PROVE  /\ Head(s) = s[1] /\ Head(s) \in S /\ Len(s) \in Nat \ {0}
         /\ Tail(s) \in Seq(S) /\ Len(Tail(s)) = Len(s) - 1
         /\ \A k \in 1..(Len(s) - 1) : Tail(s)[k] = s[k + 1]
OBVIOUS

\* Two elements in place of the first.
LEMMA SpliceIs ==
  ASSUME NEW S, NEW s \in Seq(S), s # <<>>, NEW a \in S, NEW b \in S,
         NEW t, t = <<a, b>> \o Tail(s)
  PROVE  /\ t \in Seq(S) /\ Len(t) = Len(s) + 1 /\ t[1] = a /\ t[2] = b
         /\ \A k \in 3..Len(t) : t[k] = s[k - 1]
<1>1. /\ Len(s) \in Nat \ {0} /\ Tail(s) \in Seq(S) /\ Len(Tail(s)) = Len(s) - 1
      /\ \A k \in 1..(Len(s) - 1) : Tail(s)[k] = s[k + 1]
  BY TailIs
<1> DEFINE u == Tail(s)
           v == <<a, b>>
<1>2. v \in Seq(S) /\ Len(v) = 2 /\ v[1] = a /\ v[2] = b
  OBVIOUS
<1>3. u \in Seq(S) /\ t = v \o u /\ Len(u) = Len(s) - 1
  BY <1>1
<1> HIDE DEF u, v
<1>4. t \in Seq(S) /\ Len(t) = 2 + Len(u)
  BY <1>2, <1>3
<1>5. t[1] = a /\ t[2] = b
  BY <1>1, <1>2, <1>3
<1>6. ASSUME NEW k \in 3..Len(t) PROVE t[k] = s[k - 1]
  <2>1. t[k] = u[k - 2]
    <3>1. \A i \in 1..(Len(v) + Len(u)) : (v \o u)[i] = IF i <= Len(v) THEN v[i] ELSE u[i - Len(v)]
      BY <1>2, <1>3, ConcatProperties
    <3>2. k \in 1..(Len(v) + Len(u)) /\ ~ (k <= Len(v)) /\ k - Len(v) = k - 2
      BY <1>1, <1>2, <1>3, <1>4
    <3> QED BY <1>3, <3>1, <3>2, Zenon
  <2>2. k - 2 \in 1..(Len(s) - 1) /\ (k - 2) + 1 = k - 1
    BY <1>1, <1>3, <1>4
  <2> QED BY <1>1, <2>1, <2>2 DEF u
<1> QED BY <1>1, <1>3, <1>4, <1>5, <1>6

\* The numbers of a call that is on its path.
LEMMA OnPathNumbers ==
  ASSUME ShallowFile(db), NEW call \in Calls, OnPath(call)
  PROVE  /\ call.record \in Nat /\ call.ip \in Nat
         /\ call.depth \in 0..V6Bits /\ call.depth \in 0..db.node_count
         /\ PrefixOf(call) \in 0..(2^call.depth - 1) /\ PrefixOf(call) \in Nat
         /\ 2^(V6Bits - call.depth) \in Nat \ {0}
         /\ Begin(call) \in Nat /\ End(call) \in Nat /\ Begin(call) < End(call)
<1> DEFINE q == PrefixOf(call)
           s == 2^(V6Bits - call.depth)
<1>1. /\ call.record \in Nat /\ call.ip \in Nat /\ call.depth \in 0..V6Bits
      /\ call.depth \in 0..db.node_count /\ q \in 0..(2^call.depth - 1)
  BY ShallowNumbers, Widths DEF Calls, OnPath
<1>2. s \in Nat \ {0} /\ 2^call.depth \in Nat
  <2>1. V6Bits - call.depth \in 0..V6Bits
    BY <1>1, Widths
  <2> QED BY <1>1, <2>1, PowerPositive
<1>3. Begin(call) = q * s /\ End(call) = Begin(call) + s
  BY Zenon DEF Begin, End, First
<1> HIDE DEF q, s
<1>4. q \in Nat
  BY <1>1, <1>2
<1>5. q * s \in Nat
  BY <1>2, <1>4
<1>6. Begin(call) \in Nat /\ End(call) \in Nat /\ Begin(call) < End(call)
  BY <1>2, <1>3, <1>5
<1> QED BY <1>1, <1>2, <1>4, <1>6 DEF q, s

\* Every call of a list has the numbers of a call on its path.
LEMMA ListedCalls ==
  ASSUME ShallowFile(db), NEW calls, NEW items, Listing(calls, items)
  PROVE  \A k \in 1..Len(calls) :
           /\ calls[k] \in Calls /\ OnPath(calls[k])
           /\ Begin(calls[k]) \in Nat /\ End(calls[k]) \in Nat /\ Begin(calls[k]) < End(calls[k])
<1> SUFFICES ASSUME NEW k \in 1..Len(calls)
             PROVE  /\ calls[k] \in Calls /\ OnPath(calls[k])
                    /\ Begin(calls[k]) \in Nat /\ End(calls[k]) \in Nat
                    /\ Begin(calls[k]) < End(calls[k])
  OBVIOUS
<1>1. calls[k] \in Calls /\ OnPath(calls[k])
  BY DEF Listing
<1> QED BY <1>1, OnPathNumbers

\* A list stays in order when its first call is taken off.
LEMMA TailListing ==
  ASSUME NEW calls, NEW items, Listing(calls, items), calls # <<>>
  PROVE  Listing(Tail(calls), items)
<1> DEFINE t == Tail(calls)
<1>1. /\ calls \in Seq(Calls) /\ items \in Seq(YieldedItems)
      /\ \A k \in 1..Len(calls) : OnPath(calls[k])
      /\ \A j, k \in 1..Len(calls) : j < k => End(calls[j]) <= Begin(calls[k])
      /\ \A k \in 1..Len(items) : items[k] \in Listed
      /\ \A j, k \in 1..Len(items) : j < k => items[j].net.address < items[k].net.address
      /\ \A j \in 1..Len(items) : \A k \in 1..Len(calls) : NetBegin(items[j].net) < Begin(calls[k])
  BY DEF Listing
<1>2. /\ t \in Seq(Calls) /\ Len(t) = Len(calls) - 1 /\ Len(calls) \in Nat
      /\ \A k \in 1..(Len(calls) - 1) : t[k] = calls[k + 1]
  BY <1>1, TailIs
<1> HIDE DEF t
<1>3. ASSUME NEW k \in 1..Len(t) PROVE k + 1 \in 1..Len(calls) /\ t[k] = calls[k + 1]
  BY <1>2
<1>4. \A k \in 1..Len(t) : OnPath(t[k])
  BY <1>1, <1>3
<1>5. ASSUME NEW j \in 1..Len(t), NEW k \in 1..Len(t), j < k PROVE End(t[j]) <= Begin(t[k])
  <2>1. j + 1 < k + 1
    BY <1>2, <1>5
  <2> QED BY <1>1, <1>3, <2>1
<1>6. ASSUME NEW j \in 1..Len(items), NEW k \in 1..Len(t) PROVE NetBegin(items[j].net) < Begin(t[k])
  BY <1>1, <1>3
<1> QED BY <1>1, <1>2, <1>4, <1>5, <1>6, Zenon DEF Listing, t

\* What a data record of the tree is.
LEMMA DataPrefixIs ==
  ASSUME ShallowFile(db), NEW p \in DataPrefixes
  PROVE  /\ p[1] \in 0..db.node_count /\ p[2] \in 0..(2^p[1] - 1) /\ p = <<p[1], p[2]>>
         /\ RecordAt[p[1]][p[2]] \in Nat /\ RecordAt[p[1]][p[2]] > db.node_count
         /\ RecordAt[p[1]][p[2]] # Ended
<1>1. db.node_count = Len(db.tree) /\ db.node_count \in Nat
  BY ShallowNumbers
<1>2. /\ p \in UNION {{<<depth, prefix>> : prefix \in 0..(2^depth - 1)} : depth \in 0..Len(db.tree)}
      /\ RecordAt[p[1]][p[2]] > db.node_count
  BY Zenon DEF DataPrefixes
<1>3. PICK depth \in 0..Len(db.tree) : \E prefix \in 0..(2^depth - 1) : p = <<depth, prefix>>
  BY <1>2
<1> PICK prefix \in 0..(2^depth - 1) : p = <<depth, prefix>>
  BY <1>3
<1>4. p[1] = depth /\ p[2] = prefix
  BY <1>3
<1>5. RecordAt[depth][prefix] \in Nat \cup {Ended}
  BY <1>1, RecordIsNumber
<1>6. RecordAt[depth][prefix] > db.node_count
  BY <1>2, <1>4
<1>7. RecordAt[depth][prefix] # Ended
  BY <1>1, <1>6 DEF Ended
<1> QED BY <1>1, <1>3, <1>4, <1>5, <1>6, <1>7, Zenon

\* And what is to be listed: by Python, a pointer that is not the IPv4 subtree,
\* or is that at the first address.
LEMMA ListedIff ==
  ASSUME ShallowFile(db), impl \in {"python", "c"}, NEW depth \in 0..db.node_count,
         NEW prefix \in 0..(2^depth - 1), RecordAt[depth][prefix] > db.node_count
  PROVE  /\ <<depth, prefix>> \in DataPrefixes
         /\ Item(depth, prefix) \in Listed <=>
              \/ impl = "c" \/ RecordAt[depth][prefix] # V4Root
              \/ NetworkOf(depth, prefix).address = 0
<1>1. db.node_count = Len(db.tree)
  BY ShallowNumbers
<1> DEFINE p == <<depth, prefix>>
           ItemOf(x) == [net |-> NetworkOf(x[1], x[2]), pointer |-> RecordAt[x[1]][x[2]]]
<1>2. p[1] = depth /\ p[2] = prefix
  OBVIOUS
<1>3. p \in DataPrefixes
  <2>1. p \in UNION {{<<d, q>> : q \in 0..(2^d - 1)} : d \in 0..Len(db.tree)}
    BY <1>1
  <2> HIDE DEF p
  <2> QED BY <1>2, <2>1, Zenon DEF DataPrefixes
<1>4. Items = {ItemOf(x) : x \in DataPrefixes}
  BY Zenon DEF Items
<1>5. Item(depth, prefix) = ItemOf(p)
  BY <1>2, Zenon DEF Item
<1>6. Item(depth, prefix) \in Items
  <2> HIDE DEF ItemOf, p
  <2> QED BY <1>3, <1>4, <1>5
<1>7. /\ Item(depth, prefix).pointer = RecordAt[depth][prefix]
      /\ Item(depth, prefix).net = NetworkOf(depth, prefix)
  BY DEF Item
<1>8. Item(depth, prefix) \in Listed <=>
        \/ impl = "c"
        \/ Item(depth, prefix).pointer # V4Root \/ Item(depth, prefix).net.address = 0
  <2> DEFINE i == Item(depth, prefix)
  <2>1. Listed = IF impl = "c" THEN Items
                 ELSE {x \in Items : x.pointer # V4Root \/ x.net.address = 0}
    BY Zenon DEF Listed
  <2> HIDE DEF i
  <2>2. i \in Listed <=> impl = "c" \/ i.pointer # V4Root \/ i.net.address = 0
    BY <1>6, <2>1 DEF i
  <2> QED BY <2>2 DEF i
<1> HIDE DEF p
<1> QED BY <1>3, <1>7, <1>8, Zenon DEF p

\* A data record below a call is the call's own, or the call is at a node that
\* is no alias.
LEMMA LiesBelow ==
  ASSUME ShallowFile(db), NEW call \in Calls, OnPath(call),
         NEW p \in DataPrefixes, Lies(call, p[1], p[2])
  PROVE  \/ call.depth = p[1] /\ PrefixOf(call) = p[2] /\ call.record = RecordAt[p[1]][p[2]]
         \/ call.depth < p[1] /\ ~ Ends(call.record, call.depth, PrefixOf(call))
<1> DEFINE d == call.depth
           q == PrefixOf(call)
           j == p[1] - d
<1>1. /\ d \in Nat /\ d <= p[1] /\ p[2] \div 2^j = q /\ q \in Nat
      /\ RecordAt[d][q] = call.record
  BY OnPathNumbers DEF Lies, OnPath
<1>2. /\ p[1] \in 0..db.node_count /\ p[2] \in 0..(2^p[1] - 1) /\ RecordAt[p[1]][p[2]] # Ended
      /\ db.node_count \in Nat /\ 2^0 = 1 /\ 2^p[1] \in Nat
  BY DataPrefixIs, ShallowNumbers
<1>3. CASE d = p[1]
  <2>1. j = 0
    BY <1>2, <1>3
  <2>2. p[2] \div 1 = p[2]
    BY <1>2
  <2> QED BY <1>1, <1>2, <1>3, <2>1, <2>2
<1>4. CASE d # p[1]
  <2>1. j \in 0..p[1] /\ j > 0 /\ p[1] - j = d /\ d < p[1]
    BY <1>1, <1>2, <1>4
  <2>2. PICK rank : Ranks(db.tree, rank)
    BY DEF ShallowFile
  <2> HIDE DEF j
  <2>3. Met(p[1], p[2], j, rank)
    BY <1>2, <2>1, <2>2, PathMeets
  <2> HIDE DEF d, q
  <2>4. ~ Ends(RecordAt[p[1] - j][p[2] \div 2^j], p[1] - j, p[2] \div 2^j)
    BY <2>1, <2>3 DEF Met
  <2>5. ~ Ends(call.record, d, q)
    BY <1>1, <2>1, <2>4 DEF j
  <2> QED BY <2>1, <2>5 DEF d, q
<1> QED BY <1>3, <1>4

\* All below a call that is to be listed has been yielded.
AllYielded(call, items) ==
  \A p \in DataPrefixes : Item(p[1], p[2]) \in Listed /\ Lies(call, p[1], p[2]) =>
    \E k \in 1..Len(items) : items[k] = Item(p[1], p[2])

\* The items are kept.
Extends(more, items) == \A k \in 1..Len(items) : k \in 1..Len(more) /\ more[k] = items[k]

\* When all below the first call has been yielded, it may be taken off.
LEMMA TailCovered ==
  ASSUME NEW calls, NEW items, Listing(calls, items), Covered(calls, items), calls # <<>>,
         NEW more, Extends(more, items), AllYielded(Head(calls), more)
  PROVE  Covered(Tail(calls), more)
<1> DEFINE t == Tail(calls)
<1>1. /\ Head(calls) = calls[1] /\ Len(t) = Len(calls) - 1 /\ Len(calls) \in Nat
      /\ \A k \in 1..(Len(calls) - 1) : t[k] = calls[k + 1]
  <2>1. calls \in Seq(Calls)
    BY DEF Listing
  <2> QED BY <2>1, TailIs
<1> SUFFICES ASSUME NEW p \in DataPrefixes, Item(p[1], p[2]) \in Listed
             PROVE  \/ \E k \in 1..Len(more) : more[k] = Item(p[1], p[2])
                    \/ \E k \in 1..Len(t) : Lies(t[k], p[1], p[2])
  BY DEF Covered
<1> HIDE DEF t
<1>2. CASE \E k \in 1..Len(items) : items[k] = Item(p[1], p[2])
  BY <1>2 DEF Extends
<1>3. CASE \E k \in 1..Len(calls) : Lies(calls[k], p[1], p[2])
  <2>1. PICK k \in 1..Len(calls) : Lies(calls[k], p[1], p[2])
    BY <1>3
  <2>2. CASE k = 1
    BY <1>1, <2>1, <2>2 DEF AllYielded
  <2>3. CASE k # 1
    <3>1. k - 1 \in 1..Len(t) /\ k - 1 \in 1..(Len(calls) - 1) /\ (k - 1) + 1 = k
      BY <1>1, <2>3
    <3>2. t[k - 1] = calls[k]
      BY <1>1, <3>1
    <3> QED BY <2>1, <3>1, <3>2
  <2> QED BY <2>2, <2>3
<1> QED BY <1>2, <1>3 DEF Covered

\* The children of a node on its path are on theirs.
LEMMA ChildOnPath ==
  ASSUME ShallowFile(db), impl \in {"python", "c"}, NEW call \in Calls, OnPath(call),
         ~ Ends(call.record, call.depth, PrefixOf(call)), NEW index \in {0, 1},
         NEW child, ChildOf(call, index, child),
         child = [record |-> child.record, depth |-> child.depth, ip |-> child.ip]
  PROVE  /\ child \in Calls /\ OnPath(child)
         /\ child.depth = call.depth + 1 /\ PrefixOf(child) = 2 * PrefixOf(call) + index
<1> DEFINE N == db.node_count
           d == call.depth
           q == PrefixOf(call)
           b == 2 * q + index
           s == 2^(V6Bits - (d + 1))
<1>1. /\ child.record = db.tree[call.record + 1][index + 1] /\ child.depth = d + 1
      /\ child.ip = IF impl = "python" THEN 2 * call.ip + index
                    ELSE call.ip + index * BitValue(d)
  BY DEF ChildOf
<1>2. /\ call.record \in Nat /\ call.ip \in Nat /\ d \in 0..V6Bits /\ d \in 0..N
      /\ q \in 0..(2^d - 1) /\ q \in Nat /\ RecordAt[d][q] = call.record
      /\ impl = "c" => call.ip = q * 2^(V6Bits - d)
  BY OnPathNumbers DEF OnPath, Begin, First
<1>3. N \in Nat \ {0} /\ call.record \in 0..(N - 1) /\ call.record # Ended
  BY <1>2, ShallowNumbers DEF Ends
<1>4. d < V6Bits /\ d < N /\ V6Bits \in Nat
  BY <1>2, <1>3, PathIsShort, Widths
<1>5. child.record \in Nat
  BY <1>1, <1>3, ShallowNumbers DEF File, ReadsNodes
<1>6. d + 1 \in 1..N /\ (d + 1) - 1 = d /\ d + 1 <= V6Bits /\ d + 1 \in Nat /\ d + 1 \in 0..V6Bits
  BY <1>2, <1>3, <1>4
<1>7. b \in Nat /\ b \div 2 = q /\ (b % 2) = index /\ b \in 0..(2^(d + 1) - 1)
  <2> DEFINE p == 2^d
  <2>1. 2^(d + 1) = 2 * p /\ p \in Nat \ {0} /\ q \in 0..(p - 1)
    BY <1>2, <1>4, ShallowNumbers, SMTT(30)
  <2> HIDE DEF p, q
  <2>2. CASE index = 0
    BY <2>1, <2>2
  <2>3. CASE index = 1
    BY <2>1, <2>3
  <2> QED BY <2>2, <2>3
<1>8. RecordAt[d + 1][b] = child.record
  <2>1. Follows(d + 1, b)
    BY <1>6, <1>7, RecordAtFollows
  <2>2. RecordAt[d + 1][b] =
          IF Ends(RecordAt[d][q], d, q) THEN Ended
          ELSE db.tree[RecordAt[d][q] + 1][index + 1]
    BY <1>6, <1>7, <2>1, Zenon DEF Follows
  <2> QED BY <1>1, <1>2, <2>2, Zenon
<1>9. /\ PrefixOf(child) = b /\ child.ip \in Nat
      /\ impl = "c" => child.ip = b * s
  <2>1. CASE impl = "python"
    <3>1. call.ip = q
      BY <2>1 DEF PrefixOf
    <3> QED BY <1>1, <1>2, <1>7, <2>1, <3>1 DEF PrefixOf
  <2>2. CASE impl = "c"
    <3>1. s \in Nat \ {0} /\ 2^(V6Bits - d) = 2 * s /\ BitValue(d) = s
      <4>1. /\ V6Bits - (d + 1) \in 0..(V6Bits - 1) /\ V6Bits - (d + 1) \in 0..V6Bits
            /\ (V6Bits - (d + 1)) + 1 = V6Bits - d /\ V6Bits - 1 - d = V6Bits - (d + 1)
        BY <1>2, <1>4
      <4>2. 2^((V6Bits - (d + 1)) + 1) = 2 * 2^(V6Bits - (d + 1))
        BY <4>1, NextPower
      <4>3. BitValue(d) = 2^(V6Bits - 1 - d)
        BY <1>4 DEF BitValue
      <4> QED BY <4>1, <4>2, <4>3, PowerPositive
    <3>2. call.ip = q * (2 * s) /\ child.ip = call.ip + index * s
      BY <1>1, <1>2, <2>2, <3>1
    <3>3. child.ip = b * s
      <4> HIDE DEF s, q
      <4>1. CASE index = 0
        BY <1>2, <3>1, <3>2, <4>1
      <4>2. CASE index = 1
        BY <1>2, <3>1, <3>2, <4>2
      <4> QED BY <4>1, <4>2
    <3>4. (b * s) \div s = b /\ b * s \in Nat
      <4> HIDE DEF s, b
      <4>1. (b * s) \div s = b
        BY <1>7, <3>1, Multiple
      <4>2. b * s \in Nat
        BY <1>7, <3>1
      <4> QED BY <4>1, <4>2
    <3>5. PrefixOf(child) = child.ip \div s
      BY <1>1, <2>2 DEF PrefixOf
    <3> HIDE DEF s, b
    <3> QED BY <3>3, <3>4, <3>5
  <2> QED BY <2>1, <2>2
<1>10. child \in Calls
  BY <1>1, <1>5, <1>6, <1>9 DEF Calls
<1>11. impl = "c" => child.ip = Begin(child)
  <2> HIDE DEF b
  <2> QED BY <1>1, <1>9, Zenon DEF Begin, First
<1>12. OnPath(child)
  <2> HIDE DEF b
  <2>1. child.depth <= V6Bits /\ child.depth <= N
    BY <1>1, <1>6
  <2> QED BY <1>1, <1>7, <1>8, <1>9, <1>11, <2>1, Zenon DEF OnPath
<1> QED BY <1>1, <1>9, <1>10, <1>12

\* The addresses of the children are those of the node, in order.
LEMMA ChildAddresses ==
  ASSUME ShallowFile(db), NEW call \in Calls, OnPath(call), call.depth < V6Bits,
         NEW left \in Calls, NEW right \in Calls,
         left.depth = call.depth + 1, PrefixOf(left) = 2 * PrefixOf(call) + 0,
         right.depth = call.depth + 1, PrefixOf(right) = 2 * PrefixOf(call) + 1
  PROVE  Begin(left) = Begin(call) /\ End(left) = Begin(right) /\ End(right) = End(call)
<1> DEFINE d == call.depth
           q == PrefixOf(call)
           s == 2^(V6Bits - (d + 1))
<1>1. q \in Nat /\ d \in 0..V6Bits
  BY OnPathNumbers
<1>2. s \in Nat \ {0} /\ 2^(V6Bits - d) = 2 * s
  <2>1. /\ V6Bits - (d + 1) \in 0..(V6Bits - 1) /\ V6Bits - (d + 1) \in 0..V6Bits
        /\ (V6Bits - (d + 1)) + 1 = V6Bits - d
    BY <1>1, Widths
  <2>2. 2^((V6Bits - (d + 1)) + 1) = 2 * 2^(V6Bits - (d + 1))
    BY <2>1, NextPower
  <2> QED BY <2>1, <2>2, PowerPositive
<1>3. /\ Begin(call) = q * (2 * s) /\ End(call) = Begin(call) + 2 * s
      /\ Begin(left) = (2 * q + 0) * s /\ End(left) = Begin(left) + s
      /\ Begin(right) = (2 * q + 1) * s /\ End(right) = Begin(right) + s
  BY <1>2, Zenon DEF Begin, End, First
<1> HIDE DEF q, s
<1>4. (2 * q + 0) * s = q * (2 * s) /\ (2 * q + 1) * s = q * (2 * s) + s
  BY <1>1, <1>2
<1> DEFINE x == q * (2 * s)
<1>5. x \in Nat
  BY <1>1, <1>2
<1>6. /\ Begin(call) = x /\ End(call) = x + 2 * s /\ Begin(left) = x /\ End(left) = x + s
      /\ Begin(right) = x + s /\ End(right) = (x + s) + s
  BY <1>3, <1>4
<1> HIDE DEF x
<1> QED BY <1>2, <1>5, <1>6

\* A prefix below a node is below one of its children.
LEMMA LiesBelowChild ==
  ASSUME ShallowFile(db), NEW call \in Calls, OnPath(call),
         NEW p \in DataPrefixes, Lies(call, p[1], p[2]), call.depth < p[1],
         NEW left \in Calls, NEW right \in Calls,
         left.depth = call.depth + 1, PrefixOf(left) = 2 * PrefixOf(call) + 0,
         right.depth = call.depth + 1, PrefixOf(right) = 2 * PrefixOf(call) + 1
  PROVE  Lies(left, p[1], p[2]) \/ Lies(right, p[1], p[2])
<1> DEFINE d == call.depth
           q == PrefixOf(call)
           k == p[1] - (d + 1)
           s == 2^k
           x == p[2] \div s
<1>1. q \in Nat /\ d \in Nat /\ p[1] \in 0..db.node_count /\ p[2] \in 0..(2^p[1] - 1)
  BY OnPathNumbers, DataPrefixIs
<1>2. /\ k \in 0..(db.node_count - 1) /\ k \in 0..db.node_count /\ p[1] - d = k + 1
      /\ d + 1 <= p[1] /\ 2^p[1] \in Nat
  <2>1. 2^p[1] \in Nat /\ db.node_count \in Nat \ {0}
    BY <1>1, ShallowNumbers
  <2> DEFINE n == p[1]
  <2>2. d \in Nat /\ n \in 0..db.node_count /\ d < n
    BY <1>1
  <2> HIDE DEF n, d
  <2>3. /\ n - (d + 1) \in 0..(db.node_count - 1) /\ n - (d + 1) \in 0..db.node_count
        /\ n - d = (n - (d + 1)) + 1 /\ d + 1 <= n
    BY <2>1, <2>2
  <2> QED BY <2>1, <2>3 DEF n, d
<1>3. s \in Nat \ {0} /\ 2^(k + 1) = 2 * s
  <2> HIDE DEF k
  <2> QED BY <1>2, ShallowNumbers
<1>4. p[2] \div (2 * s) = q
  BY <1>2, <1>3 DEF Lies
<1>5. p[2] \in Nat
  BY <1>1, <1>2
<1> HIDE DEF s, q
<1>6. x \div 2 = q /\ x \in Nat
  <2>1. x \in Nat
    BY <1>3, <1>5
  <2>2. p[2] \div (2 * s) = (p[2] \div s) \div 2
    BY <1>3, <1>5, Halved
  <2> QED BY <1>4, <2>1, <2>2
<1>7. x = 2 * q + 0 \/ x = 2 * q + 1
  <2> HIDE DEF x
  <2> QED BY <1>1, <1>6
<1>8. Lies(left, p[1], p[2]) <=> x = 2 * q + 0
  BY <1>2 DEF Lies, s, q
<1>9. Lies(right, p[1], p[2]) <=> x = 2 * q + 1
  BY <1>2 DEF Lies, s, q
<1> QED BY <1>7, <1>8, <1>9

\* The number of IPv6 addresses that an address of the tree stands for.
LEMMA NetUnit == Bits(db) \in 0..V6Bits /\ 2^(V6Bits - Bits(db)) \in Nat \ {0}
<1>1. Bits(db) \in 0..V6Bits /\ V6Bits - Bits(db) \in 0..V6Bits
  BY Widths DEF Bits
<1> QED BY <1>1, PowerPositive

\* The list that _generate_children and ReaderIter_next go on with at a node:
\* its children in its place.
Split(calls, left, right) == <<left, right>> \o Tail(calls)

\* A list stays in order when its first call is replaced by its children.
LEMMA SplitListing ==
  ASSUME ShallowFile(db), NEW calls, NEW items, Listing(calls, items), calls # <<>>,
         NEW left \in Calls, OnPath(left), NEW right \in Calls, OnPath(right),
         Begin(left) = Begin(Head(calls)), End(left) = Begin(right),
         End(right) = End(Head(calls))
  PROVE  Listing(Split(calls, left, right), items)
<1> DEFINE t == Split(calls, left, right)
           n == Len(calls)
<1>1. /\ calls \in Seq(Calls) /\ items \in Seq(YieldedItems)
      /\ \A k \in 1..n : OnPath(calls[k])
      /\ \A j, k \in 1..n : j < k => End(calls[j]) <= Begin(calls[k])
      /\ \A k \in 1..Len(items) : items[k] \in Listed
      /\ \A j, k \in 1..Len(items) : j < k => items[j].net.address < items[k].net.address
      /\ \A j \in 1..Len(items) : \A k \in 1..n : NetBegin(items[j].net) < Begin(calls[k])
  BY DEF Listing
<1>2. n \in Nat \ {0} /\ Head(calls) = calls[1]
  BY <1>1, TailIs
<1>3. /\ t \in Seq(Calls) /\ Len(t) = n + 1 /\ t[1] = left /\ t[2] = right
      /\ \A k \in 3..Len(t) : t[k] = calls[k - 1]
  <2>1. t = <<left, right>> \o Tail(calls)
    BY DEF Split
  <2> HIDE DEF t
  <2> QED BY <1>1, <2>1, SpliceIs
<1> HIDE DEF t
<1>4. /\ Begin(left) \in Nat /\ End(left) \in Nat /\ Begin(left) < End(left)
      /\ Begin(right) \in Nat /\ End(right) \in Nat /\ Begin(right) < End(right)
  BY OnPathNumbers
<1>5. \A k \in 1..n : Begin(calls[k]) \in Nat /\ End(calls[k]) \in Nat
  BY ListedCalls
<1> HIDE DEF n
<1>6. ASSUME NEW k \in 1..Len(t)
      PROVE  k = 1 \/ k = 2 \/ (k \in 3..Len(t) /\ k - 1 \in 1..n /\ 1 < k - 1)
  BY <1>2, <1>3
<1>7. \A k \in 1..Len(t) : OnPath(t[k])
  BY <1>1, <1>3, <1>6
<1>8. ASSUME NEW j \in 1..Len(t), NEW k \in 1..Len(t), j < k PROVE End(t[j]) <= Begin(t[k])
  <2>1. CASE j = 1 /\ k = 2
    BY <1>3, <1>4, <2>1
  <2>2. CASE k # 2
    <3>1. k \in 3..Len(t) /\ k - 1 \in 1..n /\ 1 < k - 1 /\ t[k] = calls[k - 1]
      BY <1>3, <1>6, <1>8, <2>2
    <3>2. 1 \in 1..n
      BY <1>2
    <3>3. End(calls[1]) <= Begin(calls[k - 1]) /\ Begin(calls[k - 1]) \in Nat
      BY <1>1, <1>5, <3>1, <3>2
    <3>4. CASE j = 1
      BY <1>2, <1>3, <1>4, <3>1, <3>3, <3>4
    <3>5. CASE j = 2
      BY <1>2, <1>3, <1>4, <3>1, <3>3, <3>5
    <3>6. CASE j # 1 /\ j # 2
      <4>1. j - 1 \in 1..n /\ t[j] = calls[j - 1] /\ j - 1 < k - 1
        BY <1>3, <1>6, <1>8, <3>6
      <4> QED BY <1>1, <3>1, <4>1
    <3> QED BY <3>4, <3>5, <3>6
  <2>3. k = 2 => j = 1
    BY <1>8
  <2> QED BY <2>1, <2>2, <2>3
<1>9. ASSUME NEW j \in 1..Len(items), NEW k \in 1..Len(t)
      PROVE  NetBegin(items[j].net) < Begin(t[k])
  <2>1. 1 \in 1..n
    BY <1>2
  <2>2. NetBegin(items[j].net) < Begin(calls[1])
    BY <1>1, <2>1
  <2>3. NetBegin(items[j].net) \in Int
    <3>1. items[j] \in YieldedItems
      BY <1>1
    <3>2. items[j].net.address \in Nat
      BY <3>1 DEF YieldedItems
    <3> DEFINE a == items[j].net.address
               u == 2^(V6Bits - Bits(db))
    <3>4. NetBegin(items[j].net) = a * u
      BY DEF NetBegin
    <3>5. a \in Nat /\ u \in Nat
      BY <3>2, NetUnit
    <3> HIDE DEF a, u
    <3> QED BY <3>4, <3>5
  <2>4. CASE k = 1
    BY <1>2, <1>3, <2>2, <2>4
  <2>5. CASE k = 2
    BY <1>2, <1>3, <1>4, <2>2, <2>3, <2>5
  <2>6. CASE k # 1 /\ k # 2
    BY <1>1, <1>3, <1>6, <2>6
  <2> QED BY <2>4, <2>5, <2>6
<1> QED BY <1>1, <1>3, <1>7, <1>8, <1>9, Zenon DEF Listing, t

\* Nothing is lost when a node is replaced by its children.
LEMMA SplitCovered ==
  ASSUME ShallowFile(db), NEW calls, NEW items, Listing(calls, items), Covered(calls, items),
         calls # <<>>, Head(calls).record < db.node_count,
         NEW left \in Calls, NEW right \in Calls,
         left.depth = Head(calls).depth + 1, PrefixOf(left) = 2 * PrefixOf(Head(calls)) + 0,
         right.depth = Head(calls).depth + 1, PrefixOf(right) = 2 * PrefixOf(Head(calls)) + 1
  PROVE  Covered(Split(calls, left, right), items)
<1> DEFINE t == Split(calls, left, right)
           n == Len(calls)
           c == Head(calls)
<1>1. calls \in Seq(Calls) /\ \A k \in 1..n : OnPath(calls[k])
  BY DEF Listing
<1>2. n \in Nat \ {0} /\ c = calls[1] /\ c \in Calls
  BY <1>1, TailIs
<1>3. OnPath(c)
  BY <1>1, <1>2
<1>4. /\ Len(t) = n + 1 /\ t[1] = left /\ t[2] = right
      /\ \A k \in 3..Len(t) : t[k] = calls[k - 1]
  <2>1. t = <<left, right>> \o Tail(calls)
    BY DEF Split
  <2> HIDE DEF t
  <2> QED BY <1>1, <2>1, SpliceIs
<1> SUFFICES ASSUME NEW p \in DataPrefixes, Item(p[1], p[2]) \in Listed
             PROVE  \/ \E k \in 1..Len(items) : items[k] = Item(p[1], p[2])
                    \/ \E k \in 1..Len(t) : Lies(t[k], p[1], p[2])
  BY DEF Covered
<1> HIDE DEF t
<1>5. CASE \E k \in 1..n : Lies(calls[k], p[1], p[2])
  <2>1. PICK k \in 1..n : Lies(calls[k], p[1], p[2])
    BY <1>5
  <2>2. CASE k = 1
    <3>1. Lies(c, p[1], p[2])
      BY <1>2, <2>1, <2>2
    <3>2. c.depth < p[1]
      <4>1. c.record \in Nat /\ db.node_count \in Nat
        BY <1>2, <1>3, OnPathNumbers, ShallowNumbers
      <4>2. RecordAt[p[1]][p[2]] \in Nat /\ RecordAt[p[1]][p[2]] > db.node_count
        BY DataPrefixIs
      <4>3. c.record # RecordAt[p[1]][p[2]]
        <5> DEFINE r == RecordAt[p[1]][p[2]]
        <5>1. r \in Nat /\ r > db.node_count
          BY <4>2
        <5> HIDE DEF r
        <5> QED BY <4>1, <5>1 DEF r
      <4> HIDE DEF c
      <4> QED BY <1>2, <1>3, <3>1, <4>3, LiesBelow
    <3>3. Lies(left, p[1], p[2]) \/ Lies(right, p[1], p[2])
      <4> HIDE DEF c
      <4>1. /\ left.depth = c.depth + 1 /\ PrefixOf(left) = 2 * PrefixOf(c) + 0
            /\ right.depth = c.depth + 1 /\ PrefixOf(right) = 2 * PrefixOf(c) + 1
        BY DEF c
      <4> QED BY <1>2, <1>3, <3>1, <3>2, <4>1, LiesBelowChild
    <3>4. 1 \in 1..Len(t) /\ 2 \in 1..Len(t)
      BY <1>2, <1>4
    <3> QED BY <1>4, <3>3, <3>4
  <2>3. CASE k # 1
    <3>1. k + 1 \in 3..Len(t) /\ k + 1 \in 1..Len(t) /\ (k + 1) - 1 = k
      BY <1>2, <1>4, <2>3
    <3>2. t[k + 1] = calls[k]
      BY <1>4, <3>1
    <3> QED BY <2>1, <3>1, <3>2
  <2> QED BY <2>2, <2>3
<1> QED BY <1>5 DEF Covered

\* The network that a reader builds for a prefix is the one to be listed, and
\* begins where the prefix does.
LEMMA NetworkListed ==
  ASSUME File(db), NEW depth \in 0..Bits(db), NEW prefix \in 0..(2^depth - 1),
         NEW net, NetworkFor(net, depth, prefix)
  PROVE  /\ net = NetworkOf(depth, prefix)
         /\ net \in [version : {4, 6}, address : Nat, prefix : Nat]
         /\ net.address = prefix * 2^(Bits(db) - depth)
         /\ NetBegin(net) = First(depth, prefix)
<1> DEFINE n == Bits(db)
           s == 2^(n - depth)
           u == 2^(V6Bits - n)
           x == prefix * s
           y == 2^V4Bits
<1>1. /\ prefix \in Nat /\ s \in Nat \ {0} /\ u \in Nat \ {0} /\ x \in Nat /\ y \in Nat
      /\ n \in 0..V6Bits /\ depth \in Nat /\ V6Bits \in Nat /\ db.ip_version \in {4, 6}
      /\ Gap \in Nat
  <2>1. x \in 0..(2^n - 1) /\ prefix \in Nat /\ s \in Nat \ {0} /\ y \in Nat \ {0}
    BY FirstAddress
  <2>2. x \in Nat
    <3> HIDE DEF s
    <3>1. prefix * s \in Nat
      BY <2>1
    <3> QED BY <3>1
  <2> QED BY <2>1, <2>2, NetUnit, Widths DEF File
<1>2. \/ (db.ip_version = 4 \/ x >= y) /\ net = Network(db.ip_version, x, depth)
      \/ db.ip_version = 6 /\ depth >= Gap /\ x < y /\ net = Network(4, x, depth - Gap)
  BY DEF NetworkFor
<1>3. 2^(V6Bits - depth) = s * u
  <2>1. /\ n - depth \in 0..V6Bits /\ V6Bits - n \in 0..(V6Bits - (n - depth))
        /\ (n - depth) + (V6Bits - n) = V6Bits - depth
    BY <1>1
  <2> QED BY <2>1, PowerOfSum
<1>4. First(depth, prefix) = x * u
  <2>1. First(depth, prefix) = prefix * (s * u)
    BY <1>3 DEF First
  <2> HIDE DEF s, u
  <2>2. prefix * (s * u) = (prefix * s) * u
    BY <1>1
  <2> QED BY <2>1, <2>2
<1>5. NetworkOf(depth, prefix) =
        IF db.ip_version = 4 THEN Network(4, x, depth)
        ELSE IF x >= y THEN Network(6, x, depth) ELSE Network(4, x, depth - Gap)
  BY DEF NetworkOf
<1>6. net.address = x /\ NetBegin(net) = net.address * u
  <2> HIDE DEF x, y
  <2> QED BY <1>2 DEF NetBegin, Network
<1> HIDE DEF x, y, s, u, n
<1>7. net = NetworkOf(depth, prefix)
  BY <1>1, <1>2, <1>5
<1>8. net \in [version : {4, 6}, address : Nat, prefix : Nat]
  BY <1>1, <1>2 DEF Network
<1> QED BY <1>4, <1>6, <1>7, <1>8 DEF x, s, n

\* A network that is yielded is that of the call's prefix.
LEMMA NetworkYielded ==
  ASSUME ShallowFile(db), impl \in {"python", "c"}, NEW call \in Calls, OnPath(call),
         NEW net, net = IF impl = "python" THEN network_of_python(call) ELSE network_of_c(call),
         net # NoNetwork
  PROVE  call.depth \in 0..Bits(db) /\ NetworkFor(net, call.depth, PrefixOf(call))
<1>1. /\ File(db) /\ call.depth \in 0..V6Bits /\ call.depth \in Nat
      /\ PrefixOf(call) \in 0..(2^call.depth - 1)
  BY OnPathNumbers, ShallowNumbers
<1>2. call.depth \in 0..Bits(db)
  <2>1. ~ (call.depth > Bits(db))
    BY <1>1, TooDeep
  <2> QED BY <1>1, <2>1, BitsAreWidth
<1>3. CASE impl = "python"
  <2>1. net = network_of_python(call) /\ PrefixOf(call) = call.ip
    BY <1>3 DEF PrefixOf
  <2>2. NetworkFor(network_of_python(call), call.depth, call.ip)
    BY <1>1, <1>2, <1>3, <2>1, NetworkOfPython
  <2> QED BY <1>2, <2>1, <2>2
<1>4. CASE impl = "c"
  <2>1. net = network_of_c(call)
    BY <1>4
  <2>2. call.ip = PrefixOf(call) * 2^(V6Bits - call.depth)
    BY <1>4, Zenon DEF OnPath, Begin, First
  <2>3. NetworkFor(network_of_c(call), call.depth, PrefixOf(call))
    BY <1>1, <1>2, <1>4, <2>1, <2>2, NetworkOfC
  <2> QED BY <1>2, <2>1, <2>3
<1> QED BY <1>3, <1>4

\* The last element of a longer sequence and the others.
LEMMA AppendIs ==
  ASSUME NEW S, NEW s \in Seq(S), NEW e \in S
  PROVE  /\ Append(s, e) \in Seq(S) /\ Len(Append(s, e)) = Len(s) + 1
         /\ Append(s, e)[Len(s) + 1] = e /\ Len(s) \in Nat
         /\ \A k \in 1..Len(s) : Append(s, e)[k] = s[k]
OBVIOUS

\* A data record in the path is yielded with its network, and nothing else lies
\* below it: the list goes on without the call.
LEMMA YieldListing ==
  ASSUME ShallowFile(db), impl \in {"python", "c"}, NEW calls, NEW items,
         Listing(calls, items), Covered(calls, items), calls # <<>>,
         Head(calls).record > db.node_count,
         impl = "python" => Head(calls).record # V4Root \/ Head(calls).ip = 0,
         NEW net, net = IF impl = "python" THEN network_of_python(Head(calls))
                        ELSE network_of_c(Head(calls)),
         net # NoNetwork,
         NEW more, more = Append(items, [net |-> net, pointer |-> Head(calls).record])
  PROVE  Listing(Tail(calls), more) /\ Covered(Tail(calls), more)
<1> DEFINE c == Head(calls)
           d == c.depth
           q == PrefixOf(c)
           t == Tail(calls)
           i == [net |-> net, pointer |-> c.record]
           a == net.address
           u == 2^(V6Bits - Bits(db))
<1>1. /\ calls \in Seq(Calls) /\ items \in Seq(YieldedItems)
      /\ \A k \in 1..Len(calls) : OnPath(calls[k])
      /\ \A j, k \in 1..Len(calls) : j < k => End(calls[j]) <= Begin(calls[k])
      /\ \A k \in 1..Len(items) : items[k] \in Listed
      /\ \A j, k \in 1..Len(items) : j < k => items[j].net.address < items[k].net.address
      /\ \A j \in 1..Len(items) : \A k \in 1..Len(calls) : NetBegin(items[j].net) < Begin(calls[k])
  BY DEF Listing
<1>2. /\ Len(calls) \in Nat \ {0} /\ c = calls[1] /\ c \in Calls /\ 1 \in 1..Len(calls)
      /\ Len(t) = Len(calls) - 1 /\ \A k \in 1..(Len(calls) - 1) : t[k] = calls[k + 1]
  BY <1>1, TailIs
<1>3. OnPath(c)
  BY <1>1, <1>2
<1>4. /\ d \in 0..db.node_count /\ q \in 0..(2^d - 1) /\ RecordAt[d][q] = c.record
      /\ c.record \in Nat /\ Begin(c) \in Nat /\ End(c) \in Nat /\ Begin(c) < End(c)
  <2> HIDE DEF c
  <2>1. RecordAt[c.depth][PrefixOf(c)] = c.record
    BY <1>3 DEF OnPath
  <2> QED BY <1>2, <1>3, <2>1, OnPathNumbers
<1>5. d \in 0..Bits(db) /\ NetworkFor(net, d, q) /\ File(db)
  <2> HIDE DEF c
  <2>1. net = IF impl = "python" THEN network_of_python(c) ELSE network_of_c(c)
    BY DEF c
  <2> QED BY <1>2, <1>3, <2>1, NetworkYielded, ShallowNumbers
<1>6. /\ net = NetworkOf(d, q) /\ net \in [version : {4, 6}, address : Nat, prefix : Nat]
      /\ a = q * 2^(Bits(db) - d) /\ NetBegin(net) = Begin(c)
  <2> HIDE DEF d, q
  <2>1. /\ net = NetworkOf(d, q) /\ net \in [version : {4, 6}, address : Nat, prefix : Nat]
        /\ a = q * 2^(Bits(db) - d) /\ NetBegin(net) = First(d, q)
    BY <1>4, <1>5, NetworkListed
  <2> QED BY <2>1 DEF Begin, d, q
<1>7. i = Item(d, q) /\ i \in YieldedItems /\ i.net = net
  <2> HIDE DEF d, q, c
  <2> QED BY <1>4, <1>6 DEF Item, YieldedItems
<1>8. i \in Listed
  <2>1. impl = "python" /\ c.record = V4Root => NetworkOf(d, q).address = 0
    <3>1. ASSUME impl = "python", c.record = V4Root PROVE q = 0
      BY <3>1 DEF PrefixOf
    <3>2. 2^(Bits(db) - d) \in Nat
      BY <1>4, <1>5, FirstAddress
    <3> DEFINE z == 2^(Bits(db) - d)
    <3>3. 0 * z = 0
      <4>1. z \in Nat
        BY <3>2
      <4> HIDE DEF z
      <4> QED BY <4>1
    <3> QED BY <1>6, <3>1, <3>3
  <2>2. RecordAt[d][q] > db.node_count
    BY <1>4
  <2> HIDE DEF c, d, q, i
  <2> QED BY <1>4, <1>7, <2>1, <2>2, ListedIff
<1> HIDE DEF c, d, q, i, t, u
<1>9. /\ more \in Seq(YieldedItems) /\ Len(more) = Len(items) + 1 /\ more[Len(items) + 1] = i
      /\ Len(items) \in Nat /\ \A k \in 1..Len(items) : more[k] = items[k]
  <2>1. more = Append(items, i)
    BY DEF i, c
  <2> QED BY <1>1, <1>7, <2>1, AppendIs
<1>10. ASSUME NEW k \in 1..Len(items) PROVE items[k].net.address < a
  <2>1. NetBegin(items[k].net) < NetBegin(net)
    BY <1>1, <1>2, <1>6
  <2>2. items[k].net.address \in Nat /\ a \in Nat
    <3>1. items[k] \in YieldedItems
      BY <1>1
    <3> QED BY <1>6, <3>1 DEF YieldedItems
  <2> DEFINE b == items[k].net.address
  <2>3. b * u < a * u
    BY <2>1 DEF NetBegin, u
  <2>4. u \in Nat \ {0} /\ b \in Nat
    BY <2>2, NetUnit DEF u
  <2> HIDE DEF a, b
  <2>5. ASSUME a <= b PROVE FALSE
    <3>1. a * u <= b * u /\ a * u \in Nat /\ b * u \in Nat
      BY <2>2, <2>4, <2>5
    <3> QED BY <2>3, <3>1
  <2>6. b < a
    BY <2>2, <2>4, <2>5
  <2> QED BY <2>6 DEF a, b
<1>11. Listing(t, items)
  BY TailListing DEF t
<1>12. /\ t \in Seq(Calls) /\ \A k \in 1..Len(t) : OnPath(t[k])
       /\ \A j, k \in 1..Len(t) : j < k => End(t[j]) <= Begin(t[k])
       /\ \A j \in 1..Len(items) : \A k \in 1..Len(t) : NetBegin(items[j].net) < Begin(t[k])
  BY <1>11 DEF Listing
<1>13. ASSUME NEW k \in 1..Len(more)
       PROVE  k \in 1..Len(items) \/ (k = Len(items) + 1 /\ more[k] = i)
  BY <1>9
<1>14. \A k \in 1..Len(more) : more[k] \in Listed
  BY <1>1, <1>8, <1>9, <1>13
<1>15. ASSUME NEW j \in 1..Len(more), NEW k \in 1..Len(more), j < k
       PROVE  more[j].net.address < more[k].net.address
  <2>1. j \in 1..Len(items) /\ more[j] = items[j]
    BY <1>9, <1>15
  <2>2. CASE k \in 1..Len(items)
    BY <1>1, <1>9, <1>15, <2>1, <2>2
  <2>3. CASE more[k] = i
    BY <1>7, <1>10, <2>1, <2>3
  <2> QED BY <1>13, <2>2, <2>3
<1>16. ASSUME NEW j \in 1..Len(more), NEW k \in 1..Len(t)
       PROVE  NetBegin(more[j].net) < Begin(t[k])
  <2>1. CASE j \in 1..Len(items)
    BY <1>9, <1>12, <2>1
  <2>2. CASE more[j] = i
    <3>1. k + 1 \in 1..Len(calls) /\ t[k] = calls[k + 1] /\ 1 < k + 1
      <4>1. k \in 1..(Len(calls) - 1) /\ Len(calls) \in Nat
        BY <1>2
      <4> QED BY <1>2, <4>1
    <3>2. End(c) <= Begin(calls[k + 1]) /\ Begin(calls[k + 1]) \in Nat
      BY <1>1, <1>2, <3>1, ListedCalls
    <3>3. NetBegin(more[j].net) = Begin(c) /\ t[k] = calls[k + 1]
      BY <1>6, <1>7, <2>2, <3>1, Zenon
    <3> QED BY <1>4, <3>2, <3>3
  <2> QED BY <1>13, <2>1, <2>2
<1>17. Listing(t, more)
  BY <1>9, <1>12, <1>14, <1>15, <1>16, Zenon DEF Listing
<1>18. Covered(t, more)
  <2>1. Extends(more, items)
    BY <1>9 DEF Extends
  <2>2. ASSUME NEW p \in DataPrefixes, Lies(Head(calls), p[1], p[2])
        PROVE  \E k \in 1..Len(more) : more[k] = Item(p[1], p[2])
    <3>1. ~ (c.depth < p[1] /\ ~ Ends(c.record, c.depth, PrefixOf(c)))
      <4>1. c.record > db.node_count
        BY DEF c
      <4>2. c.record >= db.node_count
        BY <1>4, <4>1, ShallowNumbers
      <4> QED BY <4>2 DEF Ends
    <3>2. Lies(c, p[1], p[2])
      BY <2>2 DEF c
    <3>3. d = p[1] /\ q = p[2]
      BY <1>2, <1>3, <3>1, <3>2, LiesBelow DEF d, q
    <3>4. Len(items) + 1 \in 1..Len(more)
      BY <1>9
    <3> QED BY <1>7, <1>9, <3>3, <3>4
  <2>3. AllYielded(Head(calls), more)
    BY <2>2 DEF AllYielded
  <2>4. Covered(Tail(calls), more)
    BY <2>1, <2>3, TailCovered, Zenon
  <2> QED BY <2>4 DEF t
<1> QED BY <1>17, <1>18 DEF t

\* Nothing to be listed lies below a call that has ended, but for the record
\* that the call is at.
LEMMA NothingBelow ==
  ASSUME ShallowFile(db), NEW call \in Calls, OnPath(call),
         Ends(call.record, call.depth, PrefixOf(call)),
         call.record > db.node_count => Item(call.depth, PrefixOf(call)) \notin Listed,
         NEW items
  PROVE  AllYielded(call, items)
<1> SUFFICES ASSUME NEW p \in DataPrefixes, Item(p[1], p[2]) \in Listed, Lies(call, p[1], p[2])
             PROVE  FALSE
  BY DEF AllYielded
<1>1. call.depth = p[1] /\ PrefixOf(call) = p[2] /\ call.record = RecordAt[p[1]][p[2]]
  BY LiesBelow
<1>2. RecordAt[p[1]][p[2]] > db.node_count
  BY DataPrefixIs
<1> QED BY <1>1, <1>2

\* Python skips a data record at which the IPv4 subtree is, too, wherever else it
\* occurs.
LEMMA DataAliasNotListed ==
  ASSUME ShallowFile(db), impl = "python", NEW call \in Calls, OnPath(call),
         call.record > db.node_count, call.record = V4Root, call.ip # 0
  PROVE  Item(call.depth, PrefixOf(call)) \notin Listed
<1> DEFINE d == call.depth
           q == PrefixOf(call)
           s == 2^(V6Bits - d)
<1>1. /\ d \in 0..db.node_count /\ q \in 0..(2^d - 1) /\ q \in Nat /\ s \in Nat \ {0}
      /\ RecordAt[d][q] = call.record /\ q = call.ip
  BY OnPathNumbers DEF OnPath, PrefixOf
<1>2. db.ip_version = 6
  <2>1. File(db) /\ db.node_count \in Nat \ {0}
    BY ShallowNumbers
  <2>2. db.ip_version = 4 => V4Root = 0
    BY <2>1, V4RootIsStart
  <2> QED BY <2>1, <2>2 DEF File
<1>3. Bits(db) = V6Bits
  BY <1>2 DEF Bits
<1> DEFINE x == q * s
<1>4. NetworkOf(d, q).address = x
  BY <1>2, <1>3 DEF NetworkOf, Network
<1>5. x # 0
  <2> HIDE DEF q, s
  <2> QED BY <1>1
<1>6. RecordAt[d][q] > db.node_count /\ RecordAt[d][q] = V4Root
  BY <1>1
<1> HIDE DEF d, q, x
<1>7. Item(d, q) \notin Listed
  BY <1>1, <1>4, <1>5, <1>6, ListedIff
<1> QED BY <1>7 DEF d, q

\* Python drops a call below which nothing is left to be listed, and goes on to
\* the children of a node that is no alias.
LEMMA PythonDrops ==
  ASSUME ShallowFile(db), impl = "python", NEW call \in Calls, OnPath(call), NEW items
  PROVE  /\ skip_alias_python(call) \/ call.record = db.node_count => AllYielded(call, items)
         /\ ~ skip_alias_python(call) /\ call.record < db.node_count =>
              ~ Ends(call.record, call.depth, PrefixOf(call))
<1> DEFINE d == call.depth
           q == PrefixOf(call)
<1>1. /\ d \in 0..db.node_count /\ q \in 0..(2^d - 1) /\ RecordAt[d][q] = call.record
      /\ q = call.ip /\ call.record \in Nat /\ db.node_count \in Nat
  BY OnPathNumbers, ShallowNumbers DEF OnPath, PrefixOf
<1>2. skip_alias_python(call) <=> q # 0 /\ call.record = V4Root
  <2>1. _ipv4_start(db) = V4Root
    BY ShallowNumbers, V4RootIsStart
  <2> QED BY <1>1, <2>1 DEF skip_alias_python
<1>3. call.record < db.node_count =>
        (Alias(call.record, d, q) <=> call.record = V4Root /\ q # 0)
  <2>1. ASSUME call.record < db.node_count
        PROVE  Alias(call.record, d, q) <=> call.record = V4Root /\ q # 0
    <3>1. call.record \in 0..(db.node_count - 1)
      BY <1>1, <2>1
    <3> HIDE DEF d, q
    <3> QED BY <1>1, <3>1, AliasSkipped
  <2> QED BY <2>1
<1>4. call.record # Ended
  BY <1>1 DEF Ended
<1>5. ASSUME skip_alias_python(call) \/ call.record = db.node_count PROVE AllYielded(call, items)
  <2>1. CASE call.record > db.node_count
    <3>1. call.record = V4Root /\ call.ip # 0
      BY <1>1, <1>2, <1>5, <2>1
    <3>2. Item(d, q) \notin Listed
      BY <2>1, <3>1, DataAliasNotListed
    <3>3. Ends(call.record, d, q)
      BY <1>1, <2>1 DEF Ends
    <3> QED BY <3>2, <3>3, NothingBelow
  <2>2. CASE call.record <= db.node_count
    <3>1. Ends(call.record, d, q)
      BY <1>1, <1>2, <1>3, <1>5, <2>2 DEF Ends
    <3>2. ~ (call.record > db.node_count)
      BY <1>1, <2>2
    <3> QED BY <3>1, <3>2, NothingBelow
  <2> QED BY <1>1, <2>1, <2>2
<1>6. ASSUME ~ skip_alias_python(call), call.record < db.node_count
      PROVE  ~ Ends(call.record, d, q)
  BY <1>1, <1>2, <1>3, <1>4, <1>6 DEF Ends
<1> QED BY <1>5, <1>6

\* The same of the C extension, which knows the nodes by their type: the root,
\* and no other node, is record 0.
LEMMA CDrops ==
  ASSUME ShallowFile(db), impl = "c", NEW call \in Calls, OnPath(call), NEW items
  PROVE  /\ (type_of(call) = "node" /\ skip_alias_c(call)) \/ type_of(call) = "empty" =>
              AllYielded(call, items)
         /\ type_of(call) = "node" => call.record < db.node_count
         /\ type_of(call) = "node" /\ ~ skip_alias_c(call) =>
              ~ Ends(call.record, call.depth, PrefixOf(call))
         /\ type_of(call) = "data" => call.record > db.node_count
<1> DEFINE d == call.depth
           q == PrefixOf(call)
<1>1. /\ d \in 0..db.node_count /\ q \in 0..(2^d - 1) /\ RecordAt[d][q] = call.record
      /\ call.ip = First(d, q) /\ call.record \in Nat /\ db.node_count \in Nat \ {0}
  BY OnPathNumbers, ShallowNumbers DEF OnPath, Begin
<1>2. call.record # Ended
  BY <1>1 DEF Ended
<1>3. d = 0 => call.record = 0
  <2>1. ASSUME d = 0 PROVE call.record = 0
    <3>1. 2^0 = 1
      BY ShallowNumbers
    <3>2. q = 0
      BY <1>1, <2>1, <3>1
    <3> QED BY <1>1, <2>1, <3>2, RecordAtFollows
  <2> QED BY <2>1
<1>4. type_of(call) = IF d = 0 THEN "node" ELSE record_type(db, call.record)
  BY DEF type_of
<1>5. /\ record_type(db, call.record) = "node" => call.record < db.node_count
      /\ record_type(db, call.record) = "empty" => call.record = db.node_count
      /\ record_type(db, call.record) = "data" => call.record > db.node_count
  BY <1>1 DEF record_type
<1>6. type_of(call) = "node" => call.record < db.node_count
  BY <1>1, <1>3, <1>4, <1>5
<1>7. type_of(call) = "node" => (skip_alias_c(call) <=> Alias(call.record, d, q))
  <2>1. ASSUME type_of(call) = "node" PROVE skip_alias_c(call) <=> Alias(call.record, d, q)
    <3>1. call.record \in 0..(db.node_count - 1)
      BY <1>1, <1>6, <2>1
    <3>2. skip_alias_c(call) <=> call.record = V4Root /\ First(d, q) >= 2^V4Bits
      BY <1>1, Zenon DEF skip_alias_c, is_ipv6, V4Root
    <3> HIDE DEF d, q
    <3>3. Alias(call.record, d, q) <=> call.record = V4Root /\ First(d, q) >= 2^V4Bits
      BY <1>1, <3>1, AliasSkipped
    <3> QED BY <3>2, <3>3, Zenon
  <2> QED BY <2>1
<1>8. type_of(call) = "empty" => call.record = db.node_count
  BY <1>4, <1>5
<1>9. ASSUME (type_of(call) = "node" /\ skip_alias_c(call)) \/ type_of(call) = "empty"
      PROVE  AllYielded(call, items)
  <2>1. call.record <= db.node_count
    BY <1>1, <1>6, <1>8, <1>9
  <2>2. ~ (call.record > db.node_count)
    BY <1>1, <2>1
  <2>3. Ends(call.record, d, q)
    BY <1>1, <1>7, <1>8, <1>9 DEF Ends
  <2> QED BY <2>2, <2>3, NothingBelow
<1>10. ASSUME type_of(call) = "node", ~ skip_alias_c(call) PROVE ~ Ends(call.record, d, q)
  BY <1>1, <1>2, <1>6, <1>7, <1>10 DEF Ends
<1>11. type_of(call) = "data" => call.record > db.node_count
  BY <1>4, <1>5
<1> QED BY <1>6, <1>9, <1>10, <1>11

\* The call that a running iteration takes next.
LEMMA NextCall ==
  ASSUME ListingInvariant, pending # <<>>
  PROVE  /\ Head(pending) \in Calls /\ OnPath(Head(pending)) /\ ShallowFile(db)
         /\ Listing(pending, out)
<1>1. /\ pending \in Seq(Calls) /\ \A k \in 1..Len(pending) : OnPath(pending[k])
      /\ ShallowFile(db) /\ Listing(pending, out)
  BY DEF ListingInvariant, Listing
<1>2. Head(pending) \in Calls /\ Head(pending) = pending[1] /\ 1 \in 1..Len(pending)
  BY <1>1, TailIs
<1> QED BY <1>1, <1>2

\* A step of a running iteration keeps the invariant when its list and its items
\* do.
LEMMA RunningLists ==
  ASSUME ListingInvariant, status' = "running", UNCHANGED <<db, impl>>,
         Listing(pending', out'), Covered(pending', out')
  PROVE  ListingInvariant'
<1>1. Listing(pending, out)' /\ Covered(pending, out)'
  BY ListingLasts, CoveredLasts
<1>2. ShallowFile(db)' /\ (impl \in {"python", "c"})'
  BY DEF ListingInvariant
<1> QED BY <1>1, <1>2 DEF ListingInvariant

\* A step that drops a call below which nothing is left to be listed.
LEMMA DropLists ==
  ASSUME ListingInvariant, status = "running", pending # <<>>, UNCHANGED <<db, impl>>, Drop,
         AllYielded(Head(pending), out)
  PROVE  ListingInvariant'
<1>1. pending' = Tail(pending) /\ out' = out /\ status' = "running"
  BY DEF Drop
<1>2. Listing(pending, out) /\ Covered(pending, out)
  BY DEF ListingInvariant
<1>3. Listing(Tail(pending), out)
  BY <1>2, TailListing
<1>4. Extends(out, out)
  BY DEF Extends
<1>5. Covered(Tail(pending), out)
  BY <1>2, <1>4, TailCovered, Zenon
<1> QED BY <1>1, <1>3, <1>5, RunningLists

\* A step that raises leaves the list and the items.
LEMMA RaiseLists ==
  ASSUME ListingInvariant, status = "running", UNCHANGED <<db, impl>>, Raise
  PROVE  ListingInvariant'
<1>1. pending' = pending /\ out' = out /\ status' = "raised"
  BY DEF Raise
<1>2. Listing(pending', out') /\ Covered(pending', out')
  BY <1>1 DEF ListingInvariant
<1>3. Listing(pending, out)' /\ Covered(pending, out)'
  BY <1>2, ListingLasts, CoveredLasts
<1>4. ShallowFile(db)' /\ (impl \in {"python", "c"})'
  BY DEF ListingInvariant
<1> QED BY <1>1, <1>3, <1>4 DEF ListingInvariant

\* A step that yields the network of a data record, or raises.
LEMMA YieldLists ==
  ASSUME ListingInvariant, status = "running", pending # <<>>, UNCHANGED <<db, impl>>,
         Head(pending).record > db.node_count,
         impl = "python" => Head(pending).record # V4Root \/ Head(pending).ip = 0,
         NEW net, net = IF impl = "python" THEN network_of_python(Head(pending))
                        ELSE network_of_c(Head(pending)),
         yield_network(net, Head(pending).record)
  PROVE  ListingInvariant'
<1>1. CASE net = NoNetwork
  <2>1. Raise
    BY <1>1 DEF yield_network
  <2> QED BY <2>1, RaiseLists
<1>2. CASE net # NoNetwork
  <2>1. /\ out' = Append(out, [net |-> net, pointer |-> Head(pending).record])
        /\ pending' = Tail(pending) /\ status' = "running"
    BY <1>2 DEF yield_network, Yield
  <2>2. /\ Listing(pending, out) /\ Covered(pending, out) /\ ShallowFile(db)
        /\ impl \in {"python", "c"}
    BY DEF ListingInvariant
  <2>3. Listing(Tail(pending), out') /\ Covered(Tail(pending), out')
    BY <1>2, <2>1, <2>2, YieldListing
  <2> QED BY <2>1, <2>3, RunningLists
<1> QED BY <1>1, <1>2

\* A step that goes on to the children of a node that is no alias.
LEMMA DescendLists ==
  ASSUME ListingInvariant, status = "running", pending # <<>>, UNCHANGED <<db, impl, out, status>>,
         Head(pending).record < db.node_count,
         ~ Ends(Head(pending).record, Head(pending).depth, PrefixOf(Head(pending))),
         NEW left, left = [record |-> left.record, depth |-> left.depth, ip |-> left.ip],
         ChildOf(Head(pending), 0, left),
         NEW right, right = [record |-> right.record, depth |-> right.depth, ip |-> right.ip],
         ChildOf(Head(pending), 1, right),
         pending' = <<left, right>> \o Tail(pending)
  PROVE  ListingInvariant'
<1> DEFINE c == Head(pending)
<1>1. /\ Listing(pending, out) /\ Covered(pending, out) /\ ShallowFile(db)
      /\ impl \in {"python", "c"}
  BY DEF ListingInvariant
<1>2. c \in Calls /\ OnPath(c)
  BY NextCall
<1>3. /\ c.record < db.node_count /\ ~ Ends(c.record, c.depth, PrefixOf(c))
      /\ ChildOf(c, 0, left) /\ ChildOf(c, 1, right)
  OBVIOUS
<1>4. pending' = Split(pending, left, right) /\ out' = out /\ status' = "running"
  BY DEF Split
<1>5. Begin(c) = Begin(Head(pending)) /\ End(c) = End(Head(pending)) /\ c = Head(pending)
  OBVIOUS
<1> HIDE DEF c
<1>6. /\ left \in Calls /\ OnPath(left) /\ left.depth = c.depth + 1
      /\ PrefixOf(left) = 2 * PrefixOf(c) + 0
  <2>1. 0 \in {0, 1}
    OBVIOUS
  <2> QED BY <1>1, <1>2, <1>3, <2>1, ChildOnPath
<1>7. /\ right \in Calls /\ OnPath(right) /\ right.depth = c.depth + 1
      /\ PrefixOf(right) = 2 * PrefixOf(c) + 1
  <2>1. 1 \in {0, 1}
    OBVIOUS
  <2> QED BY <1>1, <1>2, <1>3, <2>1, ChildOnPath
<1>8. c.depth < V6Bits
  <2>1. /\ c.depth \in 0..db.node_count /\ PrefixOf(c) \in 0..(2^c.depth - 1)
        /\ RecordAt[c.depth][PrefixOf(c)] = c.record /\ c.record \in Nat
    BY <1>1, <1>2, OnPathNumbers DEF OnPath
  <2>2. RecordAt[c.depth][PrefixOf(c)] # Ended /\ RecordAt[c.depth][PrefixOf(c)] < db.node_count
    BY <1>3, <2>1 DEF Ended
  <2> QED BY <1>1, <2>1, <2>2, PathIsShort
<1>9. Begin(left) = Begin(c) /\ End(left) = Begin(right) /\ End(right) = End(c)
  BY <1>1, <1>2, <1>6, <1>7, <1>8, ChildAddresses
<1>10. Listing(Split(pending, left, right), out)
  <2>1. /\ Begin(left) = Begin(Head(pending)) /\ End(left) = Begin(right)
        /\ End(right) = End(Head(pending))
    BY <1>5, <1>9
  <2> QED BY <1>1, <1>6, <1>7, <2>1, SplitListing
<1>11. Covered(Split(pending, left, right), out)
  <2>1. /\ left.depth = Head(pending).depth + 1
        /\ PrefixOf(left) = 2 * PrefixOf(Head(pending)) + 0
        /\ right.depth = Head(pending).depth + 1
        /\ PrefixOf(right) = 2 * PrefixOf(Head(pending)) + 1
    BY <1>5, <1>6, <1>7
  <2> QED BY <1>1, <1>6, <1>7, <2>1, SplitCovered
<1> QED BY <1>4, <1>10, <1>11, RunningLists

\* A step of the Python generator keeps the invariant.
LEMMA PythonLists ==
  ASSUME ListingInvariant, _generate_children
  PROVE  ListingInvariant'
<1> DEFINE call  == Head(pending)
           child == [index \in 0..1 |->
                       [record |-> _read_node(db, call.record, index),
                        depth |-> call.depth + 1, ip |-> 2 * call.ip + index]]
<1>1. /\ impl = "python" /\ status = "running" /\ pending # <<>> /\ UNCHANGED <<db, impl>>
      /\ \/ skip_alias_python(call) /\ Drop
         \/ /\ ~skip_alias_python(call) /\ call.record > db.node_count
            /\ IF PointsPastEnd(db, call.record)
                 THEN Raise ELSE yield_network(network_of_python(call), call.record)
         \/ ~skip_alias_python(call) /\ call.record = db.node_count /\ Drop
         \/ /\ ~skip_alias_python(call) /\ call.record < db.node_count
            /\ pending' = <<child[0], child[1]>> \o Tail(pending)
            /\ UNCHANGED <<out, status>>
  BY DEF _generate_children
<1>2. call \in Calls /\ OnPath(call) /\ ShallowFile(db) /\ File(db) /\ call.record \in Nat
  BY <1>1, NextCall, ShallowNumbers DEF Calls
<1>3. CASE (skip_alias_python(call) \/ call.record = db.node_count) /\ Drop
  <2>1. AllYielded(call, out)
    BY <1>1, <1>2, <1>3, PythonDrops
  <2> QED BY <1>1, <1>3, <2>1, DropLists
<1>4. CASE Raise
  BY <1>1, <1>4, RaiseLists
<1>5. CASE /\ ~skip_alias_python(call) /\ call.record > db.node_count
           /\ yield_network(network_of_python(call), call.record)
  <2>1. call.record # V4Root \/ call.ip = 0
    <3>1. _ipv4_start(db) = V4Root
      BY <1>2, V4RootIsStart
    <3> QED BY <1>5, <3>1 DEF skip_alias_python
  <2> QED BY <1>1, <1>5, <2>1, YieldLists
<1>6. CASE /\ ~skip_alias_python(call) /\ call.record < db.node_count
           /\ pending' = <<child[0], child[1]>> \o Tail(pending)
           /\ UNCHANGED <<out, status>>
  <2>1. call.record \in 0..(db.node_count - 1)
    BY <1>2, <1>6, BitsAreWidth
  <2>2. ASSUME NEW index \in {0, 1}
        PROVE  /\ ChildOf(call, index, child[index])
               /\ child[index] = [record |-> child[index].record, depth |-> child[index].depth,
                                  ip |-> child[index].ip]
    <3>1. _read_node(db, call.record, index) = db.tree[call.record + 1][index + 1]
      BY <1>2, <2>1 DEF File, ReadsNodes
    <3>2. index \in 0..1
      OBVIOUS
    <3> HIDE DEF call
    <3>3. child[index] = [record |-> _read_node(db, call.record, index),
                          depth |-> call.depth + 1, ip |-> 2 * call.ip + index]
      BY <3>2
    <3> QED BY <1>1, <3>1, <3>3 DEF ChildOf
  <2>3. ~ Ends(call.record, call.depth, PrefixOf(call))
    BY <1>1, <1>2, <1>6, PythonDrops
  <2> HIDE DEF child
  <2>4. ChildOf(call, 0, child[0]) /\ ChildOf(call, 1, child[1])
    BY <2>2
  <2>5. /\ child[0] = [record |-> child[0].record, depth |-> child[0].depth, ip |-> child[0].ip]
        /\ child[1] = [record |-> child[1].record, depth |-> child[1].depth, ip |-> child[1].ip]
    BY <2>2
  <2> QED BY <1>1, <1>6, <2>3, <2>4, <2>5, DescendLists
<1> QED BY <1>1, <1>3, <1>4, <1>5, <1>6

\* A step of the C iterator keeps the invariant.
LEMMA CLists ==
  ASSUME ListingInvariant, ReaderIter_next
  PROVE  ListingInvariant'
<1> DEFINE rec  == Head(pending)
           side == [index \in 0..1 |->
                      [record |-> db.tree[rec.record + 1][index + 1], depth |-> rec.depth + 1,
                       ip |-> rec.ip + index * BitValue(rec.depth)]]
<1>1. /\ impl = "c" /\ status = "running" /\ pending # <<>> /\ UNCHANGED <<db, impl>>
      /\ \/ type_of(rec) = "invalid" /\ Raise
         \/ type_of(rec) = "node" /\ skip_alias_c(rec) /\ Drop
         \/ /\ type_of(rec) = "node" /\ ~skip_alias_c(rec)
            /\ pending' = <<side[0], side[1]>> \o Tail(pending)
            /\ UNCHANGED <<out, status>>
         \/ type_of(rec) = "empty" /\ Drop
         \/ type_of(rec) = "data" /\ yield_network(network_of_c(rec), rec.record)
  BY DEF ReaderIter_next
<1>2. rec \in Calls /\ OnPath(rec) /\ ShallowFile(db)
  BY <1>1, NextCall
<1>3. CASE /\ (type_of(rec) = "node" /\ skip_alias_c(rec)) \/ type_of(rec) = "empty"
           /\ Drop
  <2>1. AllYielded(rec, out)
    BY <1>1, <1>2, <1>3, CDrops
  <2> QED BY <1>1, <1>3, <2>1, DropLists
<1>4. CASE Raise
  BY <1>1, <1>4, RaiseLists
<1>5. CASE type_of(rec) = "data" /\ yield_network(network_of_c(rec), rec.record)
  <2>1. rec.record > db.node_count
    BY <1>1, <1>2, <1>5, CDrops
  <2> QED BY <1>1, <1>5, <2>1, YieldLists
<1>6. CASE /\ type_of(rec) = "node" /\ ~skip_alias_c(rec)
           /\ pending' = <<side[0], side[1]>> \o Tail(pending)
           /\ UNCHANGED <<out, status>>
  <2>1. rec.record < db.node_count /\ ~ Ends(rec.record, rec.depth, PrefixOf(rec))
    BY <1>1, <1>2, <1>6, CDrops
  <2>2. ASSUME NEW index \in {0, 1}
        PROVE  /\ ChildOf(rec, index, side[index])
               /\ side[index] = [record |-> side[index].record, depth |-> side[index].depth,
                                 ip |-> side[index].ip]
    <3>1. index \in 0..1
      OBVIOUS
    <3> HIDE DEF rec
    <3>2. side[index] = [record |-> db.tree[rec.record + 1][index + 1], depth |-> rec.depth + 1,
                         ip |-> rec.ip + index * BitValue(rec.depth)]
      BY <3>1
    <3> QED BY <1>1, <3>2 DEF ChildOf
  <2> HIDE DEF side
  <2>3. ChildOf(rec, 0, side[0]) /\ ChildOf(rec, 1, side[1])
    BY <2>2
  <2>4. /\ side[0] = [record |-> side[0].record, depth |-> side[0].depth, ip |-> side[0].ip]
        /\ side[1] = [record |-> side[1].record, depth |-> side[1].depth, ip |-> side[1].ip]
    BY <2>2
  <2> QED BY <1>1, <1>6, <2>1, <2>3, <2>4, DescendLists
<1> QED BY <1>1, <1>3, <1>4, <1>5, <1>6

\* The iteration begins at the root, below which all lies.
LEMMA StartLists ==
  ASSUME ListingInvariant, Start
  PROVE  ListingInvariant'
<1> DEFINE root == [record |-> 0, depth |-> 0, ip |-> 0]
           list == <<root>>
           none == <<>>
<1>1. /\ pending' = list /\ status' = "running" /\ UNCHANGED <<db, impl>> /\ out' = none
      /\ ShallowFile(db) /\ impl \in {"python", "c"}
  BY DEF Start, ListingInvariant
<1>2. /\ V6Bits \in Nat /\ 2^0 = 1 /\ db.node_count \in Nat
      /\ \A k \in 0..db.node_count : 2^k \in Nat \ {0}
  BY <1>1, ShallowNumbers, Widths
<1>3. root \in Calls /\ root.record = 0 /\ root.depth = 0 /\ root.ip = 0
  BY DEF Calls
<1> HIDE DEF root
<1>4. PrefixOf(root) = 0 /\ Begin(root) = 0
  <2> DEFINE s == 2^V6Bits
  <2>1. s \in Nat \ {0} /\ V6Bits - 0 = V6Bits /\ V6Bits \in 0..V6Bits
    BY <1>2, PowerPositive
  <2> HIDE DEF s
  <2>2. 0 \div s = 0 /\ 0 * s = 0
    BY <2>1
  <2>3. 0 \div 2^(V6Bits - 0) = 0 /\ 0 * 2^(V6Bits - 0) = 0
    BY <2>1, <2>2 DEF s
  <2>4. PrefixOf(root) = 0
    BY <1>3, <2>3 DEF PrefixOf
  <2> QED BY <1>3, <2>3, <2>4 DEF Begin, First
<1>5. OnPath(root)
  <2>1. RecordAt[0][0] = 0
    BY <1>1, RecordAtFollows
  <2>2. 0 \in 0..(2^0 - 1) /\ 0 <= V6Bits /\ 0 <= db.node_count
    BY <1>2
  <2> QED BY <1>3, <1>4, <2>1, <2>2, Zenon DEF OnPath
<1>6. list \in Seq(Calls) /\ Len(list) = 1 /\ list[1] = root
  BY <1>3
<1>7. none \in Seq(YieldedItems) /\ Len(none) = 0
  OBVIOUS
<1> HIDE DEF list, none
<1>8. Listing(list, none)
  BY <1>5, <1>6, <1>7 DEF Listing
<1>9. Covered(list, none)
  <2> SUFFICES ASSUME NEW p \in DataPrefixes PROVE \E k \in 1..Len(list) : Lies(list[k], p[1], p[2])
    BY DEF Covered
  <2>1. p[1] \in 0..db.node_count /\ p[2] \in 0..(2^p[1] - 1) /\ 2^p[1] \in Nat \ {0}
    BY <1>1, <1>2, DataPrefixIs
  <2> DEFINE n == p[1]
             s == 2^n
             x == p[2]
  <2>2. n - 0 = n /\ 0 <= n
    BY <2>1
  <2>3. x \div s = 0
    <3>1. x \in 0..(s - 1) /\ s \in Nat \ {0}
      BY <2>1
    <3> HIDE DEF s, x
    <3> QED BY <3>1
  <2>4. Lies(root, n, x)
    BY <1>3, <1>4, <2>2, <2>3 DEF Lies
  <2>5. 1 \in 1..Len(list)
    BY <1>6
  <2> QED BY <1>6, <2>4, <2>5
<1>10. Listing(pending', out') /\ Covered(pending', out')
  BY <1>1, <1>8, <1>9
<1> QED BY <1>1, <1>10, RunningLists

\* The database stays the same.
LEMMA DatabaseStays == [Next]_vars => db' = db
BY DEF Next, vars, Start, Stop, _generate_children, ReaderIter_next

\* The invariant holds of the iteration over a shallow tree.
LEMMA ListingInvariantHolds == Spec => [](Shallow(db.tree) => ListingInvariant)
<1>1. Init => (Shallow(db.tree) => ListingInvariant)
  <2> SUFFICES ASSUME Init, Shallow(db.tree) PROVE ListingInvariant
    OBVIOUS
  <2>1. /\ impl \in {"python", "c"} /\ pending = <<>> /\ out = <<>> /\ status = "opened"
    BY DEF Init
  <2>2. ShallowFile(db)
    BY ShallowFileOpened
  <2>3. Listing(pending, out)
    BY <2>1 DEF Listing
  <2> QED BY <2>1, <2>2, <2>3 DEF ListingInvariant
<1>2. (Shallow(db.tree) => ListingInvariant) /\ [Next]_vars
        => (Shallow(db.tree) => ListingInvariant)'
  <2> SUFFICES ASSUME ListingInvariant, [Next]_vars PROVE ListingInvariant'
    <3>1. ASSUME [Next]_vars PROVE Shallow(db.tree)' <=> Shallow(db.tree)
      BY <3>1, DatabaseStays
    <3> QED BY <3>1
  <2>1. ASSUME UNCHANGED <<db, impl, pending, out>>,
               status' = status \/ (status' = "stopped" /\ status # "opened" /\ pending = <<>>)
        PROVE  ListingInvariant'
    <3>1. Listing(pending', out') /\ (status # "opened" => Covered(pending', out'))
      BY <2>1 DEF ListingInvariant
    <3>2. Listing(pending, out)' /\ (status # "opened" => Covered(pending, out)')
      BY <2>1, <3>1, ListingLasts, CoveredLasts
    <3>3. ShallowFile(db)' /\ (impl \in {"python", "c"})'
      BY <2>1 DEF ListingInvariant
    <3> QED BY <2>1, <3>2, <3>3 DEF ListingInvariant
  <2>2. CASE Stop
    BY <2>1, <2>2 DEF Stop
  <2>3. CASE UNCHANGED vars
    BY <2>1, <2>3 DEF vars
  <2> QED BY <2>2, <2>3, StartLists, PythonLists, CLists DEF Next
<1> QED BY <1>1, <1>2, PTL DEF Spec

\* An iteration over a shallow tree that runs to its end has listed exactly what
\* is to be listed, each item once and in address order.
THEOREM IterationExactSafety == Spec => []IterationExact
<1>1. (Shallow(db.tree) => ListingInvariant) => IterationExact
  <2> SUFFICES ASSUME ListingInvariant, status = "stopped" PROVE IterationExact
    BY Zenon DEF IterationExact
  <2> DEFINE n == Len(out)
  <2>1. Covered(pending, out) /\ Listing(pending, out) /\ pending = <<>>
    BY DEF ListingInvariant
  <2>2. /\ out \in Seq(YieldedItems) /\ \A k \in 1..n : out[k] \in Listed
        /\ \A j, k \in 1..n : j < k => out[j].net.address < out[k].net.address
    BY <2>1 DEF Listing
  <2>3. n \in Nat /\ DOMAIN out = 1..n
    BY <2>2
  <2>4. ASSUME NEW i \in Listed PROVE \E k \in 1..n : out[k] = i
    <3>1. i \in Items
      BY DEF Listed
    <3>2. PICK p \in DataPrefixes : i = Item(p[1], p[2])
      <4>1. Items = {[net |-> NetworkOf(p[1], p[2]), pointer |-> RecordAt[p[1]][p[2]]] :
                       p \in DataPrefixes}
        BY Zenon DEF Items
      <4> QED BY <3>1, <4>1 DEF Item
    <3>3. ~ \E k \in 1..Len(pending) : Lies(pending[k], p[1], p[2])
      BY <2>1
    <3> QED BY <2>1, <3>2, <3>3 DEF Covered
  <2>5. Range(out) = Listed
    BY <2>2, <2>3, <2>4 DEF Range
  <2>6. n = Cardinality(Listed)
    <3>1. out \in [1..n -> Listed]
      BY <2>2, <2>3
    <3>2. out \in Surjection(1..n, Listed)
      BY <2>4, <3>1 DEF Surjection
    <3>3. out \in Injection(1..n, Listed)
      <4>1. ASSUME NEW j \in 1..n, NEW k \in 1..n, out[j] = out[k] PROVE j = k
        <5>1. ~ (j < k) /\ ~ (k < j)
          <6>1. out[j] \in YieldedItems
            BY <2>2
          <6>2. out[j].net.address \in Nat
            BY <6>1 DEF YieldedItems
          <6>3. ~ (out[j].net.address < out[j].net.address)
            BY <6>2
          <6> QED BY <2>2, <4>1, <6>3
        <5> QED BY <2>3, <5>1
      <4> QED BY <3>1, <4>1, <2>3 DEF Injection, IsInjective
    <3>4. IsFiniteSet(1..n) /\ Cardinality(1..n) = n
      <4> HIDE DEF n
      <4>1. 1 \in Int /\ n \in Int
        BY <2>3
      <4>2. IsFiniteSet(1..n) /\ Cardinality(1..n) = IF 1 > n THEN 0 ELSE n - 1 + 1
        BY <4>1, FS_Interval, Zenon
      <4> QED BY <2>3, <4>2
    <3>5. Cardinality(Listed) = Cardinality(1..n)
      BY <3>2, <3>3, <3>4, FS_Surjection
    <3> QED BY <3>4, <3>5
  <2>7. \A j, k \in DOMAIN out :
          j < k /\ out[j].net.version = out[k].net.version =>
            out[j].net.address < out[k].net.address
    BY <2>2, <2>3
  <2> QED BY <2>5, <2>6, <2>7 DEF IterationExact
<1> QED BY <1>1, ListingInvariantHolds, PTL

\* Every variable has its type throughout the iteration over a shallow tree.
THEOREM IterationTypeCorrect == Spec => [](Shallow(db.tree) => TypeOK)
<1>1. ListingInvariant => TypeOK
  <2> SUFFICES ASSUME ListingInvariant PROVE TypeOK
    OBVIOUS
  <2>1. /\ impl \in {"python", "c"} /\ status \in {"opened", "running", "stopped", "raised"}
        /\ pending \in Seq(Calls) /\ out \in Seq(YieldedItems) /\ ShallowFile(db)
    BY DEF ListingInvariant, Listing
  <2>2. db.ip_version \in {4, 6} /\ db.node_count = Len(db.tree)
    BY <2>1, ShallowNumbers DEF File
  <2>3. \A k \in DOMAIN pending : pending[k] \in Calls
    BY <2>1
  <2>4. \A k \in DOMAIN out : out[k] \in YieldedItems
    BY <2>1
  <2> QED BY <2>1, <2>2, <2>3, <2>4, Zenon DEF TypeOK, Calls, YieldedItems
<1> QED BY <1>1, ListingInvariantHolds, PTL

=============================================================================
