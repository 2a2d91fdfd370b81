---------------------------- MODULE TreeIteration ----------------------------
(***************************************************************************)
(* Iteration over a whole database: the generator _generate_children of    *)
(* the pure Python Reader and ReaderIter_next of the C extension, each on  *)
(* every database of a set, and what the two promise about lookups.        *)
(*                                                                         *)
(* A pending call of _generate_children, or a record on the C iterator's   *)
(* list, is [record, depth, ip]; ip is the Python ip_acc, respectively the *)
(* ip_packed of the C record (an address of V6Bits bits).                  *)
(***************************************************************************)
EXTENDS SearchTree, SequencesExt

CONSTANTS
  RecordSizes,  \* the record sizes of the files that are opened,
  Trees,        \* their search trees: Trees[size] is a set of sequences of pairs,
  DataSize,     \* and the sizes of their data sections
  MaxDepth      \* bound: how deep an iteration is followed, where a tree has a cycle

\* Every search tree has a root.
ASSUME TreesAssumption ==
  /\ RecordSizes \subseteq {24, 28, 32}
  /\ \A size \in RecordSizes :
       /\ DataSize[size] \in Nat
       /\ \A tree \in Trees[size] : tree \in TreesOf(size) /\ tree # <<>>

ASSUME DepthAssumption == MaxDepth \in Nat

\* Arithmetic that the provers do not know by themselves, as far as a path in a
\* tree can go.
ASSUME DeepPowersAssumption ==
  \A size \in RecordSizes : \A tree \in Trees[size] : \A k \in 1..Len(tree) : 2^k = 2 * 2^(k - 1)

\* A tree is shallow when no path in it meets more nodes than an IPv6 address has
\* bits: the nodes can be given ranks that grow along every path.
Shallow(tree) ==
  \E rank \in [0..(Len(tree) - 1) -> 0..(Len(tree) - 1)] :
    \A n \in DOMAIN rank :
      /\ rank[n] < V6Bits
      /\ \A index \in {1, 2} :
           tree[n + 1][index] < Len(tree) => rank[n] < rank[tree[n + 1][index]]

VARIABLES
  db,       \* the open database
  impl,     \* "python" or "c"
  pending,  \* the calls suspended, the next one first
  out,      \* the items yielded: [net, pointer]
  status    \* "opened", "running", "stopped" (exhausted) or "raised"

vars == <<db, impl, pending, out, status>>

-----------------------------------------------------------------------------
\* The ipaddress module.  ip_network((address, prefix)) refuses a prefix that
\* is out of range and an address with host bits set.
Network(version, address, prefix) == [version |-> version, address |-> address, prefix |-> prefix]

NoNetwork == Network(0, 0, 0)

ip_network(version, address, prefix) ==
  LET n == AddressBits(version) IN
  IF prefix \in 0..n /\ address % 2^(n - prefix) = 0
    THEN Network(version, address, prefix) ELSE NoNetwork

\* An int below 2^V4Bits is taken as an IPv4 address, unless the prefix is out
\* of range for IPv4.
ip_network_of_int(address, prefix) ==
  ip_network(IF address < 2^V4Bits /\ prefix \in 0..V4Bits THEN 4 ELSE 6, address, prefix)

-----------------------------------------------------------------------------
(* The pure Python generator.                                               *)

\* Mutant: one bit too many.
_IPV4_MAX_NUM_doubled == 2^(V4Bits + 1)

\* _IPV4_MAX_NUM is 2**32.
_IPV4_MAX_NUM == 2^V4Bits

\* An int shifted by a negative count raises, as ip_network does.
network_of_python(call) ==
  LET address == call.ip * 2^(Bits(db) - call.depth)
      depth   == IF address <= _IPV4_MAX_NUM /\ db.ip_version = 6
                   THEN call.depth - Gap ELSE call.depth
  IN  IF call.depth > Bits(db) THEN NoNetwork ELSE ip_network_of_int(address, depth)

\* Skip nodes aliased to IPv4.
skip_alias_python(call) == call.ip # 0 /\ call.record = _ipv4_start(db)

\* What a call does besides going on to the children: nothing, yield, or raise.
Drop == pending' = Tail(pending) /\ UNCHANGED <<out, status>>

Raise == status' = "raised" /\ UNCHANGED <<pending, out>>

Yield(net, pointer) ==
  /\ out' = Append(out, [net |-> net, pointer |-> pointer])
  /\ pending' = Tail(pending)
  /\ UNCHANGED status

\* Mutant: the failure of ip_network is not noticed.
yield_network_unchecked(net, pointer) == Yield(net, pointer)

\* The network is built first; when that fails there is nothing to yield.
yield_network(net, pointer) == IF net = NoNetwork THEN Raise ELSE Yield(net, pointer)

_generate_children ==
  /\ impl = "python" /\ status = "running" /\ pending # <<>>
  /\ LET call  == Head(pending)
         child == [index \in 0..1 |->
                     [record |-> _read_node(db, call.record, index),
                      depth |-> call.depth + 1, ip |-> 2 * call.ip + index]]
     IN  \/ skip_alias_python(call) /\ Drop
         \/ /\ ~skip_alias_python(call) /\ call.record > db.node_count
            /\ IF PointsPastEnd(db, call.record)
                 THEN Raise ELSE yield_network(network_of_python(call), call.record)
         \/ ~skip_alias_python(call) /\ call.record = db.node_count /\ Drop
         \/ /\ ~skip_alias_python(call) /\ call.record < db.node_count
            /\ call.depth < MaxDepth
            /\ pending' = <<child[0], child[1]>> \o Tail(pending)
            /\ UNCHANGED <<out, status>>
  /\ UNCHANGED <<db, impl>>

-----------------------------------------------------------------------------
(* The C iterator.                                                          *)

\* Mutant: off by one.
is_ipv6_above(ip) == ip > 2^V4Bits

\* One of the first 12 bytes of ip_packed is not zero.
is_ipv6(ip) == ip >= 2^V4Bits

\* ip_packed[12..15] of an IPv4 address in an IPv6 tree, ip_packed[0..3] in an
\* IPv4 tree, all 16 bytes otherwise; ip_network gets bytes, so the version is
\* given by their number.
network_of_c(rec) ==
  IF db.ip_version = 4 THEN ip_network(4, rec.ip \div 2^Gap, rec.depth)
  ELSE IF is_ipv6(rec.ip) THEN ip_network(6, rec.ip, rec.depth)
  ELSE ip_network(4, rec.ip % 2^V4Bits, rec.depth - Gap)

\* The first record has type 0, a search node, although its value is 0.
type_of(rec) == IF rec.depth = 0 THEN "node" ELSE record_type(db, rec.record)

\* Mutant: aliases are not skipped.
skip_alias_c_never(rec) == FALSE

skip_alias_c(rec) == rec.record = ipv4_start_node(db).node_value /\ is_ipv6(rec.ip)

\* What a bit of ip_packed counts for.  A node below the last one, which only a
\* tree has that is no tree of addresses, makes right->ip_packed[cur->depth / 8]
\* a byte after the array: it lies in the members that are assigned next, and
\* the bit is lost.  (In a record of 64 bytes that is so up to depth 511.)
BitValue(depth) == IF depth < V6Bits THEN 2^(V6Bits - 1 - depth) ELSE 0

ReaderIter_next ==
  /\ impl = "c" /\ status = "running" /\ pending # <<>>
  /\ LET rec  == Head(pending)
         side == [index \in 0..1 |->
                    [record |-> db.tree[rec.record + 1][index + 1], depth |-> rec.depth + 1,
                     ip |-> rec.ip + index * BitValue(rec.depth)]]
     IN  \/ type_of(rec) = "invalid" /\ Raise
         \/ type_of(rec) = "node" /\ skip_alias_c(rec) /\ Drop
         \/ /\ type_of(rec) = "node" /\ ~skip_alias_c(rec) /\ rec.depth < MaxDepth
            /\ pending' = <<side[0], side[1]>> \o Tail(pending)
            /\ UNCHANGED <<out, status>>
         \/ type_of(rec) = "empty" /\ Drop
         \/ type_of(rec) = "data" /\ yield_network(network_of_c(rec), rec.record)
  /\ UNCHANGED <<db, impl>>

-----------------------------------------------------------------------------

Init ==
  /\ \E size \in RecordSizes, version \in {4, 6} : \E tree \in Trees[size] :
       db = Database(tree, version, size, DataSize[size])
  /\ impl \in {"python", "c"}
  /\ pending = <<>> /\ out = <<>> /\ status = "opened"

\* __iter__ / Reader_iter
Start ==
  /\ status = "opened"
  /\ status' = "running"
  /\ pending' = <<[record |-> 0, depth |-> 0, ip |-> 0]>>
  /\ UNCHANGED <<db, impl, out>>

\* StopIteration
Stop ==
  /\ status = "running" /\ pending = <<>>
  /\ status' = "stopped"
  /\ UNCHANGED <<db, impl, pending, out>>

Next == Start \/ _generate_children \/ ReaderIter_next \/ Stop

Spec == Init /\ [][Next]_vars

-----------------------------------------------------------------------------
(* Reference: the record at every prefix of the tree, from the writer's     *)
(* view of it, and the networks an iteration is to list.                    *)

Ended == -1

V4Root == ipv4_start_node(db).node_value

\* An occurrence of the IPv4 subtree outside ::/96.
Alias(record, depth, prefix) ==
  /\ db.ip_version = 6 /\ record = V4Root /\ record < db.node_count
  /\ prefix * 2^(V6Bits - depth) >= 2^V4Bits

\* RecordAt[depth][prefix], or Ended below a record that is not a node.
RecordAt ==
  LET at[depth \in 0..Len(db.tree)] ==
        [prefix \in 0..(2^depth - 1) |->
           IF depth = 0 THEN 0
           ELSE LET above == at[depth - 1][prefix \div 2] IN
                IF above = Ended \/ above >= db.node_count
                   \/ Alias(above, depth - 1, prefix \div 2)
                THEN Ended ELSE db.tree[above + 1][(prefix % 2) + 1]]
  IN  at

\* The data records of the tree, as (depth, prefix), aliases left out.
DataPrefixes ==
  LET at == RecordAt IN
  {p \in UNION {{<<depth, prefix>> : prefix \in 0..(2^depth - 1)} : depth \in 0..Len(db.tree)} :
     at[p[1]][p[2]] > db.node_count}

PastEnd(pointer) == pointer - db.node_count >= _DATA_SECTION_SEPARATOR_SIZE + db.data_size

\* No such record lies deeper than an address is long, or points past the end.
Sane ==
  LET at == RecordAt IN
  \A p \in DataPrefixes : p[1] <= Bits(db) /\ ~PastEnd(at[p[1]][p[2]])

NetworkOf(depth, prefix) ==
  LET address == prefix * 2^(Bits(db) - depth) IN
  IF db.ip_version = 4 THEN Network(4, address, depth)
  ELSE IF address >= 2^V4Bits THEN Network(6, address, depth)
  ELSE Network(4, address, depth - Gap)

Items ==
  LET at == RecordAt IN
  {[net |-> NetworkOf(p[1], p[2]), pointer |-> at[p[1]][p[2]]] : p \in DataPrefixes}

\* A data record in the path to ::/96, a network that holds every IPv4 address
\* and more: it has no IPv4 network, and the readers report ::/n as one.
AboveIPv4 == db.ip_version = 6 /\ V4Root > db.node_count /\ ipv4_start_node(db).netmask < Gap

-----------------------------------------------------------------------------
(* Properties.                                                              *)

\* Every variable has its type.
TypeOK ==
  /\ db.ip_version \in {4, 6} /\ db.node_count = Len(db.tree)
  /\ impl \in {"python", "c"} /\ status \in {"opened", "running", "stopped", "raised"}
  /\ \A k \in DOMAIN pending : pending[k] \in [record : Nat, depth : Nat, ip : Nat]
  /\ \A k \in DOMAIN out :
       out[k] \in [net : [version : {4, 6}, address : Nat, prefix : Nat], pointer : Nat]

\* Python takes every other occurrence of _ipv4_start for an alias, a data
\* pointer too.
Listed == IF impl = "c" THEN Items ELSE {i \in Items : i.pointer # V4Root \/ i.net.address = 0}

\* An iteration that runs to its end lists every data record of the tree once,
\* in address order, the IPv4 aliases left out.  Python also leaves out the
\* networks that share a data record with an IPv4 subtree that is nothing else.
\* (A path that comes back to a node has no end, and no records to list.)
IterationExact ==
  status = "stopped" /\ Shallow(db.tree) =>
    /\ Range(out) = Listed /\ Len(out) = Cardinality(Listed)
    /\ \A j, k \in DOMAIN out :
         j < k /\ out[j].net.version = out[k].net.version =>
           out[j].net.address < out[k].net.address

\* Iteration and lookup agree: each address of a network that was yielded has
\* that network's record and prefix length, by both readers' lookups.
YieldsMatchLookups ==
  \A k \in DOMAIN out :
    LET net == out[k].net
        n   == AddressBits(net.version)
    IN  \A a \in net.address..(net.address + 2^(n - net.prefix) - 1) :
          {get_with_prefix_len(db, a, net.version), get_record(db, a, net.version)}
            = {Found(out[k].pointer, net.prefix)}

\* An iteration raises at nothing but: a record that is not sane; a data record
\* above ::/96; in Python the network that starts at 2^V4Bits; and in C a record
\* that points to the root again.  The second and the third are legal databases:
\* that they raise is against README.rst, see WholeDatabase.
RaisesOnlyAt ==
  status = "raised" =>
    LET call == Head(pending) IN
    \/ /\ call.record > db.node_count
       /\ \/ call.depth > Bits(db) \/ PastEnd(call.record)
          \/ db.ip_version = 6 /\ call.ip = 0 /\ call.depth < Gap
          \/ impl = "python" /\ call.ip * 2^(Bits(db) - call.depth) = 2^V4Bits
    \/ impl = "c" /\ call.record = 0 /\ call.depth > 0

\* Lookups depend on db alone: they are compared once for each.
JustStarted ==
  impl = "python" /\ status = "running" /\ Len(pending) = 1 /\ Head(pending).depth = 0

\* Not an exception.
Answers == {"record", "None"}

\* The two readers on an object that is not one of ipaddress, although it has a
\* `packed`.  The C reader looks at nothing else: a bytes of the right length is
\* looked up, of another length it is a ValueError, and what is not a bytes is a
\* TypeError.  The Python reader takes any length, insists on a `version`, and
\* believes it: in an IPv4 database that decides between an answer and a
\* ValueError, in the C reader the length does.
ObjectsDiffer(arg, python, c) ==
  /\ python.kind = "AttributeError" <=> arg.version = 0
  /\ python.kind = "ValueError" <=> arg.version = 6 /\ db.ip_version = 4
  /\ python.kind # "TypeError"
  /\ IF arg.form = "bytearray" THEN c.kind = "TypeError"
     ELSE IF arg.bits \notin {V4Bits, V6Bits} THEN c.kind = "ValueError"
     ELSE /\ c.kind = "ValueError" <=> arg.bits = V6Bits /\ db.ip_version = 4
          /\ c.kind \notin {"TypeError", "AttributeError"}
          /\ python.kind \in Answers /\ c.kind \in Answers => python = c

Agree(arg, python, c) ==
  CASE arg.form = "legacy" ->
         python.kind = "ValueError" /\ c = get_with_prefix_len(db, arg.address, 4)
    [] arg.form = "zone" ->
         python = get_record(db, arg.address, 6) /\ c.kind = "ValueError"
    [] arg.form \in {"nul", "surrogate"} ->
         python.kind = "ValueError" /\ c.kind = "TypeError"
    [] \/ arg.form = "bytearray"
       \/ arg.form = "bytes" /\ (arg.version = 0 \/ arg.bits # AddressBits(arg.version)) ->
         ObjectsDiffer(arg, python, c)
    [] OTHER -> python = c

\* Text in the usual notation, text that is no address, ipaddress objects and
\* objects without a usable `packed` have the same result in both readers: the
\* same record or None with the same prefix length, or the same exception.  Of
\* the other arguments the C reader alone takes the older spellings of an IPv4
\* address, the Python reader alone a zone that the system does not know, and
\* text with a NUL or a lone surrogate is a TypeError in C (see
\* BadTextIsValueError); ObjectsDiffer says the rest.
ReadersAgree ==
  JustStarted =>
    \A arg \in Arguments : Agree(arg, get_by_argument(db, arg), get_by_argument_c(db, arg))

\* README.rst: "A ValueError will be thrown if you look up an invalid IP
\* address".  So each reader throws one for text that is no address.
BadTextIsValueError ==
  JustStarted =>
    \A arg \in Texts : arg.form \in {"text", "nul", "surrogate"} =>
      get_by_argument(db, arg).kind = "ValueError" /\ get_by_argument_c(db, arg).kind = "ValueError"

\* Starting an IPv4 lookup at _ipv4_start is only a shortcut: it finds what the
\* IPv6 lookup of ::a finds, with the prefix counted from ::/96.
V4StartIsShortcut ==
  JustStarted /\ db.ip_version = 6 =>
    \A a \in 0..(2^V4Bits - 1) :
      LET short == get_with_prefix_len(db, a, 4)
          long  == get_with_prefix_len(db, a, 6)
      IN  /\ short.kind = long.kind /\ short.pointer = long.pointer
          /\ short.prefix = IF long.prefix >= Gap THEN long.prefix - Gap ELSE 0

\* A lookup's prefix length is right: every address that shares the prefix has
\* the same answer (in an IPv6 tree, and for IPv4 addresses from ::/96 down).
PrefixLenCovers ==
  JustStarted =>
    \A version \in {4, 6} :
      LET n      == AddressBits(version)
          answer == [a \in 0..(2^n - 1) |-> get_with_prefix_len(db, a, version)]
      IN  \A a \in DOMAIN answer :
            LET size  == 2^(n - answer[a].prefix)
                first == a - (a % size)
            IN  answer[a].kind \in {"record", "None"} =>
                  \A b \in first..(first + size - 1) : answer[b] = answer[a]

\* Without an IPv4 search tree the record above ::/96 has no network of its own:
\* it is only asked that it is yielded.
AsListed(items) == IF AboveIPv4 THEN {i.pointer : i \in items} ELSE items

\* README.rst: "You may also iterate over the whole database."  HISTORY.rst: the
\* iterator "iterates over all records in the database, excluding repeated
\* aliased of the IPv4 network".  So an iteration over a sane database, also one
\* without an IPv4 search tree, such as the one that tests/reader_test.py looks
\* addresses up in, lists every record.
WholeDatabase ==
  status \in {"stopped", "raised"} /\ Sane => AsListed(Range(out)) = AsListed(Items)

=============================================================================
