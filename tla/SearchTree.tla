----------------------------- MODULE SearchTree -----------------------------
(***************************************************************************)
(* The binary search tree of a MaxMind DB file and the lookups on it: the  *)
(* pure Python reader's (maxminddb/reader.py) and the C extension's        *)
(* (get_record, on top of libmaxminddb).                                   *)
(*                                                                         *)
(* The file's bytes are real: records of 24, 28 or 32 bits, packed as the  *)
(* format packs them.  Address widths are scaled: Gap stands for the 96    *)
(* bits in front of an IPv4 address in an IPv6 tree, V4Bits for 32.  An    *)
(* address is an integer below 2^V4Bits or 2^(Gap+V4Bits).                 *)
(***************************************************************************)
EXTENDS Bytes

CONSTANTS Gap, V4Bits

\* As 96 and 32 are.
ASSUME WidthAssumption == Gap \in Nat /\ V4Bits \in Nat \ {0} /\ Gap > V4Bits

V6Bits == Gap + V4Bits

\* Arithmetic that the provers do not know by themselves.
ASSUME PowersAssumption == 2^0 = 1 /\ \A k \in 1..V6Bits : 2^k = 2 * 2^(k - 1)

_DATA_SECTION_SEPARATOR_SIZE == 16

-----------------------------------------------------------------------------
(* The file.  db.tree is the writer's view: node n is tree[n+1], a pair of  *)
(* records; db.bytes is what is on disk.                                    *)

\* One node as the file format lays it out.
NodeBytes(recordSize, left, right) ==
  IF recordSize = 28
    THEN BigEndian(left % 2^24, 3)
           \o <<16 * (left \div 2^24) + (right \div 2^24)>>
           \o BigEndian(right % 2^24, 3)
    ELSE BigEndian(left, recordSize \div 8) \o BigEndian(right, recordSize \div 8)

\* The numbers that a record of so many bits holds, and the trees that a file
\* can hold.
Records(recordSize) == {n \in Nat : n \div 2^24 < 2^(recordSize - 24)}

TreesOf(recordSize) == Seq(Records(recordSize) \X Records(recordSize))

\* A database file with the given tree; dataSize is the size of its data section.
Database(tree, ipVersion, recordSize, dataSize) ==
  LET upTo[n \in 0..Len(tree)] ==
        IF n = 0 THEN <<>> ELSE upTo[n - 1] \o NodeBytes(recordSize, tree[n][1], tree[n][2])
  IN  [tree |-> tree, bytes |-> upTo[Len(tree)], node_count |-> Len(tree),
       ip_version |-> ipVersion, record_size |-> recordSize, data_size |-> dataSize]

node_byte_size(db) == db.record_size \div 4

search_tree_size(db) == db.node_count * node_byte_size(db)

buffer_size(db) == search_tree_size(db) + _DATA_SECTION_SEPARATOR_SIZE + db.data_size

Bits(db) == IF db.ip_version = 6 THEN V6Bits ELSE V4Bits

-----------------------------------------------------------------------------
(* The pure Python reader.                                                  *)

\* self._buffer[from : from + n]
Slice(db, from, n) == SubSeq(db.bytes, from + 1, from + n)

_read_node(db, node, index) ==
  LET base == node * node_byte_size(db)
      raw28 == Slice(db, base + 3 * index, 4)
  IN  FromBytes(
        IF db.record_size = 24 THEN Slice(db, base + 3 * index, 3)
        ELSE IF db.record_size = 28 /\ index = 1 THEN <<raw28[1] % 16>> \o Tail(raw28)
        ELSE IF db.record_size = 28 THEN <<raw28[4] \div 16>> \o SubSeq(raw28, 1, 3)
        ELSE Slice(db, base + 4 * index, 4))

\* Reader._ipv4_start: the end of up to Gap steps to the left.
_ipv4_start(db) ==
  LET walk[i \in 0..Gap] ==
        IF i = 0 THEN 0
        ELSE LET node == walk[i - 1] IN
             IF node >= db.node_count THEN node ELSE _read_node(db, node, 0)
  IN  IF db.ip_version = 6 THEN walk[Gap] ELSE 0

\* The length of an address of either version.
AddressBits(version) == IF version = 6 THEN V6Bits ELSE V4Bits

\* Mutant: an IPv4 lookup starts at the root.
_start_node_root(db, length) == 0

_start_node(db, length) ==
  IF db.ip_version = 6 /\ length = V4Bits THEN _ipv4_start(db) ELSE 0

\* Mutant: bits are taken from the least significant one.
Bit_from_the_right(address, n, i) == (address \div 2^i) % 2

\* Bit i of an address of n bits, from the most significant one.
Bit(address, n, i) == (address \div 2^(n - 1 - i)) % 2

\* Where the loop of _find_address_in_tree stops, and after how many steps, for a
\* packed value of n bits, as many as they are.
_find_address_in_tree(db, packed, n) ==
  LET walk[i \in 0..n] ==
        IF i = 0 THEN _start_node(db, n)
        ELSE LET node == walk[i - 1] IN
             IF node >= db.node_count THEN node ELSE _read_node(db, node, Bit(packed, n, i - 1))
      i == Min({k \in 0..n : walk[k] >= db.node_count} \cup {n})
  IN  [node |-> walk[i], steps |-> i]

\* What a lookup comes to: a data record, None, or an exception.
Found(pointer, prefix) == [kind |-> "record", pointer |-> pointer, prefix |-> prefix]
NotFound(prefix)       == [kind |-> "None", pointer |-> 0, prefix |-> prefix]
Raised(exception)      == [kind |-> exception, pointer |-> 0, prefix |-> 0]

\* _resolve_data_pointer raises for a record that points past the end of the file.
PointsPastEnd(db, pointer) == pointer - db.node_count + search_tree_size(db) >= buffer_size(db)

\* get_with_prefix_len from the packed value on, of an object that says that its
\* version is so.
get_packed(db, packed, n, version) ==
  LET at == _find_address_in_tree(db, packed, n) IN
  IF version = 6 /\ db.ip_version = 4 THEN Raised("ValueError")
  ELSE IF at.node = db.node_count THEN NotFound(at.steps)
  ELSE IF at.node > db.node_count /\ ~PointsPastEnd(db, at.node) THEN Found(at.node, at.steps)
  ELSE Raised("InvalidDatabaseError")

\* Of an address object of the ipaddress module.
get_with_prefix_len(db, address, version) ==
  get_packed(db, address, AddressBits(version), version)

-----------------------------------------------------------------------------
(* The argument of get() and get_with_prefix_len().                         *)

\* form: what kind of argument it is; version and address: what it stands for,
\* or what an object has as `version` (0 when it has none) and `packed`; bits:
\* the length of the packed value.
Argument(form, version, address, bits) ==
  [form |-> form, version |-> version, address |-> address, bits |-> bits]

\* An address as ipaddress and getaddrinfo both read it ("notation"), one of the
\* older spellings of an IPv4 address that getaddrinfo also takes, such as
\* "127.1" or "1" ("legacy"), an IPv6 address with a zone that getaddrinfo does
\* not know ("zone"), anything else, a NUL or a lone surrogate in it as cases of
\* their own.
Texts ==
  {Argument(form, 4, a, V4Bits) : form \in {"notation", "legacy"}, a \in 0..(2^V4Bits - 1)}
    \cup {Argument(form, 6, a, V6Bits) : form \in {"notation", "zone"}, a \in 0..(2^V6Bits - 1)}
    \cup {Argument(form, 0, 0, 0) : form \in {"text", "nul", "surrogate"}}

\* Objects whose `packed` is so many bits of a bytes, or of something else that
\* bytearray() takes, ipaddress objects among them.
ObjectsOf(bits) ==
  {Argument(form, version, a, bits) :
     form \in {"bytes", "bytearray"}, version \in {0, 4, 6}, a \in 0..(2^bits - 1)}

\* Those, and others whose `packed` is nothing that bytearray() takes, or that
\* have none.
Objects ==
  (UNION {ObjectsOf(bits) : bits \in 0..(V6Bits + 1)})
    \cup {Argument(form, 0, 0, 0) : form \in {"unusable", "unpacked"}}

Arguments == Texts \cup Objects

\* The Python reader: ipaddress.ip_address, bytearray(address.packed), and
\* address.version outside the try statement.
get_by_argument(db, arg) ==
  IF arg.form \in {"notation", "zone"} THEN get_with_prefix_len(db, arg.address, arg.version)
  ELSE IF arg.form \in {"legacy", "text", "nul", "surrogate"} THEN Raised("ValueError")
  ELSE IF arg.form \in {"unusable", "unpacked"} THEN Raised("TypeError")
  ELSE IF arg.version = 0 THEN Raised("AttributeError")
  ELSE get_packed(db, arg.address, arg.bits, arg.version)

\* The C extension: the address family, or the exception.
ip_converter(arg) ==
  IF arg.form \in {"nul", "surrogate", "unpacked", "unusable", "bytearray"} THEN "TypeError"
  ELSE IF arg.form \in {"notation", "legacy"} /\ arg.version = 6 THEN "AF_INET6"
  ELSE IF arg.form \in {"notation", "legacy"} THEN "AF_INET"
  ELSE IF arg.form = "bytes" /\ arg.bits = V6Bits THEN "AF_INET6"
  ELSE IF arg.form = "bytes" /\ arg.bits = V4Bits THEN "AF_INET"
  ELSE "ValueError"

-----------------------------------------------------------------------------
(* The C extension.                                                         *)

\* libmaxminddb: a record's value as the search tree reader classifies it.
record_type(db, record) ==
  IF record = 0 THEN "invalid"
  ELSE IF record < db.node_count THEN "node"
  ELSE IF record = db.node_count THEN "empty"
  ELSE IF record < db.node_count + _DATA_SECTION_SEPARATOR_SIZE + db.data_size THEN "data"
  ELSE "invalid"

\* libmaxminddb: ipv4_start_node, with the depth at which it was reached.
ipv4_start_node(db) ==
  LET walk[i \in 0..Gap] ==
        IF i = 0 THEN 0
        ELSE LET node == walk[i - 1] IN
             IF node >= db.node_count THEN node ELSE db.tree[node + 1][1]
  IN  IF db.ip_version = 6
        THEN [node_value |-> walk[Gap],
              netmask |-> Min({k \in 0..Gap : walk[k] >= db.node_count} \cup {Gap})]
        ELSE [node_value |-> 0, netmask |-> 0]

\* libmaxminddb: MMDB_lookup_sockaddr.  In an IPv6 tree the netmask counts from
\* the root, for an IPv4 address too.
MMDB_lookup_sockaddr(db, address, version) ==
  LET n     == Bits(db)
      v4in6 == db.ip_version = 6 /\ version = 4
      first == IF v4in6 THEN ipv4_start_node(db).netmask ELSE 0
      walk[i \in first..n] ==
        IF i = first THEN (IF v4in6 THEN ipv4_start_node(db).node_value ELSE 0)
        ELSE LET node == walk[i - 1] IN
             IF node >= db.node_count THEN node ELSE db.tree[node + 1][Bit(address, n, i - 1) + 1]
      i == Min({k \in first..n : walk[k] >= db.node_count} \cup {n})
  IN  [node |-> walk[i], netmask |-> i]

\* Mutant: the prefix length of an IPv4 address is not held at 0.
get_record_prefix_len_unclamped(db, version, netmask) ==
  IF version = 4 /\ db.ip_version = 6 THEN netmask - Gap ELSE netmask

\* The prefix length get_record reports.
get_record_prefix_len(db, version, netmask) ==
  IF version = 4 /\ db.ip_version = 6
    THEN IF netmask >= Gap THEN netmask - Gap ELSE 0
    ELSE netmask

get_record(db, address, version) ==
  LET at     == MMDB_lookup_sockaddr(db, address, version)
      prefix == get_record_prefix_len(db, version, at.netmask)
      type   == record_type(db, at.node)
  IN  IF version = 6 /\ db.ip_version = 4 THEN Raised("ValueError")
      ELSE IF type = "empty" THEN NotFound(prefix)
      ELSE IF type = "data" THEN Found(at.node, prefix)
      ELSE Raised("InvalidDatabaseError")

\* Reader_get and Reader_get_with_prefix_len, from the argument on.
get_by_argument_c(db, arg) ==
  IF ip_converter(arg) = "AF_INET" THEN get_record(db, arg.address, 4)
  ELSE IF ip_converter(arg) = "AF_INET6" THEN get_record(db, arg.address, 6)
  ELSE Raised(ip_converter(arg))

=============================================================================
