-------------------------- MODULE SearchTreeProofs --------------------------
(***************************************************************************)
(* The lookups of SearchTree, for every search tree that a file can hold,  *)
(* one with a cycle too, and for every width of addresses:                 *)
(*   LookupsAgree       the C extension finds what the Python reader finds *)
(*   ShortcutFinds      starting at _ipv4_start changes nothing            *)
(*   PrefixSpeaks       a prefix length covers only equal answers          *)
(*   DatabaseReadsNodes _read_node reads what the writer wrote             *)
(* A lookup is a walk down the tree; its loop is a recursive function,     *)
(* known only as the solution of an equation, so a solution is first shown *)
(* to exist, by induction in the form of a least counterexample.           *)
(***************************************************************************)
EXTENDS SearchTree, SequenceTheorems, WellFoundedInduction, TLAPS

-----------------------------------------------------------------------------
(* Induction over numbers, as the existence of a least element.             *)

\* A set of natural numbers that is not empty has a least element.
LEMMA LeastElement ==
  ASSUME NEW T, T \subseteq Nat, T # {}
  PROVE  \E x \in T : \A y \in T : x <= y
<1> DEFINE R == {ss \in Nat \X Nat : ss[1] < ss[2]}
<1>1. IsWellFoundedOn(R, Nat)
  BY NatLessThanWellFounded, Zenon DEF OpToRel
<1>2. PICK x \in T : \A y \in T : ~ (<<y, x>> \in R)
  <2> HIDE DEF R
  <2> QED BY <1>1, WFMin, Zenon
<1>3. ASSUME NEW y \in T PROVE x <= y
  <2>1. x \in Nat /\ y \in Nat
    OBVIOUS
  <2>2. <<y, x>> \in Nat \X Nat /\ <<y, x>>[1] = y /\ <<y, x>>[2] = x
    BY <2>1
  <2>3. ~ (y < x)
    BY <1>2, <2>2
  <2> QED BY <2>1, <2>3
<1> QED BY <1>3

\* A set that holds m, and k + 1 with every k in m..(n-1), holds m..n.
LEMMA Upwards ==
  ASSUME NEW m \in Nat, NEW n \in Nat, NEW T, m \in T,
         \A k \in m..(n - 1) : k \in T => k + 1 \in T
  PROVE  m..n \subseteq T
<1> DEFINE Bad == {k \in m..n : k \notin T}
<1> SUFFICES ASSUME Bad # {} PROVE FALSE
  OBVIOUS
<1>1. Bad \subseteq Nat
  OBVIOUS
<1>2. PICK k \in Bad : \A y \in Bad : k <= y
  <2> HIDE DEF Bad
  <2> QED BY <1>1, LeastElement, Zenon
<1>3. k \in m..n /\ k # m /\ k - 1 \in m..(n - 1) /\ ~ (k <= k - 1)
  BY <1>2
<1>4. k - 1 \notin Bad
  BY <1>2, <1>3
<1>5. k - 1 \in T
  BY <1>3, <1>4
<1>6. (k - 1) + 1 = k
  BY <1>3
<1> QED BY <1>2, <1>3, <1>5, <1>6

-----------------------------------------------------------------------------
(* Recursive functions on an interval: each is the CHOOSEn solution of an   *)
(* equation, and has its properties once there is a solution.               *)

\* f has the value a at m, and each further value up to n from the one before.
Recursion(f, m, n, S, a, G) ==
  f \in [m..n -> S] /\ f[m] = a /\ \A i \in (m + 1)..n : f[i] = G[i][f[i - 1]]

\* There is such a function.
LEMMA RecursionExists ==
  ASSUME NEW m \in Nat, NEW n \in Nat, m <= n, NEW S, NEW a \in S,
         NEW G \in [(m + 1)..n -> [S -> S]]
  PROVE  \E f : Recursion(f, m, n, S, a, G)
<1> DEFINE Solves(f, k) == Recursion(f, m, k, S, a, G)
           T == {k \in m..n : \E f : Solves(f, k)}
<1>1. m \in T
  <2> DEFINE f == [i \in m..m |-> a]
  <2>1. m \in m..n /\ Solves(f, m)
    BY DEF Recursion
  <2> HIDE DEF Solves, f
  <2> QED BY <2>1
<1>2. ASSUME NEW k \in m..(n - 1), k \in T PROVE k + 1 \in T
  <2>1. PICK f : Solves(f, k)
    BY <1>2
  <2> DEFINE g == [i \in m..(k + 1) |-> IF i <= k THEN f[i] ELSE G[k + 1][f[k]]]
  <2>2. k \in m..k /\ k + 1 \in (m + 1)..n /\ ~ (k + 1 <= k) /\ k + 1 \in m..n
    OBVIOUS
  <2>3. g \in [m..(k + 1) -> S]
    <3>1. f[k] \in S /\ G[k + 1][f[k]] \in S
      BY <2>1, <2>2 DEF Recursion
    <3>2. \A i \in m..(k + 1) : i <= k => f[i] \in S
      BY <2>1 DEF Recursion
    <3> QED BY <3>1, <3>2
  <2>4. g[m] = a
    BY <2>1 DEF Recursion
  <2>5. ASSUME NEW i \in (m + 1)..(k + 1) PROVE g[i] = G[i][g[i - 1]]
    <3>1. i \in m..(k + 1) /\ i - 1 \in m..(k + 1) /\ i - 1 <= k
      OBVIOUS
    <3>2. g[i - 1] = f[i - 1]
      BY <3>1
    <3>3. CASE i <= k
      <4>1. g[i] = f[i] /\ i \in (m + 1)..k
        BY <3>1, <3>3
      <4> QED BY <2>1, <3>2, <4>1 DEF Recursion
    <3>4. CASE ~ (i <= k)
      <4>1. i = k + 1 /\ i - 1 = k
        BY <3>4
      <4>2. g[i] = G[i][f[i - 1]]
        BY <3>1, <3>4, <4>1
      <4> QED BY <3>2, <4>2
    <3> QED BY <3>3, <3>4
  <2>6. Solves(g, k + 1)
    BY <2>3, <2>4, <2>5 DEF Recursion
  <2> QED BY <2>2, <2>6
<1>3. n \in m..n /\ m..n \subseteq T
  <2>1. \A k \in m..(n - 1) : k \in T => k + 1 \in T
    BY <1>2
  <2>2. n \in m..n
    OBVIOUS
  <2> HIDE DEF T
  <2>3. m..n \subseteq T
    BY <1>1, <2>1, Upwards, Zenon
  <2> QED BY <2>2, <2>3
<1>4. \E f : Solves(f, n)
  BY <1>3
<1> QED BY <1>4

-----------------------------------------------------------------------------
(* Walks down the tree.                                                     *)

\* w is a walk from step m to step n: it starts at the node start and takes the
\* records next[i][node], until it is at no node any more.
Walk(w, m, n, start, N, next) ==
  /\ w \in [m..n -> Nat]
  /\ w[m] = start
  /\ \A i \in (m + 1)..n : w[i] = IF w[i - 1] >= N THEN w[i - 1] ELSE next[i][w[i - 1]]

\* There is such a walk.
LEMMA WalkExists ==
  ASSUME NEW m \in Nat, NEW n \in Nat, m <= n, NEW start \in Nat, NEW N \in Nat,
         NEW next \in [(m + 1)..n -> [0..(N - 1) -> Nat]]
  PROVE  \E w : Walk(w, m, n, start, N, next)
<1> DEFINE G == [i \in (m + 1)..n |-> [x \in Nat |-> IF x >= N THEN x ELSE next[i][x]]]
<1>1. G \in [(m + 1)..n -> [Nat -> Nat]]
  <2>1. ASSUME NEW i \in (m + 1)..n, NEW x \in Nat, ~ (x >= N) PROVE next[i][x] \in Nat
    <3>1. x \in 0..(N - 1)
      BY <2>1
    <3> QED BY <3>1
  <2> QED BY <2>1
<1>2. PICK f : Recursion(f, m, n, Nat, start, G)
  <2> HIDE DEF G
  <2> QED BY <1>1, RecursionExists, Zenon
<1>3. ASSUME NEW i \in (m + 1)..n
      PROVE  f[i] = IF f[i - 1] >= N THEN f[i - 1] ELSE next[i][f[i - 1]]
  <2>1. i - 1 \in m..n /\ f[i - 1] \in Nat
    BY <1>2 DEF Recursion
  <2>2. f[i] = G[i][f[i - 1]]
    BY <1>2 DEF Recursion
  <2> QED BY <2>1, <2>2
<1> QED BY <1>2, <1>3 DEF Walk, Recursion

\* Two walks by the same records meet the same nodes.
LEMMA WalkUnique ==
  ASSUME NEW m \in Nat, NEW n \in Nat, m <= n, NEW start, NEW N, NEW next,
         NEW v, NEW w, Walk(v, m, n, start, N, next), Walk(w, m, n, start, N, next)
  PROVE  v = w
<1> DEFINE T == {k \in m..n : v[k] = w[k]}
<1>1. m \in T
  BY DEF Walk
<1>2. ASSUME NEW k \in m..(n - 1), k \in T PROVE k + 1 \in T
  <2>1. k + 1 \in (m + 1)..n /\ k + 1 \in m..n /\ (k + 1) - 1 = k
    OBVIOUS
  <2>2. v[k + 1] = (IF v[k] >= N THEN v[k] ELSE next[k + 1][v[k]])
    BY <2>1 DEF Walk
  <2>3. w[k + 1] = (IF w[k] >= N THEN w[k] ELSE next[k + 1][w[k]])
    BY <2>1 DEF Walk
  <2>4. v[k] = w[k]
    BY <1>2
  <2> QED BY <2>1, <2>2, <2>3, <2>4
<1>3. m..n \subseteq T
  <2> HIDE DEF T
  <2> QED BY <1>1, <1>2, Upwards, Zenon
<1> QED BY <1>3 DEF Walk

\* A function is the walk it is meant to be, when each record follows from the
\* one before: that what it meets are numbers need not be known.
LEMMA WalkByEquations ==
  ASSUME NEW m \in Nat, NEW n \in Nat, m <= n, NEW start \in Nat, NEW N \in Nat,
         NEW next \in [(m + 1)..n -> [0..(N - 1) -> Nat]],
         NEW w, w = [i \in m..n |-> w[i]], w[m] = start,
         \A i \in (m + 1)..n : w[i - 1] \in Nat =>
           w[i] = IF w[i - 1] >= N THEN w[i - 1] ELSE next[i][w[i - 1]]
  PROVE  Walk(w, m, n, start, N, next)
<1> DEFINE T == {k \in m..n : w[k] \in Nat}
<1>1. m \in T
  OBVIOUS
<1>2. ASSUME NEW k \in m..(n - 1), k \in T PROVE k + 1 \in T
  <2>1. k + 1 \in (m + 1)..n /\ k + 1 \in m..n /\ (k + 1) - 1 = k /\ w[k] \in Nat
    BY <1>2
  <2>2. w[k + 1] = (IF w[k] >= N THEN w[k] ELSE next[k + 1][w[k]])
    BY <2>1
  <2>3. ~ (w[k] >= N) => next[k + 1][w[k]] \in Nat
    <3>1. ~ (w[k] >= N) => w[k] \in 0..(N - 1)
      BY <2>1
    <3> QED BY <2>1, <3>1
  <2> QED BY <2>1, <2>2, <2>3
<1>3. m..n \subseteq T
  <2> HIDE DEF T
  <2> QED BY <1>1, <1>2, Upwards, Zenon
<1>4. w \in [m..n -> Nat]
  BY <1>3
<1>5. ASSUME NEW i \in (m + 1)..n
      PROVE  w[i] = IF w[i - 1] >= N THEN w[i - 1] ELSE next[i][w[i - 1]]
  <2>1. i - 1 \in m..n
    OBVIOUS
  <2> QED BY <1>4, <2>1
<1> QED BY <1>4, <1>5 DEF Walk

-----------------------------------------------------------------------------
(* Powers of two, and the bits of an address.                               *)

\* The widths are numbers, and 32 is less than 128.
LEMMA Widths ==
  /\ V6Bits \in Nat /\ V4Bits \in Nat /\ Gap \in Nat /\ V6Bits = Gap + V4Bits
  /\ V4Bits >= 1 /\ V6Bits >= V4Bits
  /\ AddressBits(4) = V4Bits /\ AddressBits(6) = V6Bits
BY WidthAssumption DEF V6Bits, AddressBits

\* A power of two is positive.
LEMMA PowerPositive == \A k \in 0..V6Bits : 2^k \in Nat \ {0}
<1> DEFINE T == {k \in 0..V6Bits : 2^k \in Nat \ {0}}
<1>1. 0 \in T
  BY Widths, PowersAssumption
<1>2. ASSUME NEW k \in 0..(V6Bits - 1), k \in T PROVE k + 1 \in T
  <2>1. k + 1 \in 1..V6Bits /\ k + 1 \in 0..V6Bits /\ (k + 1) - 1 = k
    BY Widths
  <2>2. 2^(k + 1) = 2 * 2^k
    BY <2>1, PowersAssumption
  <2> QED BY <1>2, <2>1, <2>2
<1>3. 0..V6Bits \subseteq T
  <2> HIDE DEF T
  <2> QED BY <1>1, <1>2, Upwards, Widths, Zenon
<1> QED BY <1>3

\* A bit is 0 or 1.
LEMMA BitIsBit ==
  ASSUME NEW a \in Nat, NEW n \in Nat, n <= V6Bits, NEW i \in 0..(n - 1)
  PROVE  Bit(a, n, i) \in {0, 1}
<1>1. n - 1 - i \in 0..V6Bits
  BY Widths
<1> DEFINE p == 2^(n - 1 - i)
<1>2. p \in Nat \ {0}
  BY <1>1, PowerPositive
<1>3. Bit(a, n, i) = (a \div p) % 2
  BY DEF Bit
<1> HIDE DEF p
<1>4. a \div p \in Nat
  BY <1>2
<1>5. (a \div p) % 2 \in {0, 1}
  BY <1>4
<1> QED BY <1>3, <1>5

-----------------------------------------------------------------------------
(* The walks of the two readers.                                            *)

\* What _read_node returns is what the writer stored.
ReadsNodes(db) ==
  /\ db.node_count \in Nat
  /\ \A x \in 0..(db.node_count - 1), b \in {0, 1} :
       _read_node(db, x, b) = db.tree[x + 1][b + 1] /\ db.tree[x + 1][b + 1] \in Nat

\* The walk of _ipv4_start, and the records it takes.
StartWalk(db) ==
  CHOOSE walk : walk = [i \in 0..Gap |->
     IF i = 0 THEN 0
     ELSE IF walk[i - 1] >= db.node_count THEN walk[i - 1] ELSE _read_node(db, walk[i - 1], 0)]

LeftOf(db) == [i \in (0 + 1)..Gap |-> [x \in 0..(db.node_count - 1) |-> db.tree[x + 1][1]]]

\* The recursion of _ipv4_start has a solution: it is the walk to the left.
LEMMA StartWalkIsWalk ==
  ASSUME NEW db, ReadsNodes(db)
  PROVE  Walk(StartWalk(db), 0, Gap, 0, db.node_count, LeftOf(db))
<1> DEFINE N == db.node_count
           Solves(walk) == walk = [i \in 0..Gap |->
             IF i = 0 THEN 0
             ELSE IF walk[i - 1] >= N THEN walk[i - 1] ELSE _read_node(db, walk[i - 1], 0)]
           W == StartWalk(db)
<1>1. LeftOf(db) \in [(0 + 1)..Gap -> [0..(N - 1) -> Nat]]
  BY DEF ReadsNodes, LeftOf
<1>2. Gap \in Nat /\ 0 <= Gap /\ N \in Nat /\ 0 \in Nat
  BY WidthAssumption DEF ReadsNodes
<1>3. PICK w : Walk(w, 0, Gap, 0, N, LeftOf(db))
  <2> HIDE DEF N
  <2> QED BY <1>1, <1>2, WalkExists, Zenon
<1>4. ASSUME NEW i \in (0 + 1)..Gap, NEW x \in Nat, ~ (x >= N)
      PROVE  LeftOf(db)[i][x] = _read_node(db, x, 0)
  <2>1. x \in 0..(N - 1)
    BY <1>2, <1>4
  <2> QED BY <2>1 DEF ReadsNodes, LeftOf
<1>5. Solves(w)
  <2>1. ASSUME NEW i \in 0..Gap
        PROVE  w[i] = IF i = 0 THEN 0
                      ELSE IF w[i - 1] >= N THEN w[i - 1] ELSE _read_node(db, w[i - 1], 0)
    <3>1. CASE i = 0
      BY <1>3, <3>1 DEF Walk
    <3>2. CASE i # 0
      <4>1. i \in (0 + 1)..Gap /\ i - 1 \in 0..Gap
        BY <1>2, <3>2
      <4>2. w[i - 1] \in Nat /\ w[i] = IF w[i - 1] >= N THEN w[i - 1] ELSE LeftOf(db)[i][w[i - 1]]
        BY <1>3, <4>1 DEF Walk
      <4> QED BY <1>4, <3>2, <4>1, <4>2
    <3> QED BY <3>1, <3>2
  <2> QED BY <1>3, <2>1 DEF Walk
<1>6. Solves(W)
  <2>1. W = CHOOSE walk : Solves(walk)
    BY DEF StartWalk
  <2> HIDE DEF Solves, W
  <2> QED BY <1>5, <2>1, Zenon
<1> HIDE DEF W
<1>7. W = [i \in 0..Gap |-> W[i]] /\ W[0] = 0
  BY <1>2, <1>6
<1>8. ASSUME NEW i \in (0 + 1)..Gap, W[i - 1] \in Nat
      PROVE  W[i] = IF W[i - 1] >= N THEN W[i - 1] ELSE LeftOf(db)[i][W[i - 1]]
  <2>1. i \in 0..Gap /\ i # 0
    BY <1>2
  <2> QED BY <1>4, <1>6, <1>8, <2>1
<1>9. Walk(W, 0, Gap, 0, N, LeftOf(db))
  <2> HIDE DEF N, Solves
  <2> QED BY <1>1, <1>2, <1>7, <1>8, WalkByEquations, Zenon
<1> QED BY <1>9 DEF W

\* The walk of _find_address_in_tree.
PythonWalk(db, address, version) ==
  LET n == AddressBits(version) IN
  CHOOSE walk : walk = [i \in 0..n |->
     IF i = 0 THEN _start_node(db, AddressBits(version))
     ELSE IF walk[i - 1] >= db.node_count THEN walk[i - 1]
     ELSE _read_node(db, walk[i - 1], Bit(address, n, i - 1))]

\* The records that an address of n bits takes from step m on.
RecordsOf(db, address, n, m) ==
  [i \in (m + 1)..n |-> [x \in 0..(db.node_count - 1) |-> db.tree[x + 1][Bit(address, n, i - 1) + 1]]]

\* The root, or the IPv4 subtree.
LEMMA StartNode ==
  ASSUME NEW db, ReadsNodes(db), NEW version \in {4, 6}
  PROVE  /\ _start_node(db, AddressBits(version)) \in Nat
         /\ db.ip_version = 6 /\ version = 4 => _start_node(db, AddressBits(version)) = StartWalk(db)[Gap]
         /\ ~ (db.ip_version = 6 /\ version = 4) => _start_node(db, AddressBits(version)) = 0
<1>1. StartWalk(db)[Gap] \in Nat
  BY StartWalkIsWalk, Widths DEF Walk
<1>2. _ipv4_start(db) = IF db.ip_version = 6 THEN StartWalk(db)[Gap] ELSE 0
  BY Zenon DEF _ipv4_start, StartWalk
<1>3. AddressBits(version) = V4Bits <=> version = 4
  BY Widths, WidthAssumption DEF AddressBits
<1> QED BY <1>1, <1>2, <1>3 DEF _start_node

\* Every record on the way of an address is a number.
LEMMA RecordsAreNumbers ==
  ASSUME NEW db, ReadsNodes(db), NEW address \in Nat, NEW n \in Nat, n <= V6Bits, NEW m \in Nat
  PROVE  RecordsOf(db, address, n, m) \in [(m + 1)..n -> [0..(db.node_count - 1) -> Nat]]
<1>1. ASSUME NEW i \in (m + 1)..n, NEW x \in 0..(db.node_count - 1)
      PROVE  db.tree[x + 1][Bit(address, n, i - 1) + 1] \in Nat
  <2>1. i - 1 \in 0..(n - 1)
    OBVIOUS
  <2>2. Bit(address, n, i - 1) \in {0, 1}
    BY <2>1, BitIsBit
  <2> QED BY <2>2 DEF ReadsNodes
<1> QED BY <1>1 DEF RecordsOf

\* So has the loop of _find_address_in_tree.
LEMMA PythonWalkIsWalk ==
  ASSUME NEW db, ReadsNodes(db), NEW address \in Nat, NEW version \in {4, 6}
  PROVE  Walk(PythonWalk(db, address, version), 0, AddressBits(version),
              _start_node(db, AddressBits(version)), db.node_count,
              RecordsOf(db, address, AddressBits(version), 0))
<1> DEFINE N == db.node_count
           n == AddressBits(version)
           start == _start_node(db, AddressBits(version))
           next == RecordsOf(db, address, n, 0)
           Solves(walk) == walk = [i \in 0..n |->
             IF i = 0 THEN start
             ELSE IF walk[i - 1] >= N THEN walk[i - 1]
             ELSE _read_node(db, walk[i - 1], Bit(address, n, i - 1))]
           W == PythonWalk(db, address, version)
<1>1. n \in Nat /\ 0 <= n /\ n <= V6Bits /\ N \in Nat /\ 0 \in Nat /\ start \in Nat
  BY Widths, StartNode DEF ReadsNodes
<1>2. W = CHOOSE walk : Solves(walk)
  BY Zenon DEF PythonWalk
<1>3. ASSUME NEW i \in (0 + 1)..n, NEW x \in Nat, ~ (x >= N)
      PROVE  next[i][x] = _read_node(db, x, Bit(address, n, i - 1))
  <2>1. x \in 0..(N - 1) /\ i - 1 \in 0..(n - 1)
    BY <1>1, <1>3
  <2>2. Bit(address, n, i - 1) \in {0, 1}
    BY <1>1, <2>1, BitIsBit
  <2>3. next[i][x] = db.tree[x + 1][Bit(address, n, i - 1) + 1]
    BY <2>1 DEF RecordsOf
  <2> QED BY <2>1, <2>2, <2>3 DEF ReadsNodes
<1>4. next \in [(0 + 1)..n -> [0..(N - 1) -> Nat]]
  <2> HIDE DEF n
  <2> QED BY <1>1, RecordsAreNumbers
<1> HIDE DEF N, n, start, next, W
<1>5. PICK w : Walk(w, 0, n, start, N, next)
  BY <1>1, <1>4, WalkExists, Zenon
<1>6. Solves(w)
  <2>1. ASSUME NEW i \in 0..n
        PROVE  w[i] = IF i = 0 THEN start
                      ELSE IF w[i - 1] >= N THEN w[i - 1]
                      ELSE _read_node(db, w[i - 1], Bit(address, n, i - 1))
    <3>1. CASE i = 0
      BY <1>5, <3>1 DEF Walk
    <3>2. CASE i # 0
      <4>1. i \in (0 + 1)..n /\ i - 1 \in 0..n
        BY <1>1, <3>2
      <4>2. w[i - 1] \in Nat /\ w[i] = IF w[i - 1] >= N THEN w[i - 1] ELSE next[i][w[i - 1]]
        BY <1>5, <4>1 DEF Walk
      <4> QED BY <1>3, <3>2, <4>1, <4>2
    <3> QED BY <3>1, <3>2
  <2> QED BY <1>5, <2>1 DEF Walk
<1>7. Solves(W)
  <2> HIDE DEF Solves
  <2> QED BY <1>2, <1>6, Zenon
<1>8. W = [i \in 0..n |-> W[i]] /\ W[0] = start
  BY <1>1, <1>7
<1>9. ASSUME NEW i \in (0 + 1)..n, W[i - 1] \in Nat
      PROVE  W[i] = IF W[i - 1] >= N THEN W[i - 1] ELSE next[i][W[i - 1]]
  <2>1. i \in 0..n /\ i # 0
    BY <1>1
  <2> QED BY <1>3, <1>7, <1>9, <2>1
<1>10. Walk(W, 0, n, start, N, next)
  <2> HIDE DEF Solves
  <2> QED BY <1>1, <1>4, <1>8, <1>9, WalkByEquations, Zenon
<1> QED BY <1>10 DEF W, n, N, start, next

\* The walks of libmaxminddb's search for the IPv4 subtree, and of its lookup.
StartWalkC(db) ==
  CHOOSE walk : walk = [i \in 0..Gap |->
     IF i = 0 THEN 0
     ELSE IF walk[i - 1] >= db.node_count THEN walk[i - 1] ELSE db.tree[walk[i - 1] + 1][1]]

\* And libmaxminddb's walk to its IPv4 start node.
LEMMA StartWalkCIsWalk ==
  ASSUME NEW db, ReadsNodes(db)
  PROVE  Walk(StartWalkC(db), 0, Gap, 0, db.node_count, LeftOf(db))
<1> DEFINE N == db.node_count
           Solves(walk) == walk = [i \in 0..Gap |->
             IF i = 0 THEN 0
             ELSE IF walk[i - 1] >= N THEN walk[i - 1] ELSE db.tree[walk[i - 1] + 1][1]]
           W == StartWalkC(db)
<1>1. LeftOf(db) \in [(0 + 1)..Gap -> [0..(N - 1) -> Nat]]
  BY DEF ReadsNodes, LeftOf
<1>2. Gap \in Nat /\ 0 <= Gap /\ N \in Nat /\ 0 \in Nat
  BY WidthAssumption DEF ReadsNodes
<1>3. PICK w : Walk(w, 0, Gap, 0, N, LeftOf(db))
  <2> HIDE DEF N
  <2> QED BY <1>1, <1>2, WalkExists, Zenon
<1>4. ASSUME NEW i \in (0 + 1)..Gap, NEW x \in Nat, ~ (x >= N)
      PROVE  LeftOf(db)[i][x] = db.tree[x + 1][1]
  <2>1. x \in 0..(N - 1)
    BY <1>2, <1>4
  <2> QED BY <2>1 DEF LeftOf
<1>5. Solves(w)
  <2>1. ASSUME NEW i \in 0..Gap
        PROVE  w[i] = IF i = 0 THEN 0
                      ELSE IF w[i - 1] >= N THEN w[i - 1] ELSE db.tree[w[i - 1] + 1][1]
    <3>1. CASE i = 0
      BY <1>3, <3>1 DEF Walk
    <3>2. CASE i # 0
      <4>1. i \in (0 + 1)..Gap /\ i - 1 \in 0..Gap
        BY <1>2, <3>2
      <4>2. w[i - 1] \in Nat /\ w[i] = IF w[i - 1] >= N THEN w[i - 1] ELSE LeftOf(db)[i][w[i - 1]]
        BY <1>3, <4>1 DEF Walk
      <4> QED BY <1>4, <3>2, <4>1, <4>2
    <3> QED BY <3>1, <3>2
  <2> QED BY <1>3, <2>1 DEF Walk
<1>6. Solves(W)
  <2>1. W = CHOOSE walk : Solves(walk)
    BY DEF StartWalkC
  <2> HIDE DEF Solves, W
  <2> QED BY <1>5, <2>1, Zenon
<1> HIDE DEF W
<1>7. W = [i \in 0..Gap |-> W[i]] /\ W[0] = 0
  BY <1>2, <1>6
<1>8. ASSUME NEW i \in (0 + 1)..Gap, W[i - 1] \in Nat
      PROVE  W[i] = IF W[i - 1] >= N THEN W[i - 1] ELSE LeftOf(db)[i][W[i - 1]]
  <2>1. i \in 0..Gap /\ i # 0
    BY <1>2
  <2> QED BY <1>4, <1>6, <1>8, <2>1
<1>9. Walk(W, 0, Gap, 0, N, LeftOf(db))
  <2> HIDE DEF N, Solves
  <2> QED BY <1>1, <1>2, <1>7, <1>8, WalkByEquations, Zenon
<1> QED BY <1>9 DEF W

\* Both find the same IPv4 subtree.
LEMMA StartWalksAgree ==
  ASSUME NEW db, ReadsNodes(db)
  PROVE  StartWalkC(db) = StartWalk(db)
<1>1. Gap \in Nat /\ 0 \in Nat /\ 0 <= Gap
  BY Widths
<1> QED BY <1>1, StartWalkIsWalk, StartWalkCIsWalk, WalkUnique

\* The walk of MMDB_lookup_sockaddr, from step first on.
LookupWalkC(db, address, version) ==
  LET n     == Bits(db)
      v4in6 == db.ip_version = 6 /\ version = 4
      first == IF v4in6 THEN ipv4_start_node(db).netmask ELSE 0
  IN  CHOOSE walk : walk = [i \in first..n |->
        IF i = first THEN (IF v4in6 THEN ipv4_start_node(db).node_value ELSE 0)
        ELSE IF walk[i - 1] >= db.node_count THEN walk[i - 1]
        ELSE db.tree[walk[i - 1] + 1][Bit(address, n, i - 1) + 1]]

\* And libmaxminddb's lookup, from the node where it starts.
LEMMA LookupWalkCIsWalk ==
  ASSUME NEW db, ReadsNodes(db), NEW address \in Nat, NEW version, db.ip_version \in {4, 6},
         NEW first \in 0..Bits(db), NEW start \in Nat,
         first = IF db.ip_version = 6 /\ version = 4 THEN ipv4_start_node(db).netmask ELSE 0,
         start = IF db.ip_version = 6 /\ version = 4 THEN ipv4_start_node(db).node_value ELSE 0
  PROVE  Walk(LookupWalkC(db, address, version), first, Bits(db), start, db.node_count,
              RecordsOf(db, address, Bits(db), first))
<1> DEFINE N == db.node_count
           n == Bits(db)
           next == RecordsOf(db, address, n, first)
           Solves(walk) == walk = [i \in first..n |->
             IF i = first THEN start
             ELSE IF walk[i - 1] >= N THEN walk[i - 1]
             ELSE db.tree[walk[i - 1] + 1][Bit(address, n, i - 1) + 1]]
           W == LookupWalkC(db, address, version)
<1>1. n \in Nat /\ first \in Nat /\ first <= n /\ n <= V6Bits /\ N \in Nat /\ start \in Nat
  BY Widths DEF ReadsNodes, Bits
<1>2. W = CHOOSE walk : Solves(walk)
  BY Zenon DEF LookupWalkC
<1>3. ASSUME NEW i \in (first + 1)..n, NEW x \in Nat, ~ (x >= N)
      PROVE  next[i][x] = db.tree[x + 1][Bit(address, n, i - 1) + 1]
  <2>1. x \in 0..(N - 1)
    BY <1>1, <1>3
  <2> QED BY <2>1 DEF RecordsOf
<1>4. next \in [(first + 1)..n -> [0..(N - 1) -> Nat]]
  <2> HIDE DEF n
  <2> QED BY <1>1, RecordsAreNumbers
<1> HIDE DEF N, n, next, W
<1>5. PICK w : Walk(w, first, n, start, N, next)
  BY <1>1, <1>4, WalkExists, Zenon
<1>6. Solves(w)
  <2>1. ASSUME NEW i \in first..n
        PROVE  w[i] = IF i = first THEN start
                      ELSE IF w[i - 1] >= N THEN w[i - 1]
                      ELSE db.tree[w[i - 1] + 1][Bit(address, n, i - 1) + 1]
    <3>1. CASE i = first
      BY <1>5, <3>1 DEF Walk
    <3>2. CASE i # first
      <4>1. i \in (first + 1)..n /\ i - 1 \in first..n
        BY <1>1, <3>2
      <4>2. w[i - 1] \in Nat /\ w[i] = IF w[i - 1] >= N THEN w[i - 1] ELSE next[i][w[i - 1]]
        BY <1>5, <4>1 DEF Walk
      <4> QED BY <1>3, <3>2, <4>1, <4>2
    <3> QED BY <3>1, <3>2
  <2> QED BY <1>5, <2>1 DEF Walk
<1>7. Solves(W)
  <2> HIDE DEF Solves
  <2> QED BY <1>2, <1>6, Zenon
<1>8. W = [i \in first..n |-> W[i]] /\ W[first] = start
  <2>1. first \in first..n
    BY <1>1
  <2>2. W = [i \in first..n |-> W[i]]
    BY <1>7, Zenon
  <2>3. W[first] = start
    BY <1>7, <2>1, Zenon
  <2> QED BY <2>2, <2>3, Zenon
<1>9. ASSUME NEW i \in (first + 1)..n, W[i - 1] \in Nat
      PROVE  W[i] = IF W[i - 1] >= N THEN W[i - 1] ELSE next[i][W[i - 1]]
  <2>1. i \in first..n /\ i # first
    BY <1>1
  <2>2. W[i] = IF W[i - 1] >= N THEN W[i - 1]
               ELSE db.tree[W[i - 1] + 1][Bit(address, n, i - 1) + 1]
    BY <1>7, <2>1, Zenon
  <2>3. ~ (W[i - 1] >= N) => next[i][W[i - 1]] = db.tree[W[i - 1] + 1][Bit(address, n, i - 1) + 1]
    BY <1>3, <1>9, Zenon
  <2> QED BY <2>2, <2>3, Zenon
<1>10. Walk(W, first, n, start, N, next)
  <2> HIDE DEF Solves
  <2> QED BY <1>1, <1>4, <1>8, <1>9, WalkByEquations, Zenon
<1> QED BY <1>10 DEF W, n, N, next

-----------------------------------------------------------------------------
(* Where a walk stops.                                                      *)

Stops(w, m, n, N) == Min({k \in m..n : w[k] >= N} \cup {n})

\* A walk stops at the first step that is at no node, or at its end.
LEMMA StopsWhere ==
  ASSUME NEW m \in Nat, NEW n \in Nat, m <= n, NEW w, NEW N
  PROVE  /\ Stops(w, m, n, N) \in m..n
         /\ \A k \in m..(Stops(w, m, n, N) - 1) : ~ (w[k] >= N)
         /\ w[Stops(w, m, n, N)] >= N \/ Stops(w, m, n, N) = n
<1> DEFINE T == {k \in m..n : w[k] >= N} \cup {n}
           i == CHOOSE x \in T : \A y \in T : x <= y
<1>1. T \subseteq Nat /\ T # {} /\ T \subseteq m..n
  OBVIOUS
<1>2. i \in T /\ \A y \in T : i <= y
  <2>1. \E x \in T : \A y \in T : x <= y
    <3> HIDE DEF T
    <3> QED BY <1>1, LeastElement, Zenon
  <2> HIDE DEF T
  <2> QED BY <2>1, Zenon
<1>3. Stops(w, m, n, N) = i
  BY Zenon DEF Stops, Min
<1>4. i \in m..n /\ (w[i] >= N \/ i = n)
  <2> HIDE DEF i
  <2> QED BY <1>1, <1>2
<1>5. ASSUME NEW k \in m..(i - 1), w[k] >= N PROVE FALSE
  <2>1. k \in m..n /\ ~ (i <= k)
    <3> HIDE DEF i
    <3> QED BY <1>4
  <2>2. k \in T
    BY <1>5, <2>1
  <2> HIDE DEF i, T
  <2> QED BY <1>2, <2>1, <2>2
<1> HIDE DEF i
<1> QED BY <1>3, <1>4, <1>5

\* There is only one such place.
LEMMA StopsThere ==
  ASSUME NEW m \in Nat, NEW n \in Nat, m <= n, NEW w, NEW N, NEW i \in m..n,
         \A k \in m..(i - 1) : ~ (w[k] >= N), w[i] >= N \/ i = n
  PROVE  Stops(w, m, n, N) = i
<1> DEFINE j == Stops(w, m, n, N)
<1>1. j \in m..n /\ (\A k \in m..(j - 1) : ~ (w[k] >= N)) /\ (w[j] >= N \/ j = n)
  BY StopsWhere
<1> HIDE DEF j
<1>2. ~ (j < i)
  <2>1. j < i => j \in m..(i - 1) /\ j # n
    BY <1>1
  <2> QED BY <1>1, <2>1
<1>3. ~ (i < j)
  <2>1. i < j => i \in m..(j - 1) /\ i # n
    BY <1>1
  <2> QED BY <1>1, <2>1
<1>4. i = j
  BY <1>1, <1>2, <1>3
<1> QED BY <1>4 DEF j

\* A walk that is at no node stays where it is.
LEMMA WalkStays ==
  ASSUME NEW m \in Nat, NEW n \in Nat, NEW start, NEW N, NEW next,
         NEW w, Walk(w, m, n, start, N, next), NEW k \in m..n, w[k] >= N
  PROVE  \A j \in k..n : w[j] = w[k]
<1> DEFINE T == {j \in k..n : w[j] = w[k]}
<1>1. k \in T /\ k \in Nat
  OBVIOUS
<1>2. ASSUME NEW j \in k..(n - 1), j \in T PROVE j + 1 \in T
  <2>1. j + 1 \in (m + 1)..n /\ j + 1 \in k..n /\ (j + 1) - 1 = j
    OBVIOUS
  <2>2. w[j + 1] = (IF w[j] >= N THEN w[j] ELSE next[j + 1][w[j]])
    BY <2>1 DEF Walk
  <2>3. w[j] = w[k]
    BY <1>2
  <2> QED BY <2>1, <2>2, <2>3
<1>3. k..n \subseteq T
  <2> HIDE DEF T
  <2> QED BY <1>1, <1>2, Upwards, Zenon
<1> QED BY <1>3

\* Two walks that take the same records from the same node on, one of them at
\* steps later by d, meet the same nodes.
LEMMA WalkShifted ==
  ASSUME NEW d \in Nat, NEW n \in Nat, NEW N, NEW start,
         NEW v, NEW vnext, Walk(v, 0, n, start, N, vnext),
         NEW m \in Nat, m <= d, NEW wstart, NEW w, NEW wnext, Walk(w, m, d + n, wstart, N, wnext),
         w[d] = start, \A i \in 1..n : wnext[d + i] = vnext[i]
  PROVE  \A k \in 0..n : w[d + k] = v[k]
<1> DEFINE T == {k \in 0..n : w[d + k] = v[k]}
<1>1. 0 \in T
  BY DEF Walk
<1>2. ASSUME NEW k \in 0..(n - 1), k \in T PROVE k + 1 \in T
  <2>1. /\ k + 1 \in (0 + 1)..n /\ k + 1 \in 0..n /\ k + 1 \in 1..n /\ (k + 1) - 1 = k
        /\ d + (k + 1) \in (m + 1)..(d + n) /\ (d + (k + 1)) - 1 = d + k
    OBVIOUS
  <2>2. v[k + 1] = (IF v[k] >= N THEN v[k] ELSE vnext[k + 1][v[k]])
    BY <2>1 DEF Walk
  <2>3. w[d + (k + 1)] = (IF w[d + k] >= N THEN w[d + k] ELSE wnext[d + (k + 1)][w[d + k]])
    BY <2>1 DEF Walk
  <2>4. w[d + k] = v[k]
    BY <1>2
  <2>5. wnext[d + (k + 1)] = vnext[k + 1]
    BY <2>1
  <2> QED BY <2>1, <2>2, <2>3, <2>4, <2>5
<1>3. 0..n \subseteq T
  <2> HIDE DEF T
  <2>1. 0 \in Nat
    OBVIOUS
  <2> QED BY <1>1, <1>2, <2>1, Upwards, Zenon
<1> QED BY <1>3

-----------------------------------------------------------------------------
(* The two readers' lookups.                                                *)

\* What a lookup of the Python reader returns, by its walk.
LEMMA PythonFinds ==
  ASSUME NEW db, NEW address, NEW version
  PROVE  LET w == PythonWalk(db, address, version)
             i == Stops(w, 0, AddressBits(version), db.node_count)
         IN  _find_address_in_tree(db, address, AddressBits(version)) = [node |-> w[i], steps |-> i]
BY Zenon DEF _find_address_in_tree, PythonWalk, Stops

\* libmaxminddb's start node is Reader._ipv4_start, at the depth where the walk
\* to it stopped.
LEMMA StartNodeC ==
  ASSUME NEW db, ReadsNodes(db), db.ip_version = 6
  PROVE  /\ ipv4_start_node(db).node_value = StartWalk(db)[Gap]
         /\ ipv4_start_node(db).netmask = Stops(StartWalk(db), 0, Gap, db.node_count)
<1>1. ipv4_start_node(db) =
        IF db.ip_version = 6
          THEN [node_value |-> StartWalkC(db)[Gap],
                netmask |-> Stops(StartWalkC(db), 0, Gap, db.node_count)]
          ELSE [node_value |-> 0, netmask |-> 0]
  BY Zenon DEF ipv4_start_node, StartWalkC, Stops
<1>2. StartWalkC(db) = StartWalk(db)
  BY StartWalksAgree
<1> QED BY <1>1, <1>2

\* What a lookup of libmaxminddb returns, by its walk.
LEMMA FindsC ==
  ASSUME NEW db, NEW address, NEW version
  PROVE  LET w     == LookupWalkC(db, address, version)
             first == IF db.ip_version = 6 /\ version = 4 THEN ipv4_start_node(db).netmask ELSE 0
             i     == Stops(w, first, Bits(db), db.node_count)
         IN  MMDB_lookup_sockaddr(db, address, version) = [node |-> w[i], netmask |-> i]
BY Zenon DEF MMDB_lookup_sockaddr, LookupWalkC, Stops

\* Both lookups end at the same node, with the same prefix length.
LEMMA LookupsMeet ==
  ASSUME NEW db, ReadsNodes(db), db.ip_version \in {4, 6},
         NEW address \in Nat, NEW version \in {4, 6}, ~ (version = 6 /\ db.ip_version = 4)
  PROVE  LET python == _find_address_in_tree(db, address, AddressBits(version))
             c      == MMDB_lookup_sockaddr(db, address, version)
         IN  /\ python.node \in Nat /\ python.steps \in 0..AddressBits(version)
             /\ c.node = python.node
             /\ get_record_prefix_len(db, version, c.netmask) = python.steps
<1> DEFINE N == db.node_count
           n == AddressBits(version)
           S == StartWalk(db)
           P == PythonWalk(db, address, version)
           C == LookupWalkC(db, address, version)
           first == IF db.ip_version = 6 /\ version = 4 THEN ipv4_start_node(db).netmask ELSE 0
           start == _start_node(db, AddressBits(version))
           i == Stops(P, 0, n, N)
           j == Stops(C, first, Bits(db), N)
<1>1. n \in Nat /\ 0 <= n /\ Gap \in Nat /\ 0 <= Gap /\ 0 \in Nat /\ N \in Nat /\ start \in Nat
  BY Widths, StartNode DEF ReadsNodes
<1>2. Walk(P, 0, n, start, N, RecordsOf(db, address, n, 0))
  BY PythonWalkIsWalk
<1>3. Walk(S, 0, Gap, 0, N, LeftOf(db))
  BY StartWalkIsWalk
<1>4. first \in 0..Gap /\ (db.ip_version = 6 /\ version = 4 => first = Stops(S, 0, Gap, N))
  <2>1. Stops(S, 0, Gap, N) \in 0..Gap
    <3> HIDE DEF S, N
    <3> QED BY <1>1, StopsWhere
  <2> QED BY <1>1, <2>1, StartNodeC
<1>5. first \in 0..Bits(db) /\ Bits(db) \in Nat /\ first \in Nat /\ first <= Bits(db)
  <2>1. CASE db.ip_version = 6
    BY <1>1, <1>4, <2>1, Widths DEF Bits
  <2>2. CASE db.ip_version = 4
    BY <1>1, <2>2, Widths DEF Bits
  <2> QED BY <2>1, <2>2
<1>6. start = IF db.ip_version = 6 /\ version = 4 THEN ipv4_start_node(db).node_value ELSE 0
  BY StartNode, StartNodeC
<1>7. Walk(C, first, Bits(db), start, N, RecordsOf(db, address, Bits(db), first))
  <2> HIDE DEF start
  <2> QED BY <1>1, <1>5, <1>6, LookupWalkCIsWalk
<1>8. /\ _find_address_in_tree(db, address, AddressBits(version)) = [node |-> P[i], steps |-> i]
      /\ MMDB_lookup_sockaddr(db, address, version) = [node |-> C[j], netmask |-> j]
  BY PythonFinds, FindsC, Zenon
<1>9. i \in 0..n /\ (\A k \in 0..(i - 1) : ~ (P[k] >= N)) /\ (P[i] >= N \/ i = n)
  <2> HIDE DEF P, n, N
  <2> QED BY <1>1, StopsWhere
<1>10. P[i] \in Nat
  <2> HIDE DEF P, n, N, i, start
  <2> QED BY <1>2, <1>9 DEF Walk
<1>11. C[j] = P[i] /\ get_record_prefix_len(db, version, j) = i
  <2>1. CASE ~ (db.ip_version = 6 /\ version = 4)
    <3>1. Bits(db) = n /\ first = 0
      BY <2>1 DEF Bits, AddressBits
    <3>2. C = P
      <4> HIDE DEF C, P, n, N, start, first
      <4> QED BY <1>1, <1>2, <1>7, <3>1, WalkUnique
    <3>3. j = i
      BY <3>1, <3>2
    <3> QED BY <2>1, <3>2, <3>3 DEF get_record_prefix_len
  <2>2. CASE db.ip_version = 6 /\ version = 4
    <3>1. n = V4Bits /\ Bits(db) = Gap + n /\ start = S[Gap] /\ S[Gap] \in Nat
      BY <1>1, <1>3, <2>2, Widths, StartNode DEF Bits, Walk
    <3>2. P[0] = S[Gap] /\ C[first] = S[Gap]
      BY <1>2, <1>7, <3>1 DEF Walk
    <3>3. first = Stops(S, 0, Gap, N)
      BY <1>4, <2>2
    <3> HIDE DEF P, C, n, N, S, start, first
    <3>4. CASE S[Gap] >= N
      <4>1. i = 0
        BY <1>1, <3>2, <3>4, <1>9
      <4>2. j = first
        <5>1. first \in first..Bits(db) /\ \A k \in first..(first - 1) : ~ (C[k] >= N)
          BY <1>5
        <5> QED BY <1>5, <3>2, <3>4, <5>1, StopsThere
      <4>3. get_record_prefix_len(db, version, first) = 0
        BY <1>1, <1>4, <2>2 DEF get_record_prefix_len
      <4> HIDE DEF i, j
      <4> QED BY <3>2, <4>1, <4>2, <4>3
    <3>5. CASE ~ (S[Gap] >= N)
      <4>1. first = Gap
        <5>1. first \in 0..Gap /\ (S[first] >= N \/ first = Gap)
          BY <1>1, <3>3, StopsWhere
        <5>2. S[first] >= N => S[Gap] = S[first]
          <6>1. Gap \in first..Gap
            BY <1>1, <5>1
          <6> QED BY <1>1, <1>3, <5>1, <6>1, WalkStays
        <5> QED BY <3>5, <5>1, <5>2
      <4>2. \A k \in 0..n : C[Gap + k] = P[k]
        <5>1. ASSUME NEW k \in 1..n
              PROVE  RecordsOf(db, address, Bits(db), first)[Gap + k]
                       = RecordsOf(db, address, n, 0)[k]
          <6>1. Gap + k \in (first + 1)..Bits(db) /\ k \in (0 + 1)..n
            BY <1>1, <3>1, <4>1
          <6>2. Bits(db) - 1 - ((Gap + k) - 1) = n - 1 - (k - 1)
            BY <1>1, <3>1
          <6>3. Bit(address, Bits(db), (Gap + k) - 1) = Bit(address, n, k - 1)
            BY <6>2, Zenon DEF Bit
          <6> QED BY <6>1, <6>3 DEF RecordsOf
        <5>2. Walk(C, Gap, Gap + n, start, N, RecordsOf(db, address, Bits(db), first))
          BY <1>7, <3>1, <4>1
        <5>3. C[Gap] = start /\ Gap <= Gap
          BY <1>1, <3>1, <3>2, <4>1
        <5> QED BY <1>1, <1>2, <5>1, <5>2, <5>3, WalkShifted
      <4>3. j = Gap + i
        <5> HIDE DEF i
        <5> DEFINE h == Gap + i
        <5>1. h \in first..Bits(db)
          BY <1>1, <1>9, <3>1, <4>1
        <5>2. ASSUME NEW k \in first..(h - 1) PROVE ~ (C[k] >= N)
          <6>1. k - Gap \in 0..(i - 1) /\ k - Gap \in 0..n /\ Gap + (k - Gap) = k
            BY <1>1, <1>9, <4>1
          <6> QED BY <1>9, <4>2, <6>1
        <5>3. C[h] >= N \/ h = Bits(db)
          BY <1>9, <3>1, <4>2
        <5> HIDE DEF h
        <5>4. j = h
          BY <1>5, <5>1, <5>2, <5>3, StopsThere
        <5> QED BY <5>4 DEF h
      <4> HIDE DEF i, j
      <4>4. C[j] = P[i]
        BY <1>9, <4>2, <4>3
      <4>5. get_record_prefix_len(db, version, j) = i
        BY <1>1, <1>9, <2>2, <4>3 DEF get_record_prefix_len
      <4> QED BY <4>4, <4>5
    <3> QED BY <3>4, <3>5
  <2> QED BY <2>1, <2>2
<1> HIDE DEF P, C, n, i, j
<1> QED BY <1>8, <1>9, <1>10, <1>11 DEF n

\* A lookup of the pure Python reader and one of the C extension give the same
\* result: the same record or None with the same prefix length, or the same
\* exception, whatever the tree is, cycles included.
THEOREM LookupsAgree ==
  ASSUME NEW db, ReadsNodes(db), db.node_count > 0, db.ip_version \in {4, 6},
         db.data_size \in Nat, db.record_size \in {24, 28, 32},
         NEW address \in Nat, NEW version \in {4, 6}
  PROVE  get_record(db, address, version) = get_with_prefix_len(db, address, version)
<1> DEFINE P == _find_address_in_tree(db, address, AddressBits(version))
           C == MMDB_lookup_sockaddr(db, address, version)
           N == db.node_count
           prefix == get_record_prefix_len(db, version, C.netmask)
           type == record_type(db, C.node)
<1>1. CASE version = 6 /\ db.ip_version = 4
  BY <1>1 DEF get_record, get_with_prefix_len, get_packed
<1>2. CASE ~ (version = 6 /\ db.ip_version = 4)
  <2>1. P.node \in Nat /\ C.node = P.node /\ prefix = P.steps
    BY <1>2, LookupsMeet
  <2>2. N \in Nat /\ N > 0
    BY DEF ReadsNodes
  <2>3. get_record(db, address, version) =
          IF type = "empty" THEN NotFound(prefix)
          ELSE IF type = "data" THEN Found(C.node, prefix)
          ELSE Raised("InvalidDatabaseError")
    BY <1>2, Zenon DEF get_record
  <2>4. get_with_prefix_len(db, address, version) =
          IF P.node = N THEN NotFound(P.steps)
          ELSE IF P.node > N /\ ~PointsPastEnd(db, P.node) THEN Found(P.node, P.steps)
          ELSE Raised("InvalidDatabaseError")
    BY <1>2, Zenon DEF get_with_prefix_len, get_packed
  <2>5. PointsPastEnd(db, P.node) <=> P.node >= N + _DATA_SECTION_SEPARATOR_SIZE + db.data_size
    <3>1. search_tree_size(db) \in Nat
      BY <2>2 DEF search_tree_size, node_byte_size
    <3> QED BY <2>1, <2>2, <3>1 DEF PointsPastEnd, buffer_size, _DATA_SECTION_SEPARATOR_SIZE
  <2>6. /\ P.node < N => type \in {"invalid", "node"}
        /\ P.node = N => type = "empty"
        /\ P.node > N /\ PointsPastEnd(db, P.node) => type = "invalid"
        /\ P.node > N /\ ~ PointsPastEnd(db, P.node) => type = "data"
    <3> HIDE DEF P, C
    <3>1. type = record_type(db, P.node)
      BY <2>1
    <3> HIDE DEF type
    <3> QED BY <2>1, <2>2, <2>5, <3>1 DEF record_type, _DATA_SECTION_SEPARATOR_SIZE
  <2> HIDE DEF P, C, N, prefix, type
  <2>7. CASE P.node < N
    BY <2>1, <2>2, <2>3, <2>4, <2>6, <2>7
  <2>8. CASE P.node = N
    BY <2>1, <2>2, <2>3, <2>4, <2>6, <2>8
  <2>9. CASE P.node > N
    BY <2>1, <2>2, <2>3, <2>4, <2>6, <2>9
  <2> QED BY <2>1, <2>2, <2>7, <2>8, <2>9
<1> QED BY <1>1, <1>2

-----------------------------------------------------------------------------
(* Division, powers of two and the bits of an address.                      *)

\* b lies in the block of s numbers that starts at s * q, the q-th.
LEMMA Quotient ==
  ASSUME NEW s \in Nat \ {0}, NEW b \in Nat, NEW q \in Nat, s * q <= b, b < s * q + s
  PROVE  b \div s = q
BY SMT

\* Quotient and remainder.
LEMMA QuotientBounds ==
  ASSUME NEW s \in Nat \ {0}, NEW b \in Nat
  PROVE  b \div s \in Nat /\ b % s \in Nat /\ b = s * (b \div s) + (b % s) /\ b % s < s
BY SMT

\* Dividing by 2p is dividing by p and then by 2.
LEMMA Halved ==
  ASSUME NEW p \in Nat \ {0}, NEW a \in Nat
  PROVE  a \div (2 * p) = (a \div p) \div 2
BY SMT

\* Each power of two is twice the one before.
LEMMA NextPower == \A k \in 0..(V6Bits - 1) : 2^(k + 1) = 2 * 2^k
<1>1. ASSUME NEW k \in 0..(V6Bits - 1) PROVE 2^(k + 1) = 2 * 2^k
  <2>1. k + 1 \in 1..V6Bits /\ (k + 1) - 1 = k
    BY Widths
  <2> QED BY <2>1, PowersAssumption
<1> QED BY <1>1

\* Powers of two grow.
LEMMA PowersGrow ==
  ASSUME NEW j \in 0..V6Bits
  PROVE  \A k \in j..V6Bits : 2^j <= 2^k
<1> DEFINE T == {k \in j..V6Bits : 2^j <= 2^k}
<1>1. j \in T /\ j \in Nat /\ V6Bits \in Nat
  BY PowerPositive, Widths
<1>2. ASSUME NEW k \in j..(V6Bits - 1), k \in T PROVE k + 1 \in T
  <2>1. k \in 0..(V6Bits - 1) /\ k \in 0..V6Bits /\ k + 1 \in j..V6Bits
    BY <1>1
  <2>2. 2^(k + 1) = 2 * 2^k /\ 2^k \in Nat /\ 2^j \in Nat
    BY <2>1, NextPower, PowerPositive
  <2>3. 2^j <= 2^k
    BY <1>2
  <2>4. 2^j <= 2^(k + 1)
    BY <2>2, <2>3
  <2> QED BY <2>1, <2>4
<1>3. j..V6Bits \subseteq T
  <2> HIDE DEF T
  <2> QED BY <1>1, <1>2, Upwards, Zenon
<1> QED BY <1>3

\* The power of a sum is a product.
LEMMA PowerOfSum ==
  ASSUME NEW k \in 0..V6Bits
  PROVE  \A j \in 0..(V6Bits - k) : 2^(k + j) = 2^k * 2^j
<1> DEFINE T == {j \in 0..(V6Bits - k) : 2^(k + j) = 2^k * 2^j}
<1>1. k \in Nat /\ V6Bits \in Nat /\ V6Bits - k \in Nat /\ 0 \in Nat
  BY Widths
<1>2. 0 \in T
  <2>1. 2^k \in Nat /\ 2^0 = 1 /\ k + 0 = k
    BY PowerPositive, PowersAssumption
  <2>2. 2^k * 1 = 2^k
    BY <2>1
  <2> QED BY <1>1, <2>1, <2>2
<1>3. ASSUME NEW j \in 0..((V6Bits - k) - 1), j \in T PROVE j + 1 \in T
  <2> DEFINE p == 2^k
             q == 2^j
  <2>1. /\ j \in 0..(V6Bits - 1) /\ j \in 0..V6Bits /\ k + j \in 0..(V6Bits - 1)
        /\ j + 1 \in 0..(V6Bits - k) /\ (k + j) + 1 = k + (j + 1)
    BY <1>1
  <2>2. 2^(k + (j + 1)) = 2 * 2^(k + j) /\ 2^(j + 1) = 2 * q
    BY <2>1, NextPower
  <2>3. 2^(k + j) = p * q
    BY <1>3
  <2>4. p \in Nat /\ q \in Nat
    BY <2>1, PowerPositive
  <2> HIDE DEF p, q
  <2>5. 2 * (p * q) = p * (2 * q)
    BY <2>4
  <2>6. 2^(k + (j + 1)) = p * 2^(j + 1)
    BY <2>2, <2>3, <2>5
  <2> QED BY <2>1, <2>6 DEF p
<1>4. 0..(V6Bits - k) \subseteq T
  <2> HIDE DEF T
  <2> QED BY <1>1, <1>2, <1>3, Upwards, Zenon
<1> QED BY <1>4

\* Numbers that agree above bit m agree above every higher bit.
LEMMA HighBitsAgree ==
  ASSUME NEW a \in Nat, NEW b \in Nat, NEW m \in 0..V6Bits, a \div 2^m = b \div 2^m
  PROVE  \A k \in m..V6Bits : a \div 2^k = b \div 2^k
<1> DEFINE T == {k \in m..V6Bits : a \div 2^k = b \div 2^k}
<1>1. m \in T /\ m \in Nat /\ V6Bits \in Nat
  BY Widths
<1>2. ASSUME NEW k \in m..(V6Bits - 1), k \in T PROVE k + 1 \in T
  <2> DEFINE p == 2^k
  <2>1. k \in 0..(V6Bits - 1) /\ k \in 0..V6Bits /\ k + 1 \in m..V6Bits
    BY <1>1
  <2>2. 2^(k + 1) = 2 * p /\ p \in Nat \ {0}
    BY <2>1, NextPower, PowerPositive
  <2>3. a \div p = b \div p
    BY <1>2
  <2> HIDE DEF p
  <2>4. a \div (2 * p) = (a \div p) \div 2 /\ b \div (2 * p) = (b \div p) \div 2
    BY <2>2, Halved
  <2>5. a \div 2^(k + 1) = b \div 2^(k + 1)
    BY <2>2, <2>3, <2>4, Zenon
  <2> QED BY <2>1, <2>5
<1>3. m..V6Bits \subseteq T
  <2> HIDE DEF T
  <2> QED BY <1>1, <1>2, Upwards, Zenon
<1> QED BY <1>3

\* The bits in front of an IPv4 address are 0.
LEMMA BitsInFront ==
  ASSUME NEW a \in 0..(2^V4Bits - 1), NEW i \in 0..(Gap - 1)
  PROVE  Bit(a, V6Bits, i) = 0
<1> DEFINE p == 2^(V6Bits - 1 - i)
<1>1. V6Bits - 1 - i \in V4Bits..V6Bits /\ V4Bits \in 0..V6Bits
  BY Widths
<1>2. 2^V4Bits <= p /\ 2^V4Bits \in Nat /\ p \in Nat \ {0}
  BY <1>1, PowersGrow, PowerPositive
<1>3. Bit(a, V6Bits, i) = (a \div p) % 2
  BY DEF Bit
<1> HIDE DEF p
<1>4. a \in Nat /\ a < p /\ p * 0 = 0
  BY <1>2
<1>5. a \div p = 0
  BY <1>2, <1>4, Quotient
<1> QED BY <1>3, <1>5

-----------------------------------------------------------------------------
(* The IPv4 subtree is a shortcut.                                          *)

\* Two walks from one node that take the same records in their first k steps.
LEMMA WalksTogether ==
  ASSUME NEW n \in Nat, NEW p \in Nat, NEW k \in Nat, k <= n, k <= p, NEW N, NEW start,
         NEW v, NEW vnext, Walk(v, 0, n, start, N, vnext),
         NEW w, NEW wnext, Walk(w, 0, p, start, N, wnext),
         \A i \in 1..k : vnext[i] = wnext[i]
  PROVE  \A i \in 0..k : v[i] = w[i]
<1> DEFINE T == {i \in 0..k : v[i] = w[i]}
<1>1. 0 \in T /\ 0 \in Nat
  BY DEF Walk
<1>2. ASSUME NEW i \in 0..(k - 1), i \in T PROVE i + 1 \in T
  <2>1. /\ i + 1 \in (0 + 1)..n /\ i + 1 \in (0 + 1)..p /\ i + 1 \in 1..k /\ i + 1 \in 0..k
        /\ (i + 1) - 1 = i
    OBVIOUS
  <2>2. v[i + 1] = (IF v[i] >= N THEN v[i] ELSE vnext[i + 1][v[i]])
    BY <2>1 DEF Walk
  <2>3. w[i + 1] = (IF w[i] >= N THEN w[i] ELSE wnext[i + 1][w[i]])
    BY <2>1 DEF Walk
  <2>4. v[i] = w[i] /\ vnext[i + 1] = wnext[i + 1]
    BY <1>2, <2>1
  <2> QED BY <2>1, <2>2, <2>3, <2>4
<1>3. 0..k \subseteq T
  <2> HIDE DEF T
  <2> QED BY <1>1, <1>2, Upwards, Zenon
<1> QED BY <1>3

\* In an IPv6 tree the walk of an IPv4 address goes on from where the walk of
\* the same number as an IPv6 address is after Gap steps.
LEMMA WalkOfIPv4 ==
  ASSUME NEW db, ReadsNodes(db), db.ip_version = 6, NEW a \in 0..(2^V4Bits - 1)
  PROVE  LET short == PythonWalk(db, a, 4)
             long  == PythonWalk(db, a, 6)
         IN  \A k \in 0..V4Bits : long[Gap + k] = short[k]
<1> DEFINE N == db.node_count
           S == StartWalk(db)
           P == PythonWalk(db, a, 4)
           L == PythonWalk(db, a, 6)
           pnext == RecordsOf(db, a, V4Bits, 0)
           lnext == RecordsOf(db, a, V6Bits, 0)
<1>1. /\ V4Bits \in Nat /\ V6Bits \in Nat /\ Gap \in Nat /\ 0 \in Nat /\ V6Bits = Gap + V4Bits
      /\ a \in Nat
  BY Widths
<1>2. Walk(P, 0, V4Bits, S[Gap], N, pnext)
  <2>1. _start_node(db, AddressBits(4)) = S[Gap]
    BY StartNode
  <2>2. Walk(PythonWalk(db, a, 4), 0, AddressBits(4), _start_node(db, AddressBits(4)), db.node_count,
             RecordsOf(db, a, AddressBits(4), 0))
    BY <1>1, PythonWalkIsWalk
  <2> QED BY <2>1, <2>2, Widths
<1>3. Walk(L, 0, V6Bits, 0, N, lnext)
  <2>1. _start_node(db, AddressBits(6)) = 0
    BY StartNode
  <2>2. Walk(PythonWalk(db, a, 6), 0, AddressBits(6), _start_node(db, AddressBits(6)), db.node_count,
             RecordsOf(db, a, AddressBits(6), 0))
    BY <1>1, PythonWalkIsWalk
  <2> QED BY <2>1, <2>2, Widths
<1>4. Walk(S, 0, Gap, 0, N, LeftOf(db))
  BY StartWalkIsWalk
<1>5. ASSUME NEW i \in 1..Gap PROVE lnext[i] = LeftOf(db)[i]
  <2>1. i \in (0 + 1)..V6Bits /\ i \in (0 + 1)..Gap /\ i - 1 \in 0..(Gap - 1)
    BY <1>1
  <2>2. Bit(a, V6Bits, i - 1) = 0 /\ 0 + 1 = 1
    BY <2>1, BitsInFront
  <2>3. lnext[i] = [x \in 0..(N - 1) |-> db.tree[x + 1][Bit(a, V6Bits, i - 1) + 1]]
    BY <2>1, Zenon DEF RecordsOf
  <2>4. LeftOf(db)[i] = [x \in 0..(N - 1) |-> db.tree[x + 1][1]]
    BY <2>1, Zenon DEF LeftOf
  <2> QED BY <2>2, <2>3, <2>4
<1>6. ASSUME NEW k \in 1..V4Bits PROVE lnext[Gap + k] = pnext[k]
  <2>1. Gap + k \in (0 + 1)..V6Bits /\ k \in (0 + 1)..V4Bits
    BY <1>1
  <2>2. V6Bits - 1 - ((Gap + k) - 1) = V4Bits - 1 - (k - 1)
    BY <1>1
  <2>3. Bit(a, V6Bits, (Gap + k) - 1) = Bit(a, V4Bits, k - 1)
    BY <2>2, Zenon DEF Bit
  <2> QED BY <2>1, <2>3 DEF RecordsOf
<1> HIDE DEF N, S, P, L, pnext, lnext
<1>7. L[Gap] = S[Gap]
  <2>1. \A i \in 0..Gap : L[i] = S[i]
    BY <1>1, <1>3, <1>4, <1>5, WalksTogether
  <2> QED BY <1>1, <2>1
<1>8. \A k \in 0..V4Bits : L[Gap + k] = P[k]
  BY <1>1, <1>2, <1>3, <1>6, <1>7, WalkShifted
<1> QED BY <1>8 DEF P, L

\* The lookups of a and of ::a come to the same node, the second Gap steps later;
\* or both end at a record above ::/96.
LEMMA ShortcutMeets ==
  ASSUME NEW db, ReadsNodes(db), db.ip_version = 6, NEW a \in 0..(2^V4Bits - 1)
  PROVE  LET short == _find_address_in_tree(db, a, AddressBits(4))
             long  == _find_address_in_tree(db, a, AddressBits(6))
         IN  /\ short.node = long.node
             /\ short.steps = IF long.steps >= Gap THEN long.steps - Gap ELSE 0
<1> DEFINE N == db.node_count
           P == PythonWalk(db, a, 4)
           L == PythonWalk(db, a, 6)
           i == Stops(P, 0, V4Bits, N)
           j == Stops(L, 0, V6Bits, N)
           lnext == RecordsOf(db, a, V6Bits, 0)
<1>1. /\ V4Bits \in Nat /\ V6Bits \in Nat /\ Gap \in Nat /\ 0 \in Nat /\ V6Bits = Gap + V4Bits
      /\ V4Bits >= 1 /\ 0 <= V4Bits /\ 0 <= V6Bits /\ a \in Nat
  BY Widths
<1>2. /\ _find_address_in_tree(db, a, AddressBits(4)) = [node |-> P[i], steps |-> i]
      /\ _find_address_in_tree(db, a, AddressBits(6)) = [node |-> L[j], steps |-> j]
  <2>1. AddressBits(4) = V4Bits /\ AddressBits(6) = V6Bits
    BY Widths
  <2> QED BY <2>1, PythonFinds
<1>3. Walk(L, 0, V6Bits, _start_node(db, AddressBits(6)), N, lnext)
  <2>1. Walk(PythonWalk(db, a, 6), 0, AddressBits(6), _start_node(db, AddressBits(6)), db.node_count,
             RecordsOf(db, a, AddressBits(6), 0))
    BY <1>1, PythonWalkIsWalk
  <2> QED BY <2>1, Widths
<1>4. \A k \in 0..V4Bits : L[Gap + k] = P[k]
  BY WalkOfIPv4
<1>5. i \in 0..V4Bits /\ (\A k \in 0..(i - 1) : ~ (P[k] >= N)) /\ (P[i] >= N \/ i = V4Bits)
  <2> HIDE DEF P, N
  <2> QED BY <1>1, StopsWhere
<1>6. j \in 0..V6Bits /\ (\A k \in 0..(j - 1) : ~ (L[k] >= N)) /\ (L[j] >= N \/ j = V6Bits)
  <2> HIDE DEF L, N
  <2> QED BY <1>1, StopsWhere
<1> HIDE DEF N, P, L, lnext
<1>7. \A k \in 0..V6Bits : L[k] >= N => \A h \in k..V6Bits : L[h] = L[k]
  BY <1>1, <1>3, WalkStays
<1>8. L[Gap] = P[0]
  <2>1. 0 \in 0..V4Bits /\ Gap + 0 = Gap
    BY <1>1
  <2> QED BY <1>4, <2>1
<1>9. L[j] = P[i] /\ i = IF j >= Gap THEN j - Gap ELSE 0
  <2>1. CASE L[Gap] >= N
    <3>1. i = 0
      <4>1. 0 \in 0..V4Bits /\ \A k \in 0..(0 - 1) : ~ (P[k] >= N)
        BY <1>1
      <4> QED BY <1>1, <1>8, <2>1, <4>1, StopsThere
    <3>2. ~ (j > Gap)
      <4>1. j > Gap => Gap \in 0..(j - 1)
        BY <1>1, <1>6
      <4> QED BY <1>6, <2>1, <4>1
    <3> HIDE DEF i, j
    <3>3. L[j] >= N /\ Gap \in j..V6Bits
      BY <1>1, <1>6, <3>2
    <3>4. L[Gap] = L[j]
      BY <1>6, <1>7, <3>3
    <3> QED BY <1>1, <1>6, <1>8, <3>1, <3>2, <3>4
  <2>2. CASE ~ (L[Gap] >= N)
    <3> DEFINE h == Gap + i
    <3>1. h \in 0..V6Bits
      BY <1>1, <1>5
    <3>2. ASSUME NEW k \in 0..(h - 1) PROVE ~ (L[k] >= N)
      <4> HIDE DEF i
      <4>1. CASE k <= Gap
        <5>1. k \in 0..V6Bits /\ Gap \in k..V6Bits
          BY <1>1, <4>1
        <5> QED BY <1>7, <2>2, <5>1
      <4>2. CASE ~ (k <= Gap)
        <5>1. k - Gap \in 0..(i - 1) /\ k - Gap \in 0..V4Bits /\ Gap + (k - Gap) = k
          BY <1>1, <1>5, <4>2
        <5> QED BY <1>4, <1>5, <5>1
      <4> QED BY <4>1, <4>2
    <3> HIDE DEF i
    <3>3. L[h] = P[i] /\ (L[h] >= N \/ h = V6Bits)
      BY <1>1, <1>4, <1>5
    <3>4. h >= Gap /\ h - Gap = i
      BY <1>1, <1>5
    <3> HIDE DEF h
    <3>5. j = h
      BY <1>1, <3>1, <3>2, <3>3, StopsThere
    <3> HIDE DEF j
    <3> QED BY <3>3, <3>4, <3>5
  <2> QED BY <2>1, <2>2
<1> HIDE DEF i, j
<1> QED BY <1>2, <1>9

\* Starting an IPv4 lookup at _ipv4_start finds what the IPv6 lookup of ::a finds.
THEOREM ShortcutFinds ==
  ASSUME NEW db, ReadsNodes(db), db.ip_version = 6, NEW a \in 0..(2^V4Bits - 1)
  PROVE  LET short == get_with_prefix_len(db, a, 4)
             long  == get_with_prefix_len(db, a, 6)
         IN  /\ short.kind = long.kind /\ short.pointer = long.pointer
             /\ short.prefix = IF long.prefix >= Gap THEN long.prefix - Gap ELSE 0
<1> DEFINE s == _find_address_in_tree(db, a, AddressBits(4))
           l == _find_address_in_tree(db, a, AddressBits(6))
<1>1. s.node = l.node /\ s.steps = IF l.steps >= Gap THEN l.steps - Gap ELSE 0
  BY ShortcutMeets
<1>2. get_with_prefix_len(db, a, 4) =
        IF s.node = db.node_count THEN NotFound(s.steps)
        ELSE IF s.node > db.node_count /\ ~PointsPastEnd(db, s.node) THEN Found(s.node, s.steps)
        ELSE Raised("InvalidDatabaseError")
  BY DEF get_with_prefix_len, get_packed
<1>3. get_with_prefix_len(db, a, 6) =
        IF l.node = db.node_count THEN NotFound(l.steps)
        ELSE IF l.node > db.node_count /\ ~PointsPastEnd(db, l.node) THEN Found(l.node, l.steps)
        ELSE Raised("InvalidDatabaseError")
  BY DEF get_with_prefix_len, get_packed
<1>4. Gap \in Nat /\ ~ (0 >= Gap)
  BY WidthAssumption
<1> HIDE DEF s, l
<1> QED BY <1>1, <1>2, <1>3, <1>4 DEF Found, NotFound, Raised

-----------------------------------------------------------------------------
(* A prefix speaks for every address that has it.                           *)

\* The addresses of n bits that begin with the i bits of q are a block.
HasPrefix(b, n, i, q) == b \in 0..(2^n - 1) /\ b \div 2^(n - i) = q

\* The addresses with the prefix q of i bits are the 2^(n-i) from q * 2^(n-i) on.
LEMMA Block ==
  ASSUME NEW n \in Nat, n <= V6Bits, NEW i \in 0..n, NEW q \in 0..(2^i - 1),
         NEW b \in (q * 2^(n - i))..(q * 2^(n - i) + 2^(n - i) - 1)
  PROVE  HasPrefix(b, n, i, q)
<1> DEFINE size == 2^(n - i)
           p == 2^i
           x == q * size
<1>1. size \in Nat \ {0} /\ 2^n \in Nat /\ p \in Nat \ {0} /\ q \in Nat /\ q + 1 <= p
  <2>1. n - i \in 0..V6Bits /\ n \in 0..V6Bits /\ i \in 0..V6Bits
    BY Widths
  <2> QED BY <2>1, PowerPositive
<1>2. 2^n = p * size
  <2>1. i \in 0..V6Bits /\ n - i \in 0..(V6Bits - i) /\ i + (n - i) = n
    BY Widths
  <2> QED BY <2>1, PowerOfSum
<1>3. b \in x..(x + size - 1)
  OBVIOUS
<1> HIDE DEF p, size
<1>4. x \in Nat /\ x = size * q
  <2>1. size \in Nat /\ q \in Nat
    BY <1>1
  <2> QED BY <2>1
<1>5. x + size <= p * size
  <2>1. (q + 1) * size <= p * size
    BY <1>1
  <2>2. (q + 1) * size = x + size
    BY <1>1
  <2> QED BY <2>1, <2>2, Zenon
<1> HIDE DEF x
<1>6. b \in Nat /\ x <= b /\ b < x + size
  BY <1>1, <1>3, <1>4
<1>7. b \div size = q
  BY <1>1, <1>4, <1>6, Quotient
<1>8. b \in 0..(2^n - 1)
  <2> DEFINE y == p * size
  <2>1. 2^n = y /\ x + size <= y
    BY <1>2, <1>5
  <2> HIDE DEF y
  <2> QED BY <1>1, <1>4, <1>6, <2>1
<1> QED BY <1>7, <1>8 DEF HasPrefix, size

\* The addresses that share the first i bits of a.
LEMMA SharedPrefix ==
  ASSUME NEW n \in Nat, n <= V6Bits, NEW i \in 0..n, NEW a \in 0..(2^n - 1),
         NEW size, size = 2^(n - i), NEW first, first = a - (a % size),
         NEW b \in first..(first + size - 1)
  PROVE  b \in 0..(2^n - 1) /\ b \div 2^(n - i) = a \div 2^(n - i)
<1> DEFINE q == a \div size
           r == a % size
           p == 2^i
<1>1. size \in Nat \ {0} /\ 2^n \in Nat /\ a \in Nat /\ p \in Nat \ {0}
  <2>1. n - i \in 0..V6Bits /\ n \in 0..V6Bits /\ i \in 0..V6Bits
    BY Widths
  <2> QED BY <2>1, PowerPositive
<1>2. q \in Nat /\ r \in Nat /\ a = size * q + r /\ r < size
  BY <1>1, QuotientBounds
<1>3. 2^n = p * size
  <2>1. i \in 0..V6Bits /\ n - i \in 0..(V6Bits - i) /\ i + (n - i) = n
    BY Widths
  <2> QED BY <2>1, PowerOfSum
<1>4. first = a - r
  OBVIOUS
<1> HIDE DEF q, p, r
<1> DEFINE x == q * size
<1>5. x \in Nat /\ x = size * q
  <2>1. size \in Nat /\ q \in Nat
    BY <1>1, <1>2
  <2> QED BY <2>1
<1>6. first = x
  <2> HIDE DEF x
  <2> QED BY <1>1, <1>2, <1>4, <1>5
<1>7. q < p
  <2>1. SUFFICES ASSUME p <= q PROVE FALSE
    BY <1>1, <1>2
  <2>2. p * size <= x
    BY <1>1, <1>2, <2>1
  <2> DEFINE y == p * size
  <2>3. 2^n = y /\ y <= x
    BY <1>3, <2>2
  <2> HIDE DEF x, y
  <2> QED BY <1>1, <1>2, <1>5, <2>3
<1>8. q \in 0..(2^i - 1)
  BY <1>1, <1>2, <1>7 DEF p
<1>9. b \in (q * 2^(n - i))..(q * 2^(n - i) + 2^(n - i) - 1)
  BY <1>6
<1> HIDE DEF x
<1>10. HasPrefix(b, n, i, q)
  BY <1>8, <1>9, Block, Zenon
<1> QED BY <1>10 DEF q, HasPrefix

\* Addresses that share the bits that a walk takes walk alike.
LEMMA SharedWalk ==
  ASSUME NEW db, ReadsNodes(db), NEW version \in {4, 6}, NEW a \in Nat, NEW b \in Nat,
         NEW i \in 0..AddressBits(version), i = _find_address_in_tree(db, a, AddressBits(version)).steps,
         a \div 2^(AddressBits(version) - i) = b \div 2^(AddressBits(version) - i),
         _find_address_in_tree(db, a, AddressBits(version)).node >= db.node_count
  PROVE  _find_address_in_tree(db, b, AddressBits(version)) = _find_address_in_tree(db, a, AddressBits(version))
<1> DEFINE N == db.node_count
           n == AddressBits(version)
           start == _start_node(db, AddressBits(version))
           A == PythonWalk(db, a, version)
           B == PythonWalk(db, b, version)
           anext == RecordsOf(db, a, n, 0)
           bnext == RecordsOf(db, b, n, 0)
           stop == Stops(A, 0, n, N)
<1>1. n \in Nat /\ n <= V6Bits /\ 0 \in Nat /\ 0 <= n /\ V6Bits \in Nat
  BY Widths
<1>2. Walk(A, 0, n, start, N, anext) /\ Walk(B, 0, n, start, N, bnext)
  BY PythonWalkIsWalk
<1>3. /\ _find_address_in_tree(db, a, AddressBits(version)) = [node |-> A[stop], steps |-> stop]
      /\ _find_address_in_tree(db, b, AddressBits(version))
           = [node |-> B[Stops(B, 0, n, N)], steps |-> Stops(B, 0, n, N)]
  BY PythonFinds
<1>4. stop = i /\ A[i] >= N
  <2> HIDE DEF A, stop, N
  <2> QED BY <1>3 DEF N
<1>5. \A k \in 0..(i - 1) : ~ (A[k] >= N)
  <2> HIDE DEF A, n, N
  <2>1. \A k \in 0..(Stops(A, 0, n, N) - 1) : ~ (A[k] >= N)
    BY <1>1, StopsWhere
  <2> QED BY <1>4, <2>1 DEF stop
<1>6. ASSUME NEW k \in 1..i PROVE anext[k] = bnext[k]
  <2>1. k \in (0 + 1)..n /\ n - 1 - (k - 1) \in (n - i)..V6Bits /\ n - i \in 0..V6Bits
    BY <1>1
  <2>2. a \div 2^(n - 1 - (k - 1)) = b \div 2^(n - 1 - (k - 1))
    <3> HIDE DEF n
    <3>1. a \div 2^(n - i) = b \div 2^(n - i)
      BY DEF n
    <3> QED BY <2>1, <3>1, HighBitsAgree
  <2>3. Bit(a, n, k - 1) = Bit(b, n, k - 1)
    BY <2>2, Zenon DEF Bit
  <2> QED BY <2>1, <2>3 DEF RecordsOf
<1> HIDE DEF N, n, start, A, B, anext, bnext, stop
<1>7. i \in Nat /\ i <= n /\ i \in 0..n
  BY <1>1 DEF n
<1>8. \A k \in 0..i : A[k] = B[k]
  BY <1>1, <1>2, <1>6, <1>7, WalksTogether
<1>9. Stops(B, 0, n, N) = i
  <2>1. \A k \in 0..(i - 1) : ~ (B[k] >= N)
    <3>1. \A k \in 0..(i - 1) : k \in 0..i
      BY <1>7
    <3> QED BY <1>5, <1>8, <3>1
  <2>2. B[i] >= N
    BY <1>4, <1>7, <1>8
  <2> QED BY <1>1, <1>7, <2>1, <2>2, StopsThere
<1>10. B[i] = A[i]
  BY <1>7, <1>8
<1> QED BY <1>3, <1>4, <1>9, <1>10

\* The answer of a lookup is the answer for every address that shares the
\* prefix it reports.
THEOREM PrefixSpeaks ==
  ASSUME NEW db, ReadsNodes(db), NEW version \in {4, 6},
         NEW n, n = AddressBits(version), NEW a \in 0..(2^n - 1),
         NEW answer, answer = get_with_prefix_len(db, a, version),
         answer.kind \in {"record", "None"},
         NEW size, size = 2^(n - answer.prefix), NEW first, first = a - (a % size),
         NEW b \in first..(first + size - 1)
  PROVE  b \in 0..(2^n - 1) /\ get_with_prefix_len(db, b, version) = answer
<1> DEFINE at == _find_address_in_tree(db, a, AddressBits(version))
           i == at.steps
<1>1. n \in Nat /\ n <= V6Bits /\ 0 \in Nat /\ 0 <= n
  BY Widths
<1>2. a \in Nat /\ db.node_count \in Nat
  BY DEF ReadsNodes
<1>3. i \in 0..n
  <2>1. at.steps = Stops(PythonWalk(db, a, version), 0, AddressBits(version), db.node_count)
    BY PythonFinds
  <2> HIDE DEF at
  <2> QED BY <1>1, <2>1, StopsWhere
<1>4. /\ ~ (version = 6 /\ db.ip_version = 4) /\ answer.prefix = i
      /\ (at.node = db.node_count \/ at.node > db.node_count)
  <2>1. answer = (IF version = 6 /\ db.ip_version = 4 THEN Raised("ValueError")
                  ELSE IF at.node = db.node_count THEN NotFound(at.steps)
                  ELSE IF at.node > db.node_count /\ ~PointsPastEnd(db, at.node)
                    THEN Found(at.node, at.steps)
                  ELSE Raised("InvalidDatabaseError"))
    BY DEF get_with_prefix_len, get_packed
  <2> HIDE DEF at
  <2> QED BY <2>1 DEF Raised, NotFound, Found
<1>5. at.node >= db.node_count
  <2>1. at.node \in Nat
    <3>1. at = [node |-> PythonWalk(db, a, version)[i], steps |-> i]
      BY PythonFinds
    <3>2. Walk(PythonWalk(db, a, version), 0, n, _start_node(db, AddressBits(version)), db.node_count,
               RecordsOf(db, a, n, 0))
      BY <1>2, PythonWalkIsWalk
    <3>3. PythonWalk(db, a, version)[i] \in Nat
      <4> HIDE DEF i
      <4> QED BY <1>3, <3>2 DEF Walk
    <3> HIDE DEF at, i
    <3> QED BY <3>1, <3>3
  <2> HIDE DEF at
  <2> QED BY <1>2, <1>4, <2>1
<1> HIDE DEF i
<1>6. size = 2^(n - i)
  BY <1>4
<1>7. b \in 0..(2^n - 1) /\ b \div 2^(n - i) = a \div 2^(n - i)
  BY <1>1, <1>3, <1>6, SharedPrefix
<1>8. b \in Nat
  BY <1>7
<1>9. _find_address_in_tree(db, b, AddressBits(version)) = at
  <2>1. a \div 2^(AddressBits(version) - i) = b \div 2^(AddressBits(version) - i)
    BY <1>7
  <2>2. i \in 0..AddressBits(version) /\ i = _find_address_in_tree(db, a, AddressBits(version)).steps
    BY <1>3 DEF i
  <2> QED BY <1>2, <1>5, <1>8, <2>1, <2>2, SharedWalk
<1>10. get_with_prefix_len(db, b, version) = get_with_prefix_len(db, a, version)
  BY <1>9, Zenon DEF get_with_prefix_len, get_packed
<1> QED BY <1>7, <1>10

-----------------------------------------------------------------------------
(* Bytes.                                                                   *)

Byte == 0..255

\* A function on 1..n to bytes is a sequence of n bytes.
LEMMA BytesByElements ==
  ASSUME NEW n \in Nat, NEW s, s = [k \in 1..n |-> s[k]], \A k \in 1..n : s[k] \in Byte
  PROVE  s \in Seq(Byte) /\ Len(s) = n
OBVIOUS

\* A remainder by 256 is a byte.
LEMMA Remainder == \A n \in Nat : n % 256 \in Byte
BY SMT DEF Byte

\* t is the three bytes of n.
BytesOf3(t, n) ==
  /\ t \in Seq(Byte) /\ Len(t) = 3
  /\ t[1] = (n \div 65536) % 256 /\ t[2] = (n \div 256) % 256 /\ t[3] = n % 256

\* The three bytes of a number.
LEMMA BigEndian3 ==
  ASSUME NEW n \in Nat
  PROVE  BytesOf3(BigEndian(n, 3), n)
<1>1. 256^(3 - 1) = 65536 /\ 256^(3 - 2) = 256 /\ 256^(3 - 3) = 1
  BY SMT
<1>2. n \div 1 = n
  BY SMT
<1>3. BigEndian(n, 3)[1] = (n \div 65536) % 256
  <2>1. BigEndian(n, 3)[1] = (n \div 256^(3 - 1)) % 256
    BY SMT DEF BigEndian
  <2> QED BY <1>1, <1>2, <2>1, SMT
<1>4. BigEndian(n, 3)[2] = (n \div 256) % 256
  <2>1. BigEndian(n, 3)[2] = (n \div 256^(3 - 2)) % 256
    BY SMT DEF BigEndian
  <2> QED BY <1>1, <1>2, <2>1, SMT
<1>5. BigEndian(n, 3)[3] = n % 256
  <2>1. BigEndian(n, 3)[3] = (n \div 256^(3 - 3)) % 256
    BY SMT DEF BigEndian
  <2> QED BY <1>1, <1>2, <2>1, SMT
<1>6. \A k \in 1..3 : BigEndian(n, 3)[k] \in Byte
  <2>1. (n \div 65536) \in Nat /\ (n \div 256) \in Nat /\ n \in Nat
    BY SMT
  <2>2. ((n \div 65536) % 256) \in Byte /\ ((n \div 256) % 256) \in Byte /\ (n % 256) \in Byte
    BY <2>1, Remainder, SMT
  <2>3. \A k \in 1..3 : k = 1 \/ k = 2 \/ k = 3
    BY SMT
  <2> QED BY <1>3, <1>4, <1>5, <2>2, <2>3, SMT
<1>7. BigEndian(n, 3) = [k \in 1..3 |-> BigEndian(n, 3)[k]]
  BY SMT DEF BigEndian
<1>8. BigEndian(n, 3) \in Seq(Byte) /\ Len(BigEndian(n, 3)) = 3
  <2>1. 3 \in Nat
    BY SMT
  <2> QED BY <1>6, <1>7, <2>1, BytesByElements, Zenon
<1> DEFINE t == BigEndian(n, 3)
<1> HIDE DEF t
<1>9. /\ t \in Seq(Byte) /\ Len(t) = 3
      /\ t[1] = (n \div 65536) % 256 /\ t[2] = (n \div 256) % 256 /\ t[3] = n % 256
  BY <1>3, <1>4, <1>5, <1>8, SMT DEF t
<1>10. BytesOf3(t, n)
  BY <1>9, SMT DEF BytesOf3
<1> QED BY <1>10 DEF t

\* The four bytes of a number.
LEMMA BigEndian4 ==
  ASSUME NEW n \in Nat
  PROVE  /\ BigEndian(n, 4) \in Seq(Byte) /\ Len(BigEndian(n, 4)) = 4
         /\ BigEndian(n, 4)[1] = (n \div 16777216) % 256
         /\ BigEndian(n, 4)[2] = (n \div 65536) % 256
         /\ BigEndian(n, 4)[3] = (n \div 256) % 256
         /\ BigEndian(n, 4)[4] = n % 256
<1>1. 256^(4 - 1) = 16777216 /\ 256^(4 - 2) = 65536 /\ 256^(4 - 3) = 256 /\ 256^(4 - 4) = 1
  BY SMT
<1>2. n \div 1 = n
  BY SMT
<1>3. BigEndian(n, 4)[1] = (n \div 16777216) % 256
  <2>1. BigEndian(n, 4)[1] = (n \div 256^(4 - 1)) % 256
    BY SMT DEF BigEndian
  <2> QED BY <1>1, <1>2, <2>1, SMT
<1>4. BigEndian(n, 4)[2] = (n \div 65536) % 256
  <2>1. BigEndian(n, 4)[2] = (n \div 256^(4 - 2)) % 256
    BY SMT DEF BigEndian
  <2> QED BY <1>1, <1>2, <2>1, SMT
<1>5. BigEndian(n, 4)[3] = (n \div 256) % 256
  <2>1. BigEndian(n, 4)[3] = (n \div 256^(4 - 3)) % 256
    BY SMT DEF BigEndian
  <2> QED BY <1>1, <1>2, <2>1, SMT
<1>6. BigEndian(n, 4)[4] = n % 256
  <2>1. BigEndian(n, 4)[4] = (n \div 256^(4 - 4)) % 256
    BY SMT DEF BigEndian
  <2> QED BY <1>1, <1>2, <2>1, SMT
<1>7. \A k \in 1..4 : BigEndian(n, 4)[k] \in Byte
  <2>1. (n \div 16777216) \in Nat /\ (n \div 65536) \in Nat /\ (n \div 256) \in Nat /\ n \in Nat
    BY SMT
  <2>2. ((n \div 16777216) % 256) \in Byte /\ ((n \div 65536) % 256) \in Byte /\ ((n \div 256) % 256) \in Byte /\ (n % 256) \in Byte
    BY <2>1, Remainder, SMT
  <2>3. \A k \in 1..4 : k = 1 \/ k = 2 \/ k = 3 \/ k = 4
    BY SMT
  <2> QED BY <1>3, <1>4, <1>5, <1>6, <2>2, <2>3, SMT
<1>8. BigEndian(n, 4) = [k \in 1..4 |-> BigEndian(n, 4)[k]]
  BY SMT DEF BigEndian
<1>9. BigEndian(n, 4) \in Seq(Byte) /\ Len(BigEndian(n, 4)) = 4
  <2>1. 4 \in Nat
    BY SMT
  <2> QED BY <1>7, <1>8, <2>1, BytesByElements, Zenon
<1> QED BY <1>3, <1>4, <1>5, <1>6, <1>9, SMT

\* Bytes are numbers.
LEMMA BytesAreNumbers ==
  ASSUME NEW s \in Seq(Byte)
  PROVE  \A k \in 1..Len(s) : s[k] \in Byte /\ s[k] \in Nat
<1>1. \A k \in 1..Len(s) : s[k] \in Byte
  OBVIOUS
<1>2. \A x \in Byte : x \in Nat
  BY SMT DEF Byte
<1> QED BY <1>1, <1>2

\* FromBytes takes one byte after the other.
LEMMA FromBytesSteps ==
  ASSUME NEW s \in Seq(Byte)
  PROVE  \E f : /\ f \in [0..Len(s) -> Nat] /\ f[0] = 0
                /\ \A k \in 1..Len(s) : f[k] = 256 * f[k - 1] + s[k]
                /\ FromBytes(s) = f[Len(s)]
<1> DEFINE n == Len(s)
           G == [k \in (0 + 1)..n |-> [x \in Nat |-> 256 * x + s[k]]]
           Solves(acc) == acc = [k \in 0..n |-> IF k = 0 THEN 0 ELSE 256 * acc[k - 1] + s[k]]
           A == CHOOSE acc : Solves(acc)
<1>1. n \in Nat /\ 0 <= n /\ 0 \in Nat
  OBVIOUS
<1>2. \A k \in 1..n : s[k] \in Nat
  BY BytesAreNumbers
<1>3. G \in [(0 + 1)..n -> [Nat -> Nat]]
  BY <1>2, SMT
<1> HIDE DEF n, G
<1>4. PICK f : Recursion(f, 0, n, Nat, 0, G)
  BY <1>1, <1>3, RecursionExists, Zenon
<1>5. Solves(f)
  <2>1. ASSUME NEW k \in 0..n PROVE f[k] = IF k = 0 THEN 0 ELSE 256 * f[k - 1] + s[k]
    <3>1. CASE k = 0
      BY <1>4, <3>1 DEF Recursion
    <3>2. CASE k # 0
      <4>1. k \in (0 + 1)..n /\ k - 1 \in 0..n
        BY <1>1, <3>2
      <4>2. f[k - 1] \in Nat /\ f[k] = G[k][f[k - 1]]
        BY <1>4, <4>1 DEF Recursion
      <4> QED BY <3>2, <4>1, <4>2, SMT DEF G
    <3> QED BY <3>1, <3>2
  <2> QED BY <1>4, <2>1, SMT DEF Recursion
<1>6. Solves(A)
  <2> HIDE DEF Solves
  <2> QED BY <1>5, Zenon
<1> HIDE DEF A
<1> DEFINE T == {k \in 0..n : A[k] \in Nat}
<1>7. 0 \in T
  BY <1>1, <1>6, SMT
<1>8. ASSUME NEW k \in 0..(n - 1), k \in T PROVE k + 1 \in T
  <2>1. k + 1 \in 0..n /\ k + 1 # 0 /\ (k + 1) - 1 = k /\ k + 1 \in 1..n
    BY <1>1
  <2>2. A[k + 1] = 256 * A[k] + s[k + 1]
    BY <1>6, <2>1
  <2> QED BY <1>2, <1>8, <2>1, <2>2, SMT
<1>9. 0..n \subseteq T
  <2> HIDE DEF T
  <2> QED BY <1>1, <1>7, <1>8, Upwards, Zenon
<1>10. A \in [0..n -> Nat] /\ A[0] = 0
  BY <1>1, <1>6, <1>9, SMT
<1>11. ASSUME NEW k \in 1..n PROVE A[k] = 256 * A[k - 1] + s[k]
  <2>1. k \in 0..n /\ k # 0
    BY <1>1
  <2> QED BY <1>6, <2>1
<1>12. FromBytes(s) = A[n]
  BY Zenon DEF FromBytes, A, n
<1> QED BY <1>10, <1>11, <1>12 DEF n

\* What three bytes stand for.
LEMMA FromBytes3 ==
  ASSUME NEW s \in Seq(Byte), Len(s) = 3
  PROVE  FromBytes(s) = 256 * (256 * s[1] + s[2]) + s[3]
<1>1. PICK f : /\ f \in [0..Len(s) -> Nat] /\ f[0] = 0
               /\ \A k \in 1..Len(s) : f[k] = 256 * f[k - 1] + s[k]
               /\ FromBytes(s) = f[Len(s)]
  BY FromBytesSteps
<1>2. f[1] = 256 * f[0] + s[1] /\ f[2] = 256 * f[1] + s[2] /\ f[3] = 256 * f[2] + s[3]
  BY <1>1, SMT
<1>3. s[1] \in Nat /\ s[2] \in Nat /\ s[3] \in Nat
  <2>1. \A k \in 1..Len(s) : s[k] \in Byte /\ s[k] \in Nat
    BY BytesAreNumbers, Zenon
  <2> QED BY <2>1, SMT
<1> QED BY <1>1, <1>2, <1>3, SMT

\* What four bytes stand for.
LEMMA FromBytes4 ==
  ASSUME NEW s \in Seq(Byte), Len(s) = 4
  PROVE  FromBytes(s) = 256 * (256 * (256 * s[1] + s[2]) + s[3]) + s[4]
<1>1. PICK f : /\ f \in [0..Len(s) -> Nat] /\ f[0] = 0
               /\ \A k \in 1..Len(s) : f[k] = 256 * f[k - 1] + s[k]
               /\ FromBytes(s) = f[Len(s)]
  BY FromBytesSteps
<1>2. /\ f[1] = 256 * f[0] + s[1] /\ f[2] = 256 * f[1] + s[2]
      /\ f[3] = 256 * f[2] + s[3] /\ f[4] = 256 * f[3] + s[4]
  BY <1>1, SMT
<1>3. s[1] \in Nat /\ s[2] \in Nat /\ s[3] \in Nat /\ s[4] \in Nat
  <2>1. \A k \in 1..Len(s) : s[k] \in Byte /\ s[k] \in Nat
    BY BytesAreNumbers, Zenon
  <2> QED BY <2>1, SMT
<1> QED BY <1>1, <1>2, <1>3, SMT

\* The bytes of a number, put together again.
LEMMA Recomposed3 ==
  ASSUME NEW n \in Nat, n < 16777216
  PROVE  256 * (256 * ((n \div 65536) % 256) + ((n \div 256) % 256)) + (n % 256) = n
<1> DEFINE a == n \div 256
           b == n \div 65536
<1>1. a \in Nat /\ b \in Nat /\ n = 256 * a + (n % 256)
  BY SMT
<1>2. b = a \div 256
  BY SMT
<1>3. a = 256 * b + (a % 256)
  BY <1>1, <1>2, SMT
<1>4. b < 256 /\ b % 256 = b
  BY <1>1, <1>3, SMT
<1> QED BY <1>1, <1>3, <1>4, SMT

\* The same for four digits and 32 bits.
LEMMA Recomposed4 ==
  ASSUME NEW n \in Nat, n < 4294967296
  PROVE  256 * (256 * (256 * ((n \div 16777216) % 256) + ((n \div 65536) % 256))
           + ((n \div 256) % 256)) + (n % 256) = n
<1> DEFINE a == n \div 256
<1>1. a \in Nat /\ n = 256 * a + (n % 256) /\ a < 16777216
  BY SMT
<1>2. a \div 256 = n \div 65536
  BY SMT
<1>3. a \div 65536 = n \div 16777216
  BY SMT
<1>4. 256 * (256 * ((a \div 65536) % 256) + ((a \div 256) % 256)) + (a % 256) = a
  BY <1>1, Recomposed3, SMT
<1> QED BY <1>1, <1>2, <1>3, <1>4, SMT

\* u is s followed by t.
Joined(u, s, t) ==
  /\ u \in Seq(Byte) /\ Len(u) = Len(s) + Len(t)
  /\ \A k \in 1..Len(s) : u[k] = s[k]
  /\ \A k \in 1..Len(t) : u[Len(s) + k] = t[k]

\* A concatenation of bytes has the elements of both.
LEMMA Concatenation ==
  ASSUME NEW s \in Seq(Byte), NEW t \in Seq(Byte)
  PROVE  Joined(s \o t, s, t)
<1>1. s \o t \in Seq(Byte) /\ Len(s \o t) = Len(s) + Len(t)
  BY ConcatProperties
<1>2. Len(s) \in Nat /\ Len(t) \in Nat
  OBVIOUS
<1>3. \A i \in 1..(Len(s) + Len(t)) : (s \o t)[i] = IF i <= Len(s) THEN s[i] ELSE t[i - Len(s)]
  BY ConcatProperties
<1>4. ASSUME NEW k \in 1..Len(s) PROVE (s \o t)[k] = s[k]
  BY <1>2, <1>3
<1>5. ASSUME NEW k \in 1..Len(t) PROVE (s \o t)[Len(s) + k] = t[k]
  <2>1. /\ Len(s) + k \in 1..(Len(s) + Len(t)) /\ ~ (Len(s) + k <= Len(s))
        /\ (Len(s) + k) - Len(s) = k
    BY <1>2
  <2> QED BY <1>3, <2>1
<1> QED BY <1>1, <1>4, <1>5 DEF Joined

\* Records of 24, 28 and 32 bits.
Two24 == 16777216

Record24 == {n \in Nat : n < 16777216}
Record28 == {n \in Nat : n < 268435456}
Record32 == {n \in Nat : n < 4294967296}

\* A node of 24 bit records: three bytes for each.
LEMMA NodeBytes24 ==
  ASSUME NEW l \in Nat, NEW r \in Nat
  PROVE  /\ NodeBytes(24, l, r) \in Seq(Byte) /\ Len(NodeBytes(24, l, r)) = 6
         /\ \A k \in 1..3 : NodeBytes(24, l, r)[k] = BigEndian(l, 3)[k]
         /\ \A k \in 1..3 : NodeBytes(24, l, r)[3 + k] = BigEndian(r, 3)[k]
<1>1. NodeBytes(24, l, r) = BigEndian(l, 3) \o BigEndian(r, 3)
  <2>1. 24 \div 8 = 3 /\ 24 # 28 /\ 32 \div 8 = 4 /\ 32 # 28
    BY SMT
  <2> QED BY <2>1, SMT DEF NodeBytes
<1>2. /\ BigEndian(l, 3) \in Seq(Byte) /\ Len(BigEndian(l, 3)) = 3
      /\ BigEndian(r, 3) \in Seq(Byte) /\ Len(BigEndian(r, 3)) = 3
  <2>1. BytesOf3(BigEndian(l, 3), l) /\ BytesOf3(BigEndian(r, 3), r)
    BY BigEndian3, Zenon
  <2> QED BY <2>1, SMT DEF BytesOf3
<1> DEFINE s == BigEndian(l, 3)
           t == BigEndian(r, 3)
<1> HIDE DEF s, t
<1>3. s \in Seq(Byte) /\ Len(s) = 3 /\ t \in Seq(Byte) /\ Len(t) = 3
  BY <1>2 DEF s, t
<1>4. Joined(s \o t, s, t)
  BY <1>3, Concatenation, Zenon
<1> DEFINE v == s \o t
<1>5. NodeBytes(24, l, r) = v
  BY <1>1 DEF s, t
<1> HIDE DEF v
<1>6. /\ v \in Seq(Byte) /\ Len(v) = 6
      /\ (\A k \in 1..3 : v[k] = s[k]) /\ (\A k \in 1..3 : v[3 + k] = t[k])
  BY <1>3, <1>4, SMT DEF Joined, v
<1> QED BY <1>5, <1>6 DEF s, t

\* A node of 32 bit records: four bytes for each.
LEMMA NodeBytes32 ==
  ASSUME NEW l \in Nat, NEW r \in Nat
  PROVE  /\ NodeBytes(32, l, r) \in Seq(Byte) /\ Len(NodeBytes(32, l, r)) = 8
         /\ \A k \in 1..4 : NodeBytes(32, l, r)[k] = BigEndian(l, 4)[k]
         /\ \A k \in 1..4 : NodeBytes(32, l, r)[4 + k] = BigEndian(r, 4)[k]
<1>1. NodeBytes(32, l, r) = BigEndian(l, 4) \o BigEndian(r, 4)
  <2>1. 24 \div 8 = 3 /\ 24 # 28 /\ 32 \div 8 = 4 /\ 32 # 28
    BY SMT
  <2> QED BY <2>1, SMT DEF NodeBytes
<1>2. /\ BigEndian(l, 4) \in Seq(Byte) /\ Len(BigEndian(l, 4)) = 4
      /\ BigEndian(r, 4) \in Seq(Byte) /\ Len(BigEndian(r, 4)) = 4
  BY BigEndian4, SMT
<1> DEFINE s == BigEndian(l, 4)
           t == BigEndian(r, 4)
<1> HIDE DEF s, t
<1>3. s \in Seq(Byte) /\ Len(s) = 4 /\ t \in Seq(Byte) /\ Len(t) = 4
  BY <1>2 DEF s, t
<1>4. Joined(s \o t, s, t)
  BY <1>3, Concatenation, Zenon
<1> DEFINE v == s \o t
<1>5. NodeBytes(32, l, r) = v
  BY <1>1 DEF s, t
<1> HIDE DEF v
<1>6. /\ v \in Seq(Byte) /\ Len(v) = 8
      /\ (\A k \in 1..4 : v[k] = s[k]) /\ (\A k \in 1..4 : v[4 + k] = t[k])
  BY <1>3, <1>4, SMT DEF Joined, v
<1> QED BY <1>5, <1>6 DEF s, t

\* The two high nibbles of records of 28 bits share a byte.
LEMMA Halves28 ==
  ASSUME NEW n, n \in Record28
  PROVE  /\ n \in Nat /\ n % Two24 \in Nat /\ n % Two24 < Two24 /\ n \div Two24 \in 0..15
         /\ n = Two24 * (n \div Two24) + (n % Two24)
<1>1. n \in Nat /\ n < 268435456
  BY SMT DEF Record28
<1>2. n % 16777216 \in Nat /\ n % 16777216 < 16777216
  BY <1>1, SMT
<1>3. n \div 16777216 \in Int /\ 0 <= n \div 16777216 /\ n \div 16777216 <= 15
  BY <1>1, SMT
<1>4. n = 16777216 * (n \div 16777216) + (n % 16777216)
  BY <1>1, SMT
<1> QED BY <1>1, <1>2, <1>3, <1>4, SMT DEF Two24

\* A node of 28 bit records: three bytes for each around a byte that holds the
\* high nibbles of both, the left one's first.
LEMMA NodeBytes28 ==
  ASSUME NEW l \in Record28, NEW r \in Record28
  PROVE  /\ NodeBytes(28, l, r) \in Seq(Byte) /\ Len(NodeBytes(28, l, r)) = 7
         /\ \A k \in 1..3 : NodeBytes(28, l, r)[k] = BigEndian(l % Two24, 3)[k]
         /\ NodeBytes(28, l, r)[4] \div 16 = l \div Two24
         /\ NodeBytes(28, l, r)[4] % 16 = r \div Two24
         /\ \A k \in 1..3 : NodeBytes(28, l, r)[4 + k] = BigEndian(r % Two24, 3)[k]
<1> DEFINE s == BigEndian(l % Two24, 3)
           t == BigEndian(r % Two24, 3)
           b == 16 * (l \div Two24) + (r \div Two24)
           u == s \o <<b>>
<1>1. NodeBytes(28, l, r) = u \o t
  <2>1. 2^24 = Two24
    BY SMT DEF Two24
  <2> QED BY <2>1, SMT DEF NodeBytes
<1>2. b \in Byte /\ b \div 16 = l \div Two24 /\ b % 16 = r \div Two24
  <2>1. l \div Two24 \in 0..15 /\ r \div Two24 \in 0..15
    BY Halves28
  <2> QED BY <2>1, SMT DEF Byte
<1>3. s \in Seq(Byte) /\ Len(s) = 3 /\ t \in Seq(Byte) /\ Len(t) = 3
  <2>1. l % Two24 \in Nat /\ r % Two24 \in Nat
    BY Halves28
  <2>2. BytesOf3(s, l % Two24) /\ BytesOf3(t, r % Two24)
    BY <2>1, BigEndian3, Zenon
  <2> QED BY <2>2, SMT DEF BytesOf3
<1>4. <<b>> \in Seq(Byte) /\ Len(<<b>>) = 1 /\ <<b>>[1] = b
  <2> HIDE DEF b
  <2> QED BY <1>2
<1> HIDE DEF s, t, b
<1>5. Joined(u, s, <<b>>)
  BY <1>3, <1>4, Concatenation, Zenon
<1> HIDE DEF u
<1>6. u \in Seq(Byte) /\ Len(u) = 4 /\ (\A k \in 1..3 : u[k] = s[k]) /\ u[4] = b
  BY <1>3, <1>4, <1>5, SMT DEF Joined
<1>7. Joined(u \o t, u, t)
  BY <1>3, <1>6, Concatenation, Zenon
<1> DEFINE v == u \o t
<1>8. NodeBytes(28, l, r) = v
  BY <1>1
<1> HIDE DEF v
<1>9. /\ v \in Seq(Byte) /\ Len(v) = 7 /\ v[4] = b
      /\ (\A k \in 1..3 : v[k] = s[k]) /\ (\A k \in 1..3 : v[4 + k] = t[k])
  BY <1>3, <1>6, <1>7, SMT DEF Joined, v
<1> QED BY <1>2, <1>8, <1>9 DEF s, t

-----------------------------------------------------------------------------
(* The bytes of a whole tree.                                               *)

\* The records of each size, by their bound.
LEMMA RecordsBySize == Records(24) = Record24 /\ Records(28) = Record28 /\ Records(32) = Record32
<1>1. 2^24 = 16777216 /\ 2^(24 - 24) = 1 /\ 2^(28 - 24) = 16 /\ 2^(32 - 24) = 256
  BY SMT
<1>2. \A n \in Nat : n \div 16777216 < 1 <=> n < 16777216
  BY SMT
<1>3. \A n \in Nat : n \div 16777216 < 16 <=> n < 268435456
  BY SMT
<1>4. \A n \in Nat : n \div 16777216 < 256 <=> n < 4294967296
  BY SMT
<1> QED BY <1>1, <1>2, <1>3, <1>4, SMT DEF Records, Record24, Record28, Record32

\* Records are numbers.
LEMMA RecordsAreNat == \A size : Records(size) \subseteq Nat
BY DEF Records

\* A node takes a quarter as many bytes as a record has bits.
LEMMA NodeBytesAny ==
  ASSUME NEW size \in {24, 28, 32}, NEW l \in Records(size), NEW r \in Records(size)
  PROVE  NodeBytes(size, l, r) \in Seq(Byte) /\ Len(NodeBytes(size, l, r)) = size \div 4
<1>1. l \in Nat /\ r \in Nat
  BY RecordsAreNat
<1>2. CASE size = 24
  BY <1>1, <1>2, NodeBytes24, SMT
<1>3. CASE size = 28
  <2>1. l \in Record28 /\ r \in Record28
    BY <1>3, RecordsBySize
  <2> QED BY <1>3, <2>1, NodeBytes28, SMT
<1>4. CASE size = 32
  BY <1>1, <1>4, NodeBytes32, SMT
<1> QED BY <1>2, <1>3, <1>4

\* Where the bytes of node x are, in a file of nodes of b bytes.
LEMMA NodePlaces ==
  ASSUME NEW b \in {6, 7, 8}, NEW n \in Nat, NEW x \in 0..n, NEW k \in 1..b
  PROVE  /\ n * b \in Nat /\ (n + 1) * b = n * b + b
         /\ x < n => x * b + k \in 1..(n * b)
<1>1. CASE b = 6
  BY <1>1
<1>2. CASE b = 7
  BY <1>2
<1>3. CASE b = 8
  BY <1>3
<1> QED BY <1>1, <1>2, <1>3

\* The bytes are those of one node after the other.
NodesInPlace(bytes, tree, size) ==
  LET b == size \div 4
  IN  /\ bytes \in Seq(Byte) /\ Len(bytes) = Len(tree) * b
      /\ \A x \in 0..(Len(tree) - 1), k \in 1..b :
           bytes[x * b + k] = NodeBytes(size, tree[x + 1][1], tree[x + 1][2])[k]

\* Every node of a tree is at its place in the file.
LEMMA DatabaseBytes ==
  ASSUME NEW size \in {24, 28, 32}, NEW tree \in TreesOf(size), NEW ipVersion, NEW dataSize
  PROVE  NodesInPlace(Database(tree, ipVersion, size, dataSize).bytes, tree, size)
<1> DEFINE L == Len(tree)
           b == size \div 4
           NB(n) == NodeBytes(size, tree[n][1], tree[n][2])
           G == [n \in (0 + 1)..L |-> [s \in Seq(Byte) |-> s \o NB(n)]]
           Solves(f) == f = [n \in 0..L |-> IF n = 0 THEN <<>> ELSE f[n - 1] \o NB(n)]
           F == CHOOSE f : Solves(f)
           Placed(s, n) == /\ s \in Seq(Byte) /\ Len(s) = n * b
                           /\ \A x \in 0..(n - 1), k \in 1..b : s[x * b + k] = NB(x + 1)[k]
<1>1. L \in Nat /\ 0 <= L /\ 0 \in Nat /\ b \in {6, 7, 8} /\ <<>> \in Seq(Byte)
  BY DEF TreesOf
<1>2. \A n \in 1..L : NB(n) \in Seq(Byte) /\ Len(NB(n)) = b
  <2>1. ASSUME NEW n \in 1..L PROVE tree[n][1] \in Records(size) /\ tree[n][2] \in Records(size)
    BY DEF TreesOf
  <2> QED BY <2>1, NodeBytesAny
<1>3. Database(tree, ipVersion, size, dataSize).bytes = F[L]
  BY DEF Database
<1> HIDE DEF L, b, NB
<1>4. G \in [(0 + 1)..L -> [Seq(Byte) -> Seq(Byte)]]
  BY <1>2
<1>5. PICK f : Recursion(f, 0, L, Seq(Byte), <<>>, G)
  <2> HIDE DEF G
  <2> QED BY <1>1, <1>4, RecursionExists, Zenon
<1>6. Solves(f)
  <2>1. ASSUME NEW n \in 0..L PROVE f[n] = IF n = 0 THEN <<>> ELSE f[n - 1] \o NB(n)
    <3>1. CASE n = 0
      BY <1>5, <3>1 DEF Recursion
    <3>2. CASE n # 0
      <4>1. n \in (0 + 1)..L /\ n - 1 \in 0..L
        BY <1>1, <3>2
      <4>2. f[n - 1] \in Seq(Byte) /\ f[n] = G[n][f[n - 1]]
        BY <1>5, <4>1 DEF Recursion
      <4> QED BY <3>2, <4>1, <4>2
    <3> QED BY <3>1, <3>2
  <2> QED BY <1>5, <2>1 DEF Recursion
<1>7. Solves(F)
  <2> HIDE DEF Solves
  <2> QED BY <1>6, Zenon
<1> HIDE DEF F
<1> DEFINE T == {n \in 0..L : Placed(F[n], n)}
<1>8. 0 \in T
  <2>1. F[0] = <<>>
    BY <1>1, <1>7
  <2>2. 0 * b = 0
    BY <1>1
  <2>3. Placed(<<>>, 0)
    BY <2>2
  <2>4. Placed(F[0], 0) /\ 0 \in 0..L
    BY <1>1, <2>1, <2>3
  <2> HIDE DEF Placed
  <2> QED BY <2>4
<1>9. ASSUME NEW n \in 0..(L - 1), n \in T PROVE n + 1 \in T
  <2> DEFINE s == F[n]
             t == NB(n + 1)
             u == F[n + 1]
  <2>1. n + 1 \in 0..L /\ n + 1 \in 1..L /\ n + 1 # 0 /\ (n + 1) - 1 = n /\ n \in Nat
    BY <1>1
  <2>2. u = s \o t
    BY <1>7, <2>1
  <2>3. Placed(s, n)
    BY <1>9
  <2>4. t \in Seq(Byte) /\ Len(t) = b
    BY <1>2, <2>1
  <2> HIDE DEF s, t, u
  <2>5. Joined(u, s, t)
    BY <2>2, <2>3, <2>4, Concatenation, Zenon
  <2>6. Len(u) = (n + 1) * b
    BY <1>1, <2>1, <2>3, <2>4, <2>5, NodePlaces DEF Joined
  <2>7. ASSUME NEW x \in 0..((n + 1) - 1), NEW k \in 1..b PROVE u[x * b + k] = NB(x + 1)[k]
    <3>1. x \in 0..n
      BY <2>1
    <3>2. CASE x < n
      <4>1. x * b + k \in 1..(n * b)
        BY <1>1, <2>1, <3>1, <3>2, NodePlaces
      <4>2. u[x * b + k] = s[x * b + k]
        BY <2>3, <2>5, <4>1 DEF Joined
      <4>3. x \in 0..(n - 1)
        BY <2>1, <3>1, <3>2
      <4> QED BY <2>3, <4>2, <4>3
    <3>3. CASE x = n
      <4>1. u[Len(s) + k] = t[k]
        BY <2>4, <2>5 DEF Joined
      <4>2. Len(s) = x * b
        BY <2>3, <3>3
      <4>3. t = NB(x + 1)
        BY <3>3 DEF t
      <4> QED BY <4>1, <4>2, <4>3
    <3> QED BY <2>1, <3>1, <3>2, <3>3
  <2>8. Placed(u, n + 1)
    BY <2>5, <2>6, <2>7 DEF Joined
  <2> HIDE DEF Placed
  <2> QED BY <2>1, <2>8 DEF u
<1>10. 0..L \subseteq T
  <2> HIDE DEF T
  <2> QED BY <1>1, <1>8, <1>9, Upwards, Zenon
<1>11. Placed(F[L], L)
  <2> HIDE DEF Placed
  <2> QED BY <1>1, <1>10
<1> QED BY <1>3, <1>11 DEF NodesInPlace, L, b, NB

-----------------------------------------------------------------------------
(* _read_node.                                                              *)

\* u is the n elements of s behind the first `from`.
SliceOf(u, s, from, n) ==
  u \in Seq(Byte) /\ Len(u) = n /\ \A k \in 1..n : u[k] = s[from + k]

\* A slice of bytes has the bytes of its place.
LEMMA SliceOfBytes ==
  ASSUME NEW s \in Seq(Byte), NEW from \in Nat, NEW n \in Nat, from + n <= Len(s)
  PROVE  SliceOf(SubSeq(s, from + 1, from + n), s, from, n)
<1> DEFINE u == SubSeq(s, from + 1, from + n)
<1>1. from + 1 \in Int /\ from + n \in Int /\ (from + n) - (from + 1) + 1 = n
  OBVIOUS
<1>2. \A i \in (from + 1)..(from + n) : s[i] \in Byte
  <2>1. ASSUME NEW i \in (from + 1)..(from + n) PROVE s[i] \in Byte
    <3>1. i \in 1..Len(s)
      OBVIOUS
    <3> QED BY <3>1
  <2> QED BY <2>1
<1>3. /\ u \in Seq(Byte)
      /\ Len(u) = IF from + 1 <= from + n THEN (from + n) - (from + 1) + 1 ELSE 0
      /\ \A i \in 1..((from + n) - (from + 1) + 1) : u[i] = s[(from + 1) + i - 1]
  <2> HIDE DEF u
  <2> QED BY <1>1, <1>2, SubSeqProperties DEF u
<1> HIDE DEF u
<1>4. Len(u) = n
  BY <1>1, <1>3
<1>5. ASSUME NEW k \in 1..n PROVE u[k] = s[from + k]
  <2>1. (from + 1) + k - 1 = from + k
    OBVIOUS
  <2> QED BY <1>1, <1>3, <2>1
<1> QED BY <1>3, <1>4, <1>5 DEF SliceOf, u

\* A number is what its bytes say.
LEMMA Reads3 ==
  ASSUME NEW s \in Seq(Byte), Len(s) = 3, NEW n \in Record24,
         \A k \in 1..3 : s[k] = BigEndian(n, 3)[k]
  PROVE  FromBytes(s) = n
<1>1. n \in Nat /\ n < 16777216
  BY SMT DEF Record24
<1>2. FromBytes(s) = 256 * (256 * s[1] + s[2]) + s[3]
  BY FromBytes3, SMT
<1>3. s[1] = (n \div 65536) % 256 /\ s[2] = (n \div 256) % 256 /\ s[3] = n % 256
  <2> DEFINE t == BigEndian(n, 3)
  <2>1. BytesOf3(t, n)
    <3>1. n \in Nat
      BY <1>1, SMT
    <3> QED BY <3>1, BigEndian3, Zenon
  <2> HIDE DEF t
  <2>2. \A k \in 1..3 : s[k] = t[k]
    BY DEF t
  <2>3. s[1] = t[1] /\ s[2] = t[2] /\ s[3] = t[3]
    BY <2>2, SMT
  <2> QED BY <2>1, <2>3, SMT DEF BytesOf3
<1> QED BY <1>1, <1>2, <1>3, Recomposed3, SMT

\* The four bytes of a number stand for it.
LEMMA Reads4 ==
  ASSUME NEW s \in Seq(Byte), Len(s) = 4, NEW n \in Record32,
         \A k \in 1..4 : s[k] = BigEndian(n, 4)[k]
  PROVE  FromBytes(s) = n
<1>1. n \in Nat /\ n < 4294967296
  BY SMT DEF Record32
<1>2. FromBytes(s) = 256 * (256 * (256 * s[1] + s[2]) + s[3]) + s[4]
  BY FromBytes4, SMT
<1>3. /\ s[1] = (n \div 16777216) % 256 /\ s[2] = (n \div 65536) % 256
      /\ s[3] = (n \div 256) % 256 /\ s[4] = n % 256
  <2> DEFINE t == BigEndian(n, 4)
  <2>1. /\ t[1] = (n \div 16777216) % 256 /\ t[2] = (n \div 65536) % 256
        /\ t[3] = (n \div 256) % 256 /\ t[4] = n % 256
    BY <1>1, BigEndian4, SMT
  <2> HIDE DEF t
  <2>2. \A k \in 1..4 : s[k] = t[k]
    BY DEF t
  <2>3. s[1] = t[1] /\ s[2] = t[2] /\ s[3] = t[3] /\ s[4] = t[4]
    BY <2>2, SMT
  <2> QED BY <2>1, <2>3, SMT
<1> QED BY <1>1, <1>2, <1>3, Recomposed4, SMT

\* The first of four digits.
LEMMA TopDigit ==
  ASSUME NEW a \in Nat, NEW b \in Nat, NEW c \in Nat, NEW d \in Nat
  PROVE  256 * (256 * (256 * a + b) + c) + d = 16777216 * a + (256 * (256 * b + c) + d)
BY SMT

\* A nibble and three bytes.
LEMMA Reads28 ==
  ASSUME NEW s \in Seq(Byte), Len(s) = 4, NEW n \in Record28,
         s[1] = n \div Two24, \A k \in 1..3 : s[k + 1] = BigEndian(n % Two24, 3)[k]
  PROVE  FromBytes(s) = n
<1> DEFINE q == n \div Two24
           m == n % Two24
<1>1. m \in Nat /\ m < 16777216 /\ q \in 0..15 /\ n = 16777216 * q + m
  BY Halves28, SMT DEF Two24
<1> HIDE DEF q, m
<1>2. FromBytes(s) = 256 * (256 * (256 * s[1] + s[2]) + s[3]) + s[4]
  BY FromBytes4, SMT
<1>3. s[2] = BigEndian(m, 3)[1] /\ s[3] = BigEndian(m, 3)[2] /\ s[4] = BigEndian(m, 3)[3]
  <2>1. \A k \in 1..3 : s[k + 1] = BigEndian(m, 3)[k]
    BY DEF m
  <2> QED BY <2>1, SMT
<1>4. s[2] = (m \div 65536) % 256 /\ s[3] = (m \div 256) % 256 /\ s[4] = m % 256
  <2> DEFINE t == BigEndian(m, 3)
  <2>1. BytesOf3(t, m)
    <3>1. m \in Nat
      BY <1>1, SMT
    <3> QED BY <3>1, BigEndian3, Zenon
  <2> HIDE DEF t
  <2>2. s[2] = t[1] /\ s[3] = t[2] /\ s[4] = t[3]
    BY <1>3, SMT DEF t
  <2> QED BY <2>1, <2>2, SMT DEF BytesOf3
<1>5. 256 * (256 * s[2] + s[3]) + s[4] = m
  BY <1>1, <1>4, Recomposed3, SMT
<1>6. s[2] \in Nat /\ s[3] \in Nat /\ s[4] \in Nat
  BY <1>1, <1>4, SMT
<1>7. s[1] = q /\ s[1] \in Nat
  BY <1>1, SMT DEF q
<1>8. FromBytes(s) = 16777216 * s[1] + (256 * (256 * s[2] + s[3]) + s[4])
  BY <1>2, <1>6, <1>7, TopDigit, SMT
<1> QED BY <1>1, <1>5, <1>7, <1>8, SMT

\* The left record or the right one.
Side(i, l, r) == IF i = 0 THEN l ELSE r

\* The b bytes of node x of the file are those of the records l and r.
NodeAt(db, x, size, b, l, r) ==
  /\ db.bytes \in Seq(Byte) /\ db.record_size = size /\ b * x + b <= Len(db.bytes)
  /\ \A k \in 1..b : db.bytes[x * b + k] = NodeBytes(size, l, r)[k]

\* _read_node returns the record that the writer stored: of 24 bits.
LEMMA ReadNode24 ==
  ASSUME NEW db, NEW x \in Nat, NEW i \in {0, 1},
         NEW l \in Record24, NEW r \in Record24, NodeAt(db, x, 24, 6, l, r)
  PROVE  _read_node(db, x, i) = Side(i, l, r)
<1>0. /\ db.bytes \in Seq(Byte) /\ db.record_size = 24 /\ 6 * x + 6 <= Len(db.bytes)
      /\ \A k \in 1..6 : db.bytes[x * 6 + k] = NodeBytes(24, l, r)[k]
  BY DEF NodeAt
<1> DEFINE from == x * 6 + 3 * i
           s == Slice(db, from, 3)
<1>1. _read_node(db, x, i) = FromBytes(s)
  <2>1. node_byte_size(db) = 6
    BY <1>0 DEF node_byte_size
  <2> QED BY <1>0, <2>1 DEF _read_node
<1>2. from \in Nat /\ from + 3 <= Len(db.bytes) /\ 3 \in Nat
  <2> DEFINE L == Len(db.bytes)
  <2>1. L \in Nat /\ 6 * x + 6 <= L
    BY <1>0
  <2> HIDE DEF L
  <2>2. from \in Nat /\ from + 3 <= L
    <3>1. CASE i = 0
      <4>1. from = 6 * x
        BY <3>1
      <4> QED BY <2>1, <4>1
    <3>2. CASE i = 1
      <4>1. from = 6 * x + 3
        BY <3>2
      <4> QED BY <2>1, <4>1
    <3> QED BY <3>1, <3>2
  <2> QED BY <2>2 DEF L
<1>3. s \in Seq(Byte) /\ Len(s) = 3 /\ \A k \in 1..3 : s[k] = db.bytes[from + k]
  <2> HIDE DEF from
  <2>1. SliceOf(s, db.bytes, from, 3)
    BY <1>0, <1>2, SliceOfBytes, Zenon DEF Slice
  <2> QED BY <2>1 DEF SliceOf
<1> HIDE DEF s
<1>4. l \in Nat /\ r \in Nat
  BY SMT DEF Record24
<1>5. CASE i = 0
  <2>1. ASSUME NEW k \in 1..3 PROVE s[k] = BigEndian(l, 3)[k]
    <3>1. from + k = x * 6 + k /\ k \in 1..6
      BY <1>5
    <3>2. NodeBytes(24, l, r)[k] = BigEndian(l, 3)[k]
      BY <1>4, NodeBytes24
    <3> QED BY <1>0, <1>3, <3>1, <3>2
  <2>2. FromBytes(s) = l
    BY <1>3, <2>1, Reads3, Zenon
  <2>3. i = 0
    BY <1>5
  <2> QED BY <1>1, <2>2, <2>3 DEF Side
<1>6. CASE i = 1
  <2>1. ASSUME NEW k \in 1..3 PROVE s[k] = BigEndian(r, 3)[k]
    <3>1. from + k = x * 6 + (3 + k) /\ 3 + k \in 1..6
      BY <1>6
    <3>2. NodeBytes(24, l, r)[3 + k] = BigEndian(r, 3)[k]
      BY <1>4, NodeBytes24
    <3> QED BY <1>0, <1>3, <3>1, <3>2
  <2>2. FromBytes(s) = r
    BY <1>3, <2>1, Reads3, Zenon
  <2>3. i # 0
    BY <1>6
  <2> QED BY <1>1, <2>2, <2>3 DEF Side
<1> QED BY <1>5, <1>6

\* The same of 32 bit records.
LEMMA ReadNode32 ==
  ASSUME NEW db, NEW x \in Nat, NEW i \in {0, 1},
         NEW l \in Record32, NEW r \in Record32, NodeAt(db, x, 32, 8, l, r)
  PROVE  _read_node(db, x, i) = Side(i, l, r)
<1>0. /\ db.bytes \in Seq(Byte) /\ db.record_size = 32 /\ 8 * x + 8 <= Len(db.bytes)
      /\ \A k \in 1..8 : db.bytes[x * 8 + k] = NodeBytes(32, l, r)[k]
  BY DEF NodeAt
<1> DEFINE from == x * 8 + 4 * i
           s == Slice(db, from, 4)
<1>1. _read_node(db, x, i) = FromBytes(s)
  <2>1. node_byte_size(db) = 8
    BY <1>0 DEF node_byte_size
  <2> QED BY <1>0, <2>1 DEF _read_node
<1>2. from \in Nat /\ from + 4 <= Len(db.bytes) /\ 4 \in Nat
  <2> DEFINE L == Len(db.bytes)
  <2>1. L \in Nat /\ 8 * x + 8 <= L
    BY <1>0
  <2> HIDE DEF L
  <2>2. from \in Nat /\ from + 4 <= L
    <3>1. CASE i = 0
      <4>1. from = 8 * x
        BY <3>1
      <4> QED BY <2>1, <4>1
    <3>2. CASE i = 1
      <4>1. from = 8 * x + 4
        BY <3>2
      <4> QED BY <2>1, <4>1
    <3> QED BY <3>1, <3>2
  <2> QED BY <2>2 DEF L
<1>3. s \in Seq(Byte) /\ Len(s) = 4 /\ \A k \in 1..4 : s[k] = db.bytes[from + k]
  <2> HIDE DEF from
  <2>1. SliceOf(s, db.bytes, from, 4)
    BY <1>0, <1>2, SliceOfBytes, Zenon DEF Slice
  <2> QED BY <2>1 DEF SliceOf
<1> HIDE DEF s
<1>4. l \in Nat /\ r \in Nat
  BY SMT DEF Record32
<1>5. CASE i = 0
  <2>1. ASSUME NEW k \in 1..4 PROVE s[k] = BigEndian(l, 4)[k]
    <3>1. from + k = x * 8 + k /\ k \in 1..8
      BY <1>5
    <3>2. NodeBytes(32, l, r)[k] = BigEndian(l, 4)[k]
      BY <1>4, NodeBytes32
    <3> QED BY <1>0, <1>3, <3>1, <3>2
  <2>2. FromBytes(s) = l
    BY <1>3, <2>1, Reads4, Zenon
  <2>3. i = 0
    BY <1>5
  <2> QED BY <1>1, <2>2, <2>3 DEF Side
<1>6. CASE i = 1
  <2>1. ASSUME NEW k \in 1..4 PROVE s[k] = BigEndian(r, 4)[k]
    <3>1. from + k = x * 8 + (4 + k) /\ 4 + k \in 1..8
      BY <1>6
    <3>2. NodeBytes(32, l, r)[4 + k] = BigEndian(r, 4)[k]
      BY <1>4, NodeBytes32
    <3> QED BY <1>0, <1>3, <3>1, <3>2
  <2>2. FromBytes(s) = r
    BY <1>3, <2>1, Reads4, Zenon
  <2>3. i # 0
    BY <1>6
  <2> QED BY <1>1, <2>2, <2>3 DEF Side
<1> QED BY <1>5, <1>6

\* The same of 28 bit records: the nibble of the left record is the high one of the
\* byte in the middle, the nibble of the right record the low one.
LEMMA ReadNode28 ==
  ASSUME NEW db, NEW x \in Nat, NEW i \in {0, 1},
         NEW l \in Record28, NEW r \in Record28, NodeAt(db, x, 28, 7, l, r)
  PROVE  _read_node(db, x, i) = Side(i, l, r)
<1>0. /\ db.bytes \in Seq(Byte) /\ db.record_size = 28 /\ 7 * x + 7 <= Len(db.bytes)
      /\ \A k \in 1..7 : db.bytes[x * 7 + k] = NodeBytes(28, l, r)[k]
  BY DEF NodeAt
<1> DEFINE from == x * 7 + 3 * i
           raw == Slice(db, from, 4)
<1>1. _read_node(db, x, i) = FromBytes(IF i = 1 THEN <<raw[1] % 16>> \o Tail(raw)
                                       ELSE <<raw[4] \div 16>> \o SubSeq(raw, 1, 3))
  <2>1. node_byte_size(db) = 7
    BY <1>0 DEF node_byte_size
  <2> QED BY <1>0, <2>1 DEF _read_node
<1>2. from \in Nat /\ from + 4 <= Len(db.bytes) /\ 4 \in Nat
  <2> DEFINE L == Len(db.bytes)
  <2>1. L \in Nat /\ 7 * x + 7 <= L
    BY <1>0
  <2> HIDE DEF L
  <2>2. from \in Nat /\ from + 4 <= L
    <3>1. CASE i = 0
      <4>1. from = 7 * x
        BY <3>1
      <4> QED BY <2>1, <4>1
    <3>2. CASE i = 1
      <4>1. from = 7 * x + 3
        BY <3>2
      <4> QED BY <2>1, <4>1
    <3> QED BY <3>1, <3>2
  <2> QED BY <2>2 DEF L
<1>3. raw \in Seq(Byte) /\ Len(raw) = 4 /\ \A k \in 1..4 : raw[k] = db.bytes[from + k]
  <2> HIDE DEF from
  <2>1. SliceOf(raw, db.bytes, from, 4)
    BY <1>0, <1>2, SliceOfBytes, Zenon DEF Slice
  <2> QED BY <2>1 DEF SliceOf
<1> HIDE DEF raw
<1>4. \A k \in 1..4 : raw[k] \in Byte
  BY <1>3, BytesAreNumbers, Zenon
<1>5. CASE i = 0
  <2> DEFINE b == raw[4] \div 16
             t == SubSeq(raw, 1, 3)
             s == <<b>> \o t
  <2>1. from = x * 7
    BY <1>5
  <2>2. ASSUME NEW k \in 1..4 PROVE raw[k] = NodeBytes(28, l, r)[k]
    <3>1. k \in 1..7
      OBVIOUS
    <3> QED BY <1>0, <1>3, <2>1, <3>1
  <2>3. b = l \div Two24 /\ \A k \in 1..3 : raw[k] = BigEndian(l % Two24, 3)[k]
    BY <2>2, NodeBytes28
  <2>4. b \in Byte
    <3>1. l \div Two24 \in 0..15
      BY Halves28
    <3> QED BY <2>3, <3>1, SMT DEF Byte
  <2>5. t \in Seq(Byte) /\ Len(t) = 3 /\ \A k \in 1..3 : t[k] = raw[k]
    <3>1. /\ t \in Seq(Byte) /\ Len(t) = IF 1 <= 3 THEN 3 - 1 + 1 ELSE 0
          /\ \A k \in 1..(3 - 1 + 1) : t[k] = raw[1 + k - 1]
      <4>1. 1 \in Int /\ 3 \in Int /\ \A k \in 1..3 : raw[k] \in Byte
        BY <1>4
      <4> HIDE DEF t
      <4> QED BY <4>1, SubSeqProperties DEF t
    <3>2. \A k \in 1..3 : k \in 1..(3 - 1 + 1) /\ 1 + k - 1 = k
      OBVIOUS
    <3> HIDE DEF t
    <3> QED BY <3>1, <3>2
  <2>6. <<b>> \in Seq(Byte) /\ Len(<<b>>) = 1 /\ <<b>>[1] = b
    <3> HIDE DEF b
    <3> QED BY <2>4
  <2> HIDE DEF b, t
  <2>7. Joined(s, <<b>>, t)
    BY <2>5, <2>6, Concatenation, Zenon
  <2> HIDE DEF s
  <2>8. s \in Seq(Byte) /\ Len(s) = 4 /\ s[1] = b /\ \A k \in 1..3 : s[k + 1] = t[k]
    BY <2>5, <2>6, <2>7, SMT DEF Joined
  <2>9. \A k \in 1..3 : s[k + 1] = BigEndian(l % Two24, 3)[k]
    BY <2>3, <2>5, <2>8
  <2>10. FromBytes(s) = l
    <3>1. s[1] = l \div Two24
      BY <2>3, <2>8
    <3> QED BY <2>8, <2>9, <3>1, Reads28, Zenon
  <2>11. _read_node(db, x, i) = FromBytes(s)
    BY <1>1, <1>5 DEF s, b, t
  <2> QED BY <1>5, <2>10, <2>11 DEF Side
<1>6. CASE i = 1
  <2> DEFINE b == raw[1] % 16
             t == Tail(raw)
             s == <<b>> \o t
  <2>1. from = x * 7 + 3
    BY <1>6
  <2>2. ASSUME NEW k \in 1..4 PROVE raw[k] = NodeBytes(28, l, r)[3 + k]
    <3>1. from + k = x * 7 + (3 + k) /\ 3 + k \in 1..7
      BY <2>1
    <3> QED BY <1>0, <1>3, <3>1
  <2>3. b = r \div Two24 /\ \A k \in 1..3 : raw[k + 1] = BigEndian(r % Two24, 3)[k]
    <3>1. b = r \div Two24
      <4>1. raw[1] = NodeBytes(28, l, r)[4]
        BY <2>2
      <4> QED BY <4>1, NodeBytes28
    <3>2. ASSUME NEW k \in 1..3 PROVE raw[k + 1] = BigEndian(r % Two24, 3)[k]
      <4>1. k + 1 \in 1..4 /\ 3 + (k + 1) = 4 + k
        OBVIOUS
      <4> QED BY <2>2, <4>1, NodeBytes28
    <3> QED BY <3>1, <3>2
  <2>4. b \in Byte
    <3>1. r \div Two24 \in 0..15
      BY Halves28
    <3> QED BY <2>3, <3>1, SMT DEF Byte
  <2>5. t \in Seq(Byte) /\ Len(t) = 3 /\ \A k \in 1..3 : t[k] = raw[k + 1]
    <3>1. raw # <<>>
      <4>1. SUFFICES ASSUME raw = <<>> PROVE FALSE
        OBVIOUS
      <4>2. Len(raw) = 0
        BY <4>1
      <4> QED BY <1>3, <4>2, SMT
    <3>2. t \in Seq(Byte) /\ Len(t) = Len(raw) - 1 /\ \A k \in 1..Len(t) : t[k] = raw[k + 1]
      BY <1>3, <3>1, HeadTailProperties
    <3> HIDE DEF t
    <3> QED BY <1>3, <3>2
  <2>6. <<b>> \in Seq(Byte) /\ Len(<<b>>) = 1 /\ <<b>>[1] = b
    <3> HIDE DEF b
    <3> QED BY <2>4
  <2> HIDE DEF b, t
  <2>7. Joined(s, <<b>>, t)
    BY <2>5, <2>6, Concatenation, Zenon
  <2> HIDE DEF s
  <2>8. s \in Seq(Byte) /\ Len(s) = 4 /\ s[1] = b /\ \A k \in 1..3 : s[k + 1] = t[k]
    BY <2>5, <2>6, <2>7, SMT DEF Joined
  <2>9. \A k \in 1..3 : s[k + 1] = BigEndian(r % Two24, 3)[k]
    BY <2>3, <2>5, <2>8
  <2>10. FromBytes(s) = r
    <3>1. s[1] = r \div Two24
      BY <2>3, <2>8
    <3> QED BY <2>8, <2>9, <3>1, Reads28, Zenon
  <2>11. _read_node(db, x, i) = FromBytes(s)
    BY <1>1, <1>6 DEF s, b, t
  <2> QED BY <1>6, <2>10, <2>11 DEF Side
<1> QED BY <1>5, <1>6

\* A database file whose tree fits its record size holds that tree.
THEOREM DatabaseReadsNodes ==
  ASSUME NEW size \in {24, 28, 32}, NEW tree \in TreesOf(size), NEW ipVersion, NEW dataSize
  PROVE  ReadsNodes(Database(tree, ipVersion, size, dataSize))
<1> DEFINE db == Database(tree, ipVersion, size, dataSize)
           b == size \div 4
<1>1. /\ db.node_count = Len(tree) /\ Len(tree) \in Nat
      /\ db.record_size = size /\ db.tree = tree
  BY DEF Database, TreesOf
<1>2. /\ db.bytes \in Seq(Byte) /\ Len(db.bytes) = Len(tree) * b
      /\ \A x \in 0..(Len(tree) - 1), k \in 1..b :
           db.bytes[x * b + k] = NodeBytes(size, tree[x + 1][1], tree[x + 1][2])[k]
  <2>1. NodesInPlace(db.bytes, tree, size)
    BY DatabaseBytes, Zenon
  <2> QED BY <2>1 DEF NodesInPlace
<1>3. b = (IF size = 24 THEN 6 ELSE IF size = 28 THEN 7 ELSE 8) /\ b \in {6, 7, 8}
  OBVIOUS
<1> HIDE DEF db, b
<1>4. ASSUME NEW x \in 0..(db.node_count - 1), NEW i \in {0, 1}
      PROVE  _read_node(db, x, i) = db.tree[x + 1][i + 1] /\ db.tree[x + 1][i + 1] \in Nat
  <2> DEFINE l == tree[x + 1][1]
             r == tree[x + 1][2]
  <2>1. x \in Nat /\ x \in 0..(Len(tree) - 1) /\ x + 1 \in 1..Len(tree)
    BY <1>1
  <2>2. l \in Records(size) /\ r \in Records(size)
    BY <2>1 DEF TreesOf
  <2>3. l \in Nat /\ r \in Nat
    BY <2>2, RecordsAreNat
  <2>4. b * x + b <= Len(db.bytes)
    <3>1. CASE b = 6
      BY <1>1, <1>2, <2>1, <3>1
    <3>2. CASE b = 7
      BY <1>1, <1>2, <2>1, <3>2
    <3>3. CASE b = 8
      BY <1>1, <1>2, <2>1, <3>3
    <3> QED BY <1>3, <3>1, <3>2, <3>3
  <2>5. \A k \in 1..b : db.bytes[x * b + k] = NodeBytes(size, l, r)[k]
    BY <1>2, <2>1
  <2> HIDE DEF l, r, Side
  <2>6. NodeAt(db, x, size, b, l, r)
    BY <1>1, <1>2, <2>4, <2>5 DEF NodeAt
  <2>7. _read_node(db, x, i) = Side(i, l, r)
    <3>1. CASE size = 24
      <4>1. b = 6 /\ l \in Record24 /\ r \in Record24
        BY <1>3, <2>2, <3>1, RecordsBySize
      <4>2. NodeAt(db, x, 24, 6, l, r)
        BY <2>6, <3>1, <4>1
      <4> QED BY <2>1, <4>1, <4>2, ReadNode24, Zenon
    <3>2. CASE size = 28
      <4>1. b = 7 /\ l \in Record28 /\ r \in Record28
        BY <1>3, <2>2, <3>2, RecordsBySize
      <4>2. NodeAt(db, x, 28, 7, l, r)
        BY <2>6, <3>2, <4>1
      <4> QED BY <2>1, <4>1, <4>2, ReadNode28, Zenon
    <3>3. CASE size = 32
      <4>1. b = 8 /\ l \in Record32 /\ r \in Record32
        BY <1>3, <2>2, <3>3, RecordsBySize
      <4>2. NodeAt(db, x, 32, 8, l, r)
        BY <2>6, <3>3, <4>1
      <4> QED BY <2>1, <4>1, <4>2, ReadNode32, Zenon
    <3> QED BY <3>1, <3>2, <3>3
  <2>8. CASE i = 0
    BY <1>1, <2>3, <2>7, <2>8 DEF l, r, Side
  <2>9. CASE i = 1
    BY <1>1, <2>3, <2>7, <2>9 DEF l, r, Side
  <2> QED BY <2>8, <2>9
<1>5. ReadsNodes(db)
  BY <1>1, <1>4 DEF ReadsNodes
<1> QED BY <1>5 DEF db

=============================================================================
