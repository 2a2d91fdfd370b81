--------------------------- MODULE MCTreeIteration ---------------------------
(***************************************************************************)
(* TreeIteration on every search tree of NodeCount nodes whose records     *)
(* point to later nodes (to any node, where Cyclic), to nothing, or to one *)
(* of two data pointers.                                                   *)
(***************************************************************************)
EXTENDS TreeIteration

CONSTANTS NodeCount, CyclicCount

\* Data pointers are a tree's size + 16 + an offset.  With 28 and 32 bits one of
\* them needs more than 24 bits; with 24 bits one points past the end of the
\* file.
Offsets(size) == IF size = 24 THEN {16000000, 16700000} ELSE {0, 150000000}

MCDataSize == [size \in RecordSizes |-> IF size = 24 THEN 16500000 ELSE 200000000]

\* The trees of so many nodes; the records of node n (from 1) point to nodes
\* from first[n] on.
TreesFrom(count, first, size) ==
  LET Pointers(n) ==
        (first[n]..count) \cup {count + _DATA_SECTION_SEPARATOR_SIZE + o : o \in Offsets(size)}
      upTo[k \in 0..count] ==
        IF k = 0 THEN {<<>>}
        ELSE {Append(tree, pair) : tree \in upTo[k - 1], pair \in Pointers(k) \X Pointers(k)}
  IN  upTo[count]

MCForwardTrees == [size \in RecordSizes |-> TreesFrom(NodeCount, [n \in 1..NodeCount |-> n], size)]

MCTrees ==
  [size \in RecordSizes |->
     MCForwardTrees[size] \cup TreesFrom(CyclicCount, [n \in 1..CyclicCount |-> 0], size)]

\* Those whose IPv4 part is a tree: the second record of the path to ::/96 is a
\* node (Gap = 2).
MCTreesWithIPv4 ==
  [size \in RecordSizes |->
     {tree \in MCForwardTrees[size] :
        tree[1][1] < NodeCount /\ tree[tree[1][1] + 1][1] < NodeCount}]

\* What the theorem on types assumes of the trees holds of those without cycles.
ASSUME MCTreesAreShallow == \A size \in RecordSizes : \A tree \in MCForwardTrees[size] : Shallow(tree)

=============================================================================
