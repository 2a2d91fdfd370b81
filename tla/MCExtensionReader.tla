------------------------- MODULE MCExtensionReader -------------------------
(***************************************************************************)
(* Instances of ExtensionReader for TLC.  The tree has every record type:  *)
(*                                                                         *)
(*            root                                                         *)
(*           /    \                                                        *)
(*        data     node                                                    *)
(*                /    \                                                   *)
(*            alias     node2                                              *)
(*                     /     \                                             *)
(*                 empty      invalid                                      *)
(***************************************************************************)
EXTENDS ExtensionReader, TLC

MCRecords == {"root", "data", "node", "alias", "node2", "empty", "invalid"}

MCKind == [r \in MCRecords |-> CASE r \in {"root", "node", "node2"} -> "node" [] OTHER -> r]

MCChildren ==
  [r \in {"root", "node", "node2"} |->
     CASE r = "root"  -> <<"data", "node">>
       [] r = "node"  -> <<"alias", "node2">>
       [] r = "node2" -> <<"empty", "invalid">>]

\* A smaller tree for the liveness runs: the loop of ReaderIter_next still goes
\* round, yields and ends in every way.
SmallRecords == {"root", "data", "empty"}

SmallKind == [r \in SmallRecords |-> IF r = "root" THEN "node" ELSE r]

SmallChildren == [r \in {"root"} |-> <<"data", "empty">>]

\* Both are trees, which is what the theorems about records suppose.
Below[r \in Records] ==
  {r} \cup IF Kind[r] = "node" THEN Below[Children[r][1]] \cup Below[Children[r][2]] ELSE {}

ASSUME RecordsFormTree == IsTree(Below)

\* Threads are interchangeable.
ThreadSymmetry == Permutations(Threads)

=============================================================================
