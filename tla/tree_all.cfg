SPECIFICATION Spec
CONSTANTS
  Gap = 2
  V4Bits = 1
  NodeCount = 3
  CyclicCount = 2
  MaxDepth = 5
  RecordSizes = {24, 28, 32}
  Trees <- MCTrees
  DataSize <- MCDataSize
INVARIANT TypeOK
INVARIANT IterationExact
INVARIANT YieldsMatchLookups
INVARIANT RaisesOnlyAt
INVARIANT ReadersAgree
INVARIANT V4StartIsShortcut
INVARIANT PrefixLenCovers
\* An iteration ends.
CHECK_DEADLOCK FALSE
