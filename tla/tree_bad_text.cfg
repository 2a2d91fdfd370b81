SPECIFICATION Spec
CONSTANTS
  Gap = 2
  V4Bits = 1
  NodeCount = 3
  CyclicCount = 0
  MaxDepth = 4
  RecordSizes = {28}
  Trees <- MCForwardTrees
  DataSize <- MCDataSize
INVARIANT BadTextIsValueError
\* An iteration ends.
CHECK_DEADLOCK FALSE
