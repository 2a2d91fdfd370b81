SPECIFICATION Spec
CONSTANTS
  Threads = {t1, t2}
  NoThread = NoThread
  NoRecord = NoRecord
  UseGil = TRUE
  GcInAlloc = TRUE
  Reentrant = FALSE
  StopsTheWorld = FALSE
  DetectDeadlock = FALSE
  ShareIterators = FALSE
  Records <- MCRecords
  Root = "root"
  Kind <- MCKind
  Children <- MCChildren
  MaxCalls = 4
SYMMETRY ThreadSymmetry
INVARIANT NoUseAfterUnmap
