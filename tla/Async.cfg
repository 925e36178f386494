SPECIFICATION FairSpec
CONSTANTS
  Tasks = {t1, t2}
  Workers = 1
  NonBlocking = {t1}
  MaxCancels = 2
CHECK_DEADLOCK FALSE
INVARIANTS
  NoLockLeaked
  ReapedUnlessCancelledAgain
PROPERTIES
  LoopEnds
