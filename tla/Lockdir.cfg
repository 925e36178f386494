SPECIFICATION LocksSpec
CONSTANTS
  p1 = p1
  p2 = p2
  p3 = p3
  cl = cl
  None = None
  Procs = {p1, p2, p3}
  Cleaners = {cl}
  Worlds <- Ordinary
CHECK_DEADLOCK FALSE
INVARIANTS
  MutualExclusion
  NoFalseAlarm
PROPERTIES
  OnlyTheDeadAreRobbed
  EveryoneServed
