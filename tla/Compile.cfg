SPECIFICATION SidecarFairSpec
CONSTANTS
  None = None
  Procs = {p1, p2, p3}
  Readers = {r1}
  Chunks = {c1}
  Exclusive = FALSE
  Natives = {p1, p2}
  Rechecks = {p3}
  Reaping = TRUE
CHECK_DEADLOCK FALSE
INVARIANTS
  OneHolder
  TornOnlyByTwoNatives
PROPERTIES
  EveryProcEnds
