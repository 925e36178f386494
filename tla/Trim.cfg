SPECIFICATION FairSpec
CONSTANTS
  t1 = t1
  t2 = t2
  b1 = b1
  Trims = {t1, t2}
  Builds = {b1}
  Units <- MCUnits
  Order <- MCOrder
  Worlds <- MCWorlds
CHECK_DEADLOCK FALSE
INVARIANTS
  NewestKept
PROPERTIES
  ProtectedNeverRemoved
  LockedIsSpared
  EveryoneEnds
