SPECIFICATION Spec
CONSTANTS
  Worlds <- NativeWorlds
  MaxVersion = 3
  MaxEvents = 5
  MaxFaults = 1
  Edits = {"forth", "back", "environment"}
  Jobs = 2
INVARIANTS
  BuildsGoWell
  ReadsSettled
  NamedIsFresh
  TestedAsBuilt
CHECK_DEADLOCK FALSE
