SPECIFICATION Spec
CONSTANTS
  Worlds <- StaleWorlds
  MaxVersion = 3
  MaxEvents = 3
  MaxFaults = 1
  Edits = {"forth"}
  Jobs = 2
INVARIANTS
  FromTree
CHECK_DEADLOCK FALSE
