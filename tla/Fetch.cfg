SPECIFICATION Spec
CONSTANTS
  Procs = {"p1", "p2"}
  Worlds <- MCWorlds
  Urls <- MCUrls
  Names <- MCNames
  Lower <- MCLower
  Tags <- MCTags
  Shas <- MCShas
  Branch = "main"
  NoRef = "noref"
  None = "none"
  Always = "always"
  MaxDecls = 2
  MaxTip = 2
  MaxRounds = 3
  MaxRuns = 2
  MaxFaults = 1
CHECK_DEADLOCK FALSE
PROPERTIES
  WholeOrAbsent
  KeepsOthers
  OwnClonesAsDeclared
  StatusAgrees
