SPECIFICATION Spec
CONSTANTS
  HasInclude = {}
  MaxPasses = 10
  Trees <- MCTrees
  Edits <- MCEdits
  Builds = 2
INVARIANTS AsAlone Settled HuntClosed ConditionsTold NameTells
