CONSTANTS
  HasInclude = {"h"}
  MaxPasses = 10
  Longest = 4
  Readers = 2
  Texts <- MCTexts
  States <- MCStates
SPECIFICATION Spec
INVARIANTS ActiveAsInC ReuseIsRerun
