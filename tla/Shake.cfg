SPECIFICATION FairSpec
CONSTANTS
  exe = exe
  bin = bin
  test = test
  report = report
  all = all
  Artifacts = {exe}
  Publishes = {bin}
  Tests = {test, report}
  Phonies = {all}
  Deps <- TheDeps
  Root = all
  Versions = {1, 2}
  Bad = {2}
  Symlinked = {bin}
  Xml = {report}
  Slots = 1
  MaxBuilds = 4
  None = None
INVARIANTS StaleOnlyIfMisled AllTested NoOpRebuild
PROPERTIES BuildEnds
