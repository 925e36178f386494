SPECIFICATION CellsSpec
CONSTANTS
  DefaultOrder <- MCOrder
  Registered = {"CXX", "append-CXXFLAGS", "tests", "auto-exclude", "disable-tests", "append-pkg-config", "append-PKG_CONFIG_PATH", "prepend-PKG_CONFIG_PATH"}
  Invocations <- MCInvocations
  Buckets = {"aa", "bb"}
  Hashed <- MCHashed
  Outputs <- MCOutputs
INVARIANTS
  TogetherAsApart
  RemediesWork
  Converges

  
