SPECIFICATION FairSpec
CONSTANTS
  AtCommands <- MCAtCommands
  BA_MODULO_N = 2
  Loads = {"off", "on"}
  MaxOwed = 4
INVARIANTS
  RequestOfState
  BurstBounded
PROPERTIES
  InStep
  EndsForACause
  InitEnds
CHECK_DEADLOCK FALSE
