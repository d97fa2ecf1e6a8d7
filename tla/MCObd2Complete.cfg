SPECIFICATION Spec
CONSTANTS
  AtCommands <- MCAtCommands
  BA_MODULO_N = 2
  Loads = {"off", "on"}
  MaxOwed = 2
PROPERTY
  CompleteResponse
CHECK_DEADLOCK FALSE
