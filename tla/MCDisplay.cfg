SPECIFICATION Spec
CONSTANTS
  Readouts <- MCReadouts
  Params <- MCParams
INVARIANTS
  NoWarningMissed
  NoFalseWarning
PROPERTIES
  ReadoutHonest
  AfrBarOneSided
CHECK_DEADLOCK FALSE
