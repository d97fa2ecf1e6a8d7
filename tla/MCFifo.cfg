SPECIFICATION CarefulSpec
CONSTANTS
  Slots = 4
  a = a
  b = b
  Data <- MCData
INVARIANTS
  TypeOK
  NoFalseAlarm
PROPERTY
  ImplementsQueue
