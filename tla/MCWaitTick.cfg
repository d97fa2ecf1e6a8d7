SPECIFICATION Spec
CONSTANTS
  MRange = 8
  Range = 5
  M = 4
  TickM = 2
  MaxTicks = 3
  MaxPoll = 2
  MaxWaited = 14
INVARIANTS
  ClocksAccounted
  OverflowHonest
  WaitNotTooLong
PROPERTIES
  WaitsLongEnough
  FrameNotEarly
