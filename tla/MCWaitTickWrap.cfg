SPECIFICATION FairSpec
CONSTANTS
  MRange = 8
  Range = 5
  M = 4
  TickM = 2
  MaxTicks = 3
  MaxPoll = 2
  MaxWaited = 14
PROPERTY
  WaitReturns
