SPECIFICATION FairSpec
CONSTANTS
  Slots = 3
  a = a
  b = b
  None = None
  Data <- MCData
  MaxWritten = 4
  MaxArrived = 2
INVARIANTS
  TxLossless
  RxLossless
  HeadStays
PROPERTIES
  FlushMeansSent
  FlushReturns
