SPECIFICATION FairSpec
CONSTANTS
  x = x
  Eol = Eol
  Nul = Nul
  Chars <- MCChars
  FifoRoom = 2
  BufSize = 3
  StrSize = 3
  MaxArrived = 5
INVARIANTS
  NothingLost
  OneLine
  NoLineKept
  ResultHonest
PROPERTY
  CallReturns
