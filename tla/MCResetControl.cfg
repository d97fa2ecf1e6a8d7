SPECIFICATION RcFairSpec
CONSTANTS
  Half = 128
  Counts <- MCCounts
  ResetDelay = 40
INVARIANTS
  OneReset
PROPERTIES
  ResetTakesHold
  ResetEnds
