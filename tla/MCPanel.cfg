SPECIFICATION FairSpec
CONSTANTS
  LEDS_N = 3
  LEDS_M = 2
  SSEG_N = 3
  PeriodRange = 4
  LedPeriod = 1
  Conversions <- MCConversions
  Passes = 2
  MaxIdle = 3
INVARIANTS
  TurnShowsPass
  Converted
  DigitsExact
PROPERTIES
  TurnsTaken
