SPECIFICATION PidFairSpec
CONSTANTS
  Responses <- AnyResponses
  PID_STORAGE_SIZE = 2
  MaxBytes = 5
INVARIANT
  RoomForPids
PROPERTY
  ParseEnds
CHECK_DEADLOCK FALSE
