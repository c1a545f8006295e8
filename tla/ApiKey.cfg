SPECIFICATION Spec
CONSTANTS
  None = None
  Life = 2
  Threshold = 1
  MaxRetries = 2
  MaxKey = 2
  MaxSession = 1
  MaxFaults = 2
  MaxStops = 1
  MaxRevokes = 1
INVARIANTS KeyWithinReach ExpiresOnlyByFaults
CHECK_DEADLOCK FALSE
