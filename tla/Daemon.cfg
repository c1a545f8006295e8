SPECIFICATION Spec
CONSTANTS
  MaxSecret = 3
  MaxConfig = 2
  MaxKey = 3
  MaxEvents = 2
  MaxFaults = 1
INVARIANTS KeyInUse LagIsExplained
PROPERTIES FileConverges ReloadCatchesUp
CHECK_DEADLOCK FALSE
