SPECIFICATION FairSpec
CONSTANTS
  Sockets = {s1, s2, s3, s4, s5}
  None = None
  Subscribed = TRUE
  MaxFaults = 4
  MaxKeyChanges = 3
INVARIANTS NotStranded OneConnection HeartbeatWatches
PROPERTY Reconnects
CHECK_DEADLOCK FALSE
