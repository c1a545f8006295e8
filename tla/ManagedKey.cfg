SPECIFICATION Spec
CONSTANTS
  Calls = {c1, c2}
  None = None
  RefreshBefore = 1
  MinRefresh = 2
  Fallback = 10
  MinGracePoll = 1
  Heartbeat = 2
  StaleAfter = 2
  Latency = 1
  Period = 6
  Grace = 7
  Scheduled = TRUE
  Subscribed = TRUE
  MayRevoke = TRUE
  MaxManual = 1
  MaxLost = 1
  MaxDrops = 1
  MaxTime = 13
SYMMETRY Symmetry
CONSTRAINT Apart
INVARIANTS KeyStaysValid RenewalNeverStops LinkUsesKey
CHECK_DEADLOCK FALSE
