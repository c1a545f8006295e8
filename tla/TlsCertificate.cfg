SPECIFICATION TlsSpec
CONSTANTS
  MaxCert = 6
  MaxFaults = 4
INVARIANT InstalledFirst
PROPERTIES DueIsRenewed PairInstalled ServedIsInstalled
CHECK_DEADLOCK FALSE
