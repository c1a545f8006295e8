SPECIFICATION DynamicSpec
CONSTANTS
  l1 = l1
  l2 = l2
  Leases = {l1, l2}
  Requests <- MCRequests
  MaxConfig = 2
  Catalogs <- MCCatalogs
  MaxFailures = 1
INVARIANTS CredentialsAccountedFor AckedIsStored
PROPERTY RevokedConfigGoes
CHECK_DEADLOCK FALSE
