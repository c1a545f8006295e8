SPECIFICATION Spec
CONSTANTS
  a1 = a1
  a2 = a2
  c1 = c1
  c2 = c2
  Agents = {a1, a2}
  Nobody = Nobody
  Checks = {c1, c2}
  Castings <- MCCastings
  MaxVersion = 3
  Rollback = TRUE
  Hosts <- MCHosts
  Faulty = {2}
  MaxFaults = 1
INVARIANTS  RestartsIntoWorking
PROPERTY LatestArrives
CHECK_DEADLOCK FALSE
