SPECIFICATION FairSpec
CONSTANTS
  cert = cert
  key = key
  chain = chain
  None = None
  Tasks = {t1, t2}
  Outputs <- ThreeOutputs
  Optional = {chain}
  Existing = {cert, key, chain}
  MaxVersion = 2
  MaxFailures = 1
  MaxCrashes = 1
INVARIANTS OneVersion FingerprintIsBacked
PROPERTIES RollbackRestores Converges
CHECK_DEADLOCK FALSE
