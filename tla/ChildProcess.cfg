SPECIFICATION FairSpec
CONSTANTS
  Pids = {p1, p2, p3}
  NoPid = NoPid
  Tasks = {t1, t2}
  MaxRestarts = 1
  CountCap = 2
  MaxRequests = 1
  RestartOnChange = TRUE
  FileMode = FALSE
  SecretsMayFail = TRUE
  SpawnMayFail = TRUE
INVARIANT RateLimited
PROPERTIES NoNewStartAfterStop CrashRecovers
