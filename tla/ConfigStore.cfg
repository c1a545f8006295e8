SPECIFICATION FairSpec
CONSTANTS
  Certs = {c1}
  Secrets = {s1}
  None = None
  Torn = Torn
  MaxKey = 1
  MaxCommands = 1
  MaxTrouble = 2
INVARIANT NoKeyLost
PROPERTIES KeyFileMovesForward KeyFileRepaired UpdatesAreAtomic
CHECK_DEADLOCK FALSE
