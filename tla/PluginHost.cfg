SPECIFICATION PluginsSpec
CONSTANTS
  first = first
  second = second
  d1 = d1
  d2 = d2
  Plugins = {first, second}
  Order <- MCOrder
  Dispatches = {d1, d2}
  MaxEvents = 2
INVARIANTS StartedIsStopped EventsReachStarted
PROPERTY HostProgresses
CHECK_DEADLOCK FALSE
