SPECIFICATION FairSpec
CONSTANTS
  c1 = c1
  c2 = c2
  k1 = k1
  k2 = k2
  m1 = m1
  m2 = m2
  Client = {c1, c2}
  Credentials = {k1, k2}
  Interval = {5, 10}
  DefaultInterval = 10
  GracePeriod = 2
  MonitorId = {m1, m2}
  None = None
INVARIANTS ServedWhileWatched StoppedIsQuiet OneMonitor FirstRunHasMonitor
PROPERTIES ClientIsServed UnwatchedStops
