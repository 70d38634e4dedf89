SPECIFICATION HistorySpec
CONSTANTS
  busy = busy
  idle = idle
  Queue = {busy, idle}
  Threshold <- MCThreshold
  Repeat <- MCRepeat
  Counts <- MCCounts
  PollInterval = 1
  StaleAfter = 2
  MaxLatency = 1
  MaxTime = 4
INVARIANTS StoppedMonitorBound
PROPERTIES PageAfterFullWait
CHECK_DEADLOCK FALSE
