SPECIFICATION Spec
CONSTANTS
  q1 = q1
  q2 = q2
  Queue = {q1, q2}
  Threshold <- MCThreshold
  Repeat <- MCRepeat
  Counts <- MCCounts
  PollInterval = 1
  StaleAfter = 1
  MaxLatency = 1
  MaxTime = 4
INVARIANTS PagesPaced
PROPERTIES PagingPromise
CHECK_DEADLOCK FALSE
