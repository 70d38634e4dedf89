SPECIFICATION WaitingSpec
CONSTANTS
  q1 = q1
  Queue = {q1}
  Threshold <- MCThreshold
  Repeat <- MCRepeat
  Counts <- MCCounts
  PollInterval = 2
  StaleAfter = 2
  MaxLatency = 2
  MaxTime = 14
INVARIANTS WaitingQueueIsPaged
CHECK_DEADLOCK FALSE
