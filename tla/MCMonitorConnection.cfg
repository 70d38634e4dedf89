SPECIFICATION FairSpec
CONSTANTS
  s1 = s1
  s2 = s2
  SocketId = {s1, s2}
  NoSocket = NoSocket
  CleanupDelay = 1
  QuickDelay = 1
  NoDataDelay = 2
  RetryDelay = 3
  ErrorDelay = 4
  StaleDelay = 5
  RequestTimeout = 3
  MaxCloseFrames = 1
INVARIANTS NeverAbandoned SilenceNoticed LostSocketsFromCloseFrames
PROPERTIES KeepsTrying
