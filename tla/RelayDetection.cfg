SPECIFICATION FiguresSpec
CONSTANTS
  k1 = k1
  k2 = k2
  m1 = m1
  QueuedCall = {k1, k2}
  DayLength = 4
  Gap = 2
  Lag = 1
  MaxTime = 5
  Wait = {0, 1, 2}
  Window = 2
  DaySpan = 2
  MaxClock = 3
  Member = {m1}
  NoList = NoList
  MaxAnswered = 1
  MaxEra = 1
  MaxPushed = 2
  MaxWaiting = 2
  c1 = c1
  c2 = c2
  n1 = n1
  n2 = n2
  x1 = x1
  x2 = x2
  o1 = o1
  o2 = o2
  ActiveCall = {c1, c2}
  QueueNumber = {n1, n2}
  AgentExt = {x1, x2}
  Outside = {o1, o2}
  Resembles <- ResemblesOne
  NoCall = NoCall
  NoQueue = NoQueue
INVARIANTS RelayDetectsAsWallboard
SYMMETRY FiguresSymmetry
CHECK_DEADLOCK FALSE
