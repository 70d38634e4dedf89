SPECIFICATION Spec
CONSTANTS
  f1 = f1
  k1 = k1
  k2 = k2
  Fact = {f1}
  Key = {k1, k2}
  None = None
  PollGap = 1
  SyncInterval = 2
  StaleAfter = 4
  OverrideLife = 4
  MaxDelay = 1
  SightDelay = 0
  ActionDelay = 0
  MaxChanges = 2
  MaxActions = 2
  MaxRestarts = 1
INVARIANTS TrustedDataIsRecent LiveRelayIsHeard CalmShowsTruth
SYMMETRY KeySymmetry
