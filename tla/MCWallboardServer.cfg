SPECIFICATION WallboardSpec
CONSTANTS
  b1 = b1
  b2 = b2
  e1 = e1
  q1 = q1
  q2 = q2
  q3 = q3
  g1 = g1
  g2 = g2
  r1 = r1
  m1 = m1
  a1 = a1
  a2 = a2
  x1 = x1
  x2 = x2
  Browser = {b1, b2}
  Extension = {e1}
  AdminExtension = {}
  PbxQueue = {q1, q2, q3}
  None = None
  Request = {r1}
  Command = {m1}
  Uncached = Uncached
  MaxEra = 2
  Agent = {x1, x2}
  Action = {a1, a2}
  ShownQueue = {g1, g2}
  Debounce = 2
  MaxBackoff = 2
  MaxAge = 1
  k1 = k1
  k2 = k2
  k3 = k3
  i1 = i1
  u1 = u1
  u2 = u2
  v1 = v1
  v2 = v2
  t0 = t0
  t1 = t1
  Setting = {u1, u2}
  PbxSetting = {u1}
  Setpoint = {v1, v2}
  NotFetched = NotFetched
  NothingSent = NothingSent
  MaxEdits = 2
  Scope = {t0, t1}
  Global = t0
  Limit = {v1, v2}
  Blank = Blank
  NoValues = NoValues
  MaxSteps = 2
  Column = {k1, k2, k3}
  FixedColumn = {k1}
  NewColumn = {k3}
  Metric = {i1}
  MaxChanges = 2
  NotLoaded = NotLoaded
  NoFetch = NoFetch
  Asked = Asked
INVARIANTS TablesKeepOrder CallsAreExecutedOnce MembershipKept StreamIsRetried RedIsAlerted PreferencesKept SettingsAreSaved ThresholdsAreSaved
SYMMETRY WallboardSymmetry
CHECK_DEADLOCK FALSE
