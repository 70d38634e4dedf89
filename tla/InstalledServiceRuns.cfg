SPECIFICATION FieldSpec
CONSTANTS
  j1 = j1
  j2 = j2
  j3 = j3
  p1 = p1
  p2 = p2
  w1 = w1
  t1 = t1
  t2 = t2
  f1 = f1
  s1 = s1
  s2 = s2
  c1 = c1
  c2 = c2
  c3 = c3
  Job = {j1, j2, j3}
  Wav = {w1}
  Page = {p1, p2}
  Task = {t1, t2}
  File = {f1}
  Kinds = {"deploy_sso", "remove_sso", "deploy_3cx_tools", "remove_3cx_tools", "unknown"}
  Session = {s1, s2}
  Ssh = {c1, c2, c3}
  None = None
  NoSound = NoSound
  NoEntry = NoEntry
  Beep = Beep
  Mixed = Mixed
  MaxVersion = 2
SYMMETRY FieldSymmetry
PROPERTIES InstalledServiceRuns
