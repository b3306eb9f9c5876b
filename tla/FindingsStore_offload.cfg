SPECIFICATION Spec
CONSTANTS
  r1 = r1
  r2 = r2
  r3 = r3
  a = a
  b = b
  c = c
  x = x
  y = y
  Torn = Torn
  Nobody = Nobody
  NoReport = NoReport
  Repo = {r1, r2, r3}
  Finding = {a, b, c}
  Digest = {x, y}
  Found <- Overlapping
  DigestOf <- ByContent
  Args <- AllArgs
INVARIANTS
  ReportIsExact
  SpillFileIsExact
  WorkingSetIsRestored
PROPERTY ImplementsFindingsLog
