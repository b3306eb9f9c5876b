SPECIFICATION Spec
CONSTANTS
  A = A
  B = B
  Absent = Absent
  NoIdentity = NoIdentity
  Key = {1, 2}
  Scope = {1}
  ScopeOf <- OneScope
  Content = {A, B}
  Identified = {1, 2}
  PageSize = 1
  Providers = {"huggingface"}
  MaxEdits = 2
  MaxRuns = 3
  MaxCrashes = 1
INVARIANT RunsNeverFail
