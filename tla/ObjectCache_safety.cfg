SPECIFICATION FairSpec
CONSTANTS
  A = A
  B = B
  Absent = Absent
  NoIdentity = NoIdentity
  Key = {1, 2}
  Scope = {1, 2}
  ScopeOf <- OneScope
  Content = {A, B}
  Identified = {1}
  PageSize = 1
  Providers = {"s3", "gcs", "huggingface"}
  MaxEdits = 2
  MaxRuns = 3
  MaxCrashes = 2
INVARIANTS
  StampedRunsNeverFail
  CommittedObjectsAreOnDisk
  NothingIsMissed
  StampedContentIsCurrent
  FinishedCacheIsExact
PROPERTY SomeRunFinishes
