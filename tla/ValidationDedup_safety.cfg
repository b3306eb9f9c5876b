SPECIFICATION FairSpec
CONSTANTS
  t1 = t1
  t2 = t2
  t3 = t3
  t4 = t4
  k1 = k1
  s1 = s1
  s2 = s2
  NoTask = NoTask
  NoScan = NoScan
  Task = {t1, t2, t3, t4}
  Key = {k1}
  Scan = {s1, s2}
  KeyOf <- AllOnOneKey
  ScanOf <- LastInNextScan
  Timeouts = TRUE
INVARIANTS
  OneRequestAtATime
  WaitersAreAnswered
  SharedAnswersComeFromOwners
PROPERTIES
  ImplementsSharedValidation
  EveryValidationReturns
  WaitersAreReleased
