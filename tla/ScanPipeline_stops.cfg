SPECIFICATION FairSpec
CONSTANTS
  b1 = b1
  l1 = l1
  u1 = u1
  u2 = u2
  u3 = u3
  u4 = u4
  a1 = a1
  Bucket = {}
  Local = {}
  Url = {u1, u2, u3}
  Artifact = {a1}
  Workers = 1
  UrlCap = 1
  WorkCap = 1
  ResultCap = 1
  RepoCap = 1
  Permits = 1
  Args <- ArgsToFile
\* A thread that never ends is for the property to find.
CHECK_DEADLOCK FALSE
PROPERTIES
  StopLeadsToReturn
  EveryThreadEnds
