SPECIFICATION Spec
CONSTANTS
  b1 = b1
  l1 = l1
  u1 = u1
  u2 = u2
  u3 = u3
  u4 = u4
  a1 = a1
  Bucket = {b1}
  Local = {l1}
  Url = {u1, u2, u3, u4}
  Artifact = {a1}
  Workers = 2
  UrlCap = 1
  WorkCap = 1
  ResultCap = 1
  RepoCap = 1
  Permits = 1
  Args <- AllArgs
SYMMETRY Repositories
INVARIANTS
  NothingIsLost
  QueuedScansAreBounded
  RepositoriesAreReported
