SPECIFICATION HistorySpec
CONSTANTS
  x = x y = y z = z
  Commit = {1, 2, 3}
  Blob = {x, y, z}
  Contents <- Library
  Repos <- Repositories
  Name = {"a", "b", "d", "e", "z"}
  NoRepo = NoRepo
  NoTree = NoTree
  NoCommit = NoCommit
  LIMIT = 1
INVARIANT ExcludedFilesAreSkipped
CHECK_DEADLOCK FALSE
