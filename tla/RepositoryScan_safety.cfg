SPECIFICATION FairSpec
CONSTANTS
  i1 = i1  i2 = i2  i3 = i3  i4 = i4  i5 = i5
  Simple = Simple  Pair = Pair  Part = Part
  s1 = s1  s2 = s2  d1 = d1  d2 = d2  h1 = h1
  Input = {i1, i2, i3, i4, i5}
  Git = {i3, i4}
  BlobOf <- Contents
  MatchesOf <- Matches
  Rule = {Simple, Pair, Part}
  Dependent = {Pair}
  Helper = {Part}
  Authoritative = {Simple, Pair}
  Secret = {s1, s2, d1, d2, h1}
  Context = {h1}
  Span = {1, 2, 3}
  NoContext = NoContext
  Ambiguous = Ambiguous
  Worker = {w1, w2}
  InputCap = 1
  StoreCap = 1
  BatchSize = 2
  Concurrency = 2
  ChunkSize = 2
  Elsewhere <- Shared
  Nothing = Nothing
  Args <- BothWays
INVARIANTS ClaimedContentIsOnItsWay CompleteScansMissNothing StoreIsExact OutcomesAnswerTheirRequest VerdictsAgree EveryRowIsAnswered RequestsAreShared
PROPERTY EveryScanEnds
CHECK_DEADLOCK FALSE
