SPECIFICATION Spec
CONSTANTS
  l1 = l1
  d1 = d1
  u1 = u1
  f1 = f1
  f2 = f2
  s1 = s1
  NoEntry = NoEntry
  Local = {l1}
  Remote = {u1}
  Nested = {}
  Parent <- MCParent
  Named = {}
  Fingerprint = {f1}
  Secret = {s1}
  SecretOf <- MCSecretOf
  Path = {1}
  Filed = {1}
  Below <- MCBelow
  Snapshot <- MCOneFinding
  Args <- MCArgs
  MaxScans = 2
  MaxEdits = 1
INVARIANT AcceptanceIsPerRepository
