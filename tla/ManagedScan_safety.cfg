SPECIFICATION Spec
CONSTANTS
  l1 = l1
  d1 = d1
  u1 = u1
  f1 = f1
  f2 = f2
  s1 = s1
  NoEntry = NoEntry
  Local = {l1}
  Remote = {u1}
  Nested = {l1}
  Parent <- MCParent
  Named = {u1}
  Fingerprint = {f1, f2}
  Secret = {s1}
  SecretOf <- MCSecretOf
  Path = {1, 2, 3}
  Filed = {1}
  Below <- MCBelow
  Snapshot <- MCSnapshot
  Args <- MCArgs
  MaxScans = 2
  MaxEdits = 1
INVARIANTS
  AuditIsTruthful
  NewSecretsAreReported
PROPERTIES
  UpdatesAreScoped
