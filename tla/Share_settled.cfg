SPECIFICATION FairSpec
CONSTANTS
  Entities = {p, q, r}
  BadEntities = {r}
  Permissions = {a, b, c}
  RefPermission = b
  DefaultPermissions = {}
  Names = {n, m}
  NoShare = NoShare
  NoTag = NoTag
  TagKeys = {k, w}
  AwsKeys = {w}
  TagVals = {x, y}
  MaxShares = 1
  MaxEdits = 2
  MaxFaults = 1
  Faults = {"api", "lost", "patch", "crash"}
  EditAnyTime = FALSE
  SimpleEdits = TRUE
  p = p
  q = q
  r = r
  a = a
  b = b
  c = c
  n = n
  m = m
  x = x
  y = y
  w = w
  TypeOf <- MCTypeOf
  DefaultTags <- MCDefaultTags
  Specs <- SettledSpecs
INVARIANT TypeOK
INVARIANT SyncedMeansShared
INVARIANT SyncedMeansConfigured
INVARIANT AwsTagsLeftAlone
PROPERTY DeletionCompletes
PROPERTY ReferenceArrives
PROPERTY ReleasedPermissionGoes
CHECK_DEADLOCK FALSE
