SPECIFICATION Spec
CONSTANTS
  Entities = {p, q, r}
  BadEntities = {}
  Permissions = {a, b, c}
  RefPermission = b
  DefaultPermissions = {}
  Names = {n, m}
  NoShare = NoShare
  NoTag = NoTag
  TagKeys = {}
  AwsKeys = {}
  TagVals = {}
  MaxShares = 2
  MaxEdits = 1
  MaxFaults = 0
  Faults = {}
  EditAnyTime = FALSE
  SimpleEdits = FALSE
  p = p
  q = q
  r = r
  a = a
  b = b
  c = c
  n = n
  m = m
  x = x
  y = y
  w = w
  TypeOf <- MCTypeOf
  DefaultTags <- MCDefaultTags
  Specs <- SourceSpecs
INVARIANT SyncedMeansSources
CHECK_DEADLOCK FALSE
