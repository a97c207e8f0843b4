SPECIFICATION Spec
CONSTANTS
  Entities = {p, q, r}
  BadEntities = {}
  Permissions = {a, b, c}
  RefPermission = b
  DefaultPermissions = {}
  Names = {n, m}
  NoShare = NoShare
  NoTag = NoTag
  TagKeys = {}
  AwsKeys = {}
  TagVals = {}
  MaxShares = 2
  MaxEdits = 0
  MaxFaults = 1
  Faults = {"crash"}
  EditAnyTime = TRUE
  SimpleEdits = FALSE
  p = p
  q = q
  r = r
  a = a
  b = b
  c = c
  n = n
  m = m
  x = x
  y = y
  w = w
  TypeOf <- MCTypeOf
  DefaultTags <- MCDefaultTags
  Specs <- OneSpec
INVARIANT GoneMeansCleaned
CHECK_DEADLOCK FALSE
