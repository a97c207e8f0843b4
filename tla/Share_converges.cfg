SPECIFICATION FairSpec
CONSTANTS
  Entities = {p, q, r}
  BadEntities = {}
  Permissions = {a, b, c}
  RefPermission = b
  DefaultPermissions = {a}
  Names = {n, m}
  NoShare = NoShare
  NoTag = NoTag
  TagKeys = {}
  AwsKeys = {}
  TagVals = {}
  MaxShares = 2
  MaxEdits = 2
  MaxFaults = 1
  Faults = {"api", "failed", "external"}
  EditAnyTime = TRUE
  SimpleEdits = FALSE
  p = p
  q = q
  r = r
  a = a
  b = b
  c = c
  n = n
  m = m
  x = x
  y = y
  w = w
  TypeOf <- MCTypeOf
  DefaultTags <- MCDefaultTags
  Specs <- ConvergingSpecs
INVARIANT AtMostOneShare
INVARIANT GoneMeansCleaned
PROPERTY Converges
CHECK_DEADLOCK FALSE
