SPECIFICATION Spec
CONSTANTS
  Templates = {a, b}
  BadTemplates = {}
  Names = {n}
  TagKeys = {k, l}
  TagVals = {x, y}
  NoTag = NoTag
  NoTemplate = NoTemplate
  MaxVer = 5
  MaxEdits = 3
  MaxFaults = 1
  Faults = {"patch"}
  EditAnyTime = FALSE
  FreshEdits = FALSE
  Stale = TRUE
INVARIANT OneVersionWhenSynced
INVARIANT SyncedMeansPolicyInForce
INVARIANT SyncedMeansTagged
PROPERTY VersionNeverGoesBack
CHECK_DEADLOCK FALSE
