SPECIFICATION FairSpec
CONSTANTS
  Templates = {a, b, bad}
  BadTemplates = {bad}
  Names = {n, m}
  TagKeys = {}
  TagVals = {}
  NoTag = NoTag
  NoTemplate = NoTemplate
  MaxVer = 5
  MaxEdits = 2
  MaxFaults = 2
  Faults = {"api", "lost", "patch", "crash", "share"}
  EditAnyTime = TRUE
  FreshEdits = FALSE
  Stale = FALSE
INVARIANT TypeOK
INVARIANT NeverDeletesDefault
INVARIANT SyncedMeansPolicyInForce
PROPERTY DeletionCompletes
PROPERTY KeepsPromises
CHECK_DEADLOCK FALSE
