SPECIFICATION FairSpec
CONSTANTS
  Templates = {a, b, c, bad}
  BadTemplates = {bad}
  Names = {n}
  TagKeys = {}
  TagVals = {}
  NoTag = NoTag
  NoTemplate = NoTemplate
  MaxVer = 5
  MaxEdits = 2
  MaxFaults = 2
  Faults = {"api", "share", "external"}
  EditAnyTime = TRUE
  FreshEdits = TRUE
  Stale = FALSE
INVARIANT GoneMeansCleaned
PROPERTY Converges
PROPERTY DeletionCompletes
CHECK_DEADLOCK FALSE
