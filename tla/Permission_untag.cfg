SPECIFICATION Spec
CONSTANTS
  Templates = {a}
  BadTemplates = {}
  Names = {n}
  TagKeys = {k}
  TagVals = {x}
  NoTag = NoTag
  NoTemplate = NoTemplate
  MaxVer = 5
  MaxEdits = 1
  MaxFaults = 1
  Faults = {"api"}
  EditAnyTime = TRUE
  FreshEdits = FALSE
  Stale = FALSE
INVARIANT SyncedMeansTagged
CHECK_DEADLOCK FALSE
