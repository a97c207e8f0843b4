SPECIFICATION Spec
CONSTANTS
  Templates = {a, b}
  BadTemplates = {}
  Names = {n}
  TagKeys = {}
  TagVals = {}
  NoTag = NoTag
  NoTemplate = NoTemplate
  MaxVer = 5
  MaxEdits = 2
  MaxFaults = 2
  Faults = {}
  EditAnyTime = TRUE
  FreshEdits = FALSE
  Stale = FALSE
INVARIANT OneVersionWhenSynced
CHECK_DEADLOCK FALSE
