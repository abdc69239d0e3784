CONSTANTS
  MaxEvents = 2
  MaxNotices = 0
SPECIFICATION Spec
PROPERTY ChangedScriptRuns
CHECK_DEADLOCK FALSE
