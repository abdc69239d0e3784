CONSTANTS
  MaxEvents = 3
  MaxNotices = 2
SPECIFICATION Spec
INVARIANTS
  TypeOK
  OneVersionRuns
  CalmIsSafe
  OrphansDoNotPileUp
PROPERTIES
  CalmReloadEnds
  NoticesAreTaken
\* Undefined behaviour ends a behaviour.
CHECK_DEADLOCK FALSE
