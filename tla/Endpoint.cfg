CONSTANTS
  HistorySize = 2
  Name = {1, 2, 3}
  AlwaysUpdate = {3}
  Value = {on, off}
  None = None
  MaxMessages = 3
  MaxClears = 1
SPECIFICATION Spec
INVARIANTS
  TypeOK
  StoredIsCarried
  ActionsArrive
  AlarmsAreChanges
\* MaxMessages messages have been handled.
SYMMETRY Symmetry
CHECK_DEADLOCK FALSE
