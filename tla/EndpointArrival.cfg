CONSTANTS
  HistorySize = 2
  Name = {1, 2}
  AlwaysUpdate = {2}
  Value = {on, off}
  None = None
  MaxMessages = 2
  MaxClears = 0
SPECIFICATION Spec
INVARIANT EveryArrivalIsAnEvent
CHECK_DEADLOCK FALSE
