CONSTANTS
  Timer = {t1, t2}
  Handled = {t1}
  Interval = 1
  Period = 2
  MaxQueue = 0
  Day = 10
  Transit = 8
  Half = 1
  UpdatePeriod = 2
  Interesting = {"MorningSunriseEnd", "Zenith"}
  Seasons <- MCSeasons
SPECIFICATION TimeSpec
INVARIANTS
  FiresInTime
  EventIsNoticed
  SilentForGood
PROPERTIES
  CallsReturn
  StartedIsCalled
\* Undefined behaviour ends a behaviour.
CHECK_DEADLOCK FALSE
