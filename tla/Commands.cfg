CONSTANTS
  Choice <- MCChoice
  MaxCalls = 3
  Caller = {"s1", "s2"}
  GsmBaudrate = 115200
  MaxDialogs = 2
SPECIFICATION Spec
INVARIANTS
  WantedInTheEnd
  SentIsAccepted
PROPERTIES
  DialogsEnd
\* MaxCalls and MaxDialogs calls have been made.
CHECK_DEADLOCK FALSE
