CONSTANTS
  MaxPublished = 5
SPECIFICATION Spec
INVARIANTS
  TypeOK
  InOrder
  LossNeedsBreak
PROPERTIES
  SilentOnceGone
  EveryCommandArrives
  StopIsHeard
  DeliversInOrder
\* Everything has arrived and the publisher is gone.
CHECK_DEADLOCK FALSE
