CONSTANTS
  HistorySize = 2
  Script = {s1, s2}
  Method = {m}
  Value = {on, off}
  Never = Never
  Undef = Undef
  MaxStores = 1
  MaxSubscribes = 3
SPECIFICATION Spec
INVARIANT NoEventLost
CHECK_DEADLOCK FALSE
