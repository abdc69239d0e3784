CONSTANTS
  HistorySize = 1
  Script = {s1}
  Method = {m}
  Value = {on, off}
  Never = Never
  Undef = Undef
  MaxStores = 2
  MaxSubscribes = 1
SPECIFICATION Spec
PROPERTY ChangedOnlyMeansChange
CHECK_DEADLOCK FALSE
