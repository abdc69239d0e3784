CONSTANTS
  HistorySize = 2
  Script = {s1, s2}
  Method = {m}
  Value = {on, off}
  Never = Never
  Undef = Undef
  MaxStores = 3
  MaxSubscribes = 2
SPECIFICATION Spec
INVARIANTS
  TypeOK
  HistoryIsRecent
  ReferenceLifetime
  NoEventLostIfQuiet
  SeenIsCurrent
PROPERTIES
  ChangedOnlyMeansChange
\* The MQTT thread may stop for good after MaxStores values or undefined behaviour.
SYMMETRY Symmetry
CHECK_DEADLOCK FALSE
