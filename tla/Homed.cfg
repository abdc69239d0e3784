CONSTANTS
  Instance = {home, nameless}
  Device = {d1}
  Value = {on, off}
  None = None
  MaxLink = 1
  MaxChanges = 1
SPECIFICATION Spec
INVARIANTS
  TypeOK
  StartedIsReady
  NothingForgotten
PROPERTIES
  ConstructorEnds
  ScriptsStart
\* Nothing may be left to do, and a silent instance keeps the program waiting.
CHECK_DEADLOCK FALSE
