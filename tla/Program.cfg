CONSTANTS
  Dir = {"d"}
  File = {"f", "g"}
  Place <- MCPlace
  Script = {"v1", "v2"}
  Arguments <- MCArguments
  MaxChanges = 3
  KernelQueue = 2
  ScriptName = {"s1", "s2"}
  Method = {"m"}
  Topic = {"a", "b"}
  MaxCalls = 4
SPECIFICATION ProgramSpec
INVARIANTS
  NothingMissed
  DiesOnlyIfProvoked
  ClientsAreAskedFor
PROPERTIES
  StopIsTaken
\* The program ends when it is stopped.
CHECK_DEADLOCK FALSE
