-------------------------------- MODULE Commands --------------------------------
(***************************************************************************)
(* The way round: a script sets a property, the command goes over MQTT to  *)
(* the device, the device reports its new state, and the report becomes    *)
(* the last value of the property, which setIfNotEqual compares with       *)
(* (CProperty, CHomed::publishValue, CEndpoint::updateProperty).  Publisher*)
(* and broker are the queue of the commands, broker and client the queue   *)
(* of the reports.                                                         *)
(***************************************************************************)
EXTENDS Values

CONSTANTS
  Choice,   \* per kind of value, the values that are set and that devices have
  MaxCalls  \* calls of the script and changes at the device

Kind == {"string", "int", "double", "bool", "color"}

\* A value is of its kind; the components of a colour are bytes (CColor).
ASSUME CommandsAssumption ==
  /\ DOMAIN Choice = Kind
  /\ \A k \in Kind : \A v \in Choice[k] : v = Value(k, Data(v))
  /\ \A v \in Choice["color"] : Data(v) \in CColor
  /\ MaxCalls \in Nat

VARIABLES
  valueType, \* of the property and of the device; never changes
  readonly,  \* never changes
  device,    \* the value the device has
  last,      \* the last value of the property
  commands,  \* on their way to the device
  reports,   \* on their way to the property
  wanted,    \* what the device was last told to be, or was set to by hand
  calls,
  careful    \* the script calls setIfNotEqual only when nothing is under way; never changes

commandVars == <<valueType, readonly, device, last, commands, reports, wanted, calls, careful>>

CommandsInit ==
  /\ valueType \in Kind /\ readonly \in BOOLEAN /\ careful \in BOOLEAN
  /\ device \in Choice[valueType] /\ wanted = device
  /\ last = Nothing
  /\ commands = <<>> /\ reports = <<AsJson(device)>>
  /\ calls = 0

Settled == commands = <<>> /\ reports = <<>>

\* Whether a device of this type understands an item of JSON.
Fits(item) ==
  \/ valueType # "color" /\ KindOf(item) = valueType
  \/ valueType = "color" /\ KindOf(item) = "array"
  \/ valueType = "double" /\ KindOf(item) = "int"

\* CEndpoint::updateProperty, and the same conversion in the device.
Stored(item) ==
  Value(valueType, CASE valueType = "string" -> AsString(item)
                     [] valueType = "int" -> AsInt(item)
                     [] valueType = "double" -> AsDouble(item)
                     [] valueType = "bool" -> AsBool(item)
                     [] valueType = "color" -> FromArray(Data(item)))

-----------------------------------------------------------------------------
Wants(v) == wanted' = IF Fits(AsJson(v)) /\ ~readonly THEN Stored(AsJson(v)) ELSE wanted

Publish(v) == commands' = IF readonly THEN commands ELSE Append(commands, AsJson(v))

\* CProperty::set and CHomed::publishValue.
Set(v) ==
  /\ calls < MaxCalls /\ calls' = calls + 1
  /\ Publish(v) /\ Wants(v)
  /\ UNCHANGED <<valueType, readonly, device, last, reports, careful>>

\* CProperty::setIfNotEqual
SetIfNotEqual(v) ==
  /\ calls < MaxCalls /\ calls' = calls + 1
  /\ careful => Settled
  /\ IF CompareValue(last, v) THEN Publish(v) ELSE UNCHANGED commands
  /\ Wants(v)
  /\ UNCHANGED <<valueType, readonly, device, last, reports, careful>>

\* CStorage::clear, called by a script.
Clear ==
  /\ last' = Nothing
  /\ UNCHANGED <<valueType, readonly, device, commands, reports, wanted, calls, careful>>

\* A message of state has come.
Update ==
  /\ reports # <<>>
  /\ last' = Stored(Head(reports)) /\ reports' = Tail(reports)
  /\ UNCHANGED <<valueType, readonly, device, commands, wanted, calls, careful>>

\* The device obeys and says what it is now.
Obey ==
  /\ commands # <<>> /\ commands' = Tail(commands)
  /\ device' = IF Fits(Head(commands)) THEN Stored(Head(commands)) ELSE device
  /\ reports' = IF Fits(Head(commands)) THEN Append(reports, AsJson(device')) ELSE reports
  /\ UNCHANGED <<valueType, readonly, last, wanted, calls, careful>>

\* Somebody turns a switch at the device.
Turn(v) ==
  /\ calls < MaxCalls /\ calls' = calls + 1
  /\ device' = v /\ reports' = Append(reports, AsJson(v))
  /\ wanted' = IF \E i \in DOMAIN commands : Fits(commands[i]) THEN wanted ELSE v
  /\ UNCHANGED <<valueType, readonly, last, commands, careful>>

CommandsNext ==
  \/ \E k \in Kind : \E v \in Choice[k] : Set(v) \/ SetIfNotEqual(v)
  \/ \E v \in Choice[valueType] : Turn(v)
  \/ Clear \/ Update \/ Obey

CommandsSpec == CommandsInit /\ [][CommandsNext]_commandVars

-----------------------------------------------------------------------------
\* When nothing is under way, the device is what the last command or the last hand wanted it to
\* be, and the property, unless it was cleared, says so: last() is compared with only when it
\* cannot be out of date (CProperty::setIfNotEqual, CEndpoint::updateProperty).
WantedInTheEnd ==
  careful /\ Settled =>
    ~CompareValue(device, wanted) /\ (KindOf(last) # "empty" => ~CompareValue(last, device))

=============================================================================
