-------------------------------- MODULE Bindings --------------------------------
(***************************************************************************)
(* What a script can name: CScriptEnvironment::registerEntities tells      *)
(* AngelScript the types of the program, and their functions and methods   *)
(* with declarations that CConverter makes from the C++ ones.  A call of   *)
(* AngelScript fails if a declaration has a type that is not known yet;    *)
(* HA_AS_ACCERT_CALL only asserts that it did not.                         *)
(*                                                                         *)
(* A declaration is the set of the types in it.  A C++ type is a sequence  *)
(* of tokens, since the converter replaces parts of it.                    *)
(***************************************************************************)
EXTENDS Naturals, SequencesExt

Namespaces == {"ha::", "homed::", "datetime::", "mqtt::", "serial::", "device::", "utils::",
               "scripting::", "helpers::"}

\* CConverter's m_dictonary in its order, without the entries for namespaces, for pointers and for
\* int, which stays as it is.
Dictionary ==
  << [from |-> <<"std::vector<", "std::string", ">">>, to |-> "CStrings"],
     [from |-> <<"std::string">>,                to |-> "string"],
     [from |-> <<"unsigned", "char">>,           to |-> "uint8"],
     [from |-> <<"unsigned", "short">>,          to |-> "uint16"],
     [from |-> <<"unsigned", "int">>,            to |-> "uint"],
     [from |-> <<"unsigned", "long", "long">>,   to |-> "uint64"],
     [from |-> <<"unsigned", "long">>,           to |-> "uint32"],
     [from |-> <<"uint64_t">>,                   to |-> "uint64"],
     [from |-> <<"char">>,                       to |-> "int8"],
     [from |-> <<"short">>,                      to |-> "int16"],
     [from |-> <<"long">>,                       to |-> "int32"],
     [from |-> <<"std::time_t">>,                to |-> "int64"],
     [from |-> <<"int64_t">>,                    to |-> "int64"],
     [from |-> <<"size_t">>,                     to |-> "uint"],
     [from |-> <<"operator", "+">>,              to |-> "opAdd"],
     [from |-> <<"operator", "-">>,              to |-> "opSub"],
     [from |-> <<"operator", "<", "=">>,         to |-> "opLessEqual"],
     [from |-> <<"operator", "<">>,              to |-> "opLess"],
     [from |-> <<"operator", ">", "=">>,         to |-> "opGreaterEqual"],
     [from |-> <<"operator", ">">>,              to |-> "opGreater"],
     [from |-> <<"operator", "=", "=">>,         to |-> "opEquals"],
     [from |-> <<"operator", "!", "=">>,         to |-> "opNotEquals"],
     [from |-> <<"operator", "=">>,              to |-> "opAssign"],
     [from |-> <<"operator", "[]">>,             to |-> "opIndex"] >>

\* CConverter::operator(): every entry in turn, on what the ones before have made.
Converter(tokens) ==
  LET Replace(t, entry) == ReplaceFirstSubSeq(<<entry.to>>, entry.from, t)
      Outside(token) == token \notin Namespaces
  IN  FoldLeft(Replace, SelectSeq(tokens, Outside), Dictionary)

-----------------------------------------------------------------------------
\* The C++ types in the declarations, as they are written there.
Str == <<"std::string">>
VectorOfStr == <<"std::vector<", "std::string", ">">>
CStrings == <<"ha::", "utils::", "CStrings">>
Homed(name) == <<"ha::", "homed::", name>>
Datetime(name) == <<"ha::", "datetime::", name>>
Mqtt(name) == <<"ha::", "mqtt::", name>>
Serial(name) == <<"ha::", "serial::", name>>
Bool == <<"bool">>
Integer == <<"int">>
Double == <<"double">>
UChar == <<"unsigned", "char">>
Short == <<"short">>
UShort == <<"unsigned", "short">>
UInt == <<"unsigned", "int">>
Size == <<"size_t">>
Int64 == <<"int64_t">>
UInt64 == <<"uint64_t">>
TimeT == <<"std::time_t">>

\* The types of AngelScript itself and their bytes.
Scalar == [bool |-> 1, int8 |-> 1, uint8 |-> 1, int16 |-> 2, uint16 |-> 2, int |-> 4, uint |-> 4,
           int32 |-> 4, uint32 |-> 4, float |-> 4, double |-> 8, int64 |-> 8, uint64 |-> 8]

\* The bytes of the C++ types on a 64 bit Linux.
Bytes(type) ==
  CASE type \in {Bool, UChar, <<"char">>} -> 1
    [] type \in {Short, UShort} -> 2
    [] type \in {Integer, UInt, <<"float">>} -> 4
    [] type \in {Double, Size, Int64, UInt64, TimeT} -> 8

-----------------------------------------------------------------------------
\* One piece of registerEntities: the types it adds and the ones its declarations are made of.
Types(names) == [adds |-> names, uses |-> {}]
Members(types) == [adds |-> {}, uses |-> types]

Base == Types({"array", "string"})

Logger == [adds |-> {"CLogger"}, uses |-> {Str}]

Containers == [adds |-> {"CStrings"}, uses |-> {<<"string">>}]

Enumerations == Types({"ETopic", "EDeviceType", "EPropertyValueType", "ESunTrackerEvent"})

GlobalFunctions ==
  Members({Str, VectorOfStr, Bool, Integer, Double, Size, <<"float">>, <<"char">>, UInt, Short,
           UShort, Int64, UInt64})

ModelTypes ==
  Types({"SMqttMesssage", "CJson", "CTimeInterval", "CDateTime", "CColor", "CTimerContinuous",
         "CTimerOneshot", "CTimerCron", "CValue", "CStorage", "CProperty", "CProperties",
         "CEndpoint", "CEndpoints", "CDevice", "CDevices", "CInstance", "CInstances", "CHomed",
         "CSunTracker", "CAstronomical", "CMqtt"})

SMqttMesssage == Members({Str})

CJson ==
  Members({Str, Bool, Integer, Double, UInt, CStrings,
           <<"ha::", "scripting::", "helpers::", "CJson">>})

CColor == Members({UChar, Integer, Str, Homed("CColor")})

CValue ==
  Members({Str, Integer, Double, Bool, Homed("CColor"), Datetime("CDateTime"), Homed("CStorage")})

CValues == [adds |-> {"CValues"}, uses |-> {<<"CValue">>}]

CStorage ==
  Members({Size, Bool, Str, Homed("CValues"), Homed("CValue"), Homed("CProperty")})

CProperty ==
  Members({Str, Bool, Integer, Double, CStrings, Homed("EPropertyValueType"), Homed("CStorage"),
           Homed("CValue"), Homed("CDevice"), Homed("CEndpoint"), Homed("CColor")})

CProperties ==
  Members({Bool, Str, UShort, CStrings, Homed("CProperty"), Homed("CDevice"), Homed("CEndpoint")})

CEndpoint ==
  Members({Str, Mqtt("ETopic"), Homed("CProperties"), Homed("CProperty"), Homed("CDevice")})

CEndpoints == Members({Bool, Str, UShort, CStrings, Homed("CEndpoint"), Homed("CDevice")})

CDevice ==
  Members({Str, Bool, Mqtt("ETopic"), Homed("EDeviceType"), Homed("CProperties"),
           Homed("CProperty"), Homed("CEndpoints")})

CDevices == Members({Bool, Str, UShort, CStrings, Homed("EDeviceType"), Homed("CDevice")})

CInstance == Members({Str, Bool, Homed("CDevices"), Homed("EDeviceType")})

CInstances ==
  Members({Bool, Str, UShort, CStrings, Homed("CInstance"), Homed("CDevice"), Homed("EDeviceType")})

CHomed ==
  Members({Str} \cup {Homed(n) : n \in {"CInstances", "CInstance", "CDevice", "CEndpoint",
                                        "CProperty", "EDeviceType"}})

Timers ==
  Members({Str, Int64} \cup {Datetime(n) : n \in {"CTimerContinuous", "CTimerOneshot", "CTimerCron",
                                                  "CTimeInterval", "CDateTime"}})

CDateTime ==
  Members({Int64, Str, Integer, TimeT, Bool, Datetime("CDateTime"), Datetime("CTimeInterval")})

CTimeInterval == Members({Double, Str, Bool, Datetime("CTimeInterval")})

CSunTracker == Members({Str, Bool, Datetime("ESunTrackerEvent"), Datetime("CDateTime")})

CAstronomical == Members({Datetime("CSunTracker")})

CMqtt == Members({Str})

SerialEnumerations ==
  Types({"EBaudRate", "EParity", "EStopBits", "EFlowControl", "EBitsPerByte", "ECommandEndl"})

Port == {Str} \cup {Serial(n) : n \in {"EBaudRate", "EParity", "EStopBits", "EFlowControl",
                                       "EBitsPerByte"}}

CSerialCommunication ==
  [adds |-> {"CSerialCommunication"}, uses |-> Port \cup {Integer, Bool, Serial("ECommandEndl")}]

CSerialWatcher == [adds |-> {"CSerialWatcher"}, uses |-> Port \cup {Bool}]

CGsm == [adds |-> {"CGsm"}, uses |-> {Bool, Integer, Str, VectorOfStr}]

CSerialDevices ==
  [adds |-> {"CSerialDevices"}, uses |-> {<<"ha::", "serial::", "device::", "CGsm">>}]

Variables ==
  Members({<<n>> : n \in {"string", "CLogger", "CHomed", "CAstronomical", "CMqtt",
                          "CSerialDevices"}})

\* CScriptEnvironment::registerEntities and what it calls, in their order.
Registrations ==
  << Base, Logger, Containers, Enumerations, GlobalFunctions, ModelTypes, SMqttMesssage, CJson,
     CColor, CValue, CValues, CStorage, CProperty, CProperties, CEndpoint, CEndpoints, CDevice,
     CDevices, CInstance, CInstances, CHomed, Timers, CDateTime, CTimeInterval, CSunTracker,
     CAstronomical, CMqtt, SerialEnumerations, CSerialCommunication, CSerialWatcher, CGsm, CSerialDevices,
     Variables >>

\* A call of AngelScript: it refuses a type it has already and a declaration it cannot read.
Register(engine, step) ==
  LET known == engine.known \cup step.adds
      readable == {<<name>> : name \in known}
  IN  [known |-> known,
       ok |-> /\ engine.ok
              /\ step.adds \cap engine.known = {}
              /\ \A type \in step.uses : Converter(type) \in readable]

RegisterEntities == FoldLeft(Register, [known |-> DOMAIN Scalar, ok |-> TRUE], Registrations)

=============================================================================
