------------------------------- MODULE MCCommands -------------------------------
(***************************************************************************)
(* The two ways in which a script acts on the world: properties of devices *)
(* and the modem.  They share nothing: a behaviour is one or the other.    *)
(* The conversions that have no behaviour are checked by assumptions.      *)
(***************************************************************************)
EXTENDS Commands, Gsm, Dates

MCChoice ==
  [string |-> {Value("string", Word("auto")), Value("string", Word(""))},
   int |-> {Value("int", 0), Value("int", 7)},
   double |-> {Value("double", 1), Value("double", 14)},
   bool |-> {Value("bool", TRUE), Value("bool", FALSE)},
   color |-> {Value("color", Black), Value("color", Named.red)}]

VARIABLE part   \* never changes

Init ==
  /\ part \in {"properties", "modem"}
  /\ CommandsInit /\ GsmInit
  /\ part = "properties" => trouble = "none"
  /\ part = "modem" => valueType = "bool" /\ ~readonly /\ careful /\ ~Data(device)

Next ==
  \/ part = "properties" /\ CommandsNext /\ UNCHANGED <<gsmVars, part>>
  \/ part = "modem" /\ GsmNext /\ UNCHANGED <<commandVars, part>>

Spec == Init /\ [][Next]_<<commandVars, gsmVars, part>> /\ GsmFairness

-----------------------------------------------------------------------------
MCColours == {Rgb(r, g, b) : r, g, b \in {0, 1, 127, 128, 255}}

MCHalves == {-5, -1, 0, 1, 3, 14}

\* A colour survives its three forms, a text of another length and an unknown name are black, and
\* every integer is some colour (CColor).
ASSUME ColoursSurvive ==
  /\ \A c \in MCColours :
       /\ FromInt(ColourAsInt(c)) = c /\ FromText(AsHexString(c)) = c /\ FromArray(AsArray(c)) = c
       /\ AsColor(Value("int", AsInt(Value("color", c)))) = c
  /\ \A n \in {-1, 0, 255, 256, 16777215, 16777216} : FromInt(n) \in CColor
  /\ FromText(Hex(255, 2)) = Black /\ FromText(Word("no such colour")) = Black
  /\ FromText(Number(255)) = Black

\* A number survives being asked for as a text, a double loses its fraction as an integer, and a
\* truth value survives all but its text: every text but the empty one is false (CValue).
ASSUME ValuesSurvive ==
  /\ \A n \in -2..2 : LET v == Value("int", n)
                     IN  /\ AsInt(Value("string", AsString(v))) = n
                         /\ AsDouble(v) = 2 * n /\ AsBool(v) = (n # 0)
  /\ \A d \in MCHalves : AsDouble(Value("string", AsString(Value("double", d)))) = d
  /\ \A b \in BOOLEAN : LET v == Value("bool", b)
                       IN  /\ AsBool(Value("int", AsInt(v))) = b
                           /\ AsBool(Value("double", AsDouble(v))) = b
                           /\ ~AsBool(Value("string", AsString(v)))
                           /\ AsBool(Value("color", AsColor(v)))

\* The text of an interval says all its whole seconds; of its milliseconds it says 1 or nothing
\* (CTimeInterval::asString).
ASSUME PartsAddUp ==
  \A i \in {0, 1, 999, 1000, 59999, 60000, 90061001, 604799999, 604800000, 700000500} :
    LET p == AsParts(i)
    IN  /\ i \div 1000 = p.w * 7 * Day + p.d * Day + p.h * 3600 + p.m * 60 + p.s
        /\ p.ms = (IF i % 1000 = 0 THEN 0 ELSE 1)
        /\ p.d < 7 /\ p.h < 24 /\ p.m < 60 /\ p.s < 60

\* No two settings of a line come to the same flags, and the two kinds of flow control exclude
\* each other (CSerial::setOptions).
ASSUME SettingsAreKept ==
  LET Settings == EParity \X EStopBits \X EFlowControl \X EBitsPerByte
      Flags(s) == SetOptions(s[1], s[2], s[3], s[4])
  IN  \A s \in Settings :
        /\ "CRTSCTS" \notin Flags(s).cflag \/ Software \cap Flags(s).iflag = {}
        /\ \A t \in Settings : Flags(s) = Flags(t) => s = t

\* No two endings of a command are the same: the modem tells the end of a message from the end of
\* a line (CSerial::endlToString).
ASSUME EndingsDiffer ==
  LET Endings == {"ceCR", "ceLF", "ceCRLF", "ceSUB", "ceNULL", "ceETX"}
  IN  \A d, e \in Endings : EndlToString(d) = EndlToString(e) => d = e

=============================================================================
