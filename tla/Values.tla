--------------------------------- MODULE Values ---------------------------------
(***************************************************************************)
(* CValue and CColor: a value is nothing, a text, an integer, a double, a  *)
(* truth value or a colour, and each can be asked for as any other.  The   *)
(* answers are cached; in a history, whose values are made and destroyed   *)
(* and never assigned, a cache does not outlive its value.                 *)
(*                                                                         *)
(* A text is what it says: a number, the six digits of a colour, or a      *)
(* word.  A double is counted in halves.                                   *)
(***************************************************************************)
EXTENDS Integers, Sequences

-----------------------------------------------------------------------------
(***************************************************************************)
(* CColor.                                                                 *)
(***************************************************************************)
Component == 0..255

CColor == [r : Component, g : Component, b : Component]

Rgb(r, g, b) == [r |-> r, g |-> g, b |-> b]

Black == Rgb(0, 0, 0)

\* CColor::asInt
ColourAsInt(c) == 65536 * c.r + 256 * c.g + c.b

\* CColor::fromInt.  The shifts are arithmetic and round down, as \div does.
FromInt(n) == Rgb((n \div 65536) % 256, (n \div 256) % 256, n % 256)

\* CColor::asArray, toJson and the constructor that reads an item of JSON.
AsArray(c) == <<c.r, c.g, c.b>>

FromArray(item) == Rgb(item[1] % 256, item[2] % 256, item[3] % 256)

\* Texts.  A hex text has the number after its # and how many digits there are.
Word(word) == [says |-> "word", word |-> word]
Number(n) == [says |-> "number", number |-> n]
Hex(n, digits) == [says |-> "hex", number |-> n, digits |-> digits]

\* CColor::asHexString
AsHexString(c) == Hex(ColourAsInt(c), 6)

\* CColor::fromHexString: a text of another length is black.
FromHexString(text) == IF text.digits = 6 THEN FromInt(text.number) ELSE Black

\* CColor::fromName: some of the names; any other text is black, with a warning.
Named ==
  [aqua |-> Rgb(0, 255, 255), cyan |-> Rgb(0, 255, 255), black |-> Black,
   lime |-> Rgb(0, 255, 0), red |-> Rgb(255, 0, 0), white |-> Rgb(255, 255, 255)]

FromName(text) ==
  IF text.says = "word" /\ text.word \in DOMAIN Named THEN Named[text.word] ELSE Black

\* The constructor from a text, without the random colour.
FromText(text) == IF text.says = "hex" THEN FromHexString(text) ELSE FromName(text)

-----------------------------------------------------------------------------
(***************************************************************************)
(* CValue.                                                                 *)
(***************************************************************************)
Value(kind, data) == <<kind, data>>
KindOf(v) == v[1]
Data(v) == v[2]

Nothing == Value("empty", 0)

Thrown == "thrown"

\* A cast from double to int goes towards zero.
Truncated(halves) == IF halves >= 0 THEN halves \div 2 ELSE -((-halves) \div 2)

TruthWord(b) == IF b THEN Word("true") ELSE Word("false")

\* CValue::asString
AsString(v) ==
  CASE KindOf(v) = "string" -> Data(v)
    [] KindOf(v) = "int" -> Number(Data(v))
    [] KindOf(v) = "double" -> [says |-> "halves", number |-> Data(v)]
    [] KindOf(v) = "bool" -> TruthWord(Data(v))
    [] KindOf(v) = "color" -> AsHexString(Data(v))
    [] KindOf(v) = "empty" -> Word("undefined")

\* std::stoi reads a number at the start of the text or throws.
Stoi(text) ==
  CASE text.says = "number" -> text.number
    [] text.says = "halves" -> Truncated(text.number)
    [] OTHER -> Thrown

\* CValue::asInt
AsInt(v) ==
  CASE KindOf(v) = "string" -> Stoi(Data(v))
    [] KindOf(v) = "int" -> Data(v)
    [] KindOf(v) = "double" -> Truncated(Data(v))
    [] KindOf(v) = "bool" -> IF Data(v) THEN 1 ELSE 0
    [] KindOf(v) = "color" -> ColourAsInt(Data(v))
    [] KindOf(v) = "empty" -> 0

\* CValue::asDouble, in halves.
AsDouble(v) ==
  CASE KindOf(v) = "string" /\ Data(v).says = "halves" -> Data(v).number
    [] KindOf(v) = "string" /\ Data(v).says \in {"word", "hex"} -> Thrown
    [] KindOf(v) = "double" -> Data(v)
    [] OTHER -> 2 * AsInt(v)

\* CValue::asBool.  A text is true when it is empty.
AsBool(v) ==
  CASE KindOf(v) = "string" -> Data(v) = Word("")
    [] KindOf(v) = "bool" -> Data(v)
    [] KindOf(v) = "empty" -> FALSE
    [] KindOf(v) = "double" -> Data(v) # 0
    [] KindOf(v) \in {"int", "color"} -> AsInt(v) # 0

\* CValue::asColor
AsColor(v) ==
  CASE KindOf(v) = "string" -> FromText(Data(v))
    [] KindOf(v) \in {"int", "double"} -> FromInt(AsInt(v))
    [] KindOf(v) = "bool" -> IF Data(v) THEN Rgb(0, 255, 0) ELSE Rgb(255, 0, 0)
    [] KindOf(v) = "color" -> Data(v)
    [] KindOf(v) = "empty" -> Black

\* Mutant: the values are found different when they are the same.
SameValue(v, w) == KindOf(v) = KindOf(w) /\ Data(v) = Data(w)

\* CValue::compareValue says whether two values differ; values of two kinds always do.
CompareValue(v, w) == KindOf(v) # KindOf(w) \/ Data(v) # Data(w)

\* CValue::asJson: an item of JSON is a text, a number, a truth value or an array.
AsJson(v) == IF KindOf(v) = "color" THEN Value("array", AsArray(Data(v))) ELSE v

=============================================================================
