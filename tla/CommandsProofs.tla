------------------------------ MODULE CommandsProofs ------------------------------
(***************************************************************************)
(* Theorems about the ways in which scripts act on the world, Commands and *)
(* Gsm, for any values, scripts and numbers of calls, and about the        *)
(* conversions of colours and the arithmetic of dates for every argument.  *)
(***************************************************************************)
EXTENDS Commands, Gsm, Dates, SequenceTheorems, TLAPS

-----------------------------------------------------------------------------
(***************************************************************************)
(* Colours.                                                                *)
(***************************************************************************)

IsByte(n) == n \in Int /\ 0 <= n /\ n <= 255

\* The three digits to the base 256 of a number that fits into three of them.
LEMMA Digits ==
  ASSUME NEW r, NEW g, NEW b, IsByte(r), IsByte(g), IsByte(b),
         NEW n \in Int, n = 65536 * r + 256 * g + b
  PROVE  /\ (n \div 65536) % 256 = r
         /\ (n \div 256) % 256 = g
         /\ n % 256 = b
<1>1. n \div 65536 = r
  BY SMT DEF IsByte
<1>2. n \div 256 = 256 * r + g
  BY SMT DEF IsByte
<1>3. QED
  BY <1>1, <1>2, SMT DEF IsByte

\* Division by 256 and what it leaves.
LEMMA DivideByByte ==
  ASSUME NEW n \in Int
  PROVE  n \div 256 \in Int /\ IsByte(n % 256) /\ n = 256 * (n \div 256) + (n % 256)
BY SMT DEF IsByte

\* What is left by 256 ^ 3.
LEMMA RestOfThree ==
  ASSUME NEW n \in Int, NEW o \in Int, NEW low \in Int, 0 <= low, low <= 16777215,
         n = 16777216 * o + low
  PROVE  n % 16777216 = low
BY SMT

\* A number put together from three digits and what is above them.
LEMMA FourParts ==
  ASSUME NEW n \in Int, NEW q \in Int, NEW p \in Int, NEW o \in Int,
         NEW a, NEW b, NEW c, IsByte(a), IsByte(b), IsByte(c),
         n = 256 * q + c, q = 256 * p + b, p = 256 * o + a
  PROVE  n \div 65536 = p /\ n % 16777216 = 65536 * a + 256 * b + c
<1>1. n \div 65536 = p
  BY SMT DEF IsByte
<1>2. n = 16777216 * o + (65536 * a + 256 * b + c)
  BY SMT DEF IsByte
<1>3. /\ 65536 * a + 256 * b + c \in Int
      /\ 0 <= 65536 * a + 256 * b + c
      /\ 65536 * a + 256 * b + c <= 16777215
  BY SMT DEF IsByte
<1>4. QED
  BY <1>1, <1>2, <1>3, RestOfThree

\* The other way round: the digits make up what the number is below 256 ^ 3.
LEMMA FromDigits ==
  ASSUME NEW n \in Int
  PROVE  65536 * ((n \div 65536) % 256) + 256 * ((n \div 256) % 256) + (n % 256) = n % 16777216
<1>1. PICK q \in Int : q = n \div 256 /\ IsByte(n % 256) /\ n = 256 * q + (n % 256)
  BY DivideByByte
<1>2. PICK p \in Int : p = q \div 256 /\ IsByte(q % 256) /\ q = 256 * p + (q % 256)
  BY DivideByByte
<1>3. PICK o \in Int : o = p \div 256 /\ IsByte(p % 256) /\ p = 256 * o + (p % 256)
  BY DivideByByte
<1>4. n \div 65536 = p /\ n % 16777216 = 65536 * (p % 256) + 256 * (q % 256) + (n % 256)
  BY <1>1, <1>2, <1>3, FourParts
<1>5. QED
  BY <1>1, <1>4

\* The components of a colour.
LEMMA Components ==
  ASSUME NEW c \in CColor
  PROVE  IsByte(c.r) /\ IsByte(c.g) /\ IsByte(c.b) /\ c = Rgb(c.r, c.g, c.b)
<1>1. c.r \in 0..255 /\ c.g \in 0..255 /\ c.b \in 0..255
  BY DEF CColor, Component
<1>2. c = [r |-> c.r, g |-> c.g, b |-> c.b]
  BY DEF CColor
<1>3. QED
  BY <1>1, <1>2 DEF Rgb, IsByte

\* A colour survives being an integer: fromInt undoes asInt (CColor::asInt, fromInt).
THEOREM ColourFromItsInt ==
  \A c \in CColor : FromInt(ColourAsInt(c)) = c
<1> SUFFICES ASSUME NEW c \in CColor
             PROVE  FromInt(ColourAsInt(c)) = c
  OBVIOUS
<1>1. PICK r, g, b : IsByte(r) /\ IsByte(g) /\ IsByte(b) /\ c = Rgb(r, g, b)
  BY Components, Zenon
<1>2. ColourAsInt(c) = 65536 * r + 256 * g + b
  BY <1>1 DEF ColourAsInt, Rgb
<1>3. PICK n \in Int : n = 65536 * r + 256 * g + b
  BY <1>1, SMT DEF IsByte
<1>4. (n \div 65536) % 256 = r /\ (n \div 256) % 256 = g /\ n % 256 = b
  BY <1>1, <1>3, Digits
<1>5. FromInt(n) = Rgb(r, g, b)
  BY <1>4 DEF FromInt
<1>6. QED
  BY <1>1, <1>2, <1>3, <1>5

\* An integer becomes a colour, and comes back without what does not fit into three bytes, a
\* negative one as the rest modulo 2 ^ 24 (CColor::fromInt, asInt).
THEOREM IntFromItsColour ==
  \A n \in Int : FromInt(n) \in CColor /\ ColourAsInt(FromInt(n)) = n % 16777216
<1> SUFFICES ASSUME NEW n \in Int
             PROVE  FromInt(n) \in CColor /\ ColourAsInt(FromInt(n)) = n % 16777216
  OBVIOUS
<1>1. (n \div 65536) % 256 \in 0..255 /\ (n \div 256) % 256 \in 0..255 /\ n % 256 \in 0..255
  BY SMT
<1>2. FromInt(n) \in CColor
  BY <1>1 DEF FromInt, Rgb, CColor, Component
<1> DEFINE r == (n \div 65536) % 256
           g == (n \div 256) % 256
           b == n % 256
<1>3. FromInt(n) = Rgb(r, g, b)
  BY DEF FromInt
<1>4. 65536 * r + 256 * g + b = n % 16777216
  BY FromDigits
<1> HIDE DEF r, g, b
<1>5. ColourAsInt(Rgb(r, g, b)) = 65536 * r + 256 * g + b
  BY DEF ColourAsInt, Rgb
<1>6. QED
  BY <1>2, <1>3, <1>4, <1>5

-----------------------------------------------------------------------------
(***************************************************************************)
(* Dates.                                                                  *)
(***************************************************************************)

\* A date that is moved on by an interval and back is the date cut down to whole seconds
\* (CDateTime::operator+, operator-).
THEOREM LaterAndEarlier ==
  \A time, interval \in Nat :
    Earlier(Later(time, interval), interval) = FromTimestamp(AsUnixTimestamp(time))
<1> SUFFICES ASSUME NEW time \in Nat, NEW interval \in Nat
             PROVE  Earlier(Later(time, interval), interval) = FromTimestamp(AsUnixTimestamp(time))
  OBVIOUS
<1> DEFINE t == time \div 1000
           i == interval \div 1000
<1>1. t \in Nat /\ i \in Nat
  BY SMT
<1> HIDE DEF t, i
<1>2. (1000 * (t + i)) \div 1000 = t + i
  BY <1>1, SMT
<1>3. 1000 * (((1000 * (t + i)) \div 1000) - i) = 1000 * t
  BY <1>1, <1>2
<1>4. QED
  BY <1>3 DEF Earlier, Later, FromTimestamp, AsUnixTimestamp, Seconds, t, i

\* Division by the seconds of a day and what it leaves.
LEMMA DivideByDay ==
  ASSUME NEW s \in Nat
  PROVE  /\ s \div Day \in Nat /\ s % Day \in Nat /\ s % Day < Day
         /\ s = Day * (s \div Day) + (s % Day)
BY SMT DEF Day

\* A second of a day, and one of the seconds since the epoch that are there then.
LEMMA SecondOfDay ==
  ASSUME NEW day \in Nat, NEW second \in Nat, second < Day
  PROVE  /\ day * Day + second \in Nat
         /\ (day * Day + second) % Day = second
BY SMT DEF Day

\* The next second of that number is less than a day away.
LEMMA NextSecond ==
  ASSUME NEW d \in Nat, NEW r \in Nat, r < Day, NEW second \in Nat, second < Day,
         NEW day \in Nat, day = IF second < r THEN d + 1 ELSE d
  PROVE  Day * d + r <= day * Day + second /\ day * Day + second < (Day * d + r) + Day
<1>1. CASE second < r
  BY <1>1, SMT DEF Day
<1>2. CASE ~(second < r)
  BY <1>2, SMT DEF Day
<1>3. QED
  BY <1>1, <1>2

\* A time of the day is the next instant at which the clock shows it: not before the second it is
\* now, less than a day ahead, and at that time of the day (CDateTime::CDateTime(std::string)).
THEOREM TimeOfDayIsNext ==
  \A second, now \in Nat : second < Day =>
    LET then == AsUnixTimestamp(FromTimeOfDay(second, now))
    IN  /\ then % Day = second
        /\ AsUnixTimestamp(now) <= then /\ then < AsUnixTimestamp(now) + Day
<1> SUFFICES ASSUME NEW second \in Nat, NEW now \in Nat, second < Day
             PROVE  LET then == AsUnixTimestamp(FromTimeOfDay(second, now))
                    IN  /\ then % Day = second
                        /\ AsUnixTimestamp(now) <= then /\ then < AsUnixTimestamp(now) + Day
  BY Zenon
<1>1. PICK s \in Nat : s = AsUnixTimestamp(now)
  <2>1. now \div 1000 \in Nat
    BY SMT
  <2>2. QED
    BY <2>1 DEF AsUnixTimestamp
<1>2. PICK d \in Nat, r \in Nat : s = Day * d + r /\ r < Day /\ d = s \div Day /\ r = s % Day
  BY DivideByDay
<1>3. PICK day \in Nat : day = IF second < r THEN d + 1 ELSE d
  BY SMT
<1>4. PICK then \in Nat : then = day * Day + second /\ then % Day = second
  BY SecondOfDay
<1>5. FromTimeOfDay(second, now) = 1000 * then + 0
  <2>1. FromTimeOfDay(second, now) = FromParts(day, second, 0)
    <3>1. CASE second < r
      BY <1>1, <1>2, <1>3, <3>1, Zenon DEF FromTimeOfDay
    <3>2. CASE ~(second < r)
      BY <1>1, <1>2, <1>3, <3>2, Zenon DEF FromTimeOfDay
    <3>3. QED
      BY <3>1, <3>2
  <2>2. QED
    BY <2>1, <1>4, Zenon DEF FromParts, FromTimestamp
<1>6. AsUnixTimestamp(FromTimeOfDay(second, now)) = then
  <2>1. (1000 * then + 0) \div 1000 = then
    BY SMT
  <2>2. QED
    BY <1>5, <2>1 DEF AsUnixTimestamp
<1>7. s <= then /\ then < s + Day
  BY <1>2, <1>3, <1>4, NextSecond
<1>8. QED
  BY <1>1, <1>4, <1>6, <1>7

\* The comparisons that scripts write are not those they get: < answers what <= should, and an
\* interval or a date is less than itself (CDateTime, CTimeInterval: the operators).
THEOREM LessIsReflexive ==
  \A a, b \in Int :
    /\ OperatorLess(a, b) <=> (OperatorLessEqual(a, b) \/ a = b)
    /\ OperatorLess(a, a) /\ ~OperatorLessEqual(a, a)
    /\ OperatorLess(a, b) <=> OperatorGreater(b, a)
BY DEF OperatorLess, OperatorLessEqual, OperatorGreater

-----------------------------------------------------------------------------
(***************************************************************************)
(* The modem: what sendSms says is true.                                   *)
(***************************************************************************)
\* The discipline: the device may be pulled, nothing else goes wrong.
Steady == trouble \in {"none", "pulled"}

\* A thread in a call, under the discipline.
ThreadState(n) ==
  [pc : {"idle", "lock", "write", "read", "leave"}, call : Locking, step : 1..5, with : 0..n,
   got : SUBSET Chunk, number : Nat, ok : BOOLEAN, opening : BOOLEAN]

\* The number of steps of the dialogue.
Length(t) == IF t.opening THEN 1 ELSE Len(Dialogue[t.call])

Message == [command : Command, number : Nat]

GsmTyped ==
  /\ made \in Nat /\ current \in 0..made
  /\ thread \in [Caller -> ThreadState(made)]
  /\ \A c \in Caller : /\ thread[c].step \in 1..Length(thread[c])
                       /\ thread[c].pc = "lock" => thread[c].step = 1
  /\ holder \in Seq(Caller \cup {"none"}) /\ Len(holder) = made
  /\ wire \in Seq(Message) /\ line \in Seq(Chunk)
  /\ modem \in [typing : BOOLEAN, rest : {FALSE}, network : BOOLEAN]
  /\ dialogs \in Nat /\ ~gub

\* In the constructor, or in the dialogue behind the mutex.
Active(c) == thread[c].pc \in {"write", "read", "leave"}

\* There is one object, and whoever makes it is alone.
OneObject ==
  /\ made \in 0..1
  /\ \A c \in Caller : thread[c].pc # "idle" => made = 1 /\ thread[c].with = 1
  /\ \A c \in Caller : thread[c].opening =>
       /\ thread[c].pc \in {"write", "read"}
       /\ \A d \in Caller : d # c => thread[d].pc = "idle"
  /\ made = 1 /\ current = 0 => \E c \in Caller : thread[c].opening

\* The mutex.
Guarded == \A c \in Caller : Active(c) /\ ~thread[c].opening => holder[1] = c

\* The steps of a dialogue that are not one command with one answer.
CmgsStep(c) == ~thread[c].opening /\ thread[c].call = "sendSms" /\ thread[c].step = 4
TextStep(c) == ~thread[c].opening /\ thread[c].call = "sendSms" /\ thread[c].step = 5
NetworkStep(c) == ~thread[c].opening /\ thread[c].call = "ussd" /\ thread[c].step = 3
Simple(c) == ~CmgsStep(c) /\ ~TextStep(c) /\ ~NetworkStep(c)

\* Nobody is owed anything.
Clean == line = <<>> /\ wire = <<>> /\ ~modem.typing /\ ~modem.network

Said(chunk) == chunk \in ToSet(line)

\* CMGS has been written: its answer is on its way, has come, or has been read.
Prompting ==
  /\ ~Said("OK") /\ ~modem.network
  /\ \/ wire = <<>>
     \/ ~modem.typing /\ Len(wire) = 1 /\ wire[1].command = "CMGS"

\* The answer of the network is to come or has come.
Networking ==
  /\ wire = <<>> /\ ~modem.typing
  /\ (modem.network /\ line = <<>>) \/ (~modem.network /\ line = <<"+CUSD">>)

\* One command is to be answered, has been answered, or was answered with an ERROR by a modem
\* that is waited for.
Asking(c) ==
  /\ ~modem.typing /\ (Item(c).how # "wait" => thread[c].got = {})
  /\ \/ /\ line = <<>> /\ ~modem.network
        /\ Len(wire) = 1 /\ wire[1].command = Item(c).command
     \/ /\ line # <<>> /\ wire = <<>>
        /\ modem.network <=> Item(c).command = "CUSD" /\ Said("OK")
     \/ /\ line = <<>> /\ wire = <<>> /\ ~modem.network
        /\ Item(c).how = "wait" /\ "OK" \notin thread[c].got

\* What is on the line is for the thread that is in a dialogue.
InDialogue(c) ==
  CASE thread[c].pc = "leave" -> Clean
    [] thread[c].pc = "write" ->
         IF TextStep(c) THEN Prompting ELSE IF NetworkStep(c) THEN Networking ELSE Clean
    [] thread[c].pc = "read" ->
         IF CmgsStep(c) THEN Prompting
         ELSE IF NetworkStep(c) THEN Networking ELSE Simple(c) => Asking(c)

InOrder ==
  plugged => /\ \A c \in Caller : Active(c) => InDialogue(c)
             /\ (\A c \in Caller : ~Active(c)) => Clean

Text(n) == [command |-> "text", number |-> n]

\* The text has been written, and an OK can only mean that it has been accepted.
Texting(c) ==
  LET n == thread[c].number
      told == "OK" \in thread[c].got \/ Said("OK")
  IN  /\ ~modem.network
      /\ \/ /\ ~told /\ ~modem.typing
            /\ Len(wire) = 2 /\ wire[1].command = "CMGS" /\ wire[2] = Text(n)
         \/ ~told /\ Len(wire) = 1 /\ wire[1] = Text(n)
         \/ wire = <<>> /\ ~modem.typing /\ (told => n \in accepted)

Truthful ==
  /\ \A c \in Caller : thread[c].pc = "read" /\ TextStep(c) => Texting(c)
  /\ \A c \in Caller :
       thread[c].pc = "leave" /\ thread[c].call = "sendSms" /\ thread[c].ok =>
         thread[c].number \in accepted
  /\ sent \subseteq accepted

Sound == GsmTyped /\ OneObject /\ Guarded /\ InOrder /\ Truthful

GsmInv == Steady => Sound

-----------------------------------------------------------------------------
\* The dialogues, step by step.
LEMMA DialogueFacts ==
  /\ Len(Dialogue["sendSms"]) = 5
  /\ Dialogue["sendSms"][1] = Wait("CMGF") /\ Dialogue["sendSms"][2] = Wait("CSMP")
  /\ Dialogue["sendSms"][3] = Wait("CSCS") /\ Dialogue["sendSms"][4] = Now("CMGS")
  /\ Dialogue["sendSms"][5] = Wait("text")
  /\ Len(Dialogue["ussd"]) = 3
  /\ Dialogue["ussd"][1] = Checked("CSCS") /\ Dialogue["ussd"][2] = Checked("CUSD")
  /\ Dialogue["ussd"][3] = [command |-> "none", how |-> "cusd"]
  /\ Len(Dialogue["ready"]) = 2
  /\ Dialogue["ready"][1] = Checked("AT") /\ Dialogue["ready"][2] = Once("CPAS")
  /\ Len(Dialogue["query"]) = 1 /\ Dialogue["query"][1] = Once("CSQ")
  /\ Len(Dialogue["open"]) = 1 /\ Dialogue["open"][1] = Once("CMEE")
BY DEF Dialogue

\* What a step of a dialogue is.
LEMMA ItemFacts ==
  ASSUME NEW c \in Caller, thread[c] \in ThreadState(made), thread[c].step \in 1..Length(thread[c])
  PROVE  /\ Len(Program(c)) = Length(thread[c]) /\ Length(thread[c]) \in 1..5
         /\ TextStep(c) => /\ Item(c).command = "text" /\ Item(c).how = "wait"
                           /\ thread[c].step = Length(thread[c])
         /\ CmgsStep(c) => /\ Item(c).command = "CMGS" /\ Item(c).how = "now"
                           /\ thread[c].step # Length(thread[c])
         /\ NetworkStep(c) => /\ Item(c).command = "none" /\ Item(c).how = "cusd"
                              /\ thread[c].step = Length(thread[c])
         /\ Simple(c) =>
              /\ Item(c).command \in {"CMGF", "CSMP", "CSCS", "CUSD", "AT", "CPAS", "CSQ", "CMEE"}
              /\ Item(c).how \in {"wait", "checked", "once"}
              /\ Item(c).command = "CUSD" <=>
                   ~thread[c].opening /\ thread[c].call = "ussd" /\ thread[c].step = 2
              /\ Item(c).command = "CUSD" =>
                   Item(c).how = "checked" /\ thread[c].step # Length(thread[c])
              /\ thread[c].call = "sendSms" /\ ~thread[c].opening =>
                   thread[c].step # Length(thread[c])
<1> DEFINE t == thread[c]
<1>1. t.call \in {"sendSms", "ussd", "ready", "query"} /\ t.opening \in BOOLEAN
  BY DEF ThreadState, Locking
<1>w. \A x : /\ Wait(x).command = x /\ Wait(x).how = "wait"
             /\ Checked(x).command = x /\ Checked(x).how = "checked"
             /\ Once(x).command = x /\ Once(x).how = "once"
             /\ Now(x).command = x /\ Now(x).how = "now"
  BY DEF Wait, Checked, Once, Now
<1>2. CASE t.opening
  <2>1. Program(c) = Dialogue["open"] /\ Length(t) = 1 /\ t.step = 1
    BY <1>2 DEF Program, Length, Dialogue
  <2>2. Item(c) = Once("CMEE") /\ Len(Program(c)) = 1
    BY <2>1, DialogueFacts DEF Item
  <2>3. Item(c).command = "CMEE" /\ Item(c).how = "once"
    BY <2>2, <1>w
  <2>4. QED
    BY <1>2, <2>1, <2>2, <2>3 DEF TextStep, CmgsStep, NetworkStep, Simple
<1>3. CASE ~t.opening /\ t.call = "sendSms"
  <2>1. Program(c) = Dialogue["sendSms"] /\ Length(t) = 5
    BY <1>3, DialogueFacts DEF Program, Length
  <2>2. t.step \in 1..5
    BY <2>1
  <2>3. Item(c) = Dialogue["sendSms"][t.step] /\ Len(Program(c)) = 5
    BY <2>1, DialogueFacts DEF Item
  <2>4. /\ t.step = 1 => Item(c).command = "CMGF" /\ Item(c).how = "wait"
        /\ t.step = 2 => Item(c).command = "CSMP" /\ Item(c).how = "wait"
        /\ t.step = 3 => Item(c).command = "CSCS" /\ Item(c).how = "wait"
        /\ t.step = 4 => Item(c).command = "CMGS" /\ Item(c).how = "now"
        /\ t.step = 5 => Item(c).command = "text" /\ Item(c).how = "wait"
    BY <2>3, <1>w, DialogueFacts
  <2>5. QED
    BY <1>3, <2>1, <2>2, <2>3, <2>4 DEF TextStep, CmgsStep, NetworkStep, Simple
<1>4. CASE ~t.opening /\ t.call = "ussd"
  <2>1. Program(c) = Dialogue["ussd"] /\ Length(t) = 3
    BY <1>4, DialogueFacts DEF Program, Length
  <2>2. t.step \in 1..3
    BY <2>1
  <2>3. Item(c) = Dialogue["ussd"][t.step] /\ Len(Program(c)) = 3
    BY <2>1, DialogueFacts DEF Item
  <2>4. /\ t.step = 1 => Item(c).command = "CSCS" /\ Item(c).how = "checked"
        /\ t.step = 2 => Item(c).command = "CUSD" /\ Item(c).how = "checked"
        /\ t.step = 3 => Item(c).command = "none" /\ Item(c).how = "cusd"
    BY <2>3, <1>w, DialogueFacts
  <2>5. QED
    BY <1>4, <2>1, <2>2, <2>3, <2>4 DEF TextStep, CmgsStep, NetworkStep, Simple
<1>5. CASE ~t.opening /\ t.call = "ready"
  <2>1. Program(c) = Dialogue["ready"] /\ Length(t) = 2
    BY <1>5, DialogueFacts DEF Program, Length
  <2>2. t.step \in 1..2
    BY <2>1
  <2>3. Item(c) = Dialogue["ready"][t.step] /\ Len(Program(c)) = 2
    BY <2>1, DialogueFacts DEF Item
  <2>4. /\ t.step = 1 => Item(c).command = "AT" /\ Item(c).how = "checked"
        /\ t.step = 2 => Item(c).command = "CPAS" /\ Item(c).how = "once"
    BY <2>3, <1>w, DialogueFacts
  <2>5. QED
    BY <1>5, <2>1, <2>2, <2>3, <2>4 DEF TextStep, CmgsStep, NetworkStep, Simple
<1>6. CASE ~t.opening /\ t.call = "query"
  <2>1. Program(c) = Dialogue["query"] /\ Length(t) = 1
    BY <1>6, DialogueFacts DEF Program, Length
  <2>2. t.step = 1
    BY <2>1
  <2>3. Item(c) = Once("CSQ") /\ Len(Program(c)) = 1
    BY <2>1, <2>2, DialogueFacts DEF Item
  <2>4. Item(c).command = "CSQ" /\ Item(c).how = "once"
    BY <2>3, <1>w
  <2>5. QED
    BY <1>6, <2>1, <2>2, <2>3, <2>4 DEF TextStep, CmgsStep, NetworkStep, Simple
<1>7. QED
  BY <1>1, <1>2, <1>3, <1>4, <1>5, <1>6

\* A thread with one field changed; the others are what they were.
LEMMA PcUpdated ==
  ASSUME NEW n \in Nat, NEW t \in ThreadState(n), NEW v \in {"idle", "lock", "write", "read", "leave"}
  PROVE  /\ [t EXCEPT !.pc = v] \in ThreadState(n)
         /\ [t EXCEPT !.pc = v].pc = v
         /\ [t EXCEPT !.pc = v].call = t.call
         /\ [t EXCEPT !.pc = v].step = t.step
         /\ [t EXCEPT !.pc = v].with = t.with
         /\ [t EXCEPT !.pc = v].got = t.got
         /\ [t EXCEPT !.pc = v].number = t.number
         /\ [t EXCEPT !.pc = v].ok = t.ok
         /\ [t EXCEPT !.pc = v].opening = t.opening
BY DEF ThreadState

\* For what has been read in this step.
LEMMA GotUpdated ==
  ASSUME NEW n \in Nat, NEW t \in ThreadState(n), NEW v \in SUBSET Chunk
  PROVE  /\ [t EXCEPT !.got = v] \in ThreadState(n)
         /\ [t EXCEPT !.got = v].got = v
         /\ [t EXCEPT !.got = v].pc = t.pc
         /\ [t EXCEPT !.got = v].call = t.call
         /\ [t EXCEPT !.got = v].step = t.step
         /\ [t EXCEPT !.got = v].with = t.with
         /\ [t EXCEPT !.got = v].number = t.number
         /\ [t EXCEPT !.got = v].ok = t.ok
         /\ [t EXCEPT !.got = v].opening = t.opening
BY DEF ThreadState

\* For the result of the call.
LEMMA OkUpdated ==
  ASSUME NEW n \in Nat, NEW t \in ThreadState(n), NEW v \in BOOLEAN
  PROVE  /\ [t EXCEPT !.ok = v] \in ThreadState(n)
         /\ [t EXCEPT !.ok = v].ok = v
         /\ [t EXCEPT !.ok = v].pc = t.pc
         /\ [t EXCEPT !.ok = v].call = t.call
         /\ [t EXCEPT !.ok = v].step = t.step
         /\ [t EXCEPT !.ok = v].with = t.with
         /\ [t EXCEPT !.ok = v].got = t.got
         /\ [t EXCEPT !.ok = v].number = t.number
         /\ [t EXCEPT !.ok = v].opening = t.opening
BY DEF ThreadState

\* For being in the constructor.
LEMMA OpeningUpdated ==
  ASSUME NEW n \in Nat, NEW t \in ThreadState(n), NEW v \in BOOLEAN
  PROVE  /\ [t EXCEPT !.opening = v] \in ThreadState(n)
         /\ [t EXCEPT !.opening = v].opening = v
         /\ [t EXCEPT !.opening = v].pc = t.pc
         /\ [t EXCEPT !.opening = v].call = t.call
         /\ [t EXCEPT !.opening = v].step = t.step
         /\ [t EXCEPT !.opening = v].with = t.with
         /\ [t EXCEPT !.opening = v].got = t.got
         /\ [t EXCEPT !.opening = v].number = t.number
         /\ [t EXCEPT !.opening = v].ok = t.ok
BY DEF ThreadState

\* A thread changes, the others do not.
LEMMA ThreadChanged ==
  ASSUME NEW n \in Nat, thread \in [Caller -> ThreadState(n)], NEW c \in Caller, NEW r,
         thread' = [thread EXCEPT ![c] = r]
  PROVE  /\ thread'[c] = r
         /\ \A d \in Caller : d # c => thread'[d] = thread[d]
         /\ r \in ThreadState(n) => thread' \in [Caller -> ThreadState(n)]
OBVIOUS

\* The end of a step: the next one, or the end of the dialogue, or of the constructor.
LEMMA ProceedFacts ==
  ASSUME GsmTyped, NEW c \in Caller, NEW good \in BOOLEAN, Proceed(c, good)
  PROVE  LET t == thread[c]
             u == thread'[c]
             over == ~good \/ t.step = Length(t)
         IN  /\ thread' \in [Caller -> ThreadState(made)]
             /\ \A d \in Caller : d # c => thread'[d] = thread[d]
             /\ u.step \in 1..Length(u)
             /\ u.call = t.call /\ u.with = t.with /\ u.number = t.number
             /\ ~over => /\ u.pc = "write" /\ u.step = t.step + 1 /\ u.opening = t.opening
                         /\ current' = current
             /\ over /\ t.opening => /\ u.pc = "lock" /\ u.step = 1 /\ ~u.opening
                                     /\ current' = t.with
             /\ over /\ ~t.opening => /\ u.pc = "leave" /\ u.ok = good /\ ~u.opening
                                      /\ u.step = t.step /\ current' = current
<1> DEFINE t == thread[c]
           over == ~good \/ t.step = Length(t)
<1>1. t \in ThreadState(made) /\ t.step \in 1..Length(t) /\ made \in Nat
  <2>1. \A d \in Caller : thread[d] \in ThreadState(made)
    BY DEF GsmTyped
  <2>2. \A d \in Caller : thread[d].step \in 1..Length(thread[d])
    BY DEF GsmTyped
  <2>3. QED
    BY <2>1, <2>2 DEF GsmTyped
<1>2. Len(Program(c)) = Length(t) /\ Length(t) \in 1..5
  BY <1>1, ItemFacts
<1>s. \A q \in ThreadState(made), v \in 1..5 :
        LET p == [q EXCEPT !.step = v]
        IN  /\ p \in ThreadState(made) /\ p.step = v /\ p.opening = q.opening
            /\ p.call = q.call /\ p.with = q.with /\ p.number = q.number
  <2> TAKE q \in ThreadState(made), v \in 1..5
  <2> QED
    BY <1>1 DEF ThreadState
<1>p. \A q \in ThreadState(made), v \in {"write", "lock"} :
        LET p == [q EXCEPT !.pc = v]
        IN  /\ p \in ThreadState(made) /\ p.pc = v /\ p.step = q.step /\ p.opening = q.opening
            /\ p.call = q.call /\ p.with = q.with /\ p.number = q.number
  <2> TAKE q \in ThreadState(made), v \in {"write", "lock"}
  <2> QED
    BY <1>1 DEF ThreadState
<1>3. CASE ~over
  <2> DEFINE r == [t EXCEPT !.step = t.step + 1, !.pc = "write", !.got = {}]
  <2>0. good /\ thread[c].step # Len(Program(c))
    BY <1>2, <1>3
  <2>1. thread' = [thread EXCEPT ![c] = r] /\ current' = current
    BY <2>0 DEF Proceed
  <2>2. t.step + 1 \in 1..5 /\ t.step + 1 \in 1..Length(t)
    BY <1>1, <1>2, <1>3
  <2>3. /\ r \in ThreadState(made) /\ r.pc = "write" /\ r.step = t.step + 1
        /\ r.opening = t.opening /\ r.call = t.call /\ r.with = t.with /\ r.number = t.number
    <3> DEFINE q == [t EXCEPT !.step = t.step + 1]
               p == [q EXCEPT !.pc = "write"]
    <3>1. /\ q \in ThreadState(made) /\ q.step = t.step + 1
          /\ q.opening = t.opening /\ q.call = t.call /\ q.with = t.with /\ q.number = t.number
      BY <1>1, <2>2, <1>s
    <3> HIDE DEF q
    <3>2. /\ p \in ThreadState(made) /\ p.pc = "write" /\ p.step = q.step
          /\ p.opening = q.opening /\ p.call = q.call /\ p.with = q.with /\ p.number = q.number
      BY <3>1, <1>p
    <3> HIDE DEF p
    <3>3. LET o == [p EXCEPT !.got = {}]
          IN  /\ o \in ThreadState(made) /\ o.pc = p.pc /\ o.step = p.step
              /\ o.opening = p.opening /\ o.call = p.call /\ o.with = p.with /\ o.number = p.number
      BY <1>1, <3>2, GotUpdated
    <3>4. r = [p EXCEPT !.got = {}]
      BY DEF p, q
    <3>5. QED
      BY <3>1, <3>2, <3>3, <3>4
  <2> HIDE DEF r
  <2>4. Length(r) = Length(t)
    BY <2>3 DEF Length
  <2>5. QED
    BY <1>1, <1>3, <2>1, <2>2, <2>3, <2>4, ThreadChanged DEF GsmTyped
<1>4. CASE over /\ t.opening
  <2> DEFINE r == [t EXCEPT !.opening = FALSE, !.step = 1, !.got = {}, !.pc = Entry(t.call)]
  <2>1. thread' = [thread EXCEPT ![c] = r] /\ current' = t.with
    BY <1>2, <1>4 DEF Proceed, GsmTyped
  <2>2. Entry(t.call) = "lock"
    BY <1>1 DEF Entry, ThreadState
  <2>3. /\ r \in ThreadState(made) /\ r.pc = "lock" /\ r.step = 1
        /\ ~r.opening /\ r.call = t.call /\ r.with = t.with /\ r.number = t.number
    <3> DEFINE q == [t EXCEPT !.opening = FALSE]
               p == [q EXCEPT !.step = 1]
               o == [p EXCEPT !.got = {}]
    <3>1. /\ q \in ThreadState(made) /\ ~q.opening
          /\ q.call = t.call /\ q.with = t.with /\ q.number = t.number
      BY <1>1, OpeningUpdated
    <3> HIDE DEF q
    <3>2. /\ p \in ThreadState(made) /\ p.step = 1 /\ p.opening = q.opening
          /\ p.call = q.call /\ p.with = q.with /\ p.number = q.number
      BY <1>1, <3>1 DEF ThreadState
    <3> HIDE DEF p
    <3>3. /\ o \in ThreadState(made) /\ o.step = p.step /\ o.opening = p.opening
          /\ o.call = p.call /\ o.with = p.with /\ o.number = p.number
      BY <1>1, <3>2, GotUpdated
    <3> HIDE DEF o
    <3>4. LET m == [o EXCEPT !.pc = "lock"]
          IN  /\ m \in ThreadState(made) /\ m.pc = "lock" /\ m.step = o.step
              /\ m.opening = o.opening /\ m.call = o.call /\ m.with = o.with /\ m.number = o.number
      BY <3>3, <1>p
    <3>5. r = [o EXCEPT !.pc = "lock"]
      BY <2>2 DEF o, p, q
    <3>6. QED
      BY <3>1, <3>2, <3>3, <3>4, <3>5
  <2> HIDE DEF r
  <2>4. 1 \in 1..Length(r)
    <3>1. r.call \in Locking
      BY <2>3 DEF ThreadState
    <3>2. QED
      BY <2>3, <3>1, DialogueFacts DEF Length, Locking
  <2>5. QED
    BY <1>1, <1>4, <2>1, <2>3, <2>4, ThreadChanged DEF GsmTyped
<1>5. CASE over /\ ~t.opening
  <2> DEFINE r == [t EXCEPT !.pc = "leave", !.ok = good]
  <2>1. thread' = [thread EXCEPT ![c] = r] /\ current' = current
    BY <1>2, <1>5 DEF Proceed, GsmTyped
  <2>2. /\ r \in ThreadState(made) /\ r.pc = "leave" /\ r.step = t.step /\ r.ok = good
        /\ ~r.opening /\ r.call = t.call /\ r.with = t.with /\ r.number = t.number
    <3> DEFINE q == [t EXCEPT !.pc = "leave"]
    <3>1. /\ q \in ThreadState(made) /\ q.pc = "leave" /\ q.step = t.step
          /\ q.opening = t.opening /\ q.call = t.call /\ q.with = t.with /\ q.number = t.number
      BY <1>1, PcUpdated
    <3> HIDE DEF q
    <3>2. LET o == [q EXCEPT !.ok = good]
          IN  /\ o \in ThreadState(made) /\ o.ok = good /\ o.pc = q.pc /\ o.step = q.step
              /\ o.opening = q.opening /\ o.call = q.call /\ o.with = q.with /\ o.number = q.number
      BY <1>1, <3>1, OkUpdated
    <3>3. r = [q EXCEPT !.ok = good]
      BY DEF q
    <3>4. QED
      BY <1>5, <3>1, <3>2, <3>3
  <2> HIDE DEF r
  <2>3. Length(r) = Length(t)
    BY <1>5, <2>2 DEF Length
  <2>4. QED
    BY <1>1, <1>5, <2>1, <2>2, <2>3, ThreadChanged DEF GsmTyped
<1>6. QED
  BY <1>3, <1>4, <1>5

\* What is on the wire.
LEMMA WireFacts ==
  ASSUME wire \in Seq(Message), wire # <<>>
  PROVE  /\ Len(wire) \in Nat \ {0} /\ Head(wire) = wire[1] /\ wire[1] \in Message
         /\ Tail(wire) \in Seq(Message)
         /\ Len(wire) = 1 => Tail(wire) = <<>>
         /\ Len(wire) = 2 => Len(Tail(wire)) = 1 /\ Tail(wire)[1] = wire[2]
<1>1. Len(wire) \in Nat \ {0} /\ Head(wire) = wire[1] /\ wire[1] \in Message
  OBVIOUS
<1>2. Tail(wire) \in Seq(Message) /\ Len(Tail(wire)) = Len(wire) - 1
  OBVIOUS
<1>3. Len(wire) = 1 => Tail(wire) = <<>>
  <2>1. \A s \in Seq(Message) : Len(s) = 0 => s = <<>>
    OBVIOUS
  <2> DEFINE s == Tail(wire)
  <2>2. Len(wire) = 1 => s \in Seq(Message) /\ Len(s) = 0
    BY <1>2
  <2> HIDE DEF s
  <2>3. Len(wire) = 1 => s = <<>>
    BY <2>1, <2>2
  <2>4. QED
    BY <2>3 DEF s
<1>4. Len(wire) = 2 => Len(Tail(wire)) = 1 /\ Tail(wire)[1] = wire[2]
  BY <1>2
<1>5. QED
  BY <1>1, <1>2, <1>3, <1>4

\* What the modem says.
LEMMA SaysFacts ==
  ASSUME line \in Seq(Chunk), NEW chunk \in Chunk, Says(<<chunk>>)
  PROVE  /\ line' \in Seq(Chunk) /\ line' # <<>>
         /\ line = <<>> => line' = <<chunk>>
         /\ \A x : Said(x)' <=> Said(x) \/ x = chunk
<1>1. line' = line \o <<chunk>> /\ line' \in Seq(Chunk) /\ Len(line') = Len(line) + 1
      /\ Len(line) \in Nat
  BY DEF Says
<1>2. line'[Len(line) + 1] = chunk /\ \A k \in 1..Len(line) : line'[k] = line[k]
  BY DEF Says
<1>3. DOMAIN line = 1..Len(line) /\ DOMAIN line' = 1..Len(line) + 1
  BY <1>1
<1>4. \A x : Said(x)' <=> Said(x) \/ x = chunk
  <2>1. \A x : Said(x) <=> \E k \in 1..Len(line) : line[k] = x
    BY <1>3 DEF Said, ToSet
  <2>2. \A x : Said(x)' <=> \E k \in 1..Len(line) + 1 : line'[k] = x
    BY <1>3 DEF Said, ToSet
  <2>3. QED
    BY <1>1, <1>2, <2>1, <2>2
<1>5. line = <<>> => line' = <<chunk>>
  BY DEF Says
<1>6. line' # <<>>
  BY <1>1
<1>7. QED
  BY <1>1, <1>4, <1>5, <1>6

\* The data and the OK of a query.
LEMMA SaysTwoFacts ==
  ASSUME line \in Seq(Chunk), Says(<<"answer", "OK">>)
  PROVE  /\ line' \in Seq(Chunk) /\ line' # <<>>
         /\ \A x : Said(x)' <=> Said(x) \/ x = "answer" \/ x = "OK"
<1>1. /\ line' = line \o <<"answer", "OK">> /\ line' \in Seq(Chunk) /\ Len(line') = Len(line) + 2
      /\ Len(line) \in Nat
  BY DEF Says, Chunk
<1>2. /\ line'[Len(line) + 1] = "answer" /\ line'[Len(line) + 2] = "OK"
      /\ \A k \in 1..Len(line) : line'[k] = line[k]
  BY DEF Says
<1>3. DOMAIN line = 1..Len(line) /\ DOMAIN line' = 1..Len(line) + 2
  BY <1>1
<1>4. \A x : Said(x)' <=> Said(x) \/ x = "answer" \/ x = "OK"
  <2>1. \A x : Said(x) <=> \E k \in 1..Len(line) : line[k] = x
    BY <1>3 DEF Said, ToSet
  <2>2. \A x : Said(x)' <=> \E k \in 1..Len(line) + 2 : line'[k] = x
    BY <1>3 DEF Said, ToSet
  <2>3. QED
    BY <1>1, <1>2, <2>1, <2>2
<1>5. QED
  BY <1>1, <1>4

-----------------------------------------------------------------------------
\* Whoever is in a dialogue or in the constructor is alone there.
LEMMA Alone ==
  ASSUME GsmTyped, OneObject, Guarded, NEW c \in Caller, Active(c)
  PROVE  /\ \A d \in Caller : d # c => ~Active(d)
         /\ made = 1 /\ thread[c].with = 1
         /\ current = 0 => thread[c].opening
<1>1. made = 1 /\ thread[c].with = 1
  BY DEF OneObject, Active
<1>2. ASSUME NEW d \in Caller, d # c PROVE ~Active(d)
  <2>1. CASE thread[c].opening \/ thread[d].opening
    BY <1>2, <2>1 DEF OneObject, Active
  <2>2. CASE ~thread[c].opening /\ ~thread[d].opening
    BY <1>2, <2>2 DEF Guarded
  <2>3. QED
    BY <2>1, <2>2
<1>3. ASSUME current = 0 PROVE thread[c].opening
  <2>1. PICK d \in Caller : thread[d].opening
    BY <1>1, <1>3 DEF OneObject
  <2>2. QED
    BY <2>1 DEF OneObject, Active
<1>4. QED
  BY <1>1, <1>2, <1>3

\* What remains to be shown of a step of the thread in a dialogue: what it finds on the line next,
\* and what it believes.
LEMMA ActiveStep ==
  ASSUME Steady, Sound, NEW c \in Caller, Active(c),
         thread' \in [Caller -> ThreadState(made)],
         \A d \in Caller : d # c => thread'[d] = thread[d],
         thread'[c].step \in 1..Length(thread'[c]),
         thread'[c].pc = "lock" => thread'[c].step = 1,
         thread'[c].with = thread[c].with,
         \/ /\ thread'[c].pc \in {"write", "read"} /\ thread'[c].opening = thread[c].opening
            /\ current' = current
         \/ /\ thread'[c].pc = "lock" /\ thread[c].opening /\ ~thread'[c].opening
            /\ current' = thread[c].with
         \/ /\ thread'[c].pc = "leave" /\ ~thread[c].opening /\ ~thread'[c].opening
            /\ current' = current,
         UNCHANGED <<made, holder, modem, dialogs, sent, accepted, plugged, gub, trouble>>,
         wire' \in Seq(Message), line' \in Seq(Chunk),
         plugged => IF Active(c)' THEN InDialogue(c)' ELSE Clean',
         thread'[c].pc = "read" /\ TextStep(c)' => Texting(c)',
         thread'[c].pc = "leave" /\ thread'[c].call = "sendSms" /\ thread'[c].ok =>
           thread'[c].number \in accepted
  PROVE  Sound'
<1>1. /\ \A d \in Caller : d # c => ~Active(d)
      /\ made = 1 /\ thread[c].with = 1
      /\ current = 0 => thread[c].opening
  BY Alone DEF Sound
<1>2. \A d \in Caller : d # c => ~Active(d)' /\ thread'[d] = thread[d]
  BY <1>1 DEF Active
<1>3. GsmTyped'
  <2>1. current' \in 0..made'
    BY <1>1 DEF Sound, GsmTyped
  <2>2. ASSUME NEW d \in Caller
        PROVE  /\ thread'[d].step \in 1..Length(thread'[d])
               /\ thread'[d].pc = "lock" => thread'[d].step = 1
    BY <1>2 DEF Sound, GsmTyped
  <2>3. QED
    BY <2>1, <2>2 DEF Sound, GsmTyped
<1>4. OneObject'
  <2>1. \A d \in Caller : thread'[d].pc # "idle" => made' = 1 /\ thread'[d].with = 1
    BY <1>1, <1>2 DEF Sound, OneObject
  <2>2. ASSUME NEW e \in Caller, thread'[e].opening
        PROVE  /\ thread'[e].pc \in {"write", "read"}
               /\ \A d \in Caller : d # e => thread'[d].pc = "idle"
    <3>1. CASE e = c
      BY <1>2, <2>2, <3>1 DEF Sound, OneObject
    <3>2. CASE e # c
      BY <1>2, <2>2, <3>2 DEF Sound, OneObject, Active
    <3>3. QED
      BY <3>1, <3>2
  <2>3. ASSUME current' = 0 PROVE \E d \in Caller : thread'[d].opening
    BY <1>1, <2>3
  <2>4. QED
    BY <1>1, <2>1, <2>2, <2>3 DEF OneObject
<1>5. Guarded'
  <2>1. ASSUME NEW d \in Caller, Active(d)', ~thread'[d].opening PROVE holder'[1] = d
    BY <1>1, <1>2, <2>1 DEF Sound, Guarded, Active
  <2>2. QED
    BY <2>1 DEF Guarded, Active
<1>6. InOrder'
  <2>1. plugged' => \A d \in Caller : Active(d)' => InDialogue(d)'
    BY <1>2
  <2>2. plugged' => ((\A d \in Caller : ~Active(d)') => Clean')
    OBVIOUS
  <2>3. QED
    BY <2>1, <2>2 DEF InOrder
<1>7. Truthful'
  <2>1. ASSUME NEW d \in Caller, thread'[d].pc = "read" /\ TextStep(d)' PROVE Texting(d)'
    BY <1>2, <2>1 DEF Active
  <2>2. ASSUME NEW d \in Caller,
               thread'[d].pc = "leave" /\ thread'[d].call = "sendSms" /\ thread'[d].ok
        PROVE  thread'[d].number \in accepted'
    BY <1>2, <2>2 DEF Active
  <2>3. QED
    BY <2>1, <2>2 DEF Truthful, Sound
<1>8. QED
  BY <1>3, <1>4, <1>5, <1>6, <1>7 DEF Sound

-----------------------------------------------------------------------------
\* A thread whose place changes.
LEMMA PlaceFacts ==
  ASSUME GsmTyped, NEW c \in Caller, NEW v \in {"write", "read"},
         thread' = [thread EXCEPT ![c].pc = v]
  PROVE  LET t == thread[c]
             u == thread'[c]
         IN  /\ thread' \in [Caller -> ThreadState(made)]
             /\ \A d \in Caller : d # c => thread'[d] = thread[d]
             /\ u.pc = v /\ u.step = t.step /\ u.call = t.call /\ u.with = t.with /\ u.got = t.got
             /\ u.number = t.number /\ u.opening = t.opening /\ u.ok = t.ok
<1> DEFINE r == [thread[c] EXCEPT !.pc = v]
<1>1. thread[c] \in ThreadState(made) /\ made \in Nat
  BY DEF GsmTyped
<1>2. /\ r \in ThreadState(made)
      /\ r.pc = v /\ r.step = thread[c].step /\ r.call = thread[c].call /\ r.with = thread[c].with
      /\ r.got = thread[c].got /\ r.number = thread[c].number /\ r.opening = thread[c].opening
      /\ r.ok = thread[c].ok
  BY <1>1 DEF ThreadState
<1>3. thread' = [thread EXCEPT ![c] = r]
  OBVIOUS
<1> HIDE DEF r
<1>4. /\ thread'[c] = r
      /\ \A d \in Caller : d # c => thread'[d] = thread[d]
      /\ thread' \in [Caller -> ThreadState(made)]
  BY <1>1, <1>2, <1>3, ThreadChanged DEF GsmTyped
<1>5. QED
  BY <1>2, <1>4

\* A thread that has written and begins to read.
LEMMA ReadingFacts ==
  ASSUME GsmTyped, NEW c \in Caller,
         thread' = [thread EXCEPT ![c].pc = "read", ![c].got = {}]
  PROVE  LET t == thread[c]
             u == thread'[c]
         IN  /\ thread' \in [Caller -> ThreadState(made)]
             /\ \A d \in Caller : d # c => thread'[d] = thread[d]
             /\ u.pc = "read" /\ u.step = t.step /\ u.call = t.call /\ u.with = t.with /\ u.got = {}
             /\ u.number = t.number /\ u.opening = t.opening /\ u.ok = t.ok
<1> DEFINE q == [thread[c] EXCEPT !.pc = "read"]
           r == [q EXCEPT !.got = {}]
<1>1. thread[c] \in ThreadState(made) /\ made \in Nat
  BY DEF GsmTyped
<1>2. /\ q \in ThreadState(made)
      /\ q.pc = "read" /\ q.step = thread[c].step /\ q.call = thread[c].call
      /\ q.with = thread[c].with /\ q.number = thread[c].number /\ q.opening = thread[c].opening
      /\ q.ok = thread[c].ok
  BY <1>1 DEF ThreadState
<1>3. thread' = [thread EXCEPT ![c] = r]
  BY DEF GsmTyped
<1> HIDE DEF q
<1>4. /\ r \in ThreadState(made)
      /\ r.pc = "read" /\ r.step = q.step /\ r.call = q.call /\ r.with = q.with
      /\ r.number = q.number /\ r.opening = q.opening /\ r.ok = q.ok /\ r.got = {}
  BY <1>1, <1>2 DEF ThreadState
<1> HIDE DEF r
<1>5. /\ thread'[c] = r
      /\ \A d \in Caller : d # c => thread'[d] = thread[d]
      /\ thread' \in [Caller -> ThreadState(made)]
  BY <1>1, <1>3, <1>4, ThreadChanged DEF GsmTyped
<1>6. QED
  BY <1>2, <1>4, <1>5

\* A thread that goes on reading.
LEMMA GotFacts ==
  ASSUME GsmTyped, NEW c \in Caller, NEW g \in SUBSET Chunk,
         thread' = [thread EXCEPT ![c].got = g]
  PROVE  LET t == thread[c]
             u == thread'[c]
         IN  /\ thread' \in [Caller -> ThreadState(made)]
             /\ \A d \in Caller : d # c => thread'[d] = thread[d]
             /\ u.pc = t.pc /\ u.step = t.step /\ u.call = t.call /\ u.with = t.with /\ u.got = g
             /\ u.number = t.number /\ u.opening = t.opening /\ u.ok = t.ok
<1> DEFINE r == [thread[c] EXCEPT !.got = g]
<1>1. thread[c] \in ThreadState(made) /\ made \in Nat
  BY DEF GsmTyped
<1>2. /\ r \in ThreadState(made)
      /\ r.pc = thread[c].pc /\ r.step = thread[c].step /\ r.call = thread[c].call
      /\ r.with = thread[c].with /\ r.got = g /\ r.number = thread[c].number
      /\ r.opening = thread[c].opening /\ r.ok = thread[c].ok
  BY <1>1 DEF ThreadState
<1>3. thread' = [thread EXCEPT ![c] = r]
  OBVIOUS
<1> HIDE DEF r
<1>4. /\ thread'[c] = r
      /\ \A d \in Caller : d # c => thread'[d] = thread[d]
      /\ thread' \in [Caller -> ThreadState(made)]
  BY <1>1, <1>2, <1>3, ThreadChanged DEF GsmTyped
<1>5. QED
  BY <1>2, <1>4

-----------------------------------------------------------------------------
\* The steps of the thread in a dialogue.
LEMMA WriteSound ==
  ASSUME Steady, Sound, NEW c \in Caller, Write(c)
  PROVE  Sound'
<1> DEFINE t == thread[c]
           u == thread'[c]
<1>1. /\ t.pc = "write" /\ Active(c)
      /\ UNCHANGED <<made, holder, line, modem, dialogs, sent, accepted, refused, plugged, gub,
                     trouble>>
  BY DEF Write, Active
<1>2. /\ GsmTyped /\ t \in ThreadState(made) /\ t.step \in 1..Length(t)
      /\ wire \in Seq(Message) /\ line \in Seq(Chunk)
  BY DEF Sound, GsmTyped
<1>3. /\ Length(t) \in 1..5
      /\ TextStep(c) => Item(c).command = "text" /\ Item(c).how = "wait" /\ t.step = Length(t)
      /\ CmgsStep(c) => Item(c).command = "CMGS" /\ Item(c).how = "now" /\ t.step # Length(t)
      /\ NetworkStep(c) => Item(c).command = "none"
      /\ Simple(c) => /\ Item(c).command \in Command \ {"none", "text", "CMGS"}
                      /\ Item(c).how \in {"wait", "checked", "once"}
                      /\ t.call = "sendSms" /\ ~t.opening => t.step # Length(t)
  BY <1>2, ItemFacts DEF Command
<1>4. CASE Item(c).command # "none" /\ ~plugged
  <2> DEFINE good == Item(c).how \in {"once", "now"}
  <2>1. Proceed(c, good) /\ wire' = wire /\ good \in BOOLEAN
    BY <1>4 DEF Write
  <2> HIDE DEF good
  <2>2. /\ thread' \in [Caller -> ThreadState(made)]
        /\ \A d \in Caller : d # c => thread'[d] = thread[d]
        /\ u.step \in 1..Length(u)
        /\ u.call = t.call /\ u.with = t.with /\ u.number = t.number
    BY <1>2, <2>1, ProceedFacts
  <2>3. \/ u.pc = "write" /\ u.opening = t.opening /\ current' = current
        \/ u.pc = "lock" /\ u.step = 1 /\ t.opening /\ ~u.opening /\ current' = t.with
        \/ u.pc = "leave" /\ ~t.opening /\ ~u.opening /\ current' = current
             /\ u.ok = good /\ (good => t.step = Length(t))
    BY <1>2, <2>1, ProceedFacts
  <2>4. ~(u.pc = "leave" /\ u.call = "sendSms" /\ u.ok)
    BY <1>3, <2>2, <2>3 DEF TextStep, CmgsStep, NetworkStep, Simple, good
  <2>5. QED
    BY <1>1, <1>2, <1>4, <2>1, <2>2, <2>3, <2>4, ActiveStep
<1>5. CASE ~(Item(c).command # "none" /\ ~plugged)
  <2> DEFINE item == [command |-> Item(c).command, number |-> t.number]
  <2>1. /\ thread' = [thread EXCEPT ![c].pc = "read", ![c].got = {}] /\ current' = current
        /\ wire' = IF Item(c).command = "none" THEN wire ELSE Append(wire, item)
    BY <1>5 DEF Write
  <2>2. /\ thread' \in [Caller -> ThreadState(made)]
        /\ \A d \in Caller : d # c => thread'[d] = thread[d]
        /\ u.pc = "read" /\ u.step = t.step /\ u.call = t.call /\ u.with = t.with
        /\ u.number = t.number /\ u.opening = t.opening /\ u.got = {}
    BY <1>2, <2>1, ReadingFacts
  <2>3. /\ u.step \in 1..Length(u)
        /\ Item(c)' = Item(c) /\ (TextStep(c)' <=> TextStep(c)) /\ (CmgsStep(c)' <=> CmgsStep(c))
        /\ (NetworkStep(c)' <=> NetworkStep(c)) /\ (Simple(c)' <=> Simple(c))
    BY <1>2, <2>2 DEF Length, Item, Program, TextStep, CmgsStep, NetworkStep, Simple
  <2>4. Item(c).command # "none" => Item(c).command \in Command
    BY <1>3 DEF Simple, Command
  <2>5. Item(c).command # "none" =>
          /\ wire' \in Seq(Message) /\ Len(wire') = Len(wire) + 1 /\ wire'[Len(wire) + 1] = item
          /\ \A k \in 1..Len(wire) : wire'[k] = wire[k]
    <3>1. Item(c).command # "none" => item \in Message
      BY <1>2, <2>4 DEF Message, ThreadState
    <3> HIDE DEF item
    <3>2. QED
      BY <1>2, <2>1, <3>1
  <2>6. wire' \in Seq(Message)
    BY <1>2, <2>1, <2>5
  <2>7. TextStep(c) => plugged /\ Prompting
    BY <1>1, <1>3, <1>5 DEF Sound, InOrder, InDialogue
  <2>8. TextStep(c) => Texting(c)'
    <3>1. TextStep(c) => item = Text(t.number) /\ Item(c).command # "none"
      BY <1>3 DEF Text
    <3> HIDE DEF item
    <3>2. \/ wire = <<>> /\ Len(wire) = 0
          \/ ~modem.typing /\ Len(wire) = 1 /\ wire[1].command = "CMGS"
          \/ ~TextStep(c)
      BY <2>7 DEF Prompting
    <3>3. TextStep(c) => ~("OK" \in u.got \/ Said("OK")') /\ ~modem'.network
      BY <1>1, <2>2, <2>7 DEF Prompting, Said
    <3>4. TextStep(c) => \/ ~modem'.typing /\ Len(wire') = 2 /\ wire'[1].command = "CMGS"
                            /\ wire'[2] = Text(t.number)
                         \/ Len(wire') = 1 /\ wire'[1] = Text(t.number)
      <4>1. CASE wire = <<>> /\ Len(wire) = 0
        BY <1>1, <2>5, <3>1, <4>1
      <4>2. CASE ~modem.typing /\ Len(wire) = 1 /\ wire[1].command = "CMGS"
        <5>1. TextStep(c) => Len(wire') = 2 /\ wire'[2] = Text(t.number) /\ wire'[1] = wire[1]
          BY <2>5, <3>1, <4>2
        <5>2. QED
          BY <1>1, <4>2, <5>1
      <4>3. QED
        BY <3>2, <4>1, <4>2
    <3>5. QED
      BY <2>2, <3>3, <3>4 DEF Texting, Text
  <2>9. CmgsStep(c) /\ plugged => Prompting'
    <3>0. CmgsStep(c) => ~TextStep(c) /\ ~NetworkStep(c)
      BY <1>3
    <3>1. CmgsStep(c) /\ plugged => Clean
      BY <1>1, <3>0 DEF Sound, InOrder, InDialogue
    <3>2. CmgsStep(c) /\ plugged => Len(wire) = 0 /\ ~Said("OK")
      BY <3>1 DEF Clean, Said, ToSet
    <3>3. item.command = Item(c).command
      OBVIOUS
    <3> HIDE DEF item
    <3>4. CmgsStep(c) /\ plugged => Len(wire') = 1 /\ wire'[1].command = "CMGS"
      BY <1>3, <2>5, <3>2, <3>3
    <3>5. QED
      BY <1>1, <3>1, <3>2, <3>4 DEF Clean, Prompting, Said
  <2>10. NetworkStep(c) /\ plugged => Networking'
    <3>1. NetworkStep(c) /\ plugged => Networking /\ wire' = wire
      BY <1>1, <1>3, <2>1 DEF Sound, InOrder, InDialogue, TextStep, NetworkStep
    <3>2. QED
      BY <1>1, <3>1 DEF Networking
  <2>11. Simple(c) /\ plugged => Asking(c)'
    <3>1. Simple(c) /\ plugged => Clean
      BY <1>1 DEF Sound, InOrder, InDialogue, Simple
    <3>2. item.command = Item(c).command
      OBVIOUS
    <3> HIDE DEF item
    <3>3. Simple(c) /\ plugged => Len(wire') = 1 /\ wire'[1].command = Item(c).command
      BY <1>3, <2>5, <3>1, <3>2 DEF Clean, Command
    <3>4. QED
      BY <1>1, <2>2, <2>3, <3>1, <3>3 DEF Clean, Asking
  <2>12. plugged => InDialogue(c)'
    BY <1>1, <2>2, <2>3, <2>9, <2>10, <2>11 DEF InDialogue
  <2>13. Active(c)'
    BY <2>2 DEF Active
  <2>14. QED
    BY <1>1, <1>2, <2>1, <2>2, <2>3, <2>6, <2>8, <2>12, <2>13, ActiveStep
<1>6. QED
  BY <1>4, <1>5

\* What has come is either enough for the step or not.
LEMMA ReadSound ==
  ASSUME Steady, Sound, NEW c \in Caller, Read(c)
  PROVE  Sound'
<1> DEFINE t == thread[c]
           u == thread'[c]
           how == Item(c).how
           got == t.got \cup ToSet(line)
<1>1. /\ t.pc = "read" /\ Active(c) /\ line' = <<>>
      /\ how # "now" => line # <<>>
      /\ UNCHANGED <<made, holder, wire, modem, dialogs, sent, accepted, refused, plugged, gub,
                     trouble>>
  BY DEF Read, Active
<1>2. /\ GsmTyped /\ t \in ThreadState(made) /\ t.step \in 1..Length(t)
      /\ wire \in Seq(Message) /\ line \in Seq(Chunk)
  BY DEF Sound, GsmTyped
<1>l. line' \in Seq(Chunk)
  BY <1>1
<1>3. /\ Length(t) \in 1..5
      /\ TextStep(c) => Item(c).command = "text" /\ how = "wait" /\ t.step = Length(t)
      /\ CmgsStep(c) => Item(c).command = "CMGS" /\ how = "now" /\ t.step # Length(t)
      /\ NetworkStep(c) => Item(c).command = "none" /\ how = "cusd" /\ t.step = Length(t)
      /\ Simple(c) =>
           /\ how \in {"wait", "checked", "once"}
           /\ Item(c).command = "CUSD" <=> ~t.opening /\ t.call = "ussd" /\ t.step = 2
           /\ Item(c).command = "CUSD" => how = "checked" /\ t.step # Length(t)
           /\ t.call = "sendSms" /\ ~t.opening => t.step # Length(t)
  BY <1>2, ItemFacts
<1>4. got \in SUBSET Chunk /\ ("OK" \in got <=> "OK" \in t.got \/ Said("OK"))
  BY <1>2 DEF ThreadState, ToSet, Said
<1>5. ~Said("OK")'
  BY <1>1 DEF Said, ToSet
<1>6. plugged => InDialogue(c)
  BY <1>1 DEF Sound, InOrder
<1>7. TextStep(c) => Texting(c)
  BY <1>1 DEF Sound, Truthful
<1> HIDE DEF got
\* The needle has not come.
<1>8. CASE how \in {"wait", "cusd"} /\ Needle(how) \notin got
  <2>1. thread' = [thread EXCEPT ![c].got = got] /\ current' = current
    BY <1>8 DEF Read, got
  <2>2. /\ thread' \in [Caller -> ThreadState(made)]
        /\ \A d \in Caller : d # c => thread'[d] = thread[d]
        /\ u.pc = "read" /\ u.step = t.step /\ u.call = t.call /\ u.with = t.with
        /\ u.number = t.number /\ u.opening = t.opening /\ u.got = got
    BY <1>1, <1>2, <1>4, <2>1, GotFacts
  <2>3. /\ u.step \in 1..Length(u)
        /\ Item(c)' = Item(c) /\ (TextStep(c)' <=> TextStep(c)) /\ (CmgsStep(c)' <=> CmgsStep(c))
        /\ (NetworkStep(c)' <=> NetworkStep(c)) /\ (Simple(c)' <=> Simple(c))
    BY <1>2, <2>2 DEF Length, Item, Program, TextStep, CmgsStep, NetworkStep, Simple
  <2>4. how = "wait" => "OK" \notin got
    BY <1>8 DEF Needle
  <2>5. TextStep(c) => Texting(c)'
    BY <1>1, <1>3, <1>4, <1>5, <1>7, <2>2, <2>4 DEF Texting
  <2>6. ~CmgsStep(c)
    BY <1>3, <1>8
  <2>7. NetworkStep(c) /\ plugged => Networking /\ how = "cusd"
    BY <1>1, <1>3, <1>6 DEF InDialogue, NetworkStep, CmgsStep
  <2>8. ~(NetworkStep(c) /\ plugged)
    <3>1. NetworkStep(c) /\ plugged => line = <<"+CUSD">>
      BY <1>1, <2>7 DEF Networking
    <3>2. line = <<"+CUSD">> => "+CUSD" \in got
      BY DEF got, ToSet
    <3>3. QED
      BY <1>8, <2>7, <3>1, <3>2 DEF Needle
  <2>9. Simple(c) /\ plugged => Asking(c)'
    <3>1. Simple(c) /\ plugged => Asking(c)
      BY <1>1, <1>6 DEF InDialogue, Simple
    <3>2. Simple(c) => how = "wait"
      BY <1>3, <1>8
    <3>3. Simple(c) /\ plugged => wire = <<>> /\ ~modem.typing /\ ~modem.network
      BY <1>1, <1>3, <3>1, <3>2 DEF Asking
    <3>4. QED
      BY <1>1, <2>2, <2>3, <2>4, <3>2, <3>3 DEF Asking
  <2>10. plugged => InDialogue(c)'
    BY <1>1, <2>2, <2>3, <2>6, <2>8, <2>9 DEF InDialogue
  <2>11. Active(c)'
    BY <2>2 DEF Active
  <2>12. QED
    BY <1>1, <1>2, <1>l, <2>1, <2>2, <2>3, <2>5, <2>10, <2>11, ActiveStep
\* The step is over.
<1>9. CASE ~(how \in {"wait", "cusd"} /\ Needle(how) \notin got)
  <2> DEFINE good == how = "checked" => "OK" \in got
  <2>1. Proceed(c, good) /\ good \in BOOLEAN
    <3>1. CASE how \in {"once", "now"}
      <4>1. Proceed(c, TRUE) /\ (good <=> TRUE)
        BY <3>1 DEF Read
      <4>2. QED
        BY <4>1
    <3>2. CASE how = "checked"
      <4>1. Proceed(c, "OK" \in got) /\ (good <=> "OK" \in got)
        BY <3>2 DEF Read, got
      <4>2. QED
        BY <4>1
    <3>3. CASE how \in {"wait", "cusd"}
      <4>1. Proceed(c, TRUE) /\ (good <=> TRUE)
        BY <1>9, <3>3 DEF Read, got
      <4>2. QED
        BY <4>1
    <3>4. QED
      BY <1>3, <3>1, <3>2, <3>3 DEF Simple
  <2>2. /\ thread' \in [Caller -> ThreadState(made)]
        /\ \A d \in Caller : d # c => thread'[d] = thread[d]
        /\ u.step \in 1..Length(u)
        /\ u.call = t.call /\ u.with = t.with /\ u.number = t.number
    BY <1>2, <2>1, ProceedFacts
  <2>3. \/ u.pc = "write" /\ u.opening = t.opening /\ current' = current
             /\ good /\ t.step # Length(t) /\ u.step = t.step + 1
        \/ u.pc = "lock" /\ u.step = 1 /\ t.opening /\ ~u.opening /\ current' = t.with
        \/ u.pc = "leave" /\ ~t.opening /\ ~u.opening /\ current' = current
             /\ u.ok = good /\ (good => t.step = Length(t))
    BY <1>2, <2>1, ProceedFacts
  <2>4. u.pc = "leave" /\ u.call = "sendSms" /\ u.ok => u.number \in accepted
    <3>1. SUFFICES ASSUME u.pc = "leave", u.call = "sendSms", u.ok PROVE t.number \in accepted
      BY <2>2
    <3>2. TextStep(c)
      BY <1>3, <2>2, <2>3, <3>1 DEF CmgsStep, NetworkStep, Simple
    <3>3. "OK" \in got
      BY <1>3, <1>9, <3>2 DEF Needle
    <3>4. QED
      BY <1>4, <1>7, <3>2, <3>3 DEF Texting
  <2>5. plugged => IF Active(c)' THEN InDialogue(c)' ELSE Clean'
    <3>1. SUFFICES ASSUME plugged PROVE IF Active(c)' THEN InDialogue(c)' ELSE Clean'
      OBVIOUS
    <3>2. CASE CmgsStep(c)
      <4>1. Prompting /\ ~NetworkStep(c) /\ ~TextStep(c)
        BY <1>1, <1>3, <1>6, <3>1, <3>2 DEF InDialogue
      <4>2. Prompting'
        BY <1>1, <1>5, <4>1 DEF Prompting
      <4>3. u.pc = "write" /\ TextStep(c)'
        BY <1>2, <1>3, <2>1, <2>2, <2>3, <3>2 DEF CmgsStep, TextStep
      <4>4. QED
        BY <4>2, <4>3 DEF InDialogue, Active
    <3>3. CASE TextStep(c)
      <4>1. "OK" \in got /\ u.pc = "leave"
        BY <1>3, <1>9, <2>3, <3>3 DEF Needle, TextStep
      <4>2. wire = <<>> /\ ~modem.typing /\ ~modem.network
        BY <1>4, <1>7, <3>3, <4>1 DEF Texting
      <4>3. QED
        BY <1>1, <4>1, <4>2 DEF Clean, InDialogue, Active
    <3>4. CASE NetworkStep(c)
      <4>1. Networking
        BY <1>1, <1>3, <1>6, <3>1, <3>4 DEF InDialogue
      <4>2. u.pc = "leave"
        BY <1>3, <2>3, <3>4 DEF NetworkStep
      <4>3. wire = <<>> /\ ~modem.typing /\ ~modem.network
        BY <1>1, <1>3, <3>4, <4>1 DEF Networking
      <4>4. QED
        BY <1>1, <4>2, <4>3 DEF Clean, InDialogue, Active
    <3>5. CASE Simple(c)
      <4>1. Asking(c)
        BY <1>1, <1>6, <3>1, <3>5 DEF InDialogue, Simple
      <4>2. /\ wire = <<>> /\ ~modem.typing
            /\ modem.network <=> Item(c).command = "CUSD" /\ Said("OK")
        BY <1>1, <1>3, <3>5, <4>1 DEF Asking
      <4>3. CASE modem.network
        <5>1. good /\ ~t.opening /\ t.call = "ussd" /\ t.step = 2 /\ t.step # Length(t)
          BY <1>3, <1>4, <2>1, <3>5, <4>2, <4>3
        <5>2. u.pc = "write" /\ NetworkStep(c)' /\ ~TextStep(c)'
          BY <1>2, <2>2, <2>3, <5>1 DEF NetworkStep, TextStep
        <5>3. Networking'
          BY <1>1, <4>2, <4>3 DEF Networking
        <5>4. QED
          BY <5>2, <5>3 DEF InDialogue, Active
      <4>4. CASE ~modem.network
        <5>1. Clean'
          BY <1>1, <4>2, <4>4 DEF Clean
        <5>2. u.pc = "write" => ~TextStep(c)'
          BY <1>2, <2>2, <2>3, <3>5 DEF TextStep, CmgsStep, Simple
        <5>3. u.pc = "write" => ~NetworkStep(c)'
          <6>1. SUFFICES ASSUME u.pc = "write", NetworkStep(c)' PROVE FALSE
            OBVIOUS
          <6>2. ~t.opening /\ t.call = "ussd" /\ t.step = 2 /\ good
            BY <1>2, <2>2, <2>3, <6>1 DEF NetworkStep
          <6>3. Item(c).command = "CUSD" /\ how = "checked"
            BY <1>3, <3>5, <6>2
          <6>4. "OK" \in got /\ "OK" \notin t.got
            BY <4>1, <6>2, <6>3 DEF Asking
          <6>5. QED
            BY <1>4, <4>2, <4>4, <6>3, <6>4
        <5>4. QED
          BY <2>3, <5>1, <5>2, <5>3 DEF InDialogue, Active
      <4>5. QED
        BY <4>3, <4>4
    <3>6. QED
      BY <3>2, <3>3, <3>4, <3>5 DEF Simple
  <2>6. QED
    BY <1>1, <1>2, <1>l, <2>2, <2>3, <2>4, <2>5, ActiveStep
<1>10. QED
  BY <1>8, <1>9

\* The owner of the mutex changes.
LEMMA HolderFacts ==
  ASSUME NEW S, NEW h \in Seq(S), Len(h) = 1, NEW x \in S
  PROVE  LET g == [h EXCEPT ![1] = x] IN g \in Seq(S) /\ Len(g) = 1 /\ g[1] = x
<1>1. 1 \in 1..Len(h)
  OBVIOUS
<1>2. /\ [h EXCEPT ![1] = x] \in Seq(S) /\ Len([h EXCEPT ![1] = x]) = Len(h)
      /\ \A j \in 1..Len(h) : [h EXCEPT ![1] = x][j] = IF j = 1 THEN x ELSE h[j]
  BY <1>1, ExceptSeq
<1>3. QED
  BY <1>1, <1>2

\* Under the discipline nobody gives up as long as the device is there.
LEMMA TimeOutSound ==
  ASSUME Steady, Sound, NEW c \in Caller, TimeOut(c)
  PROVE  Sound'
<1> DEFINE t == thread[c]
           u == thread'[c]
           how == Item(c).how
           good == how = "once"
<1>1. /\ t.pc = "read" /\ Active(c) /\ line = <<>> /\ wire = <<>> /\ how \in {"once", "checked"}
      /\ Proceed(c, good) /\ good \in BOOLEAN
      /\ UNCHANGED <<made, holder, wire, line, modem, dialogs, sent, accepted, plugged, gub,
                     trouble>>
  BY DEF TimeOut, Active, Steady
<1>2. /\ GsmTyped /\ t \in ThreadState(made) /\ t.step \in 1..Length(t)
      /\ wire \in Seq(Message) /\ line \in Seq(Chunk)
  BY DEF Sound, GsmTyped
<1>3. /\ TextStep(c) => how = "wait"
      /\ CmgsStep(c) => how = "now"
      /\ NetworkStep(c) => how = "cusd"
      /\ Simple(c) /\ t.call = "sendSms" /\ ~t.opening => t.step # Length(t)
  BY <1>2, ItemFacts
<1>4. Simple(c)
  BY <1>1, <1>3 DEF Simple
<1>5. ~plugged
  <2>1. plugged => Asking(c)
    BY <1>1, <1>4 DEF Sound, InOrder, InDialogue, Simple
  <2>2. QED
    BY <1>1, <2>1 DEF Asking
<1> HIDE DEF good
<1>6. /\ thread' \in [Caller -> ThreadState(made)]
      /\ \A d \in Caller : d # c => thread'[d] = thread[d]
      /\ u.step \in 1..Length(u)
      /\ u.call = t.call /\ u.with = t.with /\ u.number = t.number
  BY <1>1, <1>2, ProceedFacts
<1>7. \/ u.pc = "write" /\ u.opening = t.opening /\ current' = current
      \/ u.pc = "lock" /\ u.step = 1 /\ t.opening /\ ~u.opening /\ current' = t.with
      \/ u.pc = "leave" /\ ~t.opening /\ ~u.opening /\ current' = current
           /\ u.ok = good /\ (good => t.step = Length(t))
  BY <1>1, <1>2, ProceedFacts
<1>8. ~(u.pc = "leave" /\ u.call = "sendSms" /\ u.ok)
  BY <1>3, <1>4, <1>6, <1>7
<1>9. QED
  BY <1>1, <1>2, <1>5, <1>6, <1>7, <1>8, ActiveStep

\* The method returns: the line is clean, and a message that was sent is accepted.
LEMMA LeaveSound ==
  ASSUME Steady, Sound, NEW c \in Caller, Leave(c)
  PROVE  Sound'
<1>1. /\ thread[c].pc = "leave" /\ Active(c) /\ ~thread[c].opening
      /\ thread' = [thread EXCEPT ![c] = Idle]
      /\ UNCHANGED <<current, made, wire, line, modem, dialogs, accepted, refused, plugged, gub,
                     trouble>>
  BY DEF Leave, Active, Sound, OneObject
<1>2. /\ \A d \in Caller : d # c => ~Active(d)
      /\ made = 1 /\ thread[c].with = 1 /\ current # 0
  BY <1>1, Alone DEF Sound
<1>3. /\ thread[c] \in ThreadState(made) /\ thread[c].call \in Locking /\ made \in Nat
      /\ holder \in Seq(Caller \cup {"none"}) /\ Len(holder) = 1
  BY <1>2 DEF Sound, GsmTyped, ThreadState
<1>4. /\ holder' = [holder EXCEPT ![1] = "none"]
      /\ holder' \in Seq(Caller \cup {"none"}) /\ Len(holder') = 1
  <2>1. holder' = [holder EXCEPT ![1] = "none"]
    BY <1>2, <1>3 DEF Leave
  <2>2. \A x \in Caller \cup {"none"} : LET g == [holder EXCEPT ![1] = x]
                                      IN  g \in Seq(Caller \cup {"none"}) /\ Len(g) = 1
    BY <1>3, HolderFacts
  <2>3. QED
    BY <2>1, <2>2, Zenon
<1>5. /\ Idle \in ThreadState(made) /\ Idle.pc = "idle" /\ ~Idle.opening
      /\ 1 \in 1..Length(Idle) /\ Idle.step = 1
  <2>1. Idle \in ThreadState(made) /\ Idle.pc = "idle" /\ ~Idle.opening /\ Idle.step = 1
        /\ Idle.call = "query"
    BY <1>3 DEF Idle, ThreadState, Locking
  <2>2. QED
    BY <2>1, DialogueFacts DEF Length
<1>6. /\ thread'[c] = Idle /\ thread' \in [Caller -> ThreadState(made)]
      /\ \A d \in Caller : d # c => thread'[d] = thread[d]
  BY <1>1, <1>3, <1>5, ThreadChanged DEF Sound, GsmTyped
<1>7. \A d \in Caller : ~Active(d)'
  BY <1>2, <1>5, <1>6 DEF Active
<1>8. GsmTyped'
  <2>1. ASSUME NEW d \in Caller
        PROVE  /\ thread'[d].step \in 1..Length(thread'[d])
               /\ thread'[d].pc = "lock" => thread'[d].step = 1
    BY <1>5, <1>6 DEF Sound, GsmTyped
  <2>2. QED
    BY <1>1, <1>2, <1>4, <1>6, <2>1 DEF Sound, GsmTyped
<1>9. OneObject'
  <2>1. \A d \in Caller : ~thread'[d].opening
    BY <1>1, <1>5, <1>6, <1>2 DEF Sound, OneObject, Active
  <2>2. \A d \in Caller : thread'[d].pc # "idle" => made' = 1 /\ thread'[d].with = 1
    BY <1>1, <1>5, <1>6 DEF Sound, OneObject
  <2>3. QED
    BY <1>1, <1>2, <2>1, <2>2 DEF OneObject
<1>10. Guarded'
  BY <1>7 DEF Guarded, Active
<1>11. InOrder'
  <2>1. plugged => Clean
    BY <1>1 DEF Sound, InOrder, InDialogue
  <2>2. plugged' => Clean'
    BY <1>1, <2>1 DEF Clean
  <2>3. QED
    BY <1>7, <2>2 DEF InOrder
<1>12. Truthful'
  <2>1. sent' \subseteq accepted
    BY DEF Leave, Sound, Truthful
  <2>2. \A d \in Caller : thread'[d].pc \notin {"read", "leave"}
    BY <1>7 DEF Active
  <2>3. QED
    BY <1>1, <2>1, <2>2 DEF Truthful
<1>13. QED
  BY <1>8, <1>9, <1>10, <1>11, <1>12 DEF Sound

\* The mutex is free: nobody is in a dialogue, nor in the constructor, where he would be alone.
LEMMA LockSound ==
  ASSUME Steady, Sound, NEW c \in Caller, Lock(c)
  PROVE  Sound'
<1>1. /\ thread[c].pc = "lock" /\ holder[thread[c].with] = "none" /\ ~thread[c].opening
      /\ thread' = [thread EXCEPT ![c].pc = "write"]
      /\ UNCHANGED <<current, made, wire, line, modem, dialogs, sent, accepted, plugged, gub,
                     trouble>>
  BY DEF Lock, Sound, OneObject
<1>2. made = 1 /\ thread[c].with = 1 /\ current # 0 /\ thread[c].step = 1
  BY <1>1 DEF Sound, OneObject, GsmTyped
<1>3. \A d \in Caller : ~Active(d)
  <2>1. ASSUME NEW d \in Caller, Active(d) PROVE FALSE
    <3>1. thread[d].opening => d = c
      BY <1>1 DEF Sound, OneObject
    <3>2. ~thread[d].opening => holder[1] = d
      BY <2>1 DEF Sound, Guarded
    <3>3. QED
      BY <1>1, <1>2, <3>1, <3>2, GsmAssumption
  <2>2. QED
    BY <2>1
<1>4. /\ holder' = [holder EXCEPT ![1] = c]
      /\ holder' \in Seq(Caller \cup {"none"}) /\ Len(holder') = 1 /\ holder'[1] = c
  <2>1. holder \in Seq(Caller \cup {"none"}) /\ Len(holder) = 1
    BY <1>2 DEF Sound, GsmTyped
  <2>2. QED
    <3>1. holder' = [holder EXCEPT ![1] = c]
      BY <1>2 DEF Lock
    <3>2. QED
      BY <2>1, <3>1, HolderFacts
<1>5. GsmTyped
  BY DEF Sound
<1>6. /\ thread' \in [Caller -> ThreadState(made)]
      /\ \A d \in Caller : d # c => thread'[d] = thread[d]
      /\ thread'[c].pc = "write" /\ thread'[c].step = 1 /\ thread'[c].call = thread[c].call
      /\ thread'[c].with = 1 /\ ~thread'[c].opening
  BY <1>1, <1>2, <1>5, PlaceFacts
<1>7. GsmTyped'
  <2>1. ASSUME NEW d \in Caller
        PROVE  /\ thread'[d].step \in 1..Length(thread'[d])
               /\ thread'[d].pc = "lock" => thread'[d].step = 1
    <3>1. CASE d = c
      <4>1. Length(thread'[c]) = Length(thread[c]) /\ thread[c].step \in 1..Length(thread[c])
        BY <1>1, <1>5, <1>6 DEF Length, GsmTyped
      <4>2. QED
        BY <1>2, <1>6, <3>1, <4>1
    <3>2. CASE d # c
      BY <1>5, <1>6, <3>2 DEF GsmTyped
    <3>3. QED
      BY <3>1, <3>2
  <2>2. QED
    BY <1>1, <1>2, <1>4, <1>5, <1>6, <2>1 DEF GsmTyped
<1>8. OneObject'
  <2>1. \A d \in Caller : ~thread'[d].opening
    BY <1>1, <1>3, <1>6 DEF Sound, OneObject, Active
  <2>2. \A d \in Caller : thread'[d].pc # "idle" => made' = 1 /\ thread'[d].with = 1
    BY <1>1, <1>2, <1>6 DEF Sound, OneObject
  <2>3. QED
    BY <1>1, <1>2, <2>1, <2>2 DEF OneObject
<1>9. \A d \in Caller : d # c => ~Active(d)'
  BY <1>3, <1>6 DEF Active
<1>10. Guarded'
  BY <1>4, <1>9 DEF Guarded, Active
<1>11. InOrder'
  <2>1. plugged' => Clean'
    BY <1>1, <1>3 DEF Sound, InOrder, Clean
  <2>2. ~TextStep(c)' /\ ~NetworkStep(c)'
    BY <1>6 DEF TextStep, NetworkStep
  <2>3. plugged' => InDialogue(c)'
    BY <1>6, <2>1, <2>2 DEF InDialogue
  <2>4. Active(c)'
    BY <1>6 DEF Active
  <2>5. QED
    BY <1>9, <2>3, <2>4 DEF InOrder
<1>12. Truthful'
  <2>1. \A d \in Caller : thread'[d].pc \notin {"read", "leave"}
    BY <1>6, <1>9 DEF Active
  <2>2. QED
    BY <1>1, <2>1 DEF Truthful, Sound
<1>13. QED
  BY <1>7, <1>8, <1>10, <1>11, <1>12 DEF Sound

-----------------------------------------------------------------------------
\* Scripts ask for the modem.
LEMMA AskSound ==
  ASSUME Steady, Sound, NEW c \in Caller, NEW call \in Call, Ask(c, call)
  PROVE  Sound'
<1> DEFINE r == [pc |-> Entry(call), call |-> call, step |-> 1, with |-> current, got |-> {},
                 number |-> MessageNumber(call), ok |-> FALSE, opening |-> FALSE]
<1>1. /\ thread[c].pc = "idle" /\ current # 0 /\ call \in Locking
      /\ \A d \in Caller : ~thread[d].opening
      /\ dialogs' = dialogs + 1 /\ thread' = [thread EXCEPT ![c] = r]
      /\ UNCHANGED <<current, made, holder, wire, line, modem, sent, accepted, refused, plugged,
                     gub, trouble>>
  BY DEF Ask, Asks, Steady, Call, Locking
<1>2. GsmTyped /\ made = 1 /\ current = 1
  <2>1. GsmTyped /\ made \in 0..1
    BY DEF Sound, OneObject
  <2>2. current \in 0..made
    BY <2>1 DEF GsmTyped
  <2>3. QED
    BY <1>1, <2>1, <2>2
<1>3. /\ r \in ThreadState(made) /\ r.pc = "lock" /\ r.step = 1 /\ r.with = 1 /\ r.call = call
      /\ ~r.opening
  <2>1. Entry(call) = "lock" /\ MessageNumber(call) \in Nat
    BY <1>1, <1>2 DEF Entry, MessageNumber, GsmTyped
  <2>2. QED
    BY <1>1, <1>2, <2>1 DEF ThreadState
<1> HIDE DEF r
<1>4. /\ thread'[c] = r /\ thread' \in [Caller -> ThreadState(made)]
      /\ \A d \in Caller : d # c => thread'[d] = thread[d]
  BY <1>1, <1>2, <1>3, ThreadChanged DEF GsmTyped
<1>5. \A d \in Caller : /\ Active(d)' <=> Active(d)
                        /\ Active(d) => d # c /\ thread'[d] = thread[d]
  BY <1>1, <1>3, <1>4 DEF Active
<1>6. GsmTyped'
  <2>1. ASSUME NEW d \in Caller
        PROVE  /\ thread'[d].step \in 1..Length(thread'[d])
               /\ thread'[d].pc = "lock" => thread'[d].step = 1
    <3>1. 1 \in 1..Length(r)
      BY <1>1, <1>3, DialogueFacts DEF Length, Locking
    <3>2. QED
      BY <1>2, <1>3, <1>4, <3>1 DEF GsmTyped
  <2>2. thread' \in [Caller -> ThreadState(made')] /\ dialogs' \in Nat
    BY <1>1, <1>2, <1>4 DEF GsmTyped
  <2>3. QED
    BY <1>1, <1>2, <2>1, <2>2 DEF GsmTyped
<1>7. OneObject'
  BY <1>1, <1>2, <1>3, <1>4 DEF Sound, OneObject
<1>8. Guarded'
  <2>1. ASSUME NEW d \in Caller, Active(d)', ~thread'[d].opening PROVE holder'[1] = d
    BY <1>1, <1>5, <2>1 DEF Sound, Guarded
  <2>2. QED
    BY <2>1 DEF Guarded, Active
<1>9. InOrder'
  <2>1. plugged' => ((\A d \in Caller : ~Active(d)') => Clean')
    BY <1>1, <1>5 DEF Sound, InOrder, Clean
  <2>2. ASSUME plugged', NEW d \in Caller, Active(d)' PROVE InDialogue(d)'
    <3>1. InDialogue(d) /\ thread'[d] = thread[d]
      BY <1>1, <1>5, <2>2 DEF Sound, InOrder
    <3>2. Item(d)' = Item(d)
      BY <3>1 DEF Item, Program
    <3>3. /\ Prompting' <=> Prompting
          /\ Networking' <=> Networking
          /\ Clean' <=> Clean
          /\ Asking(d)' <=> Asking(d)
      BY <1>1, <3>1, <3>2 DEF Prompting, Networking, Clean, Asking, Said
    <3>4. /\ TextStep(d)' <=> TextStep(d)
          /\ CmgsStep(d)' <=> CmgsStep(d)
          /\ NetworkStep(d)' <=> NetworkStep(d)
      BY <3>1 DEF TextStep, CmgsStep, NetworkStep
    <3>5. Simple(d)' <=> Simple(d)
      BY <3>4 DEF Simple
    <3>6. thread[d].pc \in {"write", "read", "leave"}
      BY <2>2, <3>1 DEF Active
    <3>7. CASE thread[d].pc = "write"
      BY <3>1, <3>3, <3>4, <3>7 DEF InDialogue
    <3>8. CASE thread[d].pc = "read"
      BY <3>1, <3>3, <3>4, <3>5, <3>8 DEF InDialogue
    <3>9. CASE thread[d].pc = "leave"
      BY <3>1, <3>3, <3>9 DEF InDialogue
    <3>10. QED
      BY <3>6, <3>7, <3>8, <3>9
  <2>3. QED
    BY <2>1, <2>2 DEF InOrder, Active
<1>10. Truthful'
  <2>1. ASSUME NEW d \in Caller, thread'[d].pc = "read", TextStep(d)' PROVE Texting(d)'
    <3>1. thread'[d] = thread[d]
      BY <1>5, <2>1 DEF Active
    <3>2. Texting(d)
      BY <2>1, <3>1 DEF Sound, Truthful, TextStep
    <3>3. QED
      BY <1>1, <3>1, <3>2 DEF Texting, Said
  <2>2. ASSUME NEW d \in Caller,
               thread'[d].pc = "leave" /\ thread'[d].call = "sendSms" /\ thread'[d].ok
        PROVE  thread'[d].number \in accepted'
    <3>1. thread'[d] = thread[d]
      BY <1>5, <2>2 DEF Active
    <3>2. QED
      BY <1>1, <2>2, <3>1 DEF Sound, Truthful
  <2>3. QED
    BY <1>1, <2>1, <2>2 DEF Sound, Truthful
<1>11. QED
  BY <1>6, <1>7, <1>8, <1>9, <1>10 DEF Sound

\* The first to ask finds nobody: all others wait until he has made the modem.
LEMMA MakeSound ==
  ASSUME Steady, Sound, NEW c \in Caller, NEW call \in Call, Make(c, call)
  PROVE  Sound'
<1> DEFINE r == [pc |-> "write", call |-> call, step |-> 1, with |-> made + 1, got |-> {},
                 number |-> MessageNumber(call), ok |-> FALSE, opening |-> TRUE]
<1>1. /\ thread[c].pc = "idle" /\ current = 0 /\ call \in Locking /\ plugged
      /\ \A d \in Caller : ~thread[d].opening
      /\ dialogs' = dialogs + 1 /\ thread' = [thread EXCEPT ![c] = r]
      /\ made' = made + 1 /\ holder' = Append(holder, "none") /\ wire' = <<>> /\ line' = <<>>
      /\ UNCHANGED <<current, modem, sent, accepted, refused, plugged, gub, trouble>>
  BY DEF Make, Asks, Steady, GsmAccessible
<1>2. GsmTyped /\ made = 0 /\ \A d \in Caller : thread[d].pc = "idle"
  BY <1>1 DEF Sound, OneObject
<1>3. /\ r \in ThreadState(1) /\ r.pc = "write" /\ r.step = 1 /\ r.with = 1 /\ r.opening
  <2>1. MessageNumber(call) \in Nat
    BY <1>2 DEF MessageNumber, GsmTyped
  <2>2. QED
    BY <1>1, <1>2, <2>1 DEF ThreadState
<1> HIDE DEF r
<1>4. thread \in [Caller -> ThreadState(1)]
  <2>1. ThreadState(0) \subseteq ThreadState(1)
    BY DEF ThreadState
  <2>2. QED
    BY <1>2, <2>1 DEF GsmTyped
<1>5. /\ thread'[c] = r /\ thread' \in [Caller -> ThreadState(1)]
      /\ \A d \in Caller : d # c => thread'[d] = thread[d]
  BY <1>1, <1>3, <1>4, ThreadChanged
<1>6. \A d \in Caller : d # c => ~Active(d)'
  BY <1>2, <1>5 DEF Active
<1>7. GsmTyped'
  <2>1. ASSUME NEW d \in Caller
        PROVE  /\ thread'[d].step \in 1..Length(thread'[d])
               /\ thread'[d].pc = "lock" => thread'[d].step = 1
    <3>1. 1 \in 1..Length(r)
      BY <1>3 DEF Length
    <3>2. QED
      BY <1>2, <1>3, <1>5, <3>1 DEF GsmTyped
  <2>2. holder' \in Seq(Caller \cup {"none"}) /\ Len(holder') = 1
    BY <1>1, <1>2 DEF GsmTyped
  <2>3. wire' \in Seq(Message) /\ line' \in Seq(Chunk)
    BY <1>1
  <2>4. made' = 1 /\ current' \in 0..made' /\ dialogs' \in Nat
    BY <1>1, <1>2 DEF GsmTyped
  <2>5. thread' \in [Caller -> ThreadState(made')]
    BY <1>5, <2>4
  <2>6. modem' \in [typing : BOOLEAN, rest : {FALSE}, network : BOOLEAN] /\ ~gub'
    BY <1>1, <1>2 DEF GsmTyped
  <2>7. QED
    BY <2>1, <2>2, <2>3, <2>4, <2>5, <2>6 DEF GsmTyped
<1>8. OneObject'
  <2>1. made' = 1
    BY <1>1, <1>2
  <2>2. QED
    BY <1>1, <1>2, <1>3, <1>5, <2>1 DEF OneObject
<1>9. Guarded'
  <2>1. ASSUME NEW d \in Caller, Active(d)', ~thread'[d].opening PROVE holder'[1] = d
    BY <1>3, <1>5, <1>6, <2>1
  <2>2. QED
    BY <2>1 DEF Guarded, Active
<1>10. InOrder'
  <2>1. Clean
    BY <1>1, <1>2 DEF Sound, InOrder, Active
  <2>2. Clean'
    BY <1>1, <2>1 DEF Clean
  <2>3. InDialogue(c)'
    BY <1>3, <1>5, <2>2 DEF InDialogue, TextStep, NetworkStep
  <2>4. QED
    BY <1>6, <2>2, <2>3 DEF InOrder
<1>11. Truthful'
  <2>1. \A d \in Caller : thread'[d].pc \notin {"read", "leave"}
    BY <1>2, <1>3, <1>5
  <2>2. QED
    BY <1>1, <2>1 DEF Sound, Truthful
<1>12. QED
  BY <1>7, <1>8, <1>9, <1>10, <1>11 DEF Sound

-----------------------------------------------------------------------------
\* What the modem does leaves the threads as they are: it is to be shown what the thread in a
\* dialogue finds on the line, and that what it believes stays true.
LEMMA ModemStep ==
  ASSUME Steady, Sound, NEW c \in Caller, Active(c),
         UNCHANGED <<thread, current, made, holder, dialogs, sent, plugged, gub, trouble>>,
         wire' \in Seq(Message), line' \in Seq(Chunk),
         modem' \in [typing : BOOLEAN, rest : {FALSE}, network : BOOLEAN],
         accepted \subseteq accepted',
         plugged => InDialogue(c)',
         thread[c].pc = "read" /\ TextStep(c) => Texting(c)'
  PROVE  Sound'
<1>1. \A d \in Caller : d # c => ~Active(d)
  BY Alone DEF Sound
<1>2. GsmTyped' /\ OneObject' /\ Guarded'
  BY DEF Sound, GsmTyped, OneObject, Guarded, Active
<1>3. InOrder'
  <2>1. \A d \in Caller : Active(d)' <=> Active(d)
    BY DEF Active
  <2>2. QED
    BY <1>1, <2>1 DEF InOrder
<1>4. Truthful'
  <2>1. ASSUME NEW d \in Caller, thread'[d].pc = "read", TextStep(d)' PROVE Texting(d)'
    <3>1. d = c
      BY <1>1, <2>1 DEF Active
    <3>2. QED
      BY <2>1, <3>1 DEF TextStep
  <2>2. \A d \in Caller : thread'[d].pc = "leave" /\ thread'[d].call = "sendSms" /\ thread'[d].ok =>
          thread'[d].number \in accepted'
    BY DEF Sound, Truthful
  <2>3. sent' \subseteq accepted'
    BY DEF Sound, Truthful
  <2>4. QED
    BY <2>1, <2>2, <2>3 DEF Truthful
<1>5. QED
  BY <1>2, <1>3, <1>4 DEF Sound

\* The modem answers the thread in a dialogue: nobody else has written.
LEMMA AnswerSound ==
  ASSUME Steady, Sound, Answer
  PROVE  Sound'
<1>1. /\ plugged /\ wire # <<>> /\ wire' = Tail(wire)
      /\ IF modem.typing THEN TakeText(Head(wire)) ELSE TakeCommand(Head(wire))
      /\ UNCHANGED <<thread, current, made, holder, dialogs, sent, plugged, gub, trouble>>
  BY DEF Answer
<1>2. /\ GsmTyped /\ wire \in Seq(Message) /\ line \in Seq(Chunk)
      /\ modem \in [typing : BOOLEAN, rest : {FALSE}, network : BOOLEAN]
  BY DEF Sound, GsmTyped
<1>3. /\ Len(wire) \in Nat \ {0} /\ Head(wire) = wire[1] /\ wire' \in Seq(Message)
      /\ Len(wire) = 1 => wire' = <<>>
      /\ Len(wire) = 2 => Len(wire') = 1 /\ wire'[1] = wire[2]
  BY <1>1, <1>2, WireFacts
<1>4. PICK c \in Caller : Active(c)
  BY <1>1 DEF Sound, InOrder, Clean
<1> DEFINE t == thread[c]
           first == wire[1]
<1>5. /\ t \in ThreadState(made) /\ t.step \in 1..Length(t)
      /\ InDialogue(c) /\ (t.pc = "read" /\ TextStep(c) => Texting(c))
      /\ t.pc \in {"write", "read", "leave"}
  BY <1>1, <1>2, <1>4 DEF GsmTyped, Sound, InOrder, Truthful, Active
<1>6. Item(c)' = Item(c)
  BY <1>1 DEF Item, Program
<1>7. /\ TextStep(c)' <=> TextStep(c)
      /\ CmgsStep(c)' <=> CmgsStep(c)
      /\ NetworkStep(c)' <=> NetworkStep(c)
      /\ Simple(c)' <=> Simple(c)
  BY <1>1 DEF TextStep, CmgsStep, NetworkStep, Simple
\* CMGS is answered with a prompt or refused.
<1>8. ASSUME ~modem.typing, first.command \in {"CMGS", "text"}
      PROVE  /\ line' \in Seq(Chunk) /\ (Said("OK")' <=> Said("OK"))
             /\ accepted' = accepted /\ modem'.network = modem.network
             /\ modem' \in [typing : BOOLEAN, rest : {FALSE}, network : BOOLEAN]
             /\ first.command = "text" => modem'.typing = modem.typing
  <2>1. \/ Says(<<"ERROR">>) /\ accepted' = accepted /\ modem' = modem
        \/ first.command = "CMGS" /\ Says(<<">">>) /\ accepted' = accepted
             /\ modem' = [modem EXCEPT !.typing = TRUE]
    BY <1>1, <1>3, <1>8 DEF TakeCommand, Refuses
  <2>2. line' \in Seq(Chunk) /\ (Said("OK")' <=> Said("OK"))
    BY <1>2, <2>1, SaysFacts DEF Chunk
  <2>3. QED
    BY <1>2, <1>8, <2>1, <2>2
<1>9. CASE (t.pc = "write" /\ TextStep(c)) \/ (t.pc = "read" /\ CmgsStep(c))
  <2>1. Prompting
    BY <1>5, <1>9 DEF InDialogue
  <2>2. ~modem.typing /\ Len(wire) = 1 /\ first.command = "CMGS" /\ ~Said("OK") /\ ~modem.network
    BY <1>1, <2>1 DEF Prompting
  <2>3. Prompting'
    BY <1>3, <1>8, <2>2 DEF Prompting
  <2>4. InDialogue(c)'
    BY <1>1, <1>7, <1>9, <2>3 DEF InDialogue
  <2>5. ~(t.pc = "read" /\ TextStep(c))
    BY <1>9 DEF TextStep, CmgsStep
  <2>6. QED
    BY <1>1, <1>3, <1>4, <1>8, <2>2, <2>4, <2>5, ModemStep
<1>10. CASE t.pc = "read" /\ TextStep(c)
  <2> DEFINE n == t.number
             told == "OK" \in t.got \/ Said("OK")
  <2>1. Texting(c) /\ Texting(c)' = Texting(c)'
    BY <1>5, <1>10
  <2>2. ~CmgsStep(c) /\ ~NetworkStep(c) /\ ~Simple(c)
    BY <1>10 DEF TextStep, CmgsStep, NetworkStep, Simple
  <2>3. InDialogue(c)'
    BY <1>1, <1>7, <1>10, <2>2 DEF InDialogue
  <2>4. CASE ~told /\ ~modem.typing /\ Len(wire) = 2 /\ wire[1].command = "CMGS"
             /\ wire[2] = Text(n)
    <3>1. Texting(c)'
      BY <1>1, <1>3, <1>8, <2>1, <2>4 DEF Texting
    <3>2. QED
      BY <1>1, <1>3, <1>4, <1>8, <2>3, <2>4, <3>1, ModemStep
  <2>5. CASE ~told /\ Len(wire) = 1 /\ wire[1] = Text(n) /\ ~modem.typing
    <3>1. first.command = "text"
      BY <2>5 DEF Text
    <3>2. Texting(c)'
      BY <1>1, <1>3, <1>8, <2>1, <2>5, <3>1 DEF Texting
    <3>3. QED
      BY <1>1, <1>3, <1>4, <1>8, <2>3, <2>5, <3>1, <3>2, ModemStep
  <2>6. CASE ~told /\ Len(wire) = 1 /\ wire[1] = Text(n) /\ modem.typing
    <3>1. first.command = "text" /\ first.number = n
      BY <2>6 DEF Text
    <3>2. /\ modem' = [modem EXCEPT !.typing = FALSE]
          /\ \/ Says(<<"OK">>) /\ accepted' = accepted \cup {n}
             \/ Says(<<"ERROR">>) /\ accepted' = accepted
      BY <1>1, <1>3, <2>6, <3>1 DEF TakeText
    <3>3. /\ ~modem'.typing /\ ~modem'.network
          /\ modem' \in [typing : BOOLEAN, rest : {FALSE}, network : BOOLEAN]
      BY <1>2, <2>1, <3>2 DEF Texting
    <3>4. line' \in Seq(Chunk) /\ (Said("OK")' => n \in accepted')
      <4>1. CASE Says(<<"OK">>) /\ accepted' = accepted \cup {n}
        BY <1>2, <4>1, SaysFacts DEF Chunk
      <4>2. CASE Says(<<"ERROR">>) /\ accepted' = accepted
        BY <1>2, <2>6, <4>2, SaysFacts DEF Chunk
      <4>3. QED
        BY <3>2, <4>1, <4>2
    <3>5. Texting(c)'
      BY <1>1, <1>3, <2>6, <3>3, <3>4 DEF Texting
    <3>6. accepted \subseteq accepted'
      BY <3>2
    <3>7. QED
      BY <1>1, <1>3, <1>4, <2>3, <3>3, <3>4, <3>5, <3>6, ModemStep
  <2>7. QED
    BY <1>1, <2>1, <2>4, <2>5, <2>6 DEF Texting
<1>11. CASE t.pc = "read" /\ Simple(c)
  <2>1. Asking(c)
    BY <1>5, <1>11 DEF InDialogue, Simple
  <2>2. /\ ~modem.typing /\ line = <<>> /\ ~modem.network /\ Len(wire) = 1
        /\ first.command = Item(c).command
        /\ Item(c).how # "wait" => t.got = {}
    BY <1>1, <2>1 DEF Asking
  <2>3. Item(c).command \in {"CMGF", "CSMP", "CSCS", "CUSD", "AT", "CPAS", "CSQ", "CMEE"}
    BY <1>5, <1>11, ItemFacts
  <2>4. /\ accepted' = accepted
        /\ \/ Says(<<"ERROR">>) /\ modem' = modem
           \/ Item(c).command \notin {"CUSD", "CSQ", "CPAS"} /\ Says(<<"OK">>) /\ modem' = modem
           \/ Item(c).command \in {"CSQ", "CPAS"} /\ Says(<<"answer", "OK">>) /\ modem' = modem
           \/ Item(c).command = "CUSD" /\ Says(<<"OK">>)
                /\ modem' = [modem EXCEPT !.network = TRUE]
    BY <1>1, <1>3, <2>2, <2>3 DEF TakeCommand, Refuses, Steady
  <2>5. ~Said("OK")
    BY <2>2 DEF Said, ToSet
  <2>6. /\ line' \in Seq(Chunk) /\ line' # <<>> /\ ~modem'.typing
        /\ modem' \in [typing : BOOLEAN, rest : {FALSE}, network : BOOLEAN]
        /\ modem'.network <=> Item(c).command = "CUSD" /\ Said("OK")'
    <3>1. CASE Says(<<"ERROR">>) /\ modem' = modem
      <4>1. line' \in Seq(Chunk) /\ line' # <<>> /\ ~Said("OK")'
        BY <1>2, <2>5, <3>1, SaysFacts DEF Chunk
      <4>2. QED
        BY <1>2, <2>2, <3>1, <4>1
    <3>2. CASE Item(c).command \notin {"CUSD", "CSQ", "CPAS"} /\ Says(<<"OK">>) /\ modem' = modem
      <4>1. line' \in Seq(Chunk) /\ line' # <<>>
        BY <1>2, <3>2, SaysFacts DEF Chunk
      <4>2. QED
        BY <1>2, <2>2, <3>2, <4>1
    <3>3. CASE Item(c).command \in {"CSQ", "CPAS"} /\ Says(<<"answer", "OK">>) /\ modem' = modem
      <4>1. line' \in Seq(Chunk) /\ line' # <<>>
        BY <1>2, <3>3, SaysTwoFacts
      <4>2. QED
        BY <1>2, <2>2, <3>3, <4>1
    <3>4. CASE Item(c).command = "CUSD" /\ Says(<<"OK">>)
               /\ modem' = [modem EXCEPT !.network = TRUE]
      <4>1. line' \in Seq(Chunk) /\ line' # <<>> /\ Said("OK")'
        BY <1>2, <3>4, SaysFacts DEF Chunk
      <4>2. QED
        BY <1>2, <2>2, <3>4, <4>1
    <3>5. QED
      BY <2>4, <3>1, <3>2, <3>3, <3>4
  <2>7. Asking(c)'
    BY <1>1, <1>3, <1>6, <2>2, <2>6 DEF Asking
  <2>8. InDialogue(c)' /\ ~TextStep(c)
    BY <1>1, <1>7, <1>11, <2>7 DEF InDialogue, Simple
  <2>9. QED
    BY <1>1, <1>3, <1>4, <2>4, <2>6, <2>8, ModemStep
<1>12. QED
  <2>1. t.pc = "write" => TextStep(c)
    BY <1>1, <1>5 DEF InDialogue, Networking, Clean
  <2>2. t.pc = "read" => ~NetworkStep(c)
    <3>1. NetworkStep(c) => ~CmgsStep(c)
      BY DEF NetworkStep, CmgsStep
    <3>2. QED
      BY <1>1, <1>5, <3>1 DEF InDialogue, Networking
  <2>3. t.pc # "leave"
    BY <1>1, <1>5 DEF InDialogue, Clean
  <2>4. t.pc = "read" => CmgsStep(c) \/ TextStep(c) \/ Simple(c)
    BY <2>2 DEF Simple
  <2>5. CASE t.pc = "write"
    <3>1. t.pc = "write" /\ TextStep(c)
      BY <2>1, <2>5
    <3>2. QED
      BY <1>9, <3>1
  <2>6. CASE t.pc = "read"
    <3>1. \/ t.pc = "read" /\ CmgsStep(c)
          \/ t.pc = "read" /\ TextStep(c)
          \/ t.pc = "read" /\ Simple(c)
      BY <2>4, <2>6
    <3>2. QED
      BY <1>9, <1>10, <1>11, <3>1
  <2>7. QED
    BY <1>5, <2>3, <2>5, <2>6

\* The network answers the thread that waits for it.
LEMMA NetworkSound ==
  ASSUME Steady, Sound, Network
  PROVE  Sound'
<1>1. /\ plugged /\ modem.network /\ line = <<>> /\ Says(<<"+CUSD">>)
      /\ modem' = [modem EXCEPT !.network = FALSE]
      /\ UNCHANGED <<thread, current, made, holder, wire, dialogs, sent, accepted, refused, plugged,
                     gub, trouble>>
  BY DEF Network, Steady
<1>2. /\ wire' \in Seq(Message) /\ line \in Seq(Chunk)
      /\ modem \in [typing : BOOLEAN, rest : {FALSE}, network : BOOLEAN]
      /\ modem' \in [typing : BOOLEAN, rest : {FALSE}, network : BOOLEAN]
      /\ ~modem'.network /\ modem'.typing = modem.typing
  BY <1>1 DEF Sound, GsmTyped
<1>3. line' = <<"+CUSD">> /\ line' \in Seq(Chunk)
  BY <1>1, <1>2, SaysFacts DEF Chunk
<1>4. PICK c \in Caller : Active(c)
  BY <1>1 DEF Sound, InOrder, Clean
<1> DEFINE t == thread[c]
<1>5. /\ InDialogue(c) /\ (t.pc = "read" /\ TextStep(c) => Texting(c))
      /\ t.pc \in {"write", "read", "leave"}
  BY <1>1, <1>4 DEF Sound, InOrder, Truthful, Active
<1>6. /\ TextStep(c)' <=> TextStep(c)
      /\ CmgsStep(c)' <=> CmgsStep(c)
      /\ NetworkStep(c)' <=> NetworkStep(c)
  BY <1>1 DEF TextStep, CmgsStep, NetworkStep
<1>7. ~Prompting /\ ~Clean /\ ~Asking(c) /\ ~Texting(c)
  <2>1. ~Asking(c)
    BY <1>1 DEF Asking
  <2>2. QED
    BY <1>1, <2>1 DEF Prompting, Clean, Texting
<1>8. ~TextStep(c) /\ ~CmgsStep(c) /\ NetworkStep(c) /\ t.pc # "leave"
  <2>1. t.pc # "leave"
    BY <1>5, <1>7 DEF InDialogue
  <2>2. t.pc = "write" => ~TextStep(c) /\ NetworkStep(c)
    BY <1>5, <1>7 DEF InDialogue
  <2>3. t.pc = "read" => ~TextStep(c) /\ NetworkStep(c)
    BY <1>5, <1>7 DEF InDialogue, Simple
  <2>4. NetworkStep(c) => ~CmgsStep(c)
    BY DEF NetworkStep, CmgsStep
  <2>5. QED
    BY <1>5, <2>1, <2>2, <2>3, <2>4
<1>9. Networking
  BY <1>5, <1>8 DEF InDialogue
<1>10. Networking'
  BY <1>1, <1>2, <1>3, <1>9 DEF Networking
<1>11. InDialogue(c)'
  BY <1>1, <1>5, <1>6, <1>8, <1>10 DEF InDialogue
<1>12. QED
  BY <1>1, <1>2, <1>3, <1>4, <1>8, <1>11, ModemStep

\* Without the device nothing is promised but that what was said is true.
LEMMA UnplugSound ==
  ASSUME Steady, Sound, Unplug
  PROVE  Sound'
<1>1. /\ ~plugged'
      /\ UNCHANGED <<thread, current, made, holder, wire, line, modem, dialogs, sent, accepted,
                     refused, gub, trouble>>
  BY DEF Unplug
<1>2. GsmTyped' /\ OneObject' /\ Guarded' /\ InOrder'
  BY <1>1 DEF Sound, GsmTyped, OneObject, Guarded, InOrder, Active
<1>3. Truthful'
  <2>1. ASSUME NEW d \in Caller, thread'[d].pc = "read", TextStep(d)' PROVE Texting(d)'
    <3>1. Texting(d)
      BY <1>1, <2>1 DEF Sound, Truthful, TextStep
    <3>2. QED
      BY <1>1, <3>1 DEF Texting, Said
  <2>2. QED
    BY <1>1, <2>1 DEF Sound, Truthful
<1>4. QED
  BY <1>2, <1>3 DEF Sound

\* In the initial states nobody has asked.
LEMMA InitSound ==
  ASSUME GsmInit, Steady
  PROVE  Sound
<1>1. /\ \A c \in Caller : thread[c] = Idle /\ Idle.pc = "idle" /\ ~Idle.opening /\ Idle.step = 1
      /\ thread \in [Caller -> ThreadState(0)]
  <2>1. Idle \in ThreadState(0) /\ Idle.pc = "idle" /\ ~Idle.opening /\ Idle.step = 1
    BY DEF Idle, ThreadState, Locking
  <2>2. thread = [c \in Caller |-> Idle]
    BY DEF GsmInit
  <2> QED
    BY <2>1, <2>2
<1>2. 1 \in 1..Length(Idle)
  <2>1. Idle.call = "query" /\ ~Idle.opening
    BY DEF Idle
  <2>2. QED
    BY <2>1, DialogueFacts DEF Length
<1>3. GsmTyped
  <2>1. holder \in Seq(Caller \cup {"none"}) /\ Len(holder) = 0 /\ wire \in Seq(Message)
        /\ line \in Seq(Chunk)
    BY DEF GsmInit
  <2>2. modem \in [typing : BOOLEAN, rest : {FALSE}, network : BOOLEAN]
    BY DEF GsmInit
  <2>3. \A c \in Caller : /\ thread[c].step \in 1..Length(thread[c])
                          /\ thread[c].pc = "lock" => thread[c].step = 1
    BY <1>1, <1>2
  <2>4. made = 0 /\ current = 0 /\ dialogs = 0 /\ ~gub
    BY DEF GsmInit
  <2>5. thread \in [Caller -> ThreadState(made)]
    BY <1>1, <2>4
  <2>6. QED
    <3>1. made \in Nat /\ current \in 0..made /\ dialogs \in Nat /\ Len(holder) = made
      BY <2>1, <2>4
    <3>2. QED
      BY <2>1, <2>2, <2>3, <2>4, <2>5, <3>1 DEF GsmTyped
<1>4. \A c \in Caller : ~Active(c) /\ ~thread[c].opening /\ thread[c].pc = "idle"
  BY <1>1 DEF Active
<1>5. OneObject /\ Guarded
  BY <1>4 DEF GsmInit, OneObject, Guarded
<1>6. InOrder
  BY <1>4 DEF GsmInit, InOrder, Clean
<1>7. Truthful
  <2>1. \A c \in Caller : thread[c].pc \notin {"read", "leave"}
    BY <1>4
  <2>2. QED
    BY <2>1 DEF GsmInit, Truthful
<1>8. QED
  BY <1>3, <1>5, <1>6, <1>7 DEF Sound

-----------------------------------------------------------------------------
\* What goes wrong in a behaviour never changes.
LEMMA TroubleStays == [GsmNext]_gsmVars => trouble' = trouble
BY DEF GsmNext, ScriptThread, gsmVars, Ask, Make, Lock, Write, Read, TimeOut, Leave, Answer,
       RestOfAnswer, Network, Unplug, Stop

\* Every step keeps what is known of the line, the mutex and the messages.
LEMMA NextSound == GsmInv /\ [GsmNext]_gsmVars => GsmInv'
<1>1. SUFFICES ASSUME Sound, Steady, Steady', [GsmNext]_gsmVars PROVE Sound'
  BY TroubleStays DEF GsmInv, Steady
<1>2. ASSUME NEW c \in Caller, NEW call \in Call, Ask(c, call) PROVE Sound'
  BY <1>1, <1>2, AskSound
<1>3. ASSUME NEW c \in Caller, NEW call \in Call, Make(c, call) PROVE Sound'
  BY <1>1, <1>3, MakeSound
<1>4. ASSUME NEW c \in Caller, ScriptThread(c) PROVE Sound'
  BY <1>1, <1>4, LockSound, WriteSound, ReadSound, TimeOutSound, LeaveSound DEF ScriptThread
<1>5. CASE Answer \/ Network \/ Unplug
  BY <1>1, <1>5, AnswerSound, NetworkSound, UnplugSound
<1>6. ~RestOfAnswer
  BY <1>1 DEF RestOfAnswer, Sound, GsmTyped
<1>7. ~Stop
  BY <1>1 DEF Stop, Steady
<1>8. CASE UNCHANGED gsmVars
  <2>1. GsmTyped' /\ OneObject' /\ Guarded'
    BY <1>1, <1>8 DEF gsmVars, Sound, GsmTyped, OneObject, Guarded, Active
  <2>2. InOrder'
    <3>1. /\ Prompting' <=> Prompting
          /\ Networking' <=> Networking
          /\ Clean' <=> Clean
          /\ \A c \in Caller : /\ Item(c)' = Item(c)
                              /\ thread'[c] = thread[c]
      BY <1>8 DEF gsmVars, Prompting, Networking, Clean, Said, Item, Program
    <3>2. ASSUME NEW c \in Caller, Active(c), InDialogue(c) PROVE InDialogue(c)'
      <4>1. Asking(c)' <=> Asking(c)
        BY <1>8, <3>1 DEF gsmVars, Asking, Said
      <4>2. /\ TextStep(c)' <=> TextStep(c)
            /\ CmgsStep(c)' <=> CmgsStep(c)
            /\ NetworkStep(c)' <=> NetworkStep(c)
        BY <3>1 DEF TextStep, CmgsStep, NetworkStep
      <4>3. (Simple(c)' <=> Simple(c)) /\ thread'[c].pc = thread[c].pc
        BY <3>1, <4>2 DEF Simple
      <4>4. thread[c].pc \in {"write", "read", "leave"}
        BY <3>2 DEF Active
      <4>5. CASE thread[c].pc = "write"
        BY <3>1, <3>2, <4>2, <4>3, <4>5 DEF InDialogue
      <4>6. CASE thread[c].pc = "read"
        BY <3>1, <3>2, <4>1, <4>2, <4>3, <4>6 DEF InDialogue
      <4>7. CASE thread[c].pc = "leave"
        BY <3>1, <3>2, <4>3, <4>7 DEF InDialogue
      <4>8. QED
        BY <4>4, <4>5, <4>6, <4>7
    <3>3. QED
      BY <1>1, <1>8, <3>1, <3>2 DEF gsmVars, Sound, InOrder, Active
  <2>3. Truthful'
    BY <1>1, <1>8 DEF gsmVars, Sound, Truthful, Texting, Said, TextStep
  <2>4. QED
    BY <2>1, <2>2, <2>3 DEF Sound
<1>9. QED
  BY <1>1, <1>2, <1>3, <1>4, <1>5, <1>6, <1>7, <1>8 DEF GsmNext

\* When sendSms returns true the modem has accepted that message, as long as the modem answers in
\* time and as a whole and isReady is not called, for any scripts and numbers of calls, and also
\* when the device is pulled (CGsm::sendSms, CSerial::waitFor, CSerialDevices::gsm).
THEOREM SentMeansAccepted == GsmSpec => []SentIsAccepted
<1>1. GsmInit => GsmInv
  BY InitSound DEF GsmInv
<1>2. GsmInv /\ [GsmNext]_gsmVars => GsmInv'
  BY NextSound
<1>3. GsmInv => SentIsAccepted
  BY DEF GsmInv, Sound, Truthful, SentIsAccepted, Steady
<1>4. QED
  BY <1>1, <1>2, <1>3, PTL DEF GsmSpec

-----------------------------------------------------------------------------
\* Nobody waits for what cannot come.  A script that waits for an OK finds one on the line or has a
\* command on the wire that the modem has still to answer, unless the modem has refused something;
\* one that waits for the network finds its answer or the network has still to give it; and one
\* that waits for the mutex waits for a script that is in a dialogue and not itself waiting for a
\* mutex (CGsm::sendSms, CGsm::ussd, CSerial::waitFor).
NobodyWaitsInVain ==
  trouble = "none" =>
    \A c \in Caller :
      /\ ~refused /\ thread[c].pc = "read" /\ Item(c).how = "wait" => wire # <<>> \/ Said("OK")
      /\ thread[c].pc = "read" /\ Item(c).how = "cusd" => modem.network \/ Said("+CUSD")
      /\ thread[c].pc = "lock" /\ holder[thread[c].with] # "none" =>
           Active(holder[thread[c].with])

\* What a wait for an OK is owed.
Owed(c) == thread[c].pc = "read" /\ Item(c).how = "wait" => wire # <<>> \/ Said("OK")

\* The mutex is held only by a script that is in a dialogue.
HeldInDialogue == made = 1 /\ holder[1] # "none" => Active(holder[1]) /\ ~thread[holder[1]].opening

Served == plugged /\ HeldInDialogue /\ (~refused => \A c \in Caller : Owed(c))

ServedInv == trouble = "none" => Sound /\ Served

\* The owner of the mutex is a script.
LEMMA Holder ==
  ASSUME GsmTyped, made = 1
  PROVE  holder[1] \in Caller \cup {"none"}
<1>1. holder \in Seq(Caller \cup {"none"}) /\ Len(holder) = 1
  BY DEF GsmTyped
<1>2. QED
  BY <1>1

\* A step of the thread in a dialogue, that leaves the mutex alone: the others are owed nothing.
LEMMA ActiveServed ==
  ASSUME Sound, Served, NEW c \in Caller, Active(c),
         \A d \in Caller : d # c => thread'[d] = thread[d],
         UNCHANGED <<made, holder, refused, plugged>>,
         thread[c].opening \/ (Active(c)' /\ ~thread'[c].opening),
         thread'[c].pc = "read" => Owed(c)'
  PROVE  Served'
<1>1. \A d \in Caller : d # c => ~Active(d)
  BY Alone DEF Sound
<1>2. HeldInDialogue'
  <2> SUFFICES ASSUME made = 1, holder[1] # "none"
               PROVE  Active(holder[1])' /\ ~thread'[holder[1]].opening
    BY DEF HeldInDialogue
  <2>1. holder[1] \in Caller /\ Active(holder[1]) /\ ~thread[holder[1]].opening
    BY Holder DEF Served, HeldInDialogue, Sound
  <2>2. QED
    BY <1>1, <2>1 DEF Active
<1>3. \A d \in Caller : Owed(d)'
  <2>1. \A d \in Caller : d # c => thread'[d].pc # "read"
    BY <1>1 DEF Active
  <2>2. QED
    BY <2>1 DEF Owed
<1>4. QED
  BY <1>2, <1>3 DEF Served

\* The end of a step of a dialogue.
LEMMA ProceedServed ==
  ASSUME Sound, Served, NEW c \in Caller, Active(c), NEW good \in BOOLEAN, Proceed(c, good),
         UNCHANGED <<made, holder, refused, plugged>>
  PROVE  Served'
<1>1. /\ \A d \in Caller : d # c => thread'[d] = thread[d]
      /\ \/ thread'[c].pc = "write" /\ thread'[c].opening = thread[c].opening
         \/ thread'[c].pc = "lock" /\ thread[c].opening
         \/ thread'[c].pc = "leave" /\ ~thread'[c].opening
  BY ProceedFacts DEF Sound
<1>2. thread[c].opening \in BOOLEAN
  BY DEF Sound, GsmTyped, ThreadState
<1>3. thread[c].opening \/ (Active(c)' /\ ~thread'[c].opening)
  BY <1>1, <1>2 DEF Active
<1>4. QED
  BY <1>1, <1>3, ActiveServed

\* Whoever waits for an OK has written a command.
LEMMA WriteServed ==
  ASSUME Sound, Served, NEW c \in Caller, Write(c)
  PROVE  Served'
<1>1. /\ Active(c) /\ GsmTyped /\ thread[c] \in ThreadState(made)
      /\ thread[c].step \in 1..Length(thread[c]) /\ wire \in Seq(Message)
      /\ UNCHANGED <<made, holder, refused, plugged>>
  BY DEF Write, Active, Sound, GsmTyped
<1>2. /\ thread' = [thread EXCEPT ![c].pc = "read", ![c].got = {}]
      /\ Item(c).command # "none" => \E m : wire' = Append(wire, m)
  BY DEF Write, Served
<1>3. /\ \A d \in Caller : d # c => thread'[d] = thread[d]
      /\ thread'[c].pc = "read" /\ thread'[c].step = thread[c].step
      /\ thread'[c].call = thread[c].call /\ thread'[c].opening = thread[c].opening
  BY <1>1, <1>2, ReadingFacts
<1>4. Item(c)' = Item(c)
  BY <1>3 DEF Item, Program
<1>5. Item(c).how = "wait" => Item(c).command # "none"
  BY <1>1, ItemFacts DEF Simple
<1>6. \A m : Append(wire, m) # <<>>
  BY <1>1
<1>7. Owed(c)'
  BY <1>2, <1>4, <1>5, <1>6 DEF Owed
<1>8. thread[c].opening \in BOOLEAN
  BY <1>1 DEF ThreadState
<1>9. thread[c].opening \/ (Active(c)' /\ ~thread'[c].opening)
  BY <1>3, <1>8 DEF Active
<1>10. QED
  BY <1>1, <1>3, <1>7, <1>9, ActiveServed

\* Whoever goes on waiting has not read an OK, and has been owed one.
LEMMA ReadServed ==
  ASSUME Sound, Served, NEW c \in Caller, Read(c)
  PROVE  Served'
<1> DEFINE how == Item(c).how
           got == thread[c].got \cup ToSet(line)
<1>1. /\ thread[c].pc = "read" /\ Active(c) /\ GsmTyped /\ thread[c] \in ThreadState(made)
      /\ thread[c].step \in 1..Length(thread[c]) /\ line \in Seq(Chunk)
      /\ UNCHANGED <<made, holder, wire, refused, plugged>>
  BY DEF Read, Active, Sound, GsmTyped
<1>2. how \in {"wait", "checked", "once", "now", "cusd"}
  BY <1>1, ItemFacts DEF Simple
<1>3. \/ \E good \in BOOLEAN : Proceed(c, good)
      \/ /\ how \in {"wait", "cusd"} /\ Needle(how) \notin got
         /\ thread' = [thread EXCEPT ![c].got = got]
  <2>1. how \in {"once", "now"} => Proceed(c, TRUE)
    BY DEF Read
  <2>2. how = "checked" => Proceed(c, "OK" \in got)
    BY DEF Read
  <2>3. how \in {"wait", "cusd"} =>
          \/ Proceed(c, TRUE)
          \/ Needle(how) \notin got /\ thread' = [thread EXCEPT ![c].got = got]
    BY DEF Read
  <2>4. ("OK" \in got) \in BOOLEAN
    OBVIOUS
  <2>5. how = "checked" => \E good \in BOOLEAN : Proceed(c, good)
    BY <2>2, <2>4, Zenon
  <2>6. QED
    BY <1>2, <2>1, <2>3, <2>5
<1>4. ASSUME how \in {"wait", "cusd"}, Needle(how) \notin got,
             thread' = [thread EXCEPT ![c].got = got]
      PROVE  Served'
  <2>1. got \in SUBSET Chunk
    BY <1>1 DEF ThreadState, ToSet
  <2> HIDE DEF got
  <2>2. /\ \A d \in Caller : d # c => thread'[d] = thread[d]
        /\ thread'[c].pc = "read" /\ thread'[c].step = thread[c].step
        /\ thread'[c].call = thread[c].call /\ thread'[c].opening = thread[c].opening
    BY <1>1, <1>4, <2>1, GotFacts
  <2>3. Item(c)' = Item(c)
    BY <2>2 DEF Item, Program
  <2>4. how = "wait" => ~Said("OK")
    BY <1>4 DEF Needle, Said, got
  <2>5. ~refused => Owed(c)
    BY DEF Served
  <2>6. ~refused => Owed(c)'
    BY <1>1, <2>3, <2>4, <2>5 DEF Owed
  <2>7. \A d \in Caller : d # c => ~Active(d) /\ thread'[d].pc # "read"
    BY <1>1, <2>2, Alone DEF Sound, Active
  <2>8. HeldInDialogue'
    <3> SUFFICES ASSUME made = 1, holder[1] # "none"
                 PROVE  Active(holder[1])' /\ ~thread'[holder[1]].opening
      BY <1>1 DEF HeldInDialogue
    <3>1. holder[1] \in Caller /\ Active(holder[1]) /\ ~thread[holder[1]].opening
      BY Holder DEF Served, HeldInDialogue, Sound
    <3>2. QED
      BY <1>1, <2>2, <2>7, <3>1 DEF Active
  <2>9. QED
    BY <1>1, <2>6, <2>7, <2>8 DEF Served, Owed
<1>5. QED
  BY <1>1, <1>3, <1>4, ProceedServed

\* The mutex is handed on.
LEMMA MutexServed ==
  ASSUME Steady, Sound, Served, NEW c \in Caller, Lock(c) \/ Leave(c)
  PROVE  Served'
<1>1. /\ GsmTyped /\ UNCHANGED <<made, wire, line, refused, plugged>>
      /\ thread[c].pc # "idle" /\ thread[c].with = 1 /\ made = 1
      /\ thread[c] \in ThreadState(made)
  BY DEF Lock, Leave, Sound, OneObject, GsmTyped
<1>2. holder \in Seq(Caller \cup {"none"}) /\ Len(holder) = 1
  BY <1>1 DEF GsmTyped
<1>3. CASE Lock(c)
  <2>1. /\ thread' = [thread EXCEPT ![c].pc = "write"] /\ ~thread[c].opening
        /\ holder' = [holder EXCEPT ![1] = c]
    BY <1>1, <1>3 DEF Lock, Sound, OneObject
  <2>2. /\ \A d \in Caller : d # c => thread'[d] = thread[d]
        /\ thread'[c].pc = "write" /\ thread'[c].opening = thread[c].opening
    BY <1>1, <2>1, PlaceFacts
  <2>3. holder'[1] = c
    BY <1>2, <2>1, HolderFacts
  <2>4. HeldInDialogue'
    BY <2>1, <2>2, <2>3 DEF HeldInDialogue, Active
  <2>5. ~refused => \A d \in Caller : Owed(d)'
    <3>1. ASSUME NEW d \in Caller, ~refused, thread'[d].pc = "read" PROVE Owed(d)'
      <4>1. d # c /\ thread'[d] = thread[d] /\ Owed(d)
        BY <2>2, <3>1 DEF Served
      <4>2. Item(d)' = Item(d)
        BY <4>1 DEF Item, Program
      <4>3. QED
        BY <1>1, <4>1, <4>2 DEF Owed, Said
    <3>2. QED
      BY <3>1 DEF Owed
  <2>6. QED
    BY <1>1, <2>4, <2>5 DEF Served
<1>4. CASE Leave(c)
  <2>1. /\ Active(c) /\ thread' = [thread EXCEPT ![c] = Idle] /\ thread[c].call \in Locking
        /\ holder' = [holder EXCEPT ![1] = "none"]
    BY <1>1, <1>4 DEF Leave, Active, ThreadState
  <2>2. /\ \A d \in Caller : d # c => thread'[d] = thread[d]
        /\ thread'[c].pc = "idle"
    BY <2>1 DEF GsmTyped, Sound, Idle
  <2>3. holder'[1] = "none"
    BY <1>2, <2>1
  <2>4. HeldInDialogue'
    BY <2>3 DEF HeldInDialogue
  <2>5. \A d \in Caller : thread'[d].pc # "read"
    BY <2>1, <2>2, Alone DEF Sound, Active
  <2>6. QED
    BY <1>1, <2>4, <2>5 DEF Served, Owed
<1>5. QED
  BY <1>3, <1>4

\* A script asks: it holds nothing yet, and whoever makes the modem is alone.
LEMMA AskServed ==
  ASSUME trouble = "none", Sound, Served, NEW c \in Caller, NEW call \in Call,
         Ask(c, call) \/ Make(c, call)
  PROVE  Served'
<1>1. /\ thread[c].pc = "idle" /\ UNCHANGED <<refused, plugged>>
      /\ \A d \in Caller : ~thread[d].opening
  BY DEF Ask, Make, Asks
<1> DEFINE asked == [pc |-> Entry(call), call |-> call, step |-> 1, with |-> current, got |-> {},
                     number |-> MessageNumber(call), ok |-> FALSE, opening |-> FALSE]
           making == [pc |-> "write", call |-> call, step |-> 1, with |-> made + 1, got |-> {},
                      number |-> MessageNumber(call), ok |-> FALSE, opening |-> TRUE]
<1>2. /\ \A d \in Caller : d # c => thread'[d] = thread[d]
      /\ thread'[c].pc \in {"lock", "write"}
  <2>1. thread' = [thread EXCEPT ![c] = asked] \/ thread' = [thread EXCEPT ![c] = making]
    BY DEF Ask, Make
  <2>2. asked.pc \in {"lock", "write"} /\ making.pc = "write"
    BY DEF Entry
  <2> HIDE DEF asked, making
  <2>3. DOMAIN thread = Caller
    BY DEF Sound, GsmTyped
  <2>4. QED
    BY <2>1, <2>2, <2>3
<1>3. CASE Ask(c, call)
  <2>1. UNCHANGED <<made, holder, wire, line>>
    BY <1>3 DEF Ask
  <2>2. HeldInDialogue'
    <3> SUFFICES ASSUME made = 1, holder[1] # "none"
                 PROVE  Active(holder[1])' /\ ~thread'[holder[1]].opening
      BY <2>1 DEF HeldInDialogue
    <3>1. holder[1] \in Caller /\ Active(holder[1]) /\ ~thread[holder[1]].opening
      BY Holder DEF Served, HeldInDialogue, Sound
    <3>2. QED
      BY <1>1, <1>2, <2>1, <3>1 DEF Active
  <2>3. ASSUME NEW d \in Caller, ~refused, thread'[d].pc = "read" PROVE Owed(d)'
    <3>1. d # c /\ thread'[d] = thread[d] /\ Owed(d)
      BY <1>2, <2>3 DEF Served
    <3>2. Item(d)' = Item(d)
      BY <3>1 DEF Item, Program
    <3>3. QED
      BY <2>1, <3>1, <3>2 DEF Owed, Said
  <2>4. QED
    BY <1>1, <2>2, <2>3 DEF Served, Owed
<1>4. CASE Make(c, call)
  <2>1. made = 0 /\ \A d \in Caller : thread[d].pc = "idle"
    BY <1>1, <1>4 DEF Make, Sound, OneObject
  <2>2. holder \in Seq(Caller \cup {"none"}) /\ Len(holder) = 0 /\ holder' = Append(holder, "none")
    BY <1>4, <2>1 DEF Make, Sound, GsmTyped
  <2>3. holder'[1] = "none"
    BY <2>2
  <2>4. \A d \in Caller : thread'[d].pc # "read"
    BY <1>2, <2>1
  <2>5. QED
    BY <1>1, <2>3, <2>4 DEF Served, HeldInDialogue, Owed
<1>5. QED
  BY <1>3, <1>4

\* A modem that does not refuse says OK to the command of a script that waits for it; a text comes
\* after the prompt.
LEMMA AnswerServed ==
  ASSUME trouble = "none", Sound, Served, Answer
  PROVE  Served'
<1>1. /\ plugged /\ wire # <<>> /\ wire' = Tail(wire)
      /\ IF modem.typing THEN TakeText(Head(wire)) ELSE TakeCommand(Head(wire))
      /\ UNCHANGED <<thread, made, holder, plugged>>
  BY DEF Answer
<1>2. /\ GsmTyped /\ wire \in Seq(Message) /\ line \in Seq(Chunk)
  BY DEF Sound, GsmTyped
<1>3. /\ Len(wire) \in Nat \ {0} /\ Head(wire) = wire[1]
      /\ Len(wire) = 2 => Len(wire') = 1
      /\ wire' \in Seq(Message)
  BY <1>1, <1>2, WireFacts
<1>4. HeldInDialogue'
  BY <1>1 DEF Served, HeldInDialogue, Active
<1>5. refused => refused'
  BY <1>1 DEF TakeText, TakeCommand, Refuses
<1>6. ASSUME NEW c \in Caller, thread[c].pc = "read", Item(c).how = "wait", ~refused'
      PROVE  wire' # <<>> \/ Said("OK")'
  <2>1. /\ thread[c] \in ThreadState(made) /\ thread[c].step \in 1..Length(thread[c])
        /\ InDialogue(c) /\ (TextStep(c) => Texting(c))
    BY <1>1, <1>2, <1>6 DEF GsmTyped, Sound, InOrder, Truthful, Active
  <2>2. /\ ~CmgsStep(c) /\ ~NetworkStep(c)
        /\ Simple(c) => Item(c).command \in {"CMGF", "CSMP", "CSCS", "CUSD", "AT", "CPAS", "CSQ", "CMEE"}
        /\ Item(c).command = "CUSD" /\ Simple(c) => Item(c).how = "checked"
    BY <1>6, <2>1, ItemFacts
  <2>3. CASE modem.typing
    <3>1. Says(<<"OK">>)
      BY <1>1, <1>6, <2>3 DEF TakeText
    <3>2. QED
      BY <1>2, <3>1, SaysFacts DEF Chunk
  <2>4. CASE ~modem.typing /\ TextStep(c)
    <3>1. (Len(wire) = 2 /\ wire[1].command = "CMGS") \/ (Len(wire) = 1 /\ wire[1].command = "text")
      BY <1>1, <2>1, <2>4 DEF Texting, Text
    <3>2. wire[1].command # "text"
      BY <1>1, <1>3, <1>6, <2>4 DEF TakeCommand, Refuses
    <3>3. QED
      BY <1>3, <3>1, <3>2
  <2>5. CASE ~modem.typing /\ Simple(c)
    <3>1. Asking(c)
      BY <1>6, <2>1, <2>2, <2>5 DEF InDialogue, Simple
    <3>2. wire[1].command = Item(c).command
      BY <1>1, <3>1 DEF Asking
    <3>3. /\ TakeCommand(wire[1])
          /\ wire[1].command \in {"CMGF", "CSMP", "CSCS", "AT", "CPAS", "CSQ", "CMEE"}
      BY <1>1, <1>3, <1>6, <2>2, <2>5, <3>2
    <3>4. Says(<<"OK">>) \/ Says(<<"answer", "OK">>)
      BY <1>6, <3>3 DEF TakeCommand, Refuses
    <3>5. CASE Says(<<"OK">>)
      BY <1>2, <3>5, SaysFacts DEF Chunk
    <3>6. CASE Says(<<"answer", "OK">>)
      BY <1>2, <3>6, SaysTwoFacts
    <3>7. QED
      BY <3>4, <3>5, <3>6
  <2>6. QED
    BY <2>2, <2>3, <2>4, <2>5 DEF Simple
<1>7. ASSUME NEW c \in Caller PROVE Item(c)' = Item(c)
  BY <1>1 DEF Item, Program
<1>8. ~refused' => \A c \in Caller : Owed(c)'
  BY <1>1, <1>6, <1>7 DEF Owed
<1>9. QED
  BY <1>1, <1>4, <1>8 DEF Served

\* The network adds to the line.
LEMMA NetworkServed ==
  ASSUME Sound, Served, Network
  PROVE  Served'
<1>1. UNCHANGED <<thread, made, holder, wire, refused, plugged>> /\ Says(<<"+CUSD">>)
  BY DEF Network
<1>2. Said("OK") => Said("OK")'
  BY <1>1, SaysFacts DEF Sound, GsmTyped, Chunk
<1>3. ASSUME NEW c \in Caller PROVE Item(c)' = Item(c)
  BY <1>1 DEF Item, Program
<1>4. HeldInDialogue'
  BY <1>1 DEF Served, HeldInDialogue, Active
<1>5. QED
  BY <1>1, <1>2, <1>3, <1>4 DEF Served, Owed

\* Nobody waits for what cannot come: for an OK, for the answer of the network, or for a mutex,
\* for any scripts and numbers of calls, as long as the modem answers in time and refuses nothing.
\* What is left of DialogsEnd is that the threads and the modem are run.
THEOREM NoVainWait == GsmSpec => []NobodyWaitsInVain
<1>1. GsmInit => GsmInv /\ ServedInv
  <2>1. GsmInit => GsmInv
    BY InitSound DEF GsmInv
  <2>2. GsmInit => Served
    <3> SUFFICES ASSUME GsmInit PROVE Served
      OBVIOUS
    <3>1. plugged /\ made = 0 /\ \A c \in Caller : thread[c].pc = "idle"
      BY DEF GsmInit, Idle
    <3>2. QED
      BY <3>1 DEF Served, HeldInDialogue, Owed
  <2>3. QED
    BY <2>1, <2>2 DEF GsmInv, ServedInv, Steady
<1>2. GsmInv /\ ServedInv /\ [GsmNext]_gsmVars => GsmInv' /\ ServedInv'
  <2> SUFFICES ASSUME GsmInv, ServedInv, [GsmNext]_gsmVars, trouble' = "none" PROVE Served'
    BY NextSound DEF GsmInv, ServedInv, Steady
  <2>1. trouble = "none" /\ Steady /\ Sound /\ Served
    <3>1. trouble = trouble'
      BY TroubleStays
    <3>2. QED
      BY <3>1 DEF ServedInv, Steady
  <2>2. ASSUME NEW c \in Caller, ScriptThread(c) PROVE Served'
    <3>1. CASE TimeOut(c)
      <4>1. Active(c) /\ UNCHANGED <<made, holder, refused, plugged>>
            /\ Proceed(c, Item(c).how = "once")
        BY <3>1 DEF TimeOut, Active
      <4>2. QED
        BY <2>1, <4>1, ProceedServed
    <3>2. QED
      BY <2>1, <2>2, <3>1, WriteServed, ReadServed, MutexServed DEF ScriptThread
  <2>3. CASE UNCHANGED gsmVars
    <3>1. UNCHANGED <<thread, made, holder, wire, line, refused, plugged>>
      BY <2>3 DEF gsmVars
    <3>2. QED
      BY <2>1, <3>1 DEF Served, HeldInDialogue, Owed, Active, Said, Item, Program
  <2>4. ~RestOfAnswer /\ ~Unplug /\ ~Stop
    BY <2>1 DEF RestOfAnswer, Unplug, Stop, Sound, GsmTyped
  <2>5. QED
    BY <2>1, <2>2, <2>3, <2>4, AskServed, AnswerServed, NetworkServed DEF GsmNext
<1>3. GsmInv /\ ServedInv => NobodyWaitsInVain
  <2> SUFFICES ASSUME ServedInv, trouble = "none", NEW c \in Caller
               PROVE  /\ ~refused => Owed(c)
                      /\ thread[c].pc = "read" /\ Item(c).how = "cusd" =>
                           modem.network \/ Said("+CUSD")
                      /\ thread[c].pc = "lock" /\ holder[thread[c].with] # "none" =>
                           Active(holder[thread[c].with])
    BY DEF NobodyWaitsInVain, Owed
  <2>1. Sound /\ Served
    BY DEF ServedInv
  <2>2. ~refused => Owed(c)
    BY <2>1 DEF Served
  <2>3. ASSUME thread[c].pc = "read", Item(c).how = "cusd" PROVE modem.network \/ Said("+CUSD")
    <3>1. NetworkStep(c)
      <4>1. thread[c] \in ThreadState(made) /\ thread[c].step \in 1..Length(thread[c])
        BY <2>1 DEF Sound, GsmTyped
      <4>2. QED
        BY <2>3, <4>1, ItemFacts DEF Simple
    <3>2. InDialogue(c)
      BY <2>1, <2>3 DEF Sound, InOrder, Served, Active
    <3>3. Networking
      BY <2>3, <3>1, <3>2 DEF InDialogue, NetworkStep, CmgsStep
    <3>4. line = <<"+CUSD">> => Said("+CUSD")
      BY DEF Said, ToSet
    <3>5. QED
      BY <3>3, <3>4 DEF Networking
  <2>4. ASSUME thread[c].pc = "lock", holder[thread[c].with] # "none"
        PROVE  Active(holder[thread[c].with])
    <3>1. thread[c].with = 1 /\ made = 1
      BY <2>1, <2>4 DEF Sound, OneObject
    <3>2. QED
      BY <2>1, <2>4, <3>1 DEF Served, HeldInDialogue
  <2>5. QED
    BY <2>2, <2>3, <2>4
<1>4. QED
  BY <1>1, <1>2, <1>3, PTL DEF GsmSpec

-----------------------------------------------------------------------------
(***************************************************************************)
(* Properties of devices.                                                  *)
(***************************************************************************)

\* Fits and Stored for a property of type t.
FitsAs(t, item) ==
  \/ t # "color" /\ KindOf(item) = t
  \/ t = "color" /\ KindOf(item) = "array"
  \/ t = "double" /\ KindOf(item) = "int"

StoredAs(t, item) ==
  Value(t, CASE t = "string" -> AsString(item)
             [] t = "int" -> AsInt(item)
             [] t = "double" -> AsDouble(item)
             [] t = "bool" -> AsBool(item)
             [] t = "color" -> FromArray(Data(item)))

\* A value that a device of type t can have.
Proper(t, v) == v = Value(t, Data(v)) /\ (t = "color" => Data(v) \in CColor)

Items == UNION {{AsJson(v) : v \in Choice[k]} : k \in Kind}

\* The values that a device of type t is set to, by command or by hand.
Held(t) == Choice[t] \cup {StoredAs(t, item) : item \in Items}

\* The commands and the reports that are under way, the device and the last value are of the type.
WayTyped ==
  /\ valueType \in Kind
  /\ device \in Held(valueType) /\ Proper(valueType, device)
  /\ commands \in Seq(Items) /\ reports \in Seq({AsJson(v) : v \in Held(valueType)})
  /\ last = Nothing \/ last = Value(valueType, Data(last))

\* The last command that a device of type t will understand is what is wanted of it; without one
\* it is what the device is.
LastWinsIn(t, dev, want, cs) ==
  \/ want = dev /\ \A i \in DOMAIN cs : ~FitsAs(t, cs[i])
  \/ \E i \in DOMAIN cs :
       /\ FitsAs(t, cs[i]) /\ want = StoredAs(t, cs[i])
       /\ \A j \in DOMAIN cs : j > i => ~FitsAs(t, cs[j])

LastWins == LastWinsIn(valueType, device, wanted, commands)

\* The last report says what the device is; without one the last value does, unless it was
\* cleared.
LastSays ==
  IF reports = <<>> THEN last = Nothing \/ last = device
  ELSE StoredAs(valueType, reports[Len(reports)]) = device

CommandsInv == WayTyped /\ LastSays /\ (careful => LastWins)

\* What the device understands and stores is that of its type.
LEMMA AsBefore ==
  ASSUME NEW item
  PROVE  (Fits(item) <=> FitsAs(valueType, item)) /\ Stored(item) = StoredAs(valueType, item)
BY DEF Fits, FitsAs, Stored, StoredAs

\* What a device holds comes back unchanged from an item of JSON.
LEMMA ProperComesBack ==
  ASSUME NEW t \in Kind, NEW v, Proper(t, v)
  PROVE  FitsAs(t, AsJson(v)) /\ StoredAs(t, AsJson(v)) = v
<1>1. KindOf(v) = t
  BY DEF Proper, Value, KindOf
<1>2. CASE t = "color"
  <2>1. /\ AsJson(v) = Value("array", AsArray(Data(v)))
        /\ KindOf(AsJson(v)) = "array" /\ Data(AsJson(v)) = AsArray(Data(v))
    BY <1>1, <1>2 DEF AsJson, Value, KindOf, Data
  <2>2. FromArray(AsArray(Data(v))) = Data(v)
    <3>1. Data(v) \in CColor
      BY <1>2 DEF Proper
    <3>2. \A n \in Component : n % 256 = n
      BY DEF Component
    <3>3. QED
      BY <3>1, <3>2 DEF CColor, FromArray, AsArray, Rgb
  <2>3. StoredAs(t, AsJson(v)) = Value("color", FromArray(Data(AsJson(v))))
    BY <1>2 DEF StoredAs
  <2>4. FitsAs(t, AsJson(v))
    BY <1>2, <2>1 DEF FitsAs
  <2>5. Value("color", Data(v)) = v
    BY <1>2 DEF Proper
  <2>6. QED
    BY <2>1, <2>2, <2>3, <2>4, <2>5
<1>3. CASE t # "color"
  <2>1. AsJson(v) = v
    BY <1>1, <1>3 DEF AsJson
  <2>2. FitsAs(t, v)
    BY <1>1, <1>3 DEF FitsAs
  <2>3. StoredAs(t, v) = Value(t, Data(v))
    BY <1>1, <1>3 DEF StoredAs, AsString, AsInt, AsDouble, AsBool, Kind
  <2>4. QED
    BY <2>1, <2>2, <2>3 DEF Proper
<1>4. QED
  BY <1>2, <1>3

\* What is stored is of the type of the property.
LEMMA StoredAsIs ==
  ASSUME NEW t, NEW item
  PROVE  StoredAs(t, item) = Value(t, Data(StoredAs(t, item)))
<1>1. ASSUME NEW d PROVE Value(t, d) = Value(t, Data(Value(t, d)))
  BY DEF Value, Data
<1>2. \E d : StoredAs(t, item) = Value(t, d)
  BY DEF StoredAs
<1>3. QED
  BY <1>1, <1>2

\* What a device stores of a command that it understands is a value of its type.
LEMMA StoredIsProper ==
  ASSUME NEW t \in Kind, NEW item \in Items, FitsAs(t, item)
  PROVE  Proper(t, StoredAs(t, item))
<1>k. PICK k \in Kind : \E v \in Choice[k] : item = AsJson(v)
  BY DEF Items
<1>1. PICK v \in Choice[k] : item = AsJson(v)
  BY <1>k
<1>2. v = Value(k, Data(v)) /\ (k = "color" => Data(v) \in CColor)
  BY CommandsAssumption
<1>3. KindOf(v) = k
  BY <1>2 DEF Value, KindOf
<1>4. StoredAs(t, item) = Value(t, Data(StoredAs(t, item)))
  BY StoredAsIs
<1>5. CASE t = "color"
  <2>1. KindOf(item) = "array"
    BY <1>5 DEF FitsAs
  <2>2. k = "color"
    BY <1>1, <1>3, <2>1 DEF AsJson, Kind
  <2>3. FitsAs(t, AsJson(v)) /\ StoredAs(t, AsJson(v)) = v
    BY <1>2, <1>5, <2>2, ProperComesBack DEF Proper
  <2>4. QED
    BY <1>1, <1>2, <1>5, <2>2, <2>3 DEF Proper
<1>6. QED
  BY <1>4, <1>5 DEF Proper

\* A command that is appended is the last one, if the device understands it.
LEMMA AppendedWins ==
  ASSUME NEW t, NEW d, NEW w, NEW cs \in Seq(Items), NEW item \in Items, LastWinsIn(t, d, w, cs)
  PROVE  LastWinsIn(t, d, IF FitsAs(t, item) THEN StoredAs(t, item) ELSE w, Append(cs, item))
<1> DEFINE all == Append(cs, item)
<1>1. /\ DOMAIN cs = 1..Len(cs) /\ DOMAIN all = 1..(Len(cs) + 1) /\ Len(cs) \in Nat
      /\ \A i \in 1..Len(cs) : all[i] = cs[i]
      /\ all[Len(cs) + 1] = item
  BY AppendProperties, LenProperties
<1> HIDE DEF all
<1>2. CASE FitsAs(t, item)
  <2>1. Len(cs) + 1 \in DOMAIN all /\ \A j \in DOMAIN all : ~(j > Len(cs) + 1)
    BY <1>1
  <2>2. LastWinsIn(t, d, StoredAs(t, item), all)
    BY <1>1, <1>2, <2>1 DEF LastWinsIn
  <2>3. QED
    BY <1>2, <2>2 DEF all
<1>3. CASE ~FitsAs(t, item)
  <2>1. CASE w = d /\ \A i \in DOMAIN cs : ~FitsAs(t, cs[i])
    <3>1. \A i \in DOMAIN all : ~FitsAs(t, all[i])
      <4> TAKE i \in DOMAIN all
      <4>1. i \in 1..Len(cs) \/ i = Len(cs) + 1
        BY <1>1
      <4>2. QED
        BY <1>1, <1>3, <2>1, <4>1
    <3>2. LastWinsIn(t, d, w, all)
      BY <2>1, <3>1 DEF LastWinsIn
    <3>3. QED
      BY <1>3, <3>2 DEF all
  <2>2. ASSUME NEW i \in DOMAIN cs, FitsAs(t, cs[i]), w = StoredAs(t, cs[i]),
               \A j \in DOMAIN cs : j > i => ~FitsAs(t, cs[j])
        PROVE  LastWinsIn(t, d, w, all)
    <3>1. i \in DOMAIN all /\ all[i] = cs[i]
      BY <1>1
    <3>2. ASSUME NEW j \in DOMAIN all, j > i PROVE ~FitsAs(t, all[j])
      <4>1. j \in 1..Len(cs) \/ j = Len(cs) + 1
        BY <1>1
      <4>2. QED
        BY <1>1, <1>3, <2>2, <3>2, <4>1
    <3>3. QED
      BY <2>2, <3>1, <3>2 DEF LastWinsIn
  <2>3. QED
    BY <1>3, <2>1, <2>2 DEF LastWinsIn, all
<1>4. QED
  BY <1>2, <1>3

\* When the first command is obeyed the last one still wins.
LEMMA ObeyedWins ==
  ASSUME NEW t, NEW d, NEW w, NEW cs \in Seq(Items), cs # <<>>, LastWinsIn(t, d, w, cs)
  PROVE  LastWinsIn(t, IF FitsAs(t, Head(cs)) THEN StoredAs(t, Head(cs)) ELSE d, w, Tail(cs))
<1> DEFINE rest == Tail(cs)
           new == IF FitsAs(t, Head(cs)) THEN StoredAs(t, Head(cs)) ELSE d
<1>1. /\ DOMAIN cs = 1..Len(cs) /\ DOMAIN rest = 1..(Len(cs) - 1) /\ Len(cs) \in Nat \ {0}
      /\ \A i \in 1..(Len(cs) - 1) : rest[i] = cs[i + 1]
      /\ Head(cs) = cs[1]
  BY HeadTailProperties, LenProperties, EmptySeq
<1> HIDE DEF rest
<1>2. CASE w = d /\ \A i \in DOMAIN cs : ~FitsAs(t, cs[i])
  <2>1. new = d
    BY <1>1, <1>2
  <2>2. \A i \in DOMAIN rest : ~FitsAs(t, rest[i])
    BY <1>1, <1>2
  <2>3. LastWinsIn(t, new, w, rest)
    BY <1>2, <2>1, <2>2 DEF LastWinsIn
  <2>4. QED
    BY <2>3 DEF rest
<1>3. ASSUME NEW i \in DOMAIN cs, FitsAs(t, cs[i]), w = StoredAs(t, cs[i]),
             \A j \in DOMAIN cs : j > i => ~FitsAs(t, cs[j])
      PROVE  LastWinsIn(t, new, w, rest)
  <2>1. CASE i = 1
    <3>1. new = w
      BY <1>1, <1>3, <2>1
    <3>2. \A j \in DOMAIN rest : ~FitsAs(t, rest[j])
      BY <1>1, <1>3, <2>1
    <3>3. QED
      BY <3>1, <3>2 DEF LastWinsIn
  <2>2. CASE i # 1
    <3>1. i - 1 \in DOMAIN rest /\ rest[i - 1] = cs[i]
      BY <1>1, <2>2
    <3>2. \A j \in DOMAIN rest : j > i - 1 => ~FitsAs(t, rest[j])
      BY <1>1, <1>3
    <3>3. QED
      BY <1>3, <3>1, <3>2 DEF LastWinsIn
  <2>3. QED
    BY <2>1, <2>2
<1>4. QED
  BY <1>2, <1>3 DEF LastWinsIn, rest

\* A value that a script sets is of its kind and an item of JSON can say it.
LEMMA ItemOf ==
  ASSUME NEW k \in Kind, NEW v \in Choice[k]
  PROVE  AsJson(v) \in Items /\ v = Value(k, Data(v)) /\ Proper(k, v)
BY CommandsAssumption DEF Items, Proper

\* A command keeps the invariant when wanted follows it and the device can still be told of it.
LEMMA PublishKeeps ==
  ASSUME CommandsInv, NEW k \in Kind, NEW v \in Choice[k], Publish(v), Wants(v),
         UNCHANGED <<valueType, readonly, device, last, reports, careful>>
  PROVE  CommandsInv'
<1>1. AsJson(v) \in Items
  BY ItemOf
<1>2. WayTyped'
  <2>1. commands' \in Seq(Items)
    BY <1>1, AppendProperties DEF CommandsInv, WayTyped, Publish
  <2>2. QED
    BY <2>1 DEF CommandsInv, WayTyped
<1>3. LastSays'
  BY DEF CommandsInv, LastSays
<1>4. ASSUME careful PROVE LastWins'
  <2>1. LastWinsIn(valueType, device, wanted, commands)
    BY <1>4 DEF CommandsInv, LastWins
  <2>2. wanted' = IF FitsAs(valueType, AsJson(v)) /\ ~readonly
                  THEN StoredAs(valueType, AsJson(v)) ELSE wanted
    BY AsBefore DEF Wants
  <2>3. CASE readonly
    BY <2>1, <2>2, <2>3 DEF Publish, LastWins
  <2>4. CASE ~readonly
    <3>1. commands \in Seq(Items) /\ commands' = Append(commands, AsJson(v))
      BY <2>4 DEF CommandsInv, WayTyped, Publish
    <3>2. wanted' = IF FitsAs(valueType, AsJson(v)) THEN StoredAs(valueType, AsJson(v)) ELSE wanted
      BY <2>2, <2>4
    <3>3. LastWinsIn(valueType, device, wanted', commands')
      BY <1>1, <2>1, <3>1, <3>2, AppendedWins
    <3>4. QED
      BY <3>3 DEF LastWins
  <2>5. QED
    BY <2>3, <2>4
<1>5. QED
  BY <1>2, <1>3, <1>4 DEF CommandsInv

\* A call of set keeps the invariant.
LEMMA SetKeeps ==
  ASSUME CommandsInv, NEW k \in Kind, NEW v \in Choice[k], Set(v)
  PROVE  CommandsInv'
BY PublishKeeps DEF Set

\* A call that finds the last value to be what it is to set: nothing is under way, so that the
\* device is that already.
LEMMA SetIfNotEqualKeeps ==
  ASSUME CommandsInv, NEW k \in Kind, NEW v \in Choice[k], SetIfNotEqual(v)
  PROVE  CommandsInv'
<1>1. CASE CompareValue(last, v)
  BY <1>1, PublishKeeps DEF SetIfNotEqual
<1>2. CASE ~CompareValue(last, v)
  <2>1. UNCHANGED <<valueType, readonly, device, last, commands, reports, careful>>
    BY <1>2 DEF SetIfNotEqual
  <2>2. WayTyped' /\ LastSays'
    BY <2>1 DEF CommandsInv, WayTyped, LastSays
  <2>3. ASSUME careful PROVE LastWins'
    <3>1. commands = <<>> /\ reports = <<>>
      BY <2>3 DEF SetIfNotEqual, Settled
    <3>2. v = Value(k, Data(v)) /\ KindOf(v) = k
      BY ItemOf DEF Value, KindOf
    <3>3. KindOf(last) = k /\ Data(last) = Data(v)
      BY <1>2, <3>2 DEF CompareValue
    <3>4. last # Nothing
      BY <3>3 DEF Nothing, Value, KindOf, Kind
    <3>5. last = device
      BY <3>1, <3>4 DEF CommandsInv, LastSays
    <3>6. last = Value(valueType, Data(last)) /\ KindOf(last) = valueType
      BY <3>4 DEF CommandsInv, WayTyped, Value, KindOf
    <3>7. v = device
      BY <3>2, <3>3, <3>5, <3>6
    <3>8. Proper(valueType, device) /\ valueType \in Kind
      BY DEF CommandsInv, WayTyped
    <3>9. Stored(AsJson(v)) = device
      BY <3>7, <3>8, ProperComesBack, AsBefore
    <3>10. wanted = device
      BY <2>3, <3>1 DEF CommandsInv, LastWins, LastWinsIn
    <3>11. wanted' = device
      BY <3>9, <3>10 DEF SetIfNotEqual, Wants
    <3>12. QED
      BY <2>1, <3>1, <3>11 DEF LastWins, LastWinsIn
  <2>4. QED
    BY <2>1, <2>2, <2>3 DEF CommandsInv
<1>3. QED
  BY <1>1, <1>2

\* A cleared property says nothing wrong.
LEMMA ClearKeeps ==
  ASSUME CommandsInv, Clear
  PROVE  CommandsInv'
<1>1. WayTyped'
  BY DEF CommandsInv, WayTyped, Clear
<1>2. LastSays'
  BY DEF CommandsInv, LastSays, Clear
<1>3. careful' => LastWins'
  BY DEF CommandsInv, LastWins, Clear
<1>4. QED
  BY <1>1, <1>2, <1>3 DEF CommandsInv

\* A report keeps the invariant: the last one says what the device is.
LEMMA UpdateKeeps ==
  ASSUME CommandsInv, Update
  PROVE  CommandsInv'
<1> DEFINE Report == {AsJson(v) : v \in Held(valueType)}
<1>1. reports \in Seq(Report) /\ reports # <<>> /\ reports' = Tail(reports)
  BY DEF CommandsInv, WayTyped, Update
<1> HIDE DEF Report
<1>2. /\ reports' \in Seq(Report) /\ Len(reports) \in Nat \ {0} /\ Head(reports) = reports[1]
      /\ reports' # <<>> => reports'[Len(reports')] = reports[Len(reports)]
      /\ reports' = <<>> => Len(reports) = 1
  <2>1. /\ reports' \in Seq(Report) /\ Len(reports) \in Nat \ {0}
        /\ Len(reports') = Len(reports) - 1
        /\ \A i \in 1..Len(reports') : reports'[i] = reports[i + 1]
    BY <1>1, HeadTailProperties, LenProperties, EmptySeq
  <2>2. Head(reports) = reports[1]
    BY <1>1
  <2>3. reports' # <<>> => Len(reports') \in 1..Len(reports')
    BY <2>1, LenProperties, EmptySeq
  <2>4. reports' = <<>> => Len(reports') = 0
    BY EmptySeq
  <2>5. QED
    BY <2>1, <2>2, <2>3, <2>4
<1>3. last' = StoredAs(valueType, Head(reports))
  BY AsBefore DEF Update
<1>4. last' = Value(valueType, Data(last'))
  BY <1>3, StoredAsIs
<1>5. WayTyped'
  BY <1>2, <1>4 DEF CommandsInv, WayTyped, Update, Report
<1>6. LastSays'
  <2>1. StoredAs(valueType, reports[Len(reports)]) = device
    BY <1>1 DEF CommandsInv, LastSays
  <2>2. QED
    BY <1>2, <1>3, <2>1 DEF Update, LastSays
<1>7. careful' => LastWins'
  BY DEF CommandsInv, LastWins, Update
<1>8. QED
  BY <1>5, <1>6, <1>7 DEF CommandsInv

\* A report that is appended says what the device is now.
LEMMA ReportKeeps ==
  ASSUME CommandsInv, Proper(valueType, device'), device' \in Held(valueType),
         reports' = Append(reports, AsJson(device')), UNCHANGED <<valueType, last>>,
         commands' \in Seq(Items)
  PROVE  WayTyped' /\ LastSays'
<1> DEFINE Report == {AsJson(v) : v \in Held(valueType)}
<1>1. reports \in Seq(Report) /\ AsJson(device') \in Report
  BY DEF CommandsInv, WayTyped
<1> HIDE DEF Report
<1>2. /\ reports' \in Seq(Report) /\ Len(reports') = Len(reports) + 1 /\ Len(reports) \in Nat
      /\ reports'[Len(reports')] = AsJson(device')
  BY <1>1, AppendProperties, LenProperties
<1>3. reports' # <<>>
  BY <1>2
<1>4. StoredAs(valueType, AsJson(device')) = device'
  BY ProperComesBack DEF CommandsInv, WayTyped
<1>5. QED
  BY <1>2, <1>3, <1>4 DEF CommandsInv, WayTyped, LastSays, Report

\* A device that obeys becomes what the command says and reports just that.
LEMMA ObeyKeeps ==
  ASSUME CommandsInv, Obey
  PROVE  CommandsInv'
<1> DEFINE item == Head(commands)
<1>1. /\ commands \in Seq(Items) /\ commands # <<>> /\ commands' = Tail(commands)
      /\ item \in Items /\ commands' \in Seq(Items)
  BY HeadTailProperties DEF CommandsInv, WayTyped, Obey
<1>2. /\ device' = IF FitsAs(valueType, item) THEN StoredAs(valueType, item) ELSE device
      /\ reports' = IF FitsAs(valueType, item) THEN Append(reports, AsJson(device')) ELSE reports
      /\ UNCHANGED <<valueType, readonly, last, wanted, calls, careful>>
  BY AsBefore DEF Obey
<1>3. WayTyped' /\ LastSays'
  <2>1. CASE FitsAs(valueType, item)
    <3>1. Proper(valueType, device')
      BY <1>1, <1>2, <2>1, StoredIsProper DEF CommandsInv, WayTyped
    <3>2. device' \in Held(valueType)
      BY <1>1, <1>2, <2>1 DEF Held
    <3>3. QED
      BY <1>1, <1>2, <2>1, <3>1, <3>2, ReportKeeps
  <2>2. CASE ~FitsAs(valueType, item)
    BY <1>1, <1>2, <2>2 DEF CommandsInv, WayTyped, LastSays
  <2>3. QED
    BY <2>1, <2>2
<1>4. ASSUME careful PROVE LastWins'
  <2>1. LastWinsIn(valueType, device, wanted, commands)
    BY <1>4 DEF CommandsInv, LastWins
  <2>2. LastWinsIn(valueType, device', wanted, commands')
    BY <1>1, <1>2, <2>1, ObeyedWins
  <2>3. QED
    BY <1>2, <2>2 DEF LastWins
<1>5. QED
  BY <1>2, <1>3, <1>4 DEF CommandsInv

\* A hand at the device keeps the invariant: only a command under way outlasts it.
LEMMA TurnKeeps ==
  ASSUME CommandsInv, NEW v \in Choice[valueType], Turn(v)
  PROVE  CommandsInv'
<1>1. Proper(valueType, device') /\ device' \in Held(valueType)
  BY ItemOf DEF CommandsInv, WayTyped, Turn, Held
<1>2. WayTyped' /\ LastSays'
  BY <1>1, ReportKeeps DEF CommandsInv, WayTyped, Turn
<1>3. ASSUME careful PROVE LastWins'
  <2>1. LastWinsIn(valueType, device, wanted, commands)
    BY <1>3 DEF CommandsInv, LastWins
  <2>2. wanted' = IF \E i \in DOMAIN commands : FitsAs(valueType, commands[i]) THEN wanted
                  ELSE device'
    BY AsBefore DEF Turn
  <2>3. LastWinsIn(valueType, device', wanted', commands)
    BY <2>1, <2>2 DEF LastWinsIn
  <2>4. QED
    BY <2>3 DEF LastWins, Turn
<1>4. QED
  BY <1>2, <1>3 DEF CommandsInv, Turn

\* When nothing is under way the device is what the last command or the last hand wanted it to be,
\* and the last value, unless it was cleared, is the device's (CProperty::setIfNotEqual,
\* CEndpoint::updateProperty).
THEOREM TheLastWordCounts == CommandsSpec => []WantedInTheEnd
<1>1. CommandsInit => CommandsInv
  <2> SUFFICES ASSUME CommandsInit PROVE CommandsInv
    OBVIOUS
  <2>1. valueType \in Kind /\ device \in Choice[valueType]
    BY DEF CommandsInit
  <2>2. Proper(valueType, device) /\ device \in Held(valueType)
    BY <2>1, ItemOf DEF Held
  <2>3. WayTyped
    BY <2>1, <2>2 DEF CommandsInit, WayTyped
  <2>4. LastSays
    BY <2>1, <2>2, ProperComesBack DEF CommandsInit, LastSays
  <2>5. LastWins
    BY DEF CommandsInit, LastWins, LastWinsIn
  <2>6. QED
    BY <2>3, <2>4, <2>5 DEF CommandsInv
<1>2. CommandsInv /\ [CommandsNext]_commandVars => CommandsInv'
  <2> SUFFICES ASSUME CommandsInv, [CommandsNext]_commandVars PROVE CommandsInv'
    OBVIOUS
  <2>1. CASE UNCHANGED commandVars
    BY <2>1 DEF commandVars, CommandsInv, WayTyped, LastSays, LastWins
  <2>2. QED
    BY <2>1, SetKeeps, SetIfNotEqualKeeps, ClearKeeps, UpdateKeeps, ObeyKeeps, TurnKeeps
       DEF CommandsNext
<1>3. CommandsInv => WantedInTheEnd
  <2> SUFFICES ASSUME CommandsInv, careful, Settled,
                      KindOf(last) # "empty" => last = device
               PROVE  ~CompareValue(device, wanted)
                      /\ (KindOf(last) # "empty" => ~CompareValue(last, device))
    BY DEF WantedInTheEnd, CommandsInv, LastSays, Settled, Nothing, Value, KindOf
  <2>1. wanted = device
    BY DEF CommandsInv, LastWins, LastWinsIn, Settled
  <2>2. QED
    BY <2>1 DEF CompareValue
<1>4. QED
  BY <1>1, <1>2, <1>3, PTL DEF CommandsSpec

=============================================================================
