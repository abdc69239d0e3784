---------------------------------- MODULE Dates ----------------------------------
(***************************************************************************)
(* CDateTime and CTimeInterval: both are a number of milliseconds, one     *)
(* since the epoch.  A double that a script passes is a whole number of    *)
(* seconds here; local time has neither summer nor leap seconds.           *)
(***************************************************************************)
EXTENDS Integers, Sequences

Day == 86400

-----------------------------------------------------------------------------
(***************************************************************************)
(* CTimeInterval.                                                          *)
(***************************************************************************)
\* The constructor from a double takes seconds.  The one from milliseconds takes them for
\* seconds too: CTimer gives it milliseconds divided by a thousand.
FromSeconds(seconds) == 1000 * seconds

FromMilliseconds(milliseconds) == 1000 * milliseconds

\* CTimeInterval::seconds: a division of integers.
Seconds(interval) == interval \div 1000

\* operator+ and operator- hand the milliseconds to the constructor that wants seconds.
Add(i, j) == FromSeconds(i + j)

\* A negative difference is out of the range of the cast and has no value in the code.
Subtract(i, j) == FromSeconds(i - j)

\* One part of the text: how often the unit is in what is left, and what is left then.
Part(rest, unit) ==
  IF unit = 0 THEN [count |-> 0, rest |-> rest]
  ELSE [count |-> rest \div unit, rest |-> rest % unit]

\* CTimeInterval::asString: weeks, days, hours, minutes, seconds; the last part divides what is
\* left by itself.
AsParts(interval) ==
  LET w == Part(interval, 7 * Day * 1000)
      d == Part(w.rest, Day * 1000)
      h == Part(d.rest, 3600000)
      m == Part(h.rest, 60000)
      s == Part(m.rest, 1000)
      ms == Part(s.rest, s.rest)
  IN  [w |-> w.count, d |-> d.count, h |-> h.count, m |-> m.count, s |-> s.count, ms |-> ms.count]

-----------------------------------------------------------------------------
(***************************************************************************)
(* CDateTime.                                                              *)
(***************************************************************************)
FromTimestamp(seconds) == 1000 * seconds

\* CDateTime::asUnixTimestamp
AsUnixTimestamp(time) == time \div 1000

\* operator+ and operator- with an interval: whole seconds only.
Later(time, interval) == FromTimestamp(AsUnixTimestamp(time) + Seconds(interval))

Earlier(time, interval) == FromTimestamp(AsUnixTimestamp(time) - Seconds(interval))

\* The constructor from the parts of a date, with the day counted from the epoch (mktime).
FromParts(day, second, millisecond) == FromTimestamp(day * Day + second) + millisecond

\* The constructor from a time of the day: today, or tomorrow if it is over.
FromTimeOfDay(second, now) ==
  LET today == AsUnixTimestamp(now) \div Day
      over == second < AsUnixTimestamp(now) % Day
  IN  FromParts(IF over THEN today + 1 ELSE today, second, 0)

\* The comparisons of both classes, as they are written: each does what the other should.
OperatorLessEqual(a, b) == a < b
OperatorLess(a, b) == a <= b
OperatorGreaterEqual(a, b) == a > b
OperatorGreater(a, b) == a >= b

=============================================================================
