------------------------------- MODULE SunTracker -------------------------------
(***************************************************************************)
(* The tracker of the sun.  One thread computes the times of 26 events     *)
(* again about every minute (CSunTracker::update), another compares them   *)
(* with the clock about every 100 ms (CSunTracker::check) and appends to   *)
(* the queue of each script that has subscribed.  One event is watched     *)
(* here; the other events matter for the flag m_circumpolar, which all of  *)
(* them write.                                                             *)
(*                                                                         *)
(* Both threads sleep at least their period.  Nothing bounds a period from *)
(* above: the sleeps may last longer, and each of the 26 updates and 26    *)
(* checks waits for the mutex they share.  So time may pass at any moment. *)
(*                                                                         *)
(* The times come from a library.  It is described by what the tracker     *)
(* needs of it: transit, rise and set of the current day, symmetric, and   *)
(* a higher horizon crossed nearer to the transit.                         *)
(***************************************************************************)
EXTENDS Integers, Sequences

CONSTANTS
  Day,          \* length of a day of the library
  Transit,      \* when in this day the sun is highest
  Half,         \* half the width of the window around an event (50 ms)
  UpdatePeriod, \* the age of an event's time that counts as late
  Seasons,      \* the sets of horizons the sun may cross on a day
  Interesting   \* the names of the events somebody may subscribe to

Horizon == 1..7   \* astronomical, nautic, civil, standard, with the disk, zero, golden

ASSUME SunAssumption ==
  /\ Day \in Nat /\ Transit \in 8..Day /\ Half \in Nat \ {0} /\ UpdatePeriod \in Nat
  /\ Seasons \subseteq SUBSET Horizon

VARIABLES
  clock,      \* the time of the day
  season,     \* the horizons the sun crosses today
  time,       \* m_eventsTime of the event that is watched, relative to the begin of the day
  circumpolar,\* m_circumpolar
  updater,    \* the next event update() handles, 0 when it rests
  untouched,  \* age of time, no more than UpdatePeriod + 1
  checker,    \* the other thread: "sleep", "look" or "check"
  sleeping,   \* time since the last check, no more than 2 * Half + 2
  watched,    \* the event somebody has subscribed to; never changes
  noticed,    \* how often it was reported today
  late,       \* today a thread kept its event waiting, or the program was started today
  ordinary,   \* the sun has crossed every horizon so far
  noNight     \* some update found the astronomical horizon not crossed

sunVars == <<clock, season, time, circumpolar, updater, untouched, checker, sleeping,
             watched, noticed, late, ordinary, noNight>>

\* The events in the order of update() and check(), with horizon and moment.
SunEvent == <<
  [horizon |-> 6, at |-> "nadir",   name |-> "Nadir"],
  [horizon |-> 1, at |-> "rise",    name |-> "MorningBlueHourStart"],
  [horizon |-> 1, at |-> "rise",    name |-> "MorningAstronomicalTwilightStart"],
  [horizon |-> 2, at |-> "rise",    name |-> "MorningAstronomicalTwilightEnd"],
  [horizon |-> 2, at |-> "rise",    name |-> "MorningNauticalTwilightStart"],
  [horizon |-> 3, at |-> "rise",    name |-> "MorningNauticalTwilightEnd"],
  [horizon |-> 3, at |-> "rise",    name |-> "MorningCivilTwilightStart"],
  [horizon |-> 4, at |-> "rise",    name |-> "MorningCivilTwilightEnd"],
  [horizon |-> 4, at |-> "rise",    name |-> "MorningBlueHourEnd"],
  [horizon |-> 4, at |-> "rise",    name |-> "MorningGoldenHourStart"],
  [horizon |-> 4, at |-> "rise",    name |-> "MorningSunriseStart"],
  [horizon |-> 5, at |-> "rise",    name |-> "MorningSunriseEnd"],
  [horizon |-> 7, at |-> "rise",    name |-> "MorningGoldenHourEnd"],
  [horizon |-> 6, at |-> "transit", name |-> "Zenith"],
  [horizon |-> 7, at |-> "set",     name |-> "EveningGoldenHourStart"],
  [horizon |-> 4, at |-> "set",     name |-> "EveningGoldenHourEnd"],
  [horizon |-> 4, at |-> "set",     name |-> "EveningBlueHourStart"],
  [horizon |-> 4, at |-> "set",     name |-> "EveningSunsetStart"],
  [horizon |-> 5, at |-> "set",     name |-> "EveningSunsetEnd"],
  [horizon |-> 3, at |-> "set",     name |-> "EveningBlueHourEnd"],
  [horizon |-> 5, at |-> "set",     name |-> "EveningCivilTwilightStart"],
  [horizon |-> 3, at |-> "set",     name |-> "EveningCivilTwilightEnd"],
  [horizon |-> 2, at |-> "set",     name |-> "EveningNauticalTwilightStart"],
  [horizon |-> 2, at |-> "set",     name |-> "EveningNauticalTwilightEnd"],
  [horizon |-> 2, at |-> "set",     name |-> "EveningAstronomicalTwilightStart"],
  [horizon |-> 1, at |-> "set",     name |-> "EveningAstronomicalTwilightEnd"] >>

Event == 1..Len(SunEvent)

\* What the library answers for the current day.
Offset(h) == 8 - h

TimeOf(e) ==
  CASE SunEvent[e].at = "rise"    -> Transit - Offset(SunEvent[e].horizon)
    [] SunEvent[e].at = "set"     -> Transit + Offset(SunEvent[e].horizon)
    [] SunEvent[e].at = "transit" -> Transit
    [] SunEvent[e].at = "nadir"   -> Transit + (Day \div 2)

Unknown == 2 * Day   \* what stood in an ln_zonedate nobody filled: another time

SunTypeOK ==
  /\ clock \in 0..(Day - 1)
  /\ season \in Seasons
  /\ time \in -Day..(2 * Day)
  /\ circumpolar \in BOOLEAN
  /\ updater \in 0..Len(SunEvent) /\ untouched \in 0..(UpdatePeriod + 1)
  /\ checker \in {"sleep", "look", "check"} /\ sleeping \in 0..(2 * Half + 2)
  /\ watched \in Event /\ noticed \in Nat /\ late \in BOOLEAN
  /\ ordinary \in BOOLEAN /\ noNight \in BOOLEAN

\* What update(event) finds for the event that is watched.
Found == IF SunEvent[watched].horizon \in season THEN TimeOf(watched) ELSE Unknown

\* When CAstronomical::start starts the threads: the constructor of CSunTracker has run
\* update() once, and runCheck begins with a check.
SunInit ==
  /\ clock \in 0..(Day - 1)
  /\ season \in Seasons
  /\ watched \in {e \in Event : SunEvent[e].name \in Interesting}
  /\ time = Found
  /\ circumpolar = (1 \notin season)
  /\ updater = 0 /\ untouched = 0
  /\ checker = "look" /\ sleeping = 2 * Half
  /\ noticed = 0
  /\ late = (clock > 0)
  /\ ordinary = (season = Horizon)
  /\ noNight = (1 \notin season)

-----------------------------------------------------------------------------
\* CSunTracker::update asks circumpolar() only at its beginning.  If it is TRUE nothing
\* happens, in this minute and in every other.
StartUpdate ==
  /\ updater = 0 /\ ~circumpolar
  /\ updater' = 1
  /\ UNCHANGED <<clock, season, time, circumpolar, untouched, checker, sleeping, watched,
                 noticed, late, ordinary, noNight>>

Crossed(e) == SunEvent[e].horizon \in season

\* What is left of update(event) beside the flag.
StoreTime ==
  /\ IF updater = watched THEN time' = Found /\ untouched' = 0 ELSE UNCHANGED <<time, untouched>>
  /\ noNight' = (noNight \/ (updater = Len(SunEvent) /\ 1 \notin season))
  /\ updater' = (updater + 1) % (Len(SunEvent) + 1)
  /\ UNCHANGED <<clock, season, checker, sleeping, watched, noticed, late, ordinary>>

\* Mutant: the flag keeps what an earlier event has found.
UpdateEventSticky ==
  /\ updater > 0
  /\ circumpolar' = (circumpolar \/ ~Crossed(updater))
  /\ StoreTime

\* update(event), calcEventTime and calcTimes under the mutex.
UpdateEvent ==
  /\ updater > 0
  /\ circumpolar' = ~Crossed(updater)
  /\ StoreTime

-----------------------------------------------------------------------------
\* runCheck wakes up, not before its sleep is over.
WakeChecker ==
  /\ checker = "sleep" /\ sleeping >= 2 * Half
  /\ checker' = "look"
  /\ UNCHANGED <<clock, season, time, circumpolar, updater, untouched, sleeping, watched,
                 noticed, late, ordinary, noNight>>

\* CSunTracker::check asks circumpolar(), without the mutex.
Look ==
  /\ checker = "look"
  /\ IF circumpolar
     THEN checker' = "sleep" /\ sleeping' = 0
     ELSE checker' = "check" /\ UNCHANGED sleeping
  /\ UNCHANGED <<clock, season, time, circumpolar, updater, untouched, watched, noticed, late,
                 ordinary, noNight>>

\* Mutant: the window is open at both ends.
IsEventOpen(moment) == clock - moment > -Half /\ clock - moment < Half

\* CTracker::thisTimeIsEvent
ThisTimeIsEvent(moment) == clock - moment >= -Half /\ clock - moment <= Half

\* check(event) for the event somebody watches.  What is left of the 26 checks is part of
\* the sleep.
CheckEvent ==
  /\ checker = "check"
  /\ checker' = "sleep" /\ sleeping' = 0
  /\ noticed' = IF ThisTimeIsEvent(time) THEN noticed + 1 ELSE noticed
  /\ UNCHANGED <<clock, season, time, circumpolar, updater, untouched, watched, late,
                 ordinary, noNight>>

-----------------------------------------------------------------------------
\* Time passes, whatever the threads are doing.
GrowOlder ==
  /\ sleeping' = IF sleeping < 2 * Half + 2 THEN sleeping + 1 ELSE sleeping
  /\ untouched' = IF untouched <= UpdatePeriod THEN untouched + 1 ELSE untouched
  /\ UNCHANGED <<circumpolar, updater, checker, watched, noNight>>

\* More time lies between two checks than the window is wide, or time is too old.
IsLate == sleeping > 2 * Half + 1 \/ untouched > UpdatePeriod

Pass ==
  /\ clock < Day - 1
  /\ clock' = clock + 1
  /\ GrowOlder
  /\ late' = (late \/ IsLate')
  /\ UNCHANGED <<season, time, noticed, ordinary>>

\* A new day of the library: the time kept is yesterday's.
NewDay ==
  /\ clock = Day - 1
  /\ clock' = 0
  /\ GrowOlder
  /\ late' = IsLate'
  /\ season' \in Seasons
  /\ time' = IF time = Unknown THEN Unknown ELSE IF time < 0 THEN -Day ELSE time - Day
  /\ noticed' = 0
  /\ ordinary' = (ordinary /\ season' = Horizon)

Update == StartUpdate \/ UpdateEvent
Check == WakeChecker \/ Look \/ CheckEvent

SunNext == Update \/ Check \/ Pass \/ NewDay

SunSpec == SunInit /\ [][SunNext]_sunVars

-----------------------------------------------------------------------------
(***************************************************************************)
(* Properties.                                                             *)
(***************************************************************************)

\* The window around the event lies within the day, and after the time a new day may still
\* go on with the times of the old one.
WindowInDay == TimeOf(watched) - Half > UpdatePeriod /\ TimeOf(watched) + Half < Day

\* An event is reported at most twice on its day, whatever the threads do: checks are a
\* period apart at least, and the window around an event is as wide as one.  It is reported
\* at least once on a day on which the sun crosses every horizon, if checks were no further
\* apart than the window has moments and its time was never older than UpdatePeriod.  The
\* code promises neither of the two, and on a late day the event is missed or not
\* (CAstronomical::runCheck, CSunTracker::update, check, CTracker::thisTimeIsEvent).
EventIsNoticed ==
  WindowInDay =>
    /\ noticed <= 2
    /\ ordinary /\ ~late /\ clock > TimeOf(watched) + Half => noticed >= 1

\* The tracker falls silent exactly if at the end of some update since its start the sun did
\* not reach the astronomical horizon: other horizons that are not crossed are forgotten at
\* the next event, this one, the last, is never looked at again (CSunTracker::calcTimes,
\* update).
SilentForGood == updater = 0 => (circumpolar <=> noNight)

Named(n) == CHOOSE e \in Event : SunEvent[e].name = n

Phases ==
  {<<"MorningBlueHourStart", "MorningBlueHourEnd">>,
   <<"MorningAstronomicalTwilightStart", "MorningAstronomicalTwilightEnd">>,
   <<"MorningNauticalTwilightStart", "MorningNauticalTwilightEnd">>,
   <<"MorningCivilTwilightStart", "MorningCivilTwilightEnd">>,
   <<"MorningGoldenHourStart", "MorningGoldenHourEnd">>,
   <<"MorningSunriseStart", "MorningSunriseEnd">>,
   <<"MorningSunriseEnd", "Zenith">>,
   <<"Zenith", "EveningGoldenHourStart">>,
   <<"EveningGoldenHourStart", "EveningGoldenHourEnd">>,
   <<"EveningBlueHourStart", "EveningBlueHourEnd">>,
   <<"EveningCivilTwilightStart", "EveningCivilTwilightEnd">>,
   <<"EveningNauticalTwilightStart", "EveningNauticalTwilightEnd">>,
   <<"EveningAstronomicalTwilightStart", "EveningAstronomicalTwilightEnd">>}

=============================================================================
