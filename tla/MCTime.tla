--------------------------------- MODULE MCTime ---------------------------------
(***************************************************************************)
(* The two kinds of clocks that call scripts.  They share nothing but the  *)
(* script, whose queues for them are different: a behaviour is one of the  *)
(* timers or one of the sun tracker.                                       *)
(***************************************************************************)
EXTENDS Timer, SunTracker

\* The names a script relies on are in order: no phase ends before it starts.  The sunset is
\* the exception, its end is computed for a higher horizon than its start.
ASSUME PhasesAreOrdered ==
  /\ \A p \in Phases : TimeOf(Named(p[1])) <= TimeOf(Named(p[2]))
  /\ TimeOf(Named("EveningSunsetEnd")) < TimeOf(Named("EveningSunsetStart"))

VARIABLE part   \* never changes

MCSeasons == {Horizon, 2..7, 1..5}

TimeInit ==
  /\ part \in {"timers", "sun"}
  /\ TimerInit /\ SunInit
  /\ part = "timers" => watched = Named("Zenith") /\ season = Horizon /\ clock = 0
  /\ part = "sun" => tcalm /\ \A t \in Timer : timer[t].kind = "continuous"

TimeNext ==
  \/ part = "timers" /\ TimerNext /\ UNCHANGED <<sunVars, part>>
  \/ part = "sun" /\ SunNext /\ UNCHANGED <<timerVars, part>>

TimeSpec == TimeInit /\ [][TimeNext]_<<timerVars, sunVars, part>> /\ TimerFairness

=============================================================================
