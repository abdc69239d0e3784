---------------------------------- MODULE Timer ----------------------------------
(***************************************************************************)
(* The timers of one script.  Each has a thread (CTimer::run) that waits   *)
(* for its interval and then, still under the timer's mutex, appends the   *)
(* name of a method to the queue of the script (CCaller, a std::queue      *)
(* without a lock).  The thread of the script takes the names out and runs *)
(* the methods, which start, stop, reset and drop timers.                  *)
(*                                                                         *)
(* Time is kept as ages: what has passed since an instant, and what is     *)
(* left until one, so that no bound on the length of a behaviour is needed.*)
(***************************************************************************)
EXTENDS Naturals, SequencesExt

CONSTANTS
  Timer,
  Handled,   \* the timers its methods touch; initialize() has started the
             \* others, which are continuous
  Interval,  \* of the one-shot and the continuous timers
  Period,    \* of the schedule of the cron timers
  MaxQueue   \* time stands still while more notices wait: the script keeps up

ASSUME TimerAssumption ==
  /\ Timer # {} /\ Handled \subseteq Timer
  /\ Interval \in Nat \ {0} /\ Period \in Nat \ {0} /\ MaxQueue \in Nat

VARIABLES
  timer,   \* the objects and their threads
  mutex,   \* per timer: who holds m_mutex, "none", "thread" or "script"
  script,  \* the thread of the script: where it is, and in which method of which timer
  queue,   \* m_queue of the CCaller
  phase,   \* time since the last instant of the cron schedule
  tub,     \* undefined behaviour has happened and did harm
  tcalm    \* the script keeps the discipline of Mild; never changes

timerVars == <<timer, mutex, script, queue, phase, tub, tcalm>>

Kind == {"oneshot", "continuous", "cron"}

Longest == IF Interval > Period + 1 THEN Interval ELSE Period + 1

\* An age beyond the interval tells nothing more.
Older(n, interval) == IF n < interval THEN n + 1 ELSE n

\* pc: the thread; age: time since m_startTime; left: until wait_for times out; since: time
\* since the timer was armed; passed: an instant of the schedule has come since then;
\* fresh: the interval of a cron timer was computed when it was armed; lone: no other
\* thread uses the queue during the push; base: the derived part has been destroyed;
\* fired: the method has been queued since start().
TimerState ==
  [kind : Kind, running : BOOLEAN, interval : 1..Longest,
   pc : {"none", "begin", "enter", "push", "write", "decide", "wait", "ended"},
   age : 0..Longest, left : 0..Longest, since : 0..Longest,
   passed : BOOLEAN, fresh : BOOLEAN, lone : BOOLEAN, base : BOOLEAN,
   fired : BOOLEAN]

TimerTypeOK ==
  /\ timer \in [Timer -> TimerState]
  /\ mutex \in [Timer -> {"none", "thread", "script"}]
  /\ script \in [pc : {"loop", "reset", "restart", "start", "join", "started", "stop", "await"},
                 on : Timer, calling : BOOLEAN]
  /\ queue \in Seq(Timer)
  /\ phase \in 0..(Period - 1)
  /\ tub \in BOOLEAN /\ tcalm \in BOOLEAN

-----------------------------------------------------------------------------
(***************************************************************************)
(* The intervals.  CTimerCron asks for the next instant after now and adds *)
(* half a second, the unit of the schedule here.                           *)
(***************************************************************************)
CronInterval == (Period - phase) + 1

FirstInterval(kind) == IF kind = "cron" THEN CronInterval ELSE Interval

\* What triggered() returns; 0 ends the timer.
NextInterval(kind) ==
  CASE kind = "oneshot" -> 0
    [] kind = "continuous" -> Interval
    [] kind = "cron" -> CronInterval

NewTimer(kind, started) ==
  [kind |-> kind, running |-> started, interval |-> FirstInterval(kind),
   pc |-> IF started THEN "begin" ELSE "none",
   age |-> 0, left |-> 0, since |-> 0, passed |-> FALSE, fresh |-> TRUE, lone |-> TRUE,
   base |-> FALSE, fired |-> FALSE]

TimerInit ==
  /\ phase = 0
  /\ \E kinds \in [Timer -> Kind] :
       /\ \A t \in Timer \ Handled : kinds[t] = "continuous"
       /\ timer = [t \in Timer |-> NewTimer(kinds[t], t \notin Handled)]
  /\ mutex = [t \in Timer |-> "none"]
  /\ script = [pc |-> "loop", on |-> CHOOSE t \in Timer : TRUE, calling |-> FALSE]
  /\ queue = <<>>
  /\ tub = FALSE /\ tcalm \in BOOLEAN

-----------------------------------------------------------------------------
(***************************************************************************)
(* The thread of a timer: CTimer::run.                                     *)
(***************************************************************************)
Ready(t) == ~tub /\ mutex[t] = "none"

\* The first critical section: m_startTime = now.
Begin(t) ==
  /\ Ready(t) /\ timer[t].pc = "begin"
  /\ timer' = [timer EXCEPT ![t].pc = "enter", ![t].age = 0, ![t].since = 0]
  /\ UNCHANGED <<mutex, script, queue, phase, tub, tcalm>>

Waiting(s, left) == [s EXCEPT !.pc = "wait", !.left = left]

\* The thread has left run(); what the ages were no longer matters.
Over(s) ==
  [s EXCEPT !.pc = "ended", !.age = 0, !.left = 0, !.since = 0, !.passed = FALSE]

\* The turn of the loop up to triggered() or wait_for.
Turn(t) ==
  LET s == timer[t]
  IN  IF ~s.running
      THEN timer' = [timer EXCEPT ![t] = Over(s)] /\ UNCHANGED mutex
      ELSE IF s.age < s.interval
           THEN timer' = [timer EXCEPT ![t] = Waiting(s, s.interval - s.age)] /\ UNCHANGED mutex
           ELSE /\ timer' = [timer EXCEPT ![t].pc = "push"]
                /\ mutex' = [mutex EXCEPT ![t] = "thread"]

Enter(t) ==
  /\ Ready(t) /\ timer[t].pc = "enter"
  /\ Turn(t)
  /\ UNCHANGED <<script, queue, phase, tub, tcalm>>

\* Mutant: what is over is not measured again when the wait has ended.
WakeAndFire(t) ==
  /\ Ready(t) /\ timer[t].pc = "wait" /\ timer[t].left = 0 /\ timer[t].running
  /\ timer' = [timer EXCEPT ![t].pc = "push"]
  /\ mutex' = [mutex EXCEPT ![t] = "thread"]
  /\ UNCHANGED <<script, queue, phase, tub, tcalm>>

\* wait_for returns: the time is over, or stop() has cleared m_running.
Wake(t) ==
  /\ Ready(t) /\ timer[t].pc = "wait"
  /\ timer[t].left = 0 \/ ~timer[t].running
  /\ Turn(t)
  /\ UNCHANGED <<script, queue, phase, tub, tcalm>>

Pushing == {t \in Timer : timer[t].pc = "write"}

\* triggered() begins to push.  Without the derived part it is a pure virtual call.
Push(t) ==
  /\ ~tub /\ timer[t].pc = "push"
  /\ tcalm => Pushing = {}
  /\ IF timer[t].base
     THEN tub' = TRUE /\ UNCHANGED timer
     ELSE /\ timer' = [u \in Timer |->
                         IF u = t THEN [timer[t] EXCEPT !.pc = "write", !.lone = Pushing = {}]
                         ELSE IF u \in Pushing THEN [timer[u] EXCEPT !.lone = FALSE]
                         ELSE timer[u]]
          /\ UNCHANGED tub
  /\ UNCHANGED <<mutex, script, queue, phase, tcalm>>

\* The push ends.  Of two that overlap one may overwrite the other, or worse.
Write(t) ==
  /\ ~tub /\ timer[t].pc = "write"
  /\ timer' = [timer EXCEPT ![t].pc = "decide", ![t].lone = TRUE, ![t].fired = TRUE]
  /\ \/ queue' = Append(queue, t) /\ UNCHANGED tub
     \/ /\ ~timer[t].lone /\ queue # <<>>
        /\ queue' = Append(Front(queue), t) /\ UNCHANGED tub
     \/ ~timer[t].lone /\ tub' = TRUE /\ UNCHANGED queue
  /\ UNCHANGED <<mutex, script, phase, tcalm>>

\* Mutant: the mutex is given up before the one-shot thread has left its loop.
DecideUnlocked(t) ==
  /\ ~tub /\ timer[t].pc = "decide"
  /\ LET next == NextInterval(timer[t].kind)
     IN  timer' = [timer EXCEPT
           ![t] = IF next = 0
                  THEN [@ EXCEPT !.running = FALSE, !.pc = "enter"]
                  ELSE Waiting([@ EXCEPT !.interval = next, !.age = 0, !.since = 0,
                                          !.passed = FALSE], next)]
  /\ mutex' = [mutex EXCEPT ![t] = "none"]
  /\ UNCHANGED <<script, queue, phase, tub, tcalm>>

\* The rest of the turn: the thread ends, or waits for the next interval.
Decide(t) ==
  /\ ~tub /\ timer[t].pc = "decide"
  /\ LET next == NextInterval(timer[t].kind)
     IN  timer' = [timer EXCEPT
           ![t] = IF next = 0
                  THEN Over([@ EXCEPT !.running = FALSE])
                  ELSE Waiting([@ EXCEPT !.interval = next, !.age = 0, !.since = 0,
                                          !.passed = FALSE], next)]
  /\ mutex' = [mutex EXCEPT ![t] = "none"]
  /\ UNCHANGED <<script, queue, phase, tub, tcalm>>

TimerThread(t) == Begin(t) \/ Enter(t) \/ Wake(t) \/ Push(t) \/ Write(t) \/ Decide(t)

-----------------------------------------------------------------------------
(***************************************************************************)
(* The thread of the script.                                               *)
(***************************************************************************)
At(pc) == ~tub /\ script.pc = pc

Ended(t) == timer[t].pc \in {"none", "ended"}

Goes(pc, t) == script' = [script EXCEPT !.pc = pc, !.on = t]

\* The discipline.  The code enforces none of it: a push and another push or a pop do not
\* overlap, a one-shot timer is not started before it has ended (start() may see it running
\* and reset it when it is about to end), and a timer is stopped before it is dropped.
Mild(t) == tcalm /\ timer[t].kind = "oneshot" => Ended(t)

\* CCaller::call: the method runs before its name is popped.
Call ==
  /\ At("loop") /\ ~script.calling /\ queue # <<>>
  /\ tcalm => Pushing = {}
  /\ script' = [script EXCEPT !.calling = TRUE]
  /\ UNCHANGED <<timer, mutex, queue, phase, tub, tcalm>>

Return ==
  /\ At("loop") /\ script.calling
  /\ tcalm => Pushing = {}
  /\ script' = [script EXCEPT !.calling = FALSE]
  /\ \/ queue' = Tail(queue) /\ UNCHANGED tub
     \/ Pushing # {} /\ tub' = TRUE /\ UNCHANGED queue
  /\ UNCHANGED <<timer, mutex, phase, tcalm>>

\* CTimer::start reads m_running without the lock.
StartTimer(t) ==
  /\ At("loop") /\ Mild(t) /\ ~timer[t].base
  /\ Goes(IF timer[t].running THEN "restart" ELSE "start", t)
  /\ UNCHANGED <<timer, mutex, queue, phase, tub, tcalm>>

\* The script calls reset() or stop() itself.
Ask(t, pc) ==
  /\ At("loop") /\ ~timer[t].base
  /\ Goes(pc, t)
  /\ UNCHANGED <<timer, mutex, queue, phase, tub, tcalm>>

\* CTimer::reset
Reset(t) ==
  /\ At("reset") \/ At("restart")
  /\ script.on = t /\ Ready(t)
  /\ timer' = [timer EXCEPT ![t].age = 0, ![t].since = 0, ![t].passed = FALSE,
                            ![t].fresh = timer[t].kind # "cron", ![t].fired = FALSE]
  /\ Goes(IF script.pc = "restart" THEN "started" ELSE "loop", t)
  /\ UNCHANGED <<mutex, queue, phase, tub, tcalm>>

\* Mutant: start() makes a thread and forgets to set m_running.
TakeLockOnly(t) ==
  /\ At("start") /\ script.on = t /\ Ready(t)
  /\ mutex' = [mutex EXCEPT ![t] = "script"]
  /\ Goes("join", t)
  /\ UNCHANGED <<timer, queue, phase, tub, tcalm>>

\* start() takes the lock and keeps it while it joins.
TakeLock(t) ==
  /\ At("start") /\ script.on = t /\ Ready(t)
  /\ timer' = [timer EXCEPT ![t].running = TRUE]
  /\ mutex' = [mutex EXCEPT ![t] = "script"]
  /\ Goes("join", t)
  /\ UNCHANGED <<queue, phase, tub, tcalm>>

\* The interval is the one the timer had before.
NewThread(t) ==
  /\ At("join") /\ script.on = t /\ Ended(t)
  /\ timer' = [timer EXCEPT ![t].pc = "begin", ![t].passed = FALSE, ![t].fired = FALSE,
                            ![t].fresh = timer[t].interval = FirstInterval(timer[t].kind)]
  /\ mutex' = [mutex EXCEPT ![t] = "none"]
  /\ Goes("started", t)
  /\ UNCHANGED <<queue, phase, tub, tcalm>>

\* start() returns.
Started ==
  /\ At("started")
  /\ Goes("loop", script.on)
  /\ UNCHANGED <<timer, mutex, queue, phase, tub, tcalm>>

\* CTimer::stop; the destructor comes here, too.
Stop(t) ==
  /\ At("stop") /\ script.on = t /\ Ready(t)
  /\ timer' = [timer EXCEPT ![t].running = FALSE]
  /\ Goes("await", t)
  /\ UNCHANGED <<mutex, queue, phase, tub, tcalm>>

JoinThread(t) ==
  /\ At("await") /\ script.on = t /\ Ended(t)
  /\ Goes("loop", t)
  /\ UNCHANGED <<timer, mutex, queue, phase, tub, tcalm>>

\* The last handle goes: the destructor of the derived class has ended, ~CTimer begins.
Drop(t) ==
  /\ At("loop") /\ ~timer[t].base
  /\ tcalm => Ended(t)
  /\ timer' = [timer EXCEPT ![t].base = TRUE]
  /\ Goes("stop", t)
  /\ UNCHANGED <<mutex, queue, phase, tub, tcalm>>

\* What the thread does once it has begun, and what it may begin.
Proceed ==
  \/ Call \/ Return \/ Started
  \/ \E t \in Handled : Reset(t) \/ TakeLock(t) \/ NewThread(t) \/ Stop(t) \/ JoinThread(t)

Command(t) == StartTimer(t) \/ Ask(t, "reset") \/ Ask(t, "stop") \/ Drop(t)

-----------------------------------------------------------------------------
\* Time passes.
Tick ==
  /\ ~tub /\ Len(queue) <= MaxQueue
  /\ phase' = IF \E t \in Timer : timer[t].kind = "cron" THEN (phase + 1) % Period ELSE phase
  /\ timer' = [t \in Timer |->
       IF Ended(t) THEN timer[t]
       ELSE [timer[t] EXCEPT !.age = Older(@, timer[t].interval),
                             !.since = Older(@, timer[t].interval),
                             !.left = IF @ > 0 THEN @ - 1 ELSE 0,
                             !.passed = @ \/ (timer[t].kind = "cron" /\ phase' = 0)]]
  /\ UNCHANGED <<mutex, script, queue, tub, tcalm>>

TimerNext ==
  \/ \E t \in Timer : TimerThread(t)
  \/ \E t \in Handled : Command(t)
  \/ Proceed \/ Tick

\* Every thread that can step is run, time passes, a method returns, and whatever keeps two
\* pushes apart under the discipline lets each thread push in the end.  A turn of the script's
\* loop, and a method, hold finitely many calls, so that it gets to its queue again and again.
\* The script need not touch a timer.
TimerFairness ==
  /\ \A t \in Timer : WF_timerVars(TimerThread(t)) /\ SF_timerVars(Push(t))
  /\ SF_timerVars(Call) /\ SF_timerVars(Return)
  /\ WF_timerVars(Proceed) /\ WF_timerVars(Tick)

TimerSpec == TimerInit /\ [][TimerNext]_timerVars /\ TimerFairness

-----------------------------------------------------------------------------
(***************************************************************************)
(* Properties.                                                             *)
(***************************************************************************)

\* No method is queued before the interval has passed since the timer was last started,
\* reset or fired, whenever reset() fell into the wait; and a cron timer that was started
\* when it was made, and not reset, does not fire twice for one instant of its schedule
\* (CTimer::run, reset, CTimerCron::nextInterval).
FiresInTime ==
  \A t \in Timer : timer[t].pc = "push" =>
    /\ timer[t].since >= timer[t].interval
    /\ timer[t].kind = "cron" /\ timer[t].fresh => timer[t].passed

\* start(), stop() and the destructor return, although start() joins a thread while it holds
\* the mutex of that thread (CTimer::start).
CallsReturn == script.pc # "loop" ~> script.pc = "loop" \/ tub

\* A timer that has been started fires, unless it is started again, stopped, reset or dropped
\* before, and what it queues is called: under the discipline no start is lost and no notice
\* vanishes between the threads (CTimer::start, run, CCaller::append, call).
StartedIsCalled ==
  \A t \in Handled :
    /\ tcalm /\ script.pc = "started" /\ script.on = t
         ~> timer[t].fired \/ (script.pc \notin {"started", "loop"} /\ script.on = t)
    /\ tcalm /\ timer[t].pc = "write" ~> script.calling /\ Head(queue) = t

=============================================================================
