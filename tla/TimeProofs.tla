------------------------------- MODULE TimeProofs -------------------------------
(***************************************************************************)
(* Theorems about the two clocks that call scripts: Timer, for any timers, *)
(* intervals and periods, and SunTracker, for any length of the day, any   *)
(* window and any kinds of days.                                           *)
(***************************************************************************)
EXTENDS Timer, SunTracker, TLAPS

-----------------------------------------------------------------------------
(***************************************************************************)
(* Timers.                                                                 *)
(***************************************************************************)

\* The longest interval is at least each of them.
LEMMA LongestFacts ==
  /\ Longest \in Nat /\ 1 <= Longest /\ Interval <= Longest /\ Period + 1 <= Longest
  /\ Interval \in Nat /\ 1 <= Interval /\ Period \in Nat /\ 1 <= Period
BY TimerAssumption DEF Longest

-----------------------------------------------------------------------------
(***************************************************************************)
(* One timer, at one phase of the schedule.                                *)
(***************************************************************************)

\* The two ages are one; a thread about to push has waited long enough; a cron timer that has
\* the interval of its schedule and has not seen an instant of it is as far from the next one
\* as its interval says; and nothing has passed since the arming of a timer without a thread.
Good(s, p) ==
  /\ s.age = s.since
  /\ s.pc = "push" => s.since >= s.interval
  /\ s.kind = "cron" /\ s.fresh /\ ~s.passed /\ s.pc \notin {"none", "ended"}
       => p >= Period + 1 - s.interval + s.since
  /\ s.pc \in {"none", "ended"} => s.since = 0

\* The intervals are among those a timer may have.
LEMMA IntervalFacts ==
  ASSUME phase \in 0..(Period - 1), NEW kind \in Kind
  PROVE  /\ CronInterval \in 1..Longest
         /\ FirstInterval(kind) \in 1..Longest
         /\ NextInterval(kind) \in 0..Longest
         /\ kind # "oneshot" => NextInterval(kind) \in 1..Longest
         /\ kind = "cron" => /\ FirstInterval(kind) = CronInterval
                             /\ NextInterval(kind) = CronInterval
<1>1. CronInterval \in 1..Longest
  BY LongestFacts DEF CronInterval
<1>2. Interval \in 1..Longest /\ 0 \in 0..Longest
  BY LongestFacts
<1>3. kind \in {"oneshot", "continuous", "cron"}
  BY DEF Kind
<1>4. FirstInterval(kind) = IF kind = "cron" THEN CronInterval ELSE Interval
  BY DEF FirstInterval
<1>5. /\ kind = "oneshot" => NextInterval(kind) = 0
      /\ kind = "continuous" => NextInterval(kind) = Interval
      /\ kind = "cron" => NextInterval(kind) = CronInterval
  BY Zenon DEF NextInterval
<1>6. 1..Longest \subseteq 0..Longest
  BY LongestFacts
<1>7. QED
  BY <1>1, <1>2, <1>3, <1>4, <1>5, <1>6, Zenon

\* A new object.
LEMMA NewTimerFacts ==
  ASSUME phase \in 0..(Period - 1), NEW kind \in Kind, NEW started \in BOOLEAN,
         started => kind = "continuous"
  PROVE  NewTimer(kind, started) \in TimerState /\ Good(NewTimer(kind, started), phase)
<1>1. FirstInterval(kind) \in 1..Longest
  BY IntervalFacts
<1>2. 0 \in 0..Longest
  BY LongestFacts
<1>3. NewTimer(kind, started) \in TimerState
  BY <1>1, <1>2 DEF NewTimer, TimerState
<1>4. Good(NewTimer(kind, started), phase)
  BY DEF NewTimer, Good
<1>5. QED
  BY <1>3, <1>4

\* The thread ends.
LEMMA OverFacts ==
  ASSUME NEW s \in TimerState, NEW p
  PROVE  Over(s) \in TimerState /\ Good(Over(s), p) /\ Over(s).pc = "ended"
<1>1. 0 \in 0..Longest
  BY LongestFacts
<1>2. Over(s) \in TimerState
  BY <1>1 DEF Over, TimerState
<1>3. Good(Over(s), p) /\ Over(s).pc = "ended"
  BY DEF Over, Good, TimerState
<1>4. QED
  BY <1>2, <1>3

\* The thread waits.
LEMMA WaitingFacts ==
  ASSUME NEW s \in TimerState, NEW p, Good(s, p), s.pc \notin {"none", "ended"},
         NEW left \in 0..Longest
  PROVE  /\ Waiting(s, left) \in TimerState /\ Good(Waiting(s, left), p)
         /\ Waiting(s, left).pc = "wait"
<1>1. Waiting(s, left) \in TimerState
  BY DEF Waiting, TimerState
<1>2. Good(Waiting(s, left), p) /\ Waiting(s, left).pc = "wait"
  BY DEF Waiting, Good, TimerState
<1>3. QED
  BY <1>1, <1>2

\* A program counter that moves while the thread is alive, not to the push too early.
LEMMA PcFacts ==
  ASSUME NEW s \in TimerState, NEW p, Good(s, p), s.pc \notin {"none", "ended"},
         NEW pc \in {"enter", "push", "write", "decide"},
         pc = "push" => s.since >= s.interval
  PROVE  [s EXCEPT !.pc = pc] \in TimerState /\ Good([s EXCEPT !.pc = pc], p)
<1>1. [s EXCEPT !.pc = pc] \in TimerState
  BY DEF TimerState
<1>2. Good([s EXCEPT !.pc = pc], p)
  BY DEF Good, TimerState
<1>3. QED
  BY <1>1, <1>2

\* What the first critical section, the push, reset(), the new thread and Drop do to a timer.
LEMMA BeginFacts ==
  ASSUME NEW s \in TimerState, NEW p \in Nat, Good(s, p), s.pc = "begin"
  PROVE  LET r == [s EXCEPT !.pc = "enter", !.age = 0, !.since = 0]
         IN  r \in TimerState /\ Good(r, p)
<1> DEFINE r == [s EXCEPT !.pc = "enter", !.age = 0, !.since = 0]
<1>1. 0 \in 0..Longest
  BY LongestFacts
<1>2. r \in TimerState
  BY <1>1 DEF TimerState
<1>3. s.interval \in Nat /\ s.since \in Nat /\ Period \in Nat
  BY LongestFacts DEF TimerState
<1>4. Good(r, p)
  BY <1>3 DEF Good, TimerState
<1>5. QED
  BY <1>2, <1>4

\* The steps from push on keep what is known of a timer.
LEMMA PushFacts ==
  ASSUME NEW s \in TimerState, NEW p, Good(s, p), s.pc \notin {"none", "ended"},
         NEW lone \in BOOLEAN
  PROVE  /\ [s EXCEPT !.pc = "write", !.lone = lone] \in TimerState
         /\ Good([s EXCEPT !.pc = "write", !.lone = lone], p)
         /\ [s EXCEPT !.lone = lone] \in TimerState /\ Good([s EXCEPT !.lone = lone], p)
         /\ [s EXCEPT !.pc = "decide", !.lone = lone, !.fired = TRUE] \in TimerState
         /\ Good([s EXCEPT !.pc = "decide", !.lone = lone, !.fired = TRUE], p)
<1>1. [s EXCEPT !.pc = "write", !.lone = lone] \in TimerState
  BY DEF TimerState
<1>2. [s EXCEPT !.lone = lone] \in TimerState
  BY DEF TimerState
<1>3. [s EXCEPT !.pc = "decide", !.lone = lone, !.fired = TRUE] \in TimerState
  BY DEF TimerState
<1>4. Good([s EXCEPT !.pc = "write", !.lone = lone], p)
  BY DEF Good, TimerState
<1>5. Good([s EXCEPT !.lone = lone], p)
  BY DEF Good, TimerState
<1>6. Good([s EXCEPT !.pc = "decide", !.lone = lone, !.fired = TRUE], p)
  BY DEF Good, TimerState
<1>7. QED
  BY <1>1, <1>2, <1>3, <1>4, <1>5, <1>6

\* reset() sets the clocks of a timer back, which it does not while the thread is about to push.
LEMMA ResetFacts ==
  ASSUME NEW s \in TimerState, NEW p, Good(s, p), s.pc # "push"
  PROVE  LET r == [s EXCEPT !.age = 0, !.since = 0, !.passed = FALSE,
                            !.fresh = s.kind # "cron", !.fired = FALSE]
         IN  r \in TimerState /\ Good(r, p)
<1> DEFINE r == [s EXCEPT !.age = 0, !.since = 0, !.passed = FALSE,
                          !.fresh = s.kind # "cron", !.fired = FALSE]
<1>1. 0 \in 0..Longest
  BY LongestFacts
<1>2. r \in TimerState
  BY <1>1 DEF TimerState
<1>3. Good(r, p)
  BY DEF Good, TimerState
<1>4. QED
  BY <1>2, <1>3

\* start() makes a thread for a timer that has none.
LEMMA NewThreadFacts ==
  ASSUME phase \in 0..(Period - 1), NEW s \in TimerState, Good(s, phase),
         s.pc \in {"none", "ended"}
  PROVE  LET r == [s EXCEPT !.pc = "begin", !.passed = FALSE, !.fired = FALSE,
                            !.fresh = s.interval = FirstInterval(s.kind)]
         IN  r \in TimerState /\ Good(r, phase)
<1> DEFINE r == [s EXCEPT !.pc = "begin", !.passed = FALSE, !.fired = FALSE,
                          !.fresh = s.interval = FirstInterval(s.kind)]
<1>1. r \in TimerState
  BY DEF TimerState
<1>2. s.since = 0 /\ s.age = 0
  BY DEF Good
<1>3. s.kind = "cron" => FirstInterval(s.kind) = (Period - phase) + 1
  BY DEF FirstInterval, CronInterval
<1>4. /\ r.age = s.age /\ r.since = s.since /\ r.interval = s.interval /\ r.kind = s.kind
      /\ r.pc = "begin" /\ (r.fresh <=> s.interval = FirstInterval(s.kind))
  BY DEF TimerState
<1>5. phase \in Int /\ Period \in Int
  BY LongestFacts
<1>6. ASSUME r.kind = "cron", r.fresh
      PROVE  phase >= Period + 1 - r.interval + r.since
  <2>1. r.interval = (Period - phase) + 1 /\ r.since = 0
    BY <1>2, <1>3, <1>4, <1>6
  <2>2. QED
    BY <2>1, <1>5
<1>8. r.age = r.since /\ r.pc = "begin"
  BY <1>2, <1>4
<1>9. Good(r, phase)
  <2> HIDE DEF r
  <2>1. QED
    BY <1>6, <1>8 DEF Good
<1>10. QED
  BY <1>1, <1>9

\* What is known of a timer says nothing of its two flags.
LEMMA FlagFacts ==
  ASSUME NEW s \in TimerState, NEW p, Good(s, p), NEW b \in BOOLEAN
  PROVE  /\ [s EXCEPT !.running = b] \in TimerState /\ Good([s EXCEPT !.running = b], p)
         /\ [s EXCEPT !.base = b] \in TimerState /\ Good([s EXCEPT !.base = b], p)
<1>1. [s EXCEPT !.running = b] \in TimerState
  BY DEF TimerState
<1>2. [s EXCEPT !.base = b] \in TimerState
  BY DEF TimerState
<1>3. Good([s EXCEPT !.running = b], p) /\ Good([s EXCEPT !.base = b], p)
  BY DEF Good, TimerState
<1>4. QED
  BY <1>1, <1>2, <1>3

\* The end of a turn that has triggered.
LEMMA DecideFacts ==
  ASSUME phase \in 0..(Period - 1), NEW s \in TimerState, Good(s, phase),
         s.pc = "decide"
  PROVE  LET next == NextInterval(s.kind)
             r == IF next = 0
                  THEN Over([s EXCEPT !.running = FALSE])
                  ELSE Waiting([s EXCEPT !.interval = next, !.age = 0, !.since = 0,
                                          !.passed = FALSE], next)
         IN  r \in TimerState /\ Good(r, phase) /\ r.pc \in {"ended", "wait"}
<1> DEFINE next == NextInterval(s.kind)
           w == [s EXCEPT !.interval = next, !.age = 0, !.since = 0, !.passed = FALSE]
<1>1. CASE next = 0
  <2>1. [s EXCEPT !.running = FALSE] \in TimerState
    BY FlagFacts
  <2>2. QED
    BY <1>1, <2>1, OverFacts
<1>2. CASE next # 0
  <2>1. s.kind \in Kind
    BY DEF TimerState
  <2>2. next \in 0..Longest /\ (s.kind = "cron" => next = (Period - phase) + 1)
    BY <2>1, IntervalFacts DEF CronInterval
  <2>3. next \in 1..Longest /\ 0 \in 0..Longest
    BY <1>2, <2>2, LongestFacts
  <2> HIDE DEF next
  <2>4. w \in TimerState
    BY <2>3 DEF TimerState
  <2>5. /\ w.age = 0 /\ w.since = 0 /\ w.interval = next /\ w.kind = s.kind /\ w.pc = "decide"
    BY DEF TimerState
  <2>6. phase \in Int /\ Period \in Int
    BY LongestFacts
  <2>7. Good(w, phase)
    BY <2>2, <2>3, <2>5, <2>6 DEF Good
  <2>8. Waiting(w, next) \in TimerState /\ Good(Waiting(w, next), phase)
           /\ Waiting(w, next).pc = "wait"
    BY <2>2, <2>4, <2>5, <2>7, WaitingFacts
  <2>9. (IF next = 0 THEN Over([s EXCEPT !.running = FALSE]) ELSE Waiting(w, next))
          = Waiting(w, next)
    BY <1>2
  <2>10. QED
    BY <2>8, <2>9 DEF next
<1>3. QED
  BY <1>1, <1>2

\* Time passes for a timer that has a thread.
LEMMA TickFacts ==
  ASSUME NEW p \in 0..(Period - 1), NEW q \in 0..(Period - 1), NEW s \in TimerState, Good(s, p),
         s.pc \notin {"none", "ended"},
         s.kind = "cron" => q = (p + 1) % Period
  PROVE  LET r == [s EXCEPT !.age = Older(@, s.interval), !.since = Older(@, s.interval),
                            !.left = IF @ > 0 THEN @ - 1 ELSE 0,
                            !.passed = @ \/ (s.kind = "cron" /\ q = 0)]
         IN  r \in TimerState /\ Good(r, q)
<1> DEFINE r == [s EXCEPT !.age = Older(@, s.interval), !.since = Older(@, s.interval),
                          !.left = IF @ > 0 THEN @ - 1 ELSE 0,
                          !.passed = @ \/ (s.kind = "cron" /\ q = 0)]
<1>1. /\ s.age \in 0..Longest /\ s.since \in 0..Longest /\ s.left \in 0..Longest
      /\ s.interval \in 1..Longest /\ s.passed \in BOOLEAN
  BY DEF TimerState
<1>2. /\ Older(s.age, s.interval) \in 0..Longest /\ Older(s.since, s.interval) \in 0..Longest
      /\ s.since <= Older(s.since, s.interval) /\ Older(s.since, s.interval) <= s.since + 1
      /\ s.since >= s.interval => Older(s.since, s.interval) >= s.interval
  BY <1>1, LongestFacts DEF Older
<1>3. (IF s.left > 0 THEN s.left - 1 ELSE 0) \in 0..Longest
  BY <1>1, LongestFacts
<1>4. (s.passed \/ (s.kind = "cron" /\ q = 0)) \in BOOLEAN
  BY <1>1
<1>5. r \in TimerState
  BY <1>2, <1>3, <1>4 DEF TimerState
<1>6. /\ r.kind = s.kind /\ r.fresh = s.fresh /\ r.interval = s.interval /\ r.pc = s.pc
      /\ r.age = Older(s.age, s.interval) /\ r.since = Older(s.since, s.interval)
      /\ r.passed = (s.passed \/ (s.kind = "cron" /\ q = 0))
  BY DEF TimerState
<1>7. r.age = r.since
  BY <1>6 DEF Good
<1>8. r.pc = "push" => r.since >= r.interval
  BY <1>2, <1>6 DEF Good
<1>9. ASSUME r.kind = "cron", r.fresh, ~r.passed
      PROVE  q >= Period + 1 - r.interval + r.since
  <2>1. s.kind = "cron" /\ s.fresh /\ ~s.passed /\ q # 0
    BY <1>6, <1>9
  <2>2. q = p + 1
    <3>1. q = (p + 1) % Period /\ p + 1 \in 1..Period /\ Period \in Nat /\ 1 <= Period
      BY <2>1, LongestFacts
    <3>2. p + 1 = Period => (p + 1) % Period = 0
      BY <3>1
    <3>3. p + 1 < Period => (p + 1) % Period = p + 1
      BY <3>1
    <3>4. QED
      BY <2>1, <3>1, <3>2, <3>3
  <2>3. p >= Period + 1 - s.interval + s.since
    BY <2>1 DEF Good
  <2>4. QED
    BY <1>1, <1>2, <1>6, <2>2, <2>3, LongestFacts
<1>10. Good(r, q)
  BY <1>6, <1>7, <1>8, <1>9 DEF Good
<1>11. QED
  BY <1>5, <1>10

-----------------------------------------------------------------------------
(***************************************************************************)
(* The inductive invariant.  A thread holds its mutex from the moment it   *)
(* triggers until its turn ends, so that reset() and start() cannot come   *)
(* in between; and the notice that is being called is still in the queue.  *)
(***************************************************************************)
Triggers(s) == s.pc \in {"push", "write", "decide"}

IInv ==
  /\ TimerTypeOK
  /\ \A t \in Timer : Good(timer[t], phase)
  /\ \A t \in Timer : Triggers(timer[t]) => mutex[t] = "thread"
  /\ script.calling => queue # <<>>

\* A step of one timer, whose mutex may change with it.
LEMMA OneTimer ==
  ASSUME IInv, NEW t \in Timer, NEW r \in TimerState, Good(r, phase),
         NEW m \in {"none", "thread", "script"}, Triggers(r) => m = "thread",
         timer' = [timer EXCEPT ![t] = r], mutex' = [mutex EXCEPT ![t] = m],
         phase' = phase
  PROVE  /\ timer' \in [Timer -> TimerState]
         /\ mutex' \in [Timer -> {"none", "thread", "script"}]
         /\ phase' \in 0..(Period - 1)
         /\ \A u \in Timer : Good(timer'[u], phase')
         /\ \A u \in Timer : Triggers(timer'[u]) => mutex'[u] = "thread"
<1>1. /\ timer \in [Timer -> TimerState]
      /\ mutex \in [Timer -> {"none", "thread", "script"}]
      /\ phase \in 0..(Period - 1)
  BY DEF IInv, TimerTypeOK
<1>2. \A u \in Timer : timer'[u] = IF u = t THEN r ELSE timer[u]
  BY <1>1
<1>3. \A u \in Timer : mutex'[u] = IF u = t THEN m ELSE mutex[u]
  BY <1>1
<1>4. \A u \in Timer : Good(timer'[u], phase')
  BY <1>2 DEF IInv
<1>5. \A u \in Timer : Triggers(timer'[u]) => mutex'[u] = "thread"
  BY <1>2, <1>3 DEF IInv
<1>6. timer' \in [Timer -> TimerState]
  BY <1>1
<1>7. mutex' \in [Timer -> {"none", "thread", "script"}]
  BY <1>1
<1>8. QED
  BY <1>1, <1>4, <1>5, <1>6, <1>7

\* The same when the mutex stays as it is.
LEMMA OneTimerOnly ==
  ASSUME IInv, NEW t \in Timer, NEW r \in TimerState, Good(r, phase),
         Triggers(r) => mutex[t] = "thread",
         timer' = [timer EXCEPT ![t] = r], mutex' = mutex, phase' = phase
  PROVE  /\ timer' \in [Timer -> TimerState]
         /\ mutex' \in [Timer -> {"none", "thread", "script"}]
         /\ phase' \in 0..(Period - 1)
         /\ \A u \in Timer : Good(timer'[u], phase')
         /\ \A u \in Timer : Triggers(timer'[u]) => mutex'[u] = "thread"
<1>1. mutex \in [Timer -> {"none", "thread", "script"}]
  BY DEF IInv, TimerTypeOK
<1>2. mutex[t] \in {"none", "thread", "script"} /\ mutex = [mutex EXCEPT ![t] = mutex[t]]
  BY <1>1
<1>3. mutex' = [mutex EXCEPT ![t] = mutex[t]]
  BY <1>2
<1>4. QED
  BY <1>2, <1>3, OneTimer

\* The parts together.
LEMMA Together ==
  ASSUME timer' \in [Timer -> TimerState],
         mutex' \in [Timer -> {"none", "thread", "script"}],
         phase' \in 0..(Period - 1),
         script' \in [pc : {"loop", "reset", "restart", "start", "join", "started", "stop",
                            "await"}, on : Timer, calling : BOOLEAN],
         queue' \in Seq(Timer), tub' \in BOOLEAN, tcalm' \in BOOLEAN,
         script'.calling => queue' # <<>>,
         \A u \in Timer : Good(timer'[u], phase'),
         \A u \in Timer : Triggers(timer'[u]) => mutex'[u] = "thread"
  PROVE  IInv'
BY DEF IInv, TimerTypeOK, Triggers, Good

\* The queue without its first notice, and the empty queue.
LEMMA QueueFacts ==
  /\ <<>> \in Seq(Timer)
  /\ \A q \in Seq(Timer) : q # <<>> => Tail(q) \in Seq(Timer)
OBVIOUS

\* What holds of the script, the queue and the flags before a step.
LEMMA Before ==
  ASSUME IInv
  PROVE  /\ timer \in [Timer -> TimerState]
         /\ mutex \in [Timer -> {"none", "thread", "script"}]
         /\ phase \in 0..(Period - 1)
         /\ script \in [pc : {"loop", "reset", "restart", "start", "join", "started", "stop",
                              "await"}, on : Timer, calling : BOOLEAN]
         /\ queue \in Seq(Timer) /\ tub \in BOOLEAN /\ tcalm \in BOOLEAN
         /\ script.calling => queue # <<>>
         /\ \A u \in Timer : timer[u] \in TimerState /\ Good(timer[u], phase)
         /\ \A u \in Timer : Triggers(timer[u]) => mutex[u] = "thread"
BY DEF IInv, TimerTypeOK

\* The initial states.
LEMMA InitIInv == TimerInit => IInv
<1> SUFFICES ASSUME TimerInit PROVE IInv
  OBVIOUS
<1>1. PICK kinds \in [Timer -> Kind] :
        /\ \A t \in Timer \ Handled : kinds[t] = "continuous"
        /\ timer = [t \in Timer |-> NewTimer(kinds[t], t \notin Handled)]
  BY DEF TimerInit
<1>2. phase = 0 /\ phase \in 0..(Period - 1)
  BY LongestFacts DEF TimerInit
<1>3. ASSUME NEW t \in Timer
      PROVE  timer[t] \in TimerState /\ Good(timer[t], phase) /\ ~Triggers(timer[t])
  <2>1. kinds[t] \in Kind /\ (t \notin Handled) \in BOOLEAN
    BY <1>1, <1>3
  <2>2. t \notin Handled => kinds[t] = "continuous"
    BY <1>1, <1>3
  <2>3. timer[t] = NewTimer(kinds[t], t \notin Handled)
    BY <1>1, <1>3
  <2>4. NewTimer(kinds[t], t \notin Handled) \in TimerState
           /\ Good(NewTimer(kinds[t], t \notin Handled), phase)
    BY <1>2, <2>1, <2>2, NewTimerFacts
  <2>5. NewTimer(kinds[t], t \notin Handled).pc \in {"begin", "none"}
    BY DEF NewTimer
  <2>6. QED
    BY <2>3, <2>4, <2>5 DEF Triggers
<1>4. timer \in [Timer -> TimerState]
  <2>1. timer = [t \in Timer |-> timer[t]]
    BY <1>1
  <2>2. QED
    BY <1>3, <2>1
<1>5. (CHOOSE t \in Timer : TRUE) \in Timer
  BY TimerAssumption
<1>6. TimerTypeOK
  <2>1. /\ mutex = [t \in Timer |-> "none"] /\ queue = <<>> /\ tub = FALSE /\ tcalm \in BOOLEAN
        /\ script = [pc |-> "loop", on |-> CHOOSE t \in Timer : TRUE, calling |-> FALSE]
    BY DEF TimerInit
  <2>2. mutex \in [Timer -> {"none", "thread", "script"}]
    BY <2>1
  <2>5. queue \in Seq(Timer) /\ tub \in BOOLEAN
    <3>1. queue = <<>> /\ tub = FALSE
      BY <2>1
    <3>2. QED
      BY <3>1, QueueFacts
  <2>3. script \in [pc : {"loop", "reset", "restart", "start", "join", "started", "stop",
                            "await"}, on : Timer, calling : BOOLEAN]
    BY <1>5, <2>1
  <2>6. QED
    BY <1>2, <1>4, <2>1, <2>2, <2>3, <2>5, Zenon DEF TimerTypeOK
<1>7. script.calling = FALSE
  BY DEF TimerInit
<1>8. QED
  BY <1>3, <1>6, <1>7 DEF IInv

-----------------------------------------------------------------------------
(***************************************************************************)
(* The thread of a timer.                                                  *)
(***************************************************************************)

\* A step that leaves the script, the queue and the flags alone.
LEMMA Alone ==
  ASSUME IInv, UNCHANGED <<script, queue, tub, tcalm>>,
         timer' \in [Timer -> TimerState],
         mutex' \in [Timer -> {"none", "thread", "script"}],
         phase' \in 0..(Period - 1),
         \A u \in Timer : Good(timer'[u], phase'),
         \A u \in Timer : Triggers(timer'[u]) => mutex'[u] = "thread"
  PROVE  IInv'
<1>1. /\ script' \in [pc : {"loop", "reset", "restart", "start", "join", "started", "stop",
                              "await"}, on : Timer, calling : BOOLEAN]
      /\ queue' \in Seq(Timer) /\ tub' \in BOOLEAN /\ tcalm' \in BOOLEAN
      /\ script'.calling => queue' # <<>>
  BY Before
<1>2. QED
  BY <1>1, Together

\* Begin
LEMMA BeginStep ==
  ASSUME IInv, NEW t \in Timer, Begin(t)
  PROVE  IInv'
<1> DEFINE r == [timer[t] EXCEPT !.pc = "enter", !.age = 0, !.since = 0]
<1>1. timer[t] \in TimerState /\ Good(timer[t], phase) /\ phase \in Nat
  BY Before, LongestFacts
<1>2. timer[t].pc = "begin" /\ timer' = [timer EXCEPT ![t] = r]
  BY DEF Begin
<1>3. r \in TimerState /\ Good(r, phase)
  BY <1>1, <1>2, BeginFacts
<1>4. r.pc = "enter"
  BY <1>1 DEF TimerState
<1>5. UNCHANGED <<mutex, script, queue, phase, tub, tcalm>>
  BY DEF Begin
<1> HIDE DEF r
<1>6. ~Triggers(r)
  BY <1>4 DEF Triggers
<1>7. QED
  BY <1>2, <1>3, <1>5, <1>6, OneTimerOnly, Alone

\* The turn of the loop that Enter and Wake share.
LEMMA TurnStep ==
  ASSUME IInv, NEW t \in Timer, timer[t].pc \in {"enter", "wait"}, Turn(t),
         UNCHANGED <<script, queue, phase, tub, tcalm>>
  PROVE  IInv'
<1> DEFINE s == timer[t]
<1>1. s \in TimerState /\ Good(s, phase)
  BY Before
<1>2. s.age \in Nat /\ s.since = s.age /\ s.interval \in 1..Longest /\ Longest \in Nat
  BY <1>1, LongestFacts DEF TimerState, Good
<1>3. CASE ~s.running
  <2>1. timer' = [timer EXCEPT ![t] = Over(s)] /\ mutex' = mutex
    BY <1>3 DEF Turn
  <2>2. Over(s) \in TimerState /\ Good(Over(s), phase) /\ ~Triggers(Over(s))
    BY <1>1, OverFacts DEF Triggers
  <2>3. QED
    BY <2>1, <2>2, OneTimerOnly, Alone
<1>4. CASE s.running /\ s.age < s.interval
  <2> DEFINE left == s.interval - s.age
  <2>1. timer' = [timer EXCEPT ![t] = Waiting(s, left)] /\ mutex' = mutex
    BY <1>4 DEF Turn
  <2>2. left \in 0..Longest
    BY <1>2, <1>4
  <2> HIDE DEF left
  <2>3. Waiting(s, left) \in TimerState /\ Good(Waiting(s, left), phase)
           /\ ~Triggers(Waiting(s, left))
    BY <1>1, <2>2, WaitingFacts DEF Triggers
  <2>4. QED
    BY <2>1, <2>3, OneTimerOnly, Alone
<1>5. CASE s.running /\ ~(s.age < s.interval)
  <2> DEFINE r == [s EXCEPT !.pc = "push"]
  <2>1. timer' = [timer EXCEPT ![t] = r] /\ mutex' = [mutex EXCEPT ![t] = "thread"]
    BY <1>5 DEF Turn
  <2>2. s.since >= s.interval
    BY <1>2, <1>5
  <2>3. r \in TimerState /\ Good(r, phase)
    BY <1>1, <2>2, PcFacts
  <2> HIDE DEF r
  <2>4. QED
    BY <2>1, <2>3, OneTimer, Alone
<1>6. QED
  BY <1>3, <1>4, <1>5

\* Push.  A pure virtual call ends everything; else the thread writes, and others that do so
\* are not alone any more.
LEMMA PushStep ==
  ASSUME IInv, NEW t \in Timer, Push(t)
  PROVE  IInv'
<1>1. CASE timer[t].base
  <2>1. UNCHANGED <<timer, mutex, script, queue, phase, tcalm>> /\ tub' = TRUE
    BY <1>1 DEF Push
  <2>2. QED
    BY <2>1, Before, Together
<1>2. CASE ~timer[t].base
  <2> DEFINE lone == Pushing = {}
  <2>1. timer' = [u \in Timer |->
                    IF u = t THEN [timer[t] EXCEPT !.pc = "write", !.lone = lone]
                    ELSE IF u \in Pushing THEN [timer[u] EXCEPT !.lone = FALSE]
                    ELSE timer[u]]
        /\ UNCHANGED <<mutex, script, queue, phase, tub, tcalm>>
    BY <1>2 DEF Push
  <2>2. lone \in BOOLEAN
    OBVIOUS
  <2>3. timer[t].pc = "push"
    BY DEF Push
  <2> HIDE DEF lone
  <2>4. ASSUME NEW u \in Timer
        PROVE  timer'[u] \in TimerState /\ Good(timer'[u], phase)
                 /\ (Triggers(timer'[u]) => Triggers(timer[u]))
    <3>1. timer[u] \in TimerState /\ Good(timer[u], phase)
      BY <2>4, Before
    <3>2. CASE u = t
      <4>1. timer'[u] = [timer[u] EXCEPT !.pc = "write", !.lone = lone]
        BY <2>1, <3>2
      <4>2. timer'[u] \in TimerState /\ Good(timer'[u], phase)
        <5>1. timer[u].pc \notin {"none", "ended"}
          BY <2>3, <3>2
        <5>2. [timer[u] EXCEPT !.pc = "write", !.lone = lone] \in TimerState
              /\ Good([timer[u] EXCEPT !.pc = "write", !.lone = lone], phase)
          BY <2>2, <3>1, <5>1, PushFacts
        <5>3. QED
          BY <4>1, <5>2
      <4>3. QED
        BY <2>3, <3>2, <4>2 DEF Triggers
    <3>3. CASE u # t /\ u \in Pushing
      <4>1. timer'[u] = [timer[u] EXCEPT !.lone = FALSE] /\ timer[u].pc = "write"
        BY <2>1, <3>3 DEF Pushing
      <4>2. timer'[u] \in TimerState /\ Good(timer'[u], phase)
        BY <3>1, <4>1, PushFacts
      <4>3. QED
        BY <4>1, <4>2 DEF Triggers
    <3>4. CASE u # t /\ u \notin Pushing
      BY <2>1, <3>1, <3>4
    <3>5. QED
      BY <3>2, <3>3, <3>4
  <2>5. timer' \in [Timer -> TimerState]
    <3>1. timer' = [u \in Timer |-> timer'[u]]
      BY <2>1
    <3>2. QED
      BY <2>4, <3>1
  <2>6. \A u \in Timer : Triggers(timer'[u]) => mutex'[u] = "thread"
    BY <2>1, <2>4, Before
  <2>7. QED
    BY <2>1, <2>4, <2>5, <2>6, Before, Alone
<1>3. QED
  BY <1>1, <1>2

\* Write
LEMMA WriteStep ==
  ASSUME IInv, NEW t \in Timer, Write(t)
  PROVE  IInv'
<1> DEFINE r == [timer[t] EXCEPT !.pc = "decide", !.lone = TRUE, !.fired = TRUE]
<1>1. timer[t] \in TimerState /\ Good(timer[t], phase) /\ timer[t].pc = "write"
  BY Before DEF Write
<1>2. timer' = [timer EXCEPT ![t] = r] /\ UNCHANGED <<mutex, script, phase, tcalm>>
  BY DEF Write
<1>3. r \in TimerState /\ Good(r, phase)
  BY <1>1, PushFacts
<1>4. mutex[t] = "thread"
  BY <1>1, Before DEF Triggers
<1> HIDE DEF r
<1>5. /\ timer' \in [Timer -> TimerState]
      /\ mutex' \in [Timer -> {"none", "thread", "script"}]
      /\ phase' \in 0..(Period - 1)
      /\ \A u \in Timer : Good(timer'[u], phase')
      /\ \A u \in Timer : Triggers(timer'[u]) => mutex'[u] = "thread"
  BY <1>2, <1>3, <1>4, OneTimerOnly
<1>6. queue' \in Seq(Timer) /\ tub' \in BOOLEAN /\ (script.calling => queue' # <<>>)
  <2>1. queue \in Seq(Timer) /\ tub \in BOOLEAN /\ (script.calling => queue # <<>>)
    BY Before
  <2>2. CASE queue' = Append(queue, t) /\ UNCHANGED tub
    BY <2>1, <2>2
  <2>3. CASE queue # <<>> /\ queue' = Append(Front(queue), t) /\ UNCHANGED tub
    <3>1. Front(queue) \in Seq(Timer)
      BY <2>1, <2>3 DEF Front
    <3>2. QED
      BY <2>1, <2>3, <3>1
  <2>4. CASE tub' = TRUE /\ UNCHANGED queue
    BY <2>1, <2>4
  <2>5. QED
    BY <2>2, <2>3, <2>4 DEF Write
<1>7. QED
  BY <1>2, <1>5, <1>6, Before, Together

\* Decide
LEMMA DecideStep ==
  ASSUME IInv, NEW t \in Timer, Decide(t)
  PROVE  IInv'
<1> DEFINE next == NextInterval(timer[t].kind)
           r == IF next = 0
                THEN Over([timer[t] EXCEPT !.running = FALSE])
                ELSE Waiting([timer[t] EXCEPT !.interval = next, !.age = 0, !.since = 0,
                                              !.passed = FALSE], next)
<1>1. timer[t] \in TimerState /\ Good(timer[t], phase) /\ phase \in 0..(Period - 1)
  BY Before
<1>2. timer[t].pc = "decide" /\ timer' = [timer EXCEPT ![t] = r]
      /\ mutex' = [mutex EXCEPT ![t] = "none"] /\ UNCHANGED <<script, queue, phase, tub, tcalm>>
  BY DEF Decide
<1>3. r \in TimerState /\ Good(r, phase) /\ r.pc \in {"ended", "wait"}
  BY <1>1, <1>2, DecideFacts
<1> HIDE DEF r
<1>4. ~Triggers(r)
  BY <1>3 DEF Triggers
<1>5. QED
  BY <1>2, <1>3, <1>4, OneTimer, Alone

-----------------------------------------------------------------------------
(***************************************************************************)
(* The thread of the script.                                               *)
(***************************************************************************)

\* A step of the script that leaves the timers and their mutexes alone.
LEMMA ScriptMoves ==
  ASSUME IInv, UNCHANGED <<timer, mutex, phase, tcalm>>,
         script' \in [pc : {"loop", "reset", "restart", "start", "join", "started", "stop",
                            "await"}, on : Timer, calling : BOOLEAN],
         queue' \in Seq(Timer), tub' \in BOOLEAN, script'.calling => queue' # <<>>
  PROVE  IInv'
BY Before, Together

\* What Goes does to the script.
LEMMA GoesFacts ==
  ASSUME IInv, NEW t \in Timer,
         NEW pc \in {"loop", "reset", "restart", "start", "join", "started", "stop", "await"},
         Goes(pc, t)
  PROVE  /\ script' \in [pc : {"loop", "reset", "restart", "start", "join", "started", "stop",
                               "await"}, on : Timer, calling : BOOLEAN]
         /\ script'.calling = script.calling
<1>1. script \in [pc : {"loop", "reset", "restart", "start", "join", "started", "stop",
                        "await"}, on : Timer, calling : BOOLEAN]
  BY Before
<1>2. script' = [script EXCEPT !.pc = pc, !.on = t]
  BY DEF Goes
<1>3. QED
  BY <1>1, <1>2

\* A step of the script with one timer.
LEMMA ScriptWithTimer ==
  ASSUME IInv, NEW t \in Timer,
         NEW pc \in {"loop", "reset", "restart", "start", "join", "started", "stop", "await"},
         Goes(pc, t), UNCHANGED <<queue, phase, tub, tcalm>>,
         NEW r \in TimerState, Good(r, phase),
         NEW m \in {"none", "thread", "script"}, Triggers(r) => m = "thread",
         timer' = [timer EXCEPT ![t] = r], mutex' = [mutex EXCEPT ![t] = m]
  PROVE  IInv'
<1>1. /\ timer' \in [Timer -> TimerState]
      /\ mutex' \in [Timer -> {"none", "thread", "script"}]
      /\ phase' \in 0..(Period - 1)
      /\ \A u \in Timer : Good(timer'[u], phase')
      /\ \A u \in Timer : Triggers(timer'[u]) => mutex'[u] = "thread"
  BY OneTimer
<1>2. queue' \in Seq(Timer) /\ tub' \in BOOLEAN /\ tcalm' \in BOOLEAN
      /\ (script.calling => queue' # <<>>)
  BY Before
<1>3. script' \in [pc : {"loop", "reset", "restart", "start", "join", "started", "stop",
                         "await"}, on : Timer, calling : BOOLEAN]
      /\ script'.calling = script.calling
  BY GoesFacts
<1>4. QED
  BY <1>1, <1>2, <1>3, Together

\* The mutex of a timer is what it is.
LEMMA MutexSame ==
  ASSUME IInv, NEW t \in Timer, mutex' = mutex
  PROVE  /\ mutex[t] \in {"none", "thread", "script"}
         /\ mutex' = [mutex EXCEPT ![t] = mutex[t]]
BY Before

\* Steps that move the script only.
LEMMA GoesOnly ==
  ASSUME IInv, NEW t \in Timer,
         NEW pc \in {"loop", "reset", "restart", "start", "join", "started", "stop", "await"},
         Goes(pc, t), UNCHANGED <<timer, mutex, queue, phase, tub, tcalm>>
  PROVE  IInv'
<1>1. queue' \in Seq(Timer) /\ tub' \in BOOLEAN /\ (script.calling => queue' # <<>>)
  BY Before
<1>2. QED
  BY <1>1, GoesFacts, ScriptMoves

\* Call and Return
LEMMA CallStep ==
  ASSUME IInv, Call \/ Return
  PROVE  IInv'
<1> DEFINE type == [pc : {"loop", "reset", "restart", "start", "join", "started", "stop",
                          "await"}, on : Timer, calling : BOOLEAN]
<1>1. script \in type /\ queue \in Seq(Timer) /\ tub \in BOOLEAN
  BY Before
<1>2. CASE Call
  <2>1. script' = [script EXCEPT !.calling = TRUE] /\ queue' = queue /\ queue # <<>>
        /\ UNCHANGED <<timer, mutex, phase, tub, tcalm>>
    BY <1>2 DEF Call
  <2>2. script' \in type
    BY <1>1, <2>1
  <2>3. QED
    BY <1>1, <2>1, <2>2, ScriptMoves
<1>3. CASE Return
  <2>1. script' = [script EXCEPT !.calling = FALSE] /\ UNCHANGED <<timer, mutex, phase, tcalm>>
    BY <1>3 DEF Return
  <2>2. script' \in type /\ ~script'.calling
    BY <1>1, <2>1
  <2>3. queue # <<>>
    BY <1>3, Before DEF Return
  <2>6. \/ queue' = Tail(queue) /\ tub' = tub
        \/ tub' = TRUE /\ queue' = queue
    BY <1>3 DEF Return
  <2>4. queue' \in Seq(Timer) /\ tub' \in BOOLEAN
    BY <1>1, <2>3, <2>6, QueueFacts
  <2>5. QED
    BY <2>1, <2>2, <2>4, ScriptMoves
<1>4. QED
  BY <1>2, <1>3

\* Reset: the thread is not between its decision to trigger and the push, for it would hold
\* the mutex.
LEMMA ResetStep ==
  ASSUME IInv, NEW t \in Timer, Reset(t)
  PROVE  IInv'
<1> DEFINE s == timer[t]
           r == [s EXCEPT !.age = 0, !.since = 0, !.passed = FALSE,
                          !.fresh = s.kind # "cron", !.fired = FALSE]
           pc == IF script.pc = "restart" THEN "started" ELSE "loop"
<1>1. s \in TimerState /\ Good(s, phase) /\ ~Triggers(s)
  BY Before DEF Reset, Ready
<1>2. timer' = [timer EXCEPT ![t] = r] /\ Goes(pc, t)
      /\ UNCHANGED <<mutex, queue, phase, tub, tcalm>>
  BY DEF Reset
<1>3. s.pc # "push"
  BY <1>1 DEF Triggers
<1>4. r \in TimerState /\ Good(r, phase)
  BY <1>1, <1>3, ResetFacts
<1>5. r.pc = s.pc
  BY <1>1 DEF TimerState
<1>6. pc \in {"loop", "reset", "restart", "start", "join", "started", "stop", "await"}
  OBVIOUS
<1> HIDE DEF r, pc
<1>7. ~Triggers(r)
  BY <1>1, <1>5 DEF Triggers
<1>8. QED
  BY <1>2, <1>4, <1>6, <1>7, MutexSame, ScriptWithTimer

\* A flag of a timer changes.
LEMMA FlagStep ==
  ASSUME IInv, NEW t \in Timer,
         NEW pc \in {"loop", "reset", "restart", "start", "join", "started", "stop", "await"},
         Goes(pc, t), UNCHANGED <<queue, phase, tub, tcalm>>,
         NEW m \in {"none", "thread", "script"}, mutex' = [mutex EXCEPT ![t] = m],
         Triggers(timer[t]) => m = "thread",
         NEW b \in BOOLEAN,
         \/ timer' = [timer EXCEPT ![t] = [timer[t] EXCEPT !.running = b]]
         \/ timer' = [timer EXCEPT ![t] = [timer[t] EXCEPT !.base = b]]
  PROVE  IInv'
<1>1. timer[t] \in TimerState /\ Good(timer[t], phase)
  BY Before
<1>2. CASE timer' = [timer EXCEPT ![t] = [timer[t] EXCEPT !.running = b]]
  <2> DEFINE r == [timer[t] EXCEPT !.running = b]
  <2>1. r \in TimerState /\ Good(r, phase)
    BY <1>1, FlagFacts
  <2>2. Triggers(r) <=> Triggers(timer[t])
    BY <1>1 DEF Triggers, TimerState
  <2>3. timer' = [timer EXCEPT ![t] = r]
    BY <1>2
  <2> HIDE DEF r
  <2>4. QED
    BY <2>1, <2>2, <2>3, ScriptWithTimer
<1>3. CASE timer' = [timer EXCEPT ![t] = [timer[t] EXCEPT !.base = b]]
  <2> DEFINE r == [timer[t] EXCEPT !.base = b]
  <2>1. r \in TimerState /\ Good(r, phase)
    BY <1>1, FlagFacts
  <2>2. Triggers(r) <=> Triggers(timer[t])
    BY <1>1 DEF Triggers, TimerState
  <2>3. timer' = [timer EXCEPT ![t] = r]
    BY <1>3
  <2> HIDE DEF r
  <2>4. QED
    BY <2>1, <2>2, <2>3, ScriptWithTimer
<1>4. QED
  BY <1>2, <1>3

\* TakeLock, Stop and Drop
LEMMA FlagSteps ==
  ASSUME IInv, NEW t \in Timer, TakeLock(t) \/ Stop(t) \/ Drop(t)
  PROVE  IInv'
<1>1. CASE TakeLock(t)
  <2>1. /\ timer' = [timer EXCEPT ![t] = [timer[t] EXCEPT !.running = TRUE]]
        /\ mutex' = [mutex EXCEPT ![t] = "script"] /\ Goes("join", t)
        /\ UNCHANGED <<queue, phase, tub, tcalm>> /\ mutex[t] = "none"
    BY <1>1 DEF TakeLock, Ready
  <2>2. ~Triggers(timer[t])
    BY <2>1, Before
  <2>3. QED
    BY <2>1, <2>2, FlagStep
<1>2. CASE Stop(t)
  <2>1. /\ timer' = [timer EXCEPT ![t] = [timer[t] EXCEPT !.running = FALSE]]
        /\ mutex' = mutex /\ Goes("await", t) /\ UNCHANGED <<queue, phase, tub, tcalm>>
    BY <1>2 DEF Stop
  <2>2. QED
    BY <2>1, MutexSame, Before, FlagStep
<1>3. CASE Drop(t)
  <2>1. /\ timer' = [timer EXCEPT ![t] = [timer[t] EXCEPT !.base = TRUE]]
        /\ mutex' = mutex /\ Goes("stop", t) /\ UNCHANGED <<queue, phase, tub, tcalm>>
    BY <1>3 DEF Drop
  <2>2. QED
    BY <2>1, MutexSame, Before, FlagStep
<1>4. QED
  BY <1>1, <1>2, <1>3

\* NewThread
LEMMA NewThreadStep ==
  ASSUME IInv, NEW t \in Timer, NewThread(t)
  PROVE  IInv'
<1> DEFINE s == timer[t]
           r == [s EXCEPT !.pc = "begin", !.passed = FALSE, !.fired = FALSE,
                          !.fresh = s.interval = FirstInterval(s.kind)]
<1>1. s \in TimerState /\ Good(s, phase) /\ phase \in 0..(Period - 1)
  BY Before
<1>2. s.pc \in {"none", "ended"}
  BY DEF NewThread, Ended
<1>3. timer' = [timer EXCEPT ![t] = r] /\ mutex' = [mutex EXCEPT ![t] = "none"]
      /\ Goes("started", t) /\ UNCHANGED <<queue, phase, tub, tcalm>>
  BY DEF NewThread
<1>4. r \in TimerState /\ Good(r, phase)
  BY <1>1, <1>2, NewThreadFacts
<1>5. r.pc = "begin"
  BY <1>1 DEF TimerState
<1> HIDE DEF r
<1>6. ~Triggers(r)
  BY <1>5 DEF Triggers
<1>7. QED
  BY <1>3, <1>4, <1>6, ScriptWithTimer

\* StartTimer, Ask, JoinThread and Started
LEMMA GoesSteps ==
  ASSUME IInv, NEW t \in Timer,
         \/ StartTimer(t) \/ Ask(t, "reset") \/ Ask(t, "stop") \/ JoinThread(t) \/ Started
  PROVE  IInv'
<1>1. CASE StartTimer(t)
  <2> DEFINE pc == IF timer[t].running THEN "restart" ELSE "start"
  <2>1. Goes(pc, t) /\ UNCHANGED <<timer, mutex, queue, phase, tub, tcalm>>
    BY <1>1 DEF StartTimer
  <2>2. pc \in {"loop", "reset", "restart", "start", "join", "started", "stop", "await"}
    OBVIOUS
  <2> HIDE DEF pc
  <2>3. QED
    BY <2>1, <2>2, GoesOnly
<1>2. CASE Ask(t, "reset")
  BY <1>2, GoesOnly DEF Ask
<1>3. CASE Ask(t, "stop")
  BY <1>3, GoesOnly DEF Ask
<1>4. CASE JoinThread(t)
  BY <1>4, GoesOnly DEF JoinThread
<1>5. CASE Started
  <2>1. script.on \in Timer
    BY Before
  <2>2. QED
    BY <1>5, <2>1, GoesOnly DEF Started
<1>6. QED
  BY <1>1, <1>2, <1>3, <1>4, <1>5

-----------------------------------------------------------------------------
\* Tick
LEMMA TickStep ==
  ASSUME IInv, Tick
  PROVE  IInv'
<1> DEFINE r(t) == [timer[t] EXCEPT !.age = Older(@, timer[t].interval),
                                    !.since = Older(@, timer[t].interval),
                                    !.left = IF @ > 0 THEN @ - 1 ELSE 0,
                                    !.passed = @ \/ (timer[t].kind = "cron" /\ phase' = 0)]
<1>1. timer' = [t \in Timer |-> IF Ended(t) THEN timer[t] ELSE r(t)]
      /\ UNCHANGED <<mutex, script, queue, tub, tcalm>>
  BY DEF Tick
<1>2. phase \in 0..(Period - 1) /\ phase' \in 0..(Period - 1)
  <2>1. phase \in 0..(Period - 1) /\ phase + 1 \in Nat /\ Period \in Nat /\ 1 <= Period
    BY Before, LongestFacts
  <2>2. phase' = (phase + 1) % Period \/ phase' = phase
    BY DEF Tick
  <2>3. QED
    BY <2>1, <2>2
<1>3. (\E t \in Timer : timer[t].kind = "cron") => phase' = (phase + 1) % Period
  BY DEF Tick
<1>4. ASSUME NEW t \in Timer
      PROVE  timer'[t] \in TimerState /\ Good(timer'[t], phase')
               /\ (Triggers(timer'[t]) => Triggers(timer[t]))
  <2>1. timer[t] \in TimerState /\ Good(timer[t], phase)
    BY <1>4, Before
  <2>2. CASE Ended(t)
    <3>1. timer'[t] = timer[t] /\ timer[t].pc \in {"none", "ended"}
      BY <1>1, <2>2 DEF Ended
    <3>2. Good(timer[t], phase')
      BY <2>1, <3>1 DEF Good
    <3>3. QED
      BY <2>1, <3>1, <3>2
  <2>3. CASE ~Ended(t)
    <3>1. timer'[t] = r(t) /\ timer[t].pc \notin {"none", "ended"}
      BY <1>1, <2>3 DEF Ended
    <3>2. timer[t].kind = "cron" => phase' = (phase + 1) % Period
      BY <1>3
    <3>3. r(t) \in TimerState /\ Good(r(t), phase')
      BY <1>2, <2>1, <3>1, <3>2, TickFacts
    <3>4. r(t).pc = timer[t].pc
      BY <2>1 DEF TimerState
    <3>5. QED
      BY <3>1, <3>3, <3>4 DEF Triggers
  <2>4. QED
    BY <2>2, <2>3
<1>5. timer' \in [Timer -> TimerState]
  <2>1. timer' = [t \in Timer |-> timer'[t]]
    BY <1>1
  <2>2. QED
    BY <1>4, <2>1
<1>6. \A t \in Timer : Triggers(timer'[t]) => mutex'[t] = "thread"
  BY <1>1, <1>4, Before
<1>7. QED
  BY <1>1, <1>2, <1>4, <1>5, <1>6, Before, Alone

\* Every step.
LEMMA StepIInv == IInv /\ [TimerNext]_timerVars => IInv'
<1> SUFFICES ASSUME IInv, [TimerNext]_timerVars PROVE IInv'
  OBVIOUS
<1>1. CASE UNCHANGED timerVars
  BY <1>1, Before, Alone DEF timerVars
<1>2. CASE \E t \in Timer : TimerThread(t)
  <2>1. PICK t \in Timer : TimerThread(t)
    BY <1>2
  <2>2. CASE Enter(t)
    BY <2>2, TurnStep DEF Enter
  <2>3. CASE Wake(t)
    BY <2>3, TurnStep DEF Wake
  <2>4. QED
    BY <2>1, <2>2, <2>3, BeginStep, PushStep, WriteStep, DecideStep DEF TimerThread
<1>3. CASE \E t \in Handled : Command(t)
  <2>1. PICK t \in Timer : Command(t)
    BY <1>3, TimerAssumption
  <2>2. QED
    BY <2>1, GoesSteps, FlagSteps DEF Command
<1>4. CASE Proceed
  <2>1. CASE Call \/ Return
    BY <2>1, CallStep
  <2>2. CASE Started
    <3>1. PICK t \in Timer : TRUE
      BY TimerAssumption
    <3>2. QED
      BY <2>2, <3>1, GoesSteps
  <2>3. CASE \E t \in Handled :
               Reset(t) \/ TakeLock(t) \/ NewThread(t) \/ Stop(t) \/ JoinThread(t)
    <3>1. PICK t \in Timer : Reset(t) \/ TakeLock(t) \/ NewThread(t) \/ Stop(t) \/ JoinThread(t)
      BY <2>3, TimerAssumption
    <3>2. QED
      BY <3>1, ResetStep, FlagSteps, NewThreadStep, GoesSteps
  <2>4. QED
    BY <1>4, <2>1, <2>2, <2>3 DEF Proceed
<1>5. CASE Tick
  BY <1>5, TickStep
<1>6. QED
  BY <1>1, <1>2, <1>3, <1>4, <1>5 DEF TimerNext

\* A thread that is about to push has waited, and a cron timer has seen an instant: else the
\* next one would be further away than the period is long.
LEMMA GoodFires == IInv => FiresInTime
<1> SUFFICES ASSUME IInv, NEW t \in Timer, timer[t].pc = "push"
             PROVE  /\ timer[t].since >= timer[t].interval
                    /\ timer[t].kind = "cron" /\ timer[t].fresh => timer[t].passed
  BY DEF FiresInTime
<1> DEFINE s == timer[t]
<1>1. s \in TimerState /\ Good(s, phase) /\ phase \in 0..(Period - 1)
  BY Before
<1>2. s.since >= s.interval
  BY <1>1 DEF Good
<1>3. s.since \in Int /\ s.interval \in Int /\ Period \in Int /\ phase <= Period - 1
      /\ phase \in Int
  BY <1>1, LongestFacts DEF TimerState
<1>4. ~(phase >= Period + 1 - s.interval + s.since)
  BY <1>2, <1>3
<1>5. s.kind = "cron" /\ s.fresh => s.passed
  BY <1>1, <1>4 DEF Good
<1>6. QED
  BY <1>2, <1>5

-----------------------------------------------------------------------------
\* The timers, their mutexes, the queue and the thread of the script keep their types: what is
\* awaited never exceeds the longest interval, and time never makes an age leave its range
\* (CTimer and its three kinds).
THEOREM TimerTypeCorrect == TimerSpec => []TimerTypeOK
<1>1. IInv => TimerTypeOK
  BY DEF IInv
<1>2. QED
  BY <1>1, InitIInv, StepIInv, PTL DEF TimerSpec

\* No timer fires before its interval has passed since it was last armed, and a cron timer
\* fires once for an instant, for any number of timers, any interval, any schedule and any
\* order of the script's calls (CTimer::run, reset, CTimerCron::nextInterval).
THEOREM NeverEarly == TimerSpec => []FiresInTime
<1>1. QED
  BY InitIInv, StepIInv, GoodFires, PTL DEF TimerSpec

-----------------------------------------------------------------------------
(***************************************************************************)
(* The two joins.                                                          *)
(***************************************************************************)

\* start() joins a thread while it holds the mutex which that thread needs at each turn, but only
\* one that has ended already; stop() joins one that finds m_running FALSE at its next turn, and
\* holds nothing meanwhile (CTimer::start, stop).
JoinsNobodyBusy ==
  /\ script.pc = "join" => Ended(script.on)
  /\ script.pc = "await" => ~timer[script.on].running

\* How many steps a thread is from its end, at most, once m_running is FALSE.
StepsLeft ==
  [none |-> 0, ended |-> 0, enter |-> 1, wait |-> 1, begin |-> 2, decide |-> 2, write |-> 3,
   push |-> 4]

\* While stop() joins, each step of the thread brings it nearer to its end, whatever time passes
\* and whatever the other timers do (CTimer::stop, run).
EndComesNearer ==
  [][script.pc = "await" /\ script'.pc = "await" =>
       LET t == script.on
       IN  timer'[t].pc = timer[t].pc \/ StepsLeft[timer'[t].pc] < StepsLeft[timer[t].pc]]_timerVars

\* m_running is FALSE when there is no thread, and while stop() waits for it to end.
JoinInv ==
  /\ \A t \in Timer : ~timer[t].running => Ended(t) \/ (script.pc = "await" /\ script.on = t)
  /\ script.pc = "start" => ~timer[script.on].running
  /\ script.pc = "join" => Ended(script.on) /\ timer[script.on].running
  /\ script.pc = "await" => ~timer[script.on].running

\* What a step of a thread does to its timer: it goes on, or it ends, and m_running with it.
Advances(s, r) ==
  /\ s.pc \notin {"none", "ended"} /\ (r.running => s.running)
  /\ ~r.running => ~s.running \/ r.pc = "ended"
  /\ ~s.running => StepsLeft[r.pc] < StepsLeft[s.pc] \/ r.pc = s.pc

\* A turn ends the thread, waits, or goes on to the push.
LEMMA TurnAdvances ==
  ASSUME IInv, NEW t \in Timer, timer[t].pc \in {"enter", "wait"}, Turn(t)
  PROVE  /\ Advances(timer[t], timer'[t])
         /\ \A u \in Timer \ {t} : timer'[u] = timer[u]
<1> DEFINE s == timer[t]
<1>1. s \in TimerState /\ timer \in [Timer -> TimerState]
  BY Before
<1>2. CASE ~s.running
  <2>1. timer' = [timer EXCEPT ![t] = Over(s)]
    BY <1>2 DEF Turn
  <2>2. Over(s).pc = "ended" /\ Over(s).running = s.running
    BY <1>1 DEF Over, TimerState
  <2>3. QED
    BY <1>1, <1>2, <2>1, <2>2 DEF Advances, StepsLeft
<1>3. CASE s.running
  <2>1. \E r : /\ timer' = [timer EXCEPT ![t] = r]
               /\ r \in {Waiting(s, s.interval - s.age), [s EXCEPT !.pc = "push"]}
    BY <1>3 DEF Turn
  <2>2. /\ Waiting(s, s.interval - s.age).running = s.running
        /\ [s EXCEPT !.pc = "push"].running = s.running
    BY <1>1 DEF Waiting, TimerState
  <2>3. QED
    BY <1>1, <1>3, <2>1, <2>2 DEF Advances
<1>4. QED
  BY <1>2, <1>3

\* The push, which may mark other pushes as overlapping.
LEMMA PushAdvances ==
  ASSUME IInv, NEW t \in Timer, Push(t)
  PROVE  /\ Advances(timer[t], timer'[t])
         /\ \A u \in Timer \ {t} :
              timer'[u].pc = timer[u].pc /\ timer'[u].running = timer[u].running
<1>1. /\ \A u \in Timer : timer[u] \in TimerState
      /\ timer[t].pc = "push" /\ timer[t].running \in BOOLEAN
  BY Before DEF Push, TimerState
<1>2. CASE timer[t].base
  <2>1. timer' = timer
    BY <1>2 DEF Push
  <2>2. QED
    BY <1>1, <2>1 DEF Advances
<1>3. CASE ~timer[t].base
  <2>1. timer' = [u \in Timer |->
                    IF u = t THEN [timer[t] EXCEPT !.pc = "write", !.lone = Pushing = {}]
                    ELSE IF u \in Pushing THEN [timer[u] EXCEPT !.lone = FALSE]
                    ELSE timer[u]]
    BY <1>3 DEF Push
  <2>2. timer'[t] = [timer[t] EXCEPT !.pc = "write", !.lone = Pushing = {}]
    BY <2>1
  <2>3. timer'[t].pc = "write" /\ timer'[t].running = timer[t].running
    BY <1>1, <2>2 DEF TimerState
  <2>4. ASSUME NEW u \in Timer \ {t}
        PROVE  timer'[u].pc = timer[u].pc /\ timer'[u].running = timer[u].running
    <3>1. timer'[u] \in {timer[u], [timer[u] EXCEPT !.lone = FALSE]}
      BY <2>1, <2>4
    <3>2. /\ [timer[u] EXCEPT !.lone = FALSE].pc = timer[u].pc
          /\ [timer[u] EXCEPT !.lone = FALSE].running = timer[u].running
      BY <1>1 DEF TimerState
    <3>3. QED
      BY <3>1, <3>2
  <2>5. QED
    BY <1>1, <2>3, <2>4 DEF Advances, StepsLeft
<1>4. QED
  BY <1>2, <1>3

\* Every step of a thread.
LEMMA ThreadAdvances ==
  ASSUME IInv, NEW t \in Timer, TimerThread(t)
  PROVE  /\ Advances(timer[t], timer'[t]) /\ UNCHANGED script
         /\ \A u \in Timer \ {t} :
              timer'[u].pc = timer[u].pc /\ timer'[u].running = timer[u].running
<1> DEFINE s == timer[t]
<1>0. s \in TimerState /\ timer \in [Timer -> TimerState]
  BY Before
<1>1. UNCHANGED script
  BY DEF TimerThread, Begin, Enter, Wake, Push, Write, Decide
<1>2. CASE Begin(t)
  <2> DEFINE r == [s EXCEPT !.pc = "enter", !.age = 0, !.since = 0]
  <2>1. timer' = [timer EXCEPT ![t] = r] /\ s.pc = "begin"
    BY <1>2 DEF Begin
  <2>2. r.pc = "enter" /\ r.running = s.running
    BY <1>0 DEF TimerState
  <2> HIDE DEF r
  <2>3. QED
    BY <1>0, <1>1, <2>1, <2>2 DEF Advances, StepsLeft
<1>3. CASE Enter(t) \/ Wake(t)
  BY <1>1, <1>3, TurnAdvances DEF Enter, Wake
<1>4. CASE Push(t)
  BY <1>1, <1>4, PushAdvances
<1>5. CASE Write(t)
  <2> DEFINE r == [s EXCEPT !.pc = "decide", !.lone = TRUE, !.fired = TRUE]
  <2>1. timer' = [timer EXCEPT ![t] = r] /\ s.pc = "write"
    BY <1>5 DEF Write
  <2>2. r.pc = "decide" /\ r.running = s.running
    BY <1>0 DEF TimerState
  <2> HIDE DEF r
  <2>3. QED
    BY <1>0, <1>1, <2>1, <2>2 DEF Advances, StepsLeft
<1>6. CASE Decide(t)
  <2> DEFINE next == NextInterval(s.kind)
             w == [s EXCEPT !.interval = next, !.age = 0, !.since = 0, !.passed = FALSE]
             r == IF next = 0 THEN Over([s EXCEPT !.running = FALSE]) ELSE Waiting(w, next)
  <2>1. timer' = [timer EXCEPT ![t] = r] /\ s.pc = "decide"
    BY <1>6 DEF Decide
  <2>o. [s EXCEPT !.running = FALSE] \in TimerState /\ ~[s EXCEPT !.running = FALSE].running
    BY <1>0 DEF TimerState
  <2>a. ASSUME NEW x \in TimerState PROVE Over(x).pc = "ended" /\ Over(x).running = x.running
    BY DEF Over, TimerState
  <2>w. Waiting(w, next).pc = "wait" /\ Waiting(w, next).running = s.running
    BY <1>0 DEF Waiting, TimerState
  <2>2. /\ Over([s EXCEPT !.running = FALSE]).pc = "ended"
        /\ ~Over([s EXCEPT !.running = FALSE]).running
        /\ Waiting(w, next).pc = "wait" /\ Waiting(w, next).running = s.running
    BY <2>o, <2>a, <2>w
  <2>3. (r.pc = "ended" /\ ~r.running) \/ (r.pc = "wait" /\ r.running = s.running)
    BY <2>2
  <2> HIDE DEF r
  <2>4. QED
    BY <1>0, <1>1, <2>1, <2>3 DEF Advances, StepsLeft
<1>7. QED
  BY <1>2, <1>3, <1>4, <1>5, <1>6 DEF TimerThread

\* A thread that moves keeps the invariant, for it leaves the script where it is.
LEMMA ThreadJoin ==
  ASSUME IInv, JoinInv, NEW t \in Timer, TimerThread(t)
  PROVE  JoinInv'
<1>1. /\ Advances(timer[t], timer'[t]) /\ UNCHANGED script
      /\ \A u \in Timer \ {t} :
           timer'[u].pc = timer[u].pc /\ timer'[u].running = timer[u].running
  BY ThreadAdvances
<1>2. script.on \in Timer
  BY Before
<1>3. script.pc = "join" => script.on # t
  BY <1>1 DEF JoinInv, Ended, Advances
<1>4. \A u \in Timer : ~timer'[u].running => ~timer[u].running \/ timer'[u].pc = "ended"
  BY <1>1 DEF Advances
<1>5. \A u \in Timer : timer'[u].running => timer[u].running
  BY <1>1 DEF Advances
<1>6. \A u \in Timer : Ended(u) => Ended(u)'
  BY <1>1 DEF Advances, Ended
<1>7. \A u \in Timer : timer'[u].pc = "ended" => Ended(u)'
  BY DEF Ended
<1>8. script.pc = "join" => Ended(script.on)' /\ timer'[script.on].running
  BY <1>1, <1>2, <1>3 DEF JoinInv, Ended
<1>9. \A u \in Timer :
        ~timer'[u].running => Ended(u)' \/ (script.pc = "await" /\ script.on = u)
  BY <1>4, <1>6, <1>7 DEF JoinInv
<1>10. QED
  BY <1>1, <1>2, <1>5, <1>8, <1>9 DEF JoinInv

\* The steps of the script that change no flag and make no thread.
LEMMA QuietJoin ==
  ASSUME IInv, JoinInv, NEW pc, script'.pc = pc, script'.on \in Timer,
         \A u \in Timer : timer'[u].pc = timer[u].pc /\ timer'[u].running = timer[u].running,
         \/ script'.pc = script.pc /\ script'.on = script.on
         \/ pc = "start" /\ ~timer[script'.on].running /\ script.pc = "loop"
         \/ pc \notin {"start", "join", "await"} /\ script.pc # "await"
         \/ pc = "loop" /\ script.pc = "await" /\ Ended(script.on)
  PROVE  JoinInv'
<1>1. script.on \in Timer
  BY Before
<1>2. \A u \in Timer : Ended(u)' <=> Ended(u)
  BY DEF Ended
<1>3. QED
  BY <1>1, <1>2 DEF JoinInv

\* Time moves no thread.
LEMMA TickKeeps ==
  ASSUME IInv, Tick
  PROVE  /\ script' = script
         /\ \A u \in Timer :
              timer'[u].pc = timer[u].pc /\ timer'[u].running = timer[u].running
<1>1. /\ script' = script
      /\ timer' = [t \in Timer |->
           IF Ended(t) THEN timer[t]
           ELSE [timer[t] EXCEPT !.age = Older(@, timer[t].interval),
                                 !.since = Older(@, timer[t].interval),
                                 !.left = IF @ > 0 THEN @ - 1 ELSE 0,
                                 !.passed = @ \/ (timer[t].kind = "cron" /\ phase' = 0)]]
  BY DEF Tick
<1>2. ASSUME NEW u \in Timer
      PROVE  timer'[u].pc = timer[u].pc /\ timer'[u].running = timer[u].running
  <2> DEFINE r == [timer[u] EXCEPT !.age = Older(@, timer[u].interval),
                                   !.since = Older(@, timer[u].interval),
                                   !.left = IF @ > 0 THEN @ - 1 ELSE 0,
                                   !.passed = @ \/ (timer[u].kind = "cron" /\ phase' = 0)]
  <2>1. timer'[u] = timer[u] \/ timer'[u] = r
    BY <1>1
  <2>2. r.pc = timer[u].pc /\ r.running = timer[u].running
    BY Before DEF TimerState
  <2> HIDE DEF r
  <2>3. QED
    BY <2>1, <2>2
<1>3. QED
  BY <1>1, <1>2

\* A script that waits for a thread does nothing else.
LEMMA AwaitOnly ==
  ASSUME IInv, script.pc = "await", Proceed \/ \E t \in Handled : Command(t)
  PROVE  script'.pc = "loop"
<1>1. \E t \in Handled : JoinThread(t)
  BY DEF Proceed, Command, Call, Return, Started, Reset, TakeLock, NewThread, Stop, StartTimer,
         Ask, Drop, At
<1>2. script \in [pc : {"loop", "reset", "restart", "start", "join", "started", "stop",
                        "await"}, on : Timer, calling : BOOLEAN]
  BY Before
<1>3. QED
  BY <1>1, <1>2 DEF JoinThread, Goes

\* Every step keeps the invariant.
LEMMA StepJoinInv == IInv /\ JoinInv /\ [TimerNext]_timerVars => JoinInv'
<1> SUFFICES ASSUME IInv, JoinInv, [TimerNext]_timerVars PROVE JoinInv'
  OBVIOUS
<1> DEFINE type == [pc : {"loop", "reset", "restart", "start", "join", "started", "stop",
                          "await"}, on : Timer, calling : BOOLEAN]
<1>0. script \in type /\ timer \in [Timer -> TimerState] /\ \A u \in Timer : timer[u] \in TimerState
  BY Before
<1>g. ASSUME NEW t \in Timer, NEW pc, Goes(pc, t)
      PROVE  script'.pc = pc /\ script'.on = t
  BY <1>0, <1>g DEF Goes
<1>1. CASE UNCHANGED timerVars
  BY <1>0, <1>1, QuietJoin DEF timerVars
<1>2. CASE \E t \in Timer : TimerThread(t)
  BY <1>2, ThreadJoin
<1>3. ASSUME NEW t \in Timer, StartTimer(t) \/ Ask(t, "reset") \/ Ask(t, "stop") \/ JoinThread(t)
      PROVE  JoinInv'
  <2>1. UNCHANGED timer
    BY <1>3 DEF StartTimer, Ask, JoinThread
  <2>2. CASE StartTimer(t)
    BY <1>0, <1>g, <2>1, <2>2, QuietJoin DEF StartTimer, At
  <2>3. CASE Ask(t, "reset") \/ Ask(t, "stop")
    BY <1>0, <1>g, <2>1, <2>3, QuietJoin DEF Ask, At
  <2>4. CASE JoinThread(t)
    BY <1>0, <1>g, <2>1, <2>4, QuietJoin DEF JoinThread, At
  <2>5. QED
    BY <1>3, <2>2, <2>3, <2>4
<1>4. CASE Call \/ Return \/ Started
  <2>1. UNCHANGED timer
    BY <1>4 DEF Call, Return, Started
  <2>2. CASE Call \/ Return
    BY <1>0, <2>1, <2>2, QuietJoin DEF Call, Return
  <2>3. CASE Started
    BY <1>0, <1>g, <2>1, <2>3, QuietJoin DEF Started, At
  <2>4. QED
    BY <1>4, <2>2, <2>3
<1>5. ASSUME NEW t \in Timer, Reset(t) \/ Drop(t)
      PROVE  JoinInv'
  <2>1. \E r : /\ timer' = [timer EXCEPT ![t] = r]
               /\ r.pc = timer[t].pc /\ r.running = timer[t].running
    <3>1. CASE Reset(t)
      <4> DEFINE r == [timer[t] EXCEPT !.age = 0, !.since = 0, !.passed = FALSE,
                                       !.fresh = timer[t].kind # "cron", !.fired = FALSE]
      <4>1. timer' = [timer EXCEPT ![t] = r]
        BY <3>1 DEF Reset
      <4>2. r.pc = timer[t].pc /\ r.running = timer[t].running
        BY <1>0 DEF TimerState
      <4> HIDE DEF r
      <4>3. QED
        BY <4>1, <4>2
    <3>2. CASE Drop(t)
      <4> DEFINE r == [timer[t] EXCEPT !.base = TRUE]
      <4>1. timer' = [timer EXCEPT ![t] = r]
        BY <3>2 DEF Drop
      <4>2. r.pc = timer[t].pc /\ r.running = timer[t].running
        BY <1>0 DEF TimerState
      <4> HIDE DEF r
      <4>3. QED
        BY <4>1, <4>2
    <3>3. QED
      BY <1>5, <3>1, <3>2
  <2>2. \A u \in Timer : timer'[u].pc = timer[u].pc /\ timer'[u].running = timer[u].running
    BY <1>0, <2>1
  <2>3. \/ script.pc \in {"reset", "restart"} /\ script'.pc \in {"started", "loop"}
        \/ script.pc = "loop" /\ script'.pc = "stop"
    BY <1>5, <1>g DEF Reset, Drop, At
  <2>4. script'.on = t
    BY <1>5, <1>g DEF Reset, Drop
  <2>5. QED
    BY <2>2, <2>3, <2>4, QuietJoin
<1>6. ASSUME NEW t \in Timer, TakeLock(t) \/ NewThread(t) \/ Stop(t)
      PROVE  JoinInv'
  <2>1. script'.on = t /\ script.on = t
    BY <1>6, <1>g DEF TakeLock, NewThread, Stop
  <2>2. \A u \in Timer \ {t} : timer'[u] = timer[u]
    BY <1>0, <1>6 DEF TakeLock, NewThread, Stop
  <2>3. CASE TakeLock(t)
    <3>1. script.pc = "start" /\ script'.pc = "join"
      BY <1>g, <2>3 DEF TakeLock, At
    <3>2. timer'[t].running /\ timer'[t].pc = timer[t].pc
      BY <1>0, <2>3 DEF TakeLock, TimerState
    <3>3. Ended(t)'
      BY <2>1, <3>1, <3>2 DEF JoinInv, Ended
    <3>4. QED
      BY <2>1, <2>2, <3>1, <3>2, <3>3 DEF JoinInv, Ended
  <2>4. CASE NewThread(t)
    <3>1. script.pc = "join" /\ script'.pc = "started"
      BY <1>g, <2>4 DEF NewThread, At
    <3>2. timer'[t].running
      <4> DEFINE r == [timer[t] EXCEPT !.pc = "begin", !.passed = FALSE, !.fired = FALSE,
                         !.fresh = timer[t].interval = FirstInterval(timer[t].kind)]
      <4>1. timer' = [timer EXCEPT ![t] = r]
        BY <2>4 DEF NewThread
      <4>2. r.running = timer[t].running
        BY <1>0 DEF TimerState
      <4> HIDE DEF r
      <4>3. QED
        BY <1>0, <2>1, <3>1, <4>1, <4>2 DEF JoinInv
    <3>3. QED
      BY <2>1, <2>2, <3>1, <3>2 DEF JoinInv, Ended
  <2>5. CASE Stop(t)
    <3>1. script.pc = "stop" /\ script'.pc = "await"
      BY <1>g, <2>5 DEF Stop, At
    <3>2. ~timer'[t].running
      BY <1>0, <2>5 DEF Stop, TimerState
    <3>3. QED
      BY <2>1, <2>2, <3>1, <3>2 DEF JoinInv, Ended
  <2>6. QED
    BY <1>6, <2>3, <2>4, <2>5
<1>7. CASE Tick
  BY <1>0, <1>7, TickKeeps, QuietJoin
<1>8. QED
  <2>1. CASE \E t \in Handled : Command(t)
    BY <1>3, <1>5, <2>1, TimerAssumption DEF Command
  <2>2. CASE Proceed
    BY <1>3, <1>4, <1>5, <1>6, <2>2, TimerAssumption DEF Proceed
  <2>3. QED
    BY <1>1, <1>2, <1>7, <2>1, <2>2 DEF TimerNext

\* At first the timers that run are those of initialize().
LEMMA InitJoinInv == TimerInit => JoinInv
<1> SUFFICES ASSUME TimerInit PROVE JoinInv
  OBVIOUS
<1>1. PICK kinds \in [Timer -> Kind] :
        timer = [t \in Timer |-> NewTimer(kinds[t], t \notin Handled)]
  BY DEF TimerInit
<1>2. \A t \in Timer : timer[t].running \/ timer[t].pc = "none"
  BY <1>1 DEF NewTimer
<1>3. QED
  BY <1>2 DEF TimerInit, JoinInv, Ended

\* start() and stop() never join a thread that does not end: the one joined under the mutex has
\* ended, the other is told to, for any timers and any order of the script's calls.
THEOREM JoinsAreShort == TimerSpec => []JoinsNobodyBusy
<1>1. JoinInv => JoinsNobodyBusy
  BY DEF JoinInv, JoinsNobodyBusy
<1>2. QED
  BY <1>1, InitIInv, StepIInv, InitJoinInv, StepJoinInv, PTL DEF TimerSpec

\* A thread that stop() waits for takes four steps at most.
THEOREM EndIsNear == TimerSpec => EndComesNearer
<1>1. IInv /\ JoinInv /\ [TimerNext]_timerVars =>
        [script.pc = "await" /\ script'.pc = "await" =>
           LET t == script.on
           IN  timer'[t].pc = timer[t].pc
                 \/ StepsLeft[timer'[t].pc] < StepsLeft[timer[t].pc]]_timerVars
  <2> SUFFICES ASSUME IInv, JoinInv, TimerNext, script.pc = "await", script'.pc = "await"
               PROVE  \/ timer'[script.on].pc = timer[script.on].pc
                      \/ StepsLeft[timer'[script.on].pc] < StepsLeft[timer[script.on].pc]
    OBVIOUS
  <2>1. script.on \in Timer /\ ~timer[script.on].running
    BY Before DEF JoinInv
  <2>2. CASE \E t \in Timer : TimerThread(t)
    BY <2>1, <2>2, ThreadAdvances DEF Advances
  <2>3. CASE Tick
    <3>1. timer'[script.on].pc = timer[script.on].pc
      BY <2>1, <2>3, TickKeeps
    <3>2. QED
      BY <3>1
  <2>4. CASE Proceed \/ \E t \in Handled : Command(t)
    BY <2>4, AwaitOnly
  <2>5. QED
    BY <2>2, <2>3, <2>4 DEF TimerNext
<1>2. QED
  BY <1>1, InitIInv, StepIInv, InitJoinInv, StepJoinInv, PTL DEF TimerSpec, EndComesNearer

-----------------------------------------------------------------------------
(***************************************************************************)
(* The sun tracker.                                                        *)
(***************************************************************************)

\* The table of the events: its length, its horizons, and the horizon of its last event.
LEMMA Events ==
  /\ Len(SunEvent) = 26
  /\ \A e \in 1..26 : SunEvent[e].horizon \in Horizon
  /\ \A e \in 1..26 : SunEvent[e].at \in {"rise", "set", "transit", "nadir"}
  /\ SunEvent[26].horizon = 1
<1>1. Len(SunEvent) = 26
  BY DEF SunEvent
<1>2. \A e \in 1..26 : SunEvent[e].horizon \in Horizon
  BY DEF SunEvent, Horizon
<1>3. \A e \in 1..26 : SunEvent[e].at \in {"rise", "set", "transit", "nadir"}
  BY DEF SunEvent
<1>4. SunEvent[26].horizon = 1
  BY DEF SunEvent
<1>5. QED
  BY <1>1, <1>2, <1>3, <1>4

\* The moment of an event lies in this day of the library or the next.
LEMMA TimeOfFacts ==
  ASSUME NEW e \in Event
  PROVE  TimeOf(e) \in Int /\ 0 <= TimeOf(e) /\ TimeOf(e) <= 2 * Day
<1>1. e \in 1..26
  BY Events DEF Event
<1>2. Day \in Nat /\ Transit \in Int /\ 8 <= Transit /\ Transit <= Day
  BY SunAssumption
<1>3. PICK h \in 1..7 : h = SunEvent[e].horizon
  BY <1>1, Events DEF Horizon
<1>4. PICK at \in {"rise", "set", "transit", "nadir"} : at = SunEvent[e].at
  BY <1>1, Events
<1>5. /\ at = "rise" => TimeOf(e) = Transit - (8 - h)
      /\ at = "set" => TimeOf(e) = Transit + (8 - h)
      /\ at = "transit" => TimeOf(e) = Transit
      /\ at = "nadir" => TimeOf(e) = Transit + (Day \div 2)
  BY <1>3, <1>4, Zenon DEF TimeOf, Offset
<1>6. Day \div 2 \in Int /\ 0 <= Day \div 2 /\ Day \div 2 <= Day
  BY <1>2, SMT
<1>7. CASE at = "nadir"
  BY <1>2, <1>5, <1>6, <1>7, SMT
<1>8. CASE at # "nadir"
  BY <1>2, <1>4, <1>5, <1>8, SMT
<1>9. QED
  BY <1>7, <1>8

Times == -Day..(2 * Day)

\* What an update and the begin of a day do to the time that is kept.
LEMMA TimesFacts ==
  ASSUME time \in Times, watched \in Event
  PROVE  /\ Found \in Times
         /\ (IF time = Unknown THEN Unknown ELSE IF time < 0 THEN -Day ELSE time - Day) \in Times
<1>1. Day \in Nat
  BY SunAssumption
<1>2. Unknown \in Times /\ TimeOf(watched) \in Times
  BY <1>1, TimeOfFacts DEF Unknown, Times
<1>3. (IF time < 0 THEN -Day ELSE time - Day) \in Times
  BY <1>1, SMT DEF Times
<1>4. QED
  BY <1>2, <1>3 DEF Found

\* How the ages grow.
LEMMA AgeFacts ==
  ASSUME sleeping \in 0..(2 * Half + 2), untouched \in 0..(UpdatePeriod + 1), GrowOlder
  PROVE  /\ sleeping' \in 0..(2 * Half + 2) /\ sleeping <= sleeping' /\ sleeping' <= sleeping + 1
         /\ untouched' \in 0..(UpdatePeriod + 1)
         /\ ~IsLate' => sleeping' = sleeping + 1 /\ untouched' = untouched + 1
<1>1. Half \in Nat /\ UpdatePeriod \in Nat
  BY SunAssumption
<1>2. QED
  BY <1>1, SMT DEF GrowOlder, IsLate

-----------------------------------------------------------------------------
\* Every variable keeps its type (CSunTracker: the times, the flag, the two threads).
THEOREM SunTypeCorrect == SunSpec => []SunTypeOK
<1> USE SunAssumption
<1>1. SunInit => SunTypeOK
  <2> SUFFICES ASSUME SunInit PROVE SunTypeOK
    OBVIOUS
  <2>1. watched \in Event
    BY DEF SunInit
  <2>2. Found \in Times
    BY <2>1, TimeOfFacts, SMT DEF Found, Unknown, Times
  <2>3. untouched \in 0..(UpdatePeriod + 1) /\ sleeping \in 0..(2 * Half + 2)
    BY DEF SunInit
  <2>4. updater \in 0..Len(SunEvent)
    BY Events DEF SunInit
  <2>5. ordinary \in BOOLEAN /\ circumpolar \in BOOLEAN /\ noNight \in BOOLEAN /\ late \in BOOLEAN
    BY DEF SunInit
  <2>6. QED
    BY <2>1, <2>2, <2>3, <2>4, <2>5 DEF SunInit, SunTypeOK, Times
<1>2. SunTypeOK /\ [SunNext]_sunVars => SunTypeOK'
  <2> SUFFICES ASSUME SunTypeOK, [SunNext]_sunVars PROVE SunTypeOK'
    OBVIOUS
  <2>1. time \in Times /\ watched \in Event
    BY DEF SunTypeOK, Times
  <2>2. CASE StartUpdate
    BY <2>2, Events DEF StartUpdate, SunTypeOK
  <2>3. CASE UpdateEvent
    <3>1. (updater + 1) % (Len(SunEvent) + 1) \in 0..Len(SunEvent)
      BY Events DEF SunTypeOK
    <3>2. time' \in Times /\ untouched' \in 0..(UpdatePeriod + 1)
      BY <2>1, <2>3, TimesFacts DEF UpdateEvent, StoreTime, SunTypeOK
    <3>3. circumpolar' \in BOOLEAN /\ noNight' \in BOOLEAN
      BY <2>3 DEF UpdateEvent, StoreTime, SunTypeOK
    <3>4. updater' \in 0..Len(SunEvent)
      BY <2>3, <3>1 DEF UpdateEvent, StoreTime
    <3>5. QED
      BY <2>3, <3>2, <3>3, <3>4 DEF UpdateEvent, StoreTime, SunTypeOK, Times
  <2>4. CASE WakeChecker
    BY <2>4 DEF WakeChecker, SunTypeOK
  <2>5. CASE Look
    BY <2>5 DEF Look, SunTypeOK
  <2>6. CASE CheckEvent
    BY <2>6 DEF CheckEvent, SunTypeOK
  <2>7. ASSUME GrowOlder
        PROVE  /\ sleeping' \in 0..(2 * Half + 2) /\ untouched' \in 0..(UpdatePeriod + 1)
               /\ IsLate' \in BOOLEAN
    BY <2>7, AgeFacts DEF SunTypeOK, IsLate
  <2>8. CASE Pass
    <3>1. GrowOlder /\ clock' \in 0..(Day - 1)
      BY <2>8 DEF Pass, SunTypeOK
    <3>2. late' \in BOOLEAN
      BY <2>7, <2>8, <3>1 DEF Pass, SunTypeOK
    <3>3. QED
      BY <2>7, <2>8, <3>1, <3>2 DEF Pass, GrowOlder, SunTypeOK
  <2>9. CASE NewDay
    <3>1. GrowOlder /\ clock' \in 0..(Day - 1)
      BY <2>9 DEF NewDay, SunTypeOK
    <3>2. time' \in Times
      BY <2>1, <2>9, TimesFacts DEF NewDay
    <3>3. ordinary' \in BOOLEAN /\ late' \in BOOLEAN
      BY <2>7, <2>9, <3>1 DEF NewDay, SunTypeOK
    <3>4. QED
      BY <2>7, <2>9, <3>1, <3>2, <3>3 DEF NewDay, GrowOlder, SunTypeOK, Times
  <2>10. CASE UNCHANGED sunVars
    BY <2>10 DEF sunVars, SunTypeOK
  <2>11. QED
    BY <2>2, <2>3, <2>4, <2>5, <2>6, <2>8, <2>9, <2>10 DEF SunNext, Update, Check
<1>3. QED
  BY <1>1, <1>2, PTL DEF SunSpec

-----------------------------------------------------------------------------
\* An update begins only while the flag is down, and the last event raises it or not.
SilenceInv ==
  /\ updater \in 0..26
  /\ updater > 0 => ~noNight
  /\ SilentForGood

\* The tracker falls silent exactly if the last event of some update did not find the
\* astronomical night: the flag is overwritten by each event and the last of them has the lowest
\* horizon (CSunTracker::update, calcTimes).
THEOREM Silence == SunSpec => []SilentForGood
<1>1. SunInit => SilenceInv
  BY DEF SunInit, SilenceInv, SilentForGood
<1>2. SilenceInv /\ [SunNext]_sunVars => SilenceInv'
  <2> SUFFICES ASSUME SilenceInv, [SunNext]_sunVars PROVE SilenceInv'
    OBVIOUS
  <2>1. CASE StartUpdate
    BY <2>1 DEF StartUpdate, SilenceInv, SilentForGood
  <2>2. CASE UpdateEvent
    <3>1. /\ updater' = (updater + 1) % 27
          /\ circumpolar' = ~Crossed(updater)
          /\ noNight' = (noNight \/ (updater = 26 /\ 1 \notin season))
          /\ updater \in 1..26 /\ ~noNight
      BY <2>2, Events DEF UpdateEvent, StoreTime, SilenceInv
    <3>2. CASE updater = 26
      <4>1. updater' = 0
        BY <3>1, <3>2
      <4>2. circumpolar' <=> 1 \notin season
        <5>1. circumpolar' = ~Crossed(26)
          BY <3>1, <3>2, Zenon
        <5>2. Crossed(26) = (1 \in season)
          BY Events DEF Crossed
        <5>3. QED
          BY <5>1, <5>2
      <4>3. noNight' <=> 1 \notin season
        BY <3>1, <3>2, Zenon
      <4>4. QED
        BY <4>1, <4>2, <4>3 DEF SilenceInv, SilentForGood
    <3>3. CASE updater # 26
      <4>1. updater' \in 1..26
        <5>1. updater \in 1..25
          BY <3>1, <3>3
        <5>2. (updater + 1) % 27 = updater + 1
          BY <5>1
        <5>3. QED
          BY <3>1, <5>1, <5>2
      <4>2. ~noNight'
        BY <3>1, <3>3
      <4>3. QED
        BY <4>1, <4>2 DEF SilenceInv, SilentForGood
    <3>4. QED
      BY <3>2, <3>3
  <2>3. CASE WakeChecker
    BY <2>3 DEF WakeChecker, SilenceInv, SilentForGood
  <2>4. CASE Look
    BY <2>4 DEF Look, SilenceInv, SilentForGood
  <2>5. CASE CheckEvent
    BY <2>5 DEF CheckEvent, SilenceInv, SilentForGood
  <2>6. CASE Pass \/ NewDay
    BY <2>6 DEF Pass, NewDay, GrowOlder, SilenceInv, SilentForGood
  <2>7. CASE UNCHANGED sunVars
    BY <2>7 DEF sunVars, SilenceInv, SilentForGood
  <2>8. QED
    BY <2>1, <2>2, <2>3, <2>4, <2>5, <2>6, <2>7 DEF SunNext, Update, Check
<1>3. SilenceInv => SilentForGood
  BY DEF SilenceInv
<1>4. QED
  BY <1>1, <1>2, <1>3, PTL DEF SunSpec

-----------------------------------------------------------------------------
(***************************************************************************)
(* How often an event is noticed.                                          *)
(***************************************************************************)
Moment == TimeOf(watched)

\* The time that is kept is today's, or one that no instant of today is near to.
Near == time \in {Moment, Moment - Day, -Day, Unknown}

\* How long ago the last check was if it has found something: the next one is so far away that
\* a third cannot fall into the window.
Spaced ==
  /\ checker # "sleep" => 2 * Half <= sleeping
  /\ noticed <= 2
  /\ noticed >= 1 => sleeping <= clock - (Moment - Half)
  /\ noticed = 2 => sleeping <= clock - (Moment + Half)

\* Every horizon is crossed, and the flag says so.
Bright == season = Horizon /\ ~circumpolar

\* While no thread is late: the time is today's as soon as the day is older than UpdatePeriod,
\* and no check has stepped over the window.
Punctual ==
  /\ sleeping <= 2 * Half + 1 /\ untouched <= UpdatePeriod
  /\ time = Moment \/ clock <= untouched
  /\ noticed = 0 => clock - sleeping < Moment - Half

Ordered == ordinary => Bright /\ (~late => Punctual)

NoticeInv == WindowInDay => Near /\ Spaced /\ Ordered

\* The numbers in the proof.
LEMMA NoticeFacts ==
  ASSUME SunTypeOK
  PROVE  /\ Day \in Nat /\ Day > 0 /\ Half \in Nat /\ Half >= 1 /\ UpdatePeriod \in Nat
         /\ clock \in Int /\ 0 <= clock /\ clock <= Day - 1
         /\ sleeping \in Int /\ 0 <= sleeping
         /\ untouched \in Int /\ 0 <= untouched
         /\ Moment \in Int /\ noticed \in Nat
         /\ watched \in 1..26 /\ updater \in 0..26
         /\ time \in Int
         /\ checker \in {"sleep", "look", "check"}
<1>1. watched \in Event /\ Event = 1..26
  BY Events DEF SunTypeOK, Event
<1>2. Moment \in Int
  BY <1>1, TimeOfFacts DEF Moment
<1>3. time \in -Day..(2 * Day)
  BY DEF SunTypeOK
<1>4. QED
  BY <1>1, <1>2, <1>3, Events, SunAssumption DEF SunTypeOK

\* An update finds the moment of the event or nothing, and on an ordinary day the moment.
LEMMA NoticeUpdate ==
  ASSUME SunTypeOK, Near, Spaced, Ordered, Update
  PROVE  Near' /\ Spaced' /\ Ordered'
<1> USE NoticeFacts
<1>1. /\ UNCHANGED <<clock, season, checker, sleeping, watched, noticed, late, ordinary>>
      /\ Moment' = Moment
  BY DEF Update, StartUpdate, UpdateEvent, StoreTime, Moment
<1>2. Spaced'
  BY <1>1 DEF Spaced
<1>3. CASE StartUpdate
  BY <1>1, <1>2, <1>3 DEF StartUpdate, Near, Ordered, Bright, Punctual, Unknown
<1>4. CASE UpdateEvent
  <2>1. Found \in {Moment, Unknown} /\ (season = Horizon => Found = Moment)
    BY Events DEF Found, Moment
  <2>2. (time' = Found /\ untouched' = 0) \/ UNCHANGED <<time, untouched>>
    BY <1>4 DEF UpdateEvent, StoreTime
  <2>3. Near'
    BY <1>1, <2>1, <2>2 DEF Near, Unknown
  <2>4. season = Horizon => ~circumpolar'
    <3>1. SunEvent[updater].horizon \in Horizon
      BY <1>4, Events DEF UpdateEvent
    <3>2. circumpolar' = ~(SunEvent[updater].horizon \in season)
      BY <1>4 DEF UpdateEvent, Crossed
    <3>3. QED
      BY <3>1, <3>2
  <2>5. Ordered'
    BY <1>1, <2>1, <2>2, <2>4 DEF Ordered, Bright, Punctual
  <2>6. QED
    BY <1>2, <2>3, <2>5
<1>5. QED
  BY <1>3, <1>4 DEF Update

\* A check counts if it falls into the window, and not for the time of another day.
LEMMA NoticeCheck ==
  ASSUME SunTypeOK, WindowInDay, Near, Spaced, Ordered, Check
  PROVE  Near' /\ Spaced' /\ Ordered'
<1> USE NoticeFacts
<1>1. /\ UNCHANGED <<clock, season, time, circumpolar, updater, untouched, watched, late, ordinary>>
      /\ Moment' = Moment
  BY DEF Check, WakeChecker, Look, CheckEvent, Moment
<1>2. Near'
  BY <1>1 DEF Near, Unknown
<1>3. CASE WakeChecker
  BY <1>1, <1>2, <1>3 DEF WakeChecker, Spaced, Ordered, Bright, Punctual
<1>4. CASE Look
  <2>1. CASE circumpolar
    BY <1>1, <1>2, <1>4, <2>1 DEF Look, Spaced, Ordered, Bright
  <2>2. CASE ~circumpolar
    BY <1>1, <1>2, <1>4, <2>2 DEF Look, Spaced, Ordered, Bright, Punctual
  <2>3. QED
    BY <2>1, <2>2
<1>5. CASE CheckEvent
  <2>1. /\ checker # "sleep" /\ checker' = "sleep" /\ sleeping' = 0 /\ 2 * Half <= sleeping
        /\ noticed' = IF ThisTimeIsEvent(time) THEN noticed + 1 ELSE noticed
    BY <1>5 DEF CheckEvent, Spaced
  <2>2. Moment - Half > UpdatePeriod /\ Moment + Half < Day
    BY DEF WindowInDay, Moment
  <2>3. ThisTimeIsEvent(time) <=> time = Moment /\ Moment - Half <= clock /\ clock <= Moment + Half
    <3>1. CASE time = Moment
      BY <3>1 DEF ThisTimeIsEvent
    <3>2. CASE time # Moment
      <4>1. time \in {Moment - Day, -Day, 2 * Day}
        BY <3>2 DEF Near, Unknown
      <4>2. clock - time > Half \/ clock - time < -Half
        BY <2>2, <4>1
      <4>3. QED
        BY <3>2, <4>2 DEF ThisTimeIsEvent
    <3>3. QED
      BY <3>1, <3>2
  <2>4. Spaced'
    BY <1>1, <2>1, <2>3 DEF Spaced
  <2>5. ASSUME ordinary, ~late PROVE Punctual'
    <3>1. Punctual
      BY <2>5 DEF Ordered
    <3>2. noticed' = 0 => clock < Moment - Half
      BY <2>1, <2>2, <2>3, <3>1 DEF Punctual
    <3>3. QED
      BY <1>1, <2>1, <3>1, <3>2 DEF Punctual
  <2>6. QED
    BY <1>1, <1>2, <2>4, <2>5 DEF Ordered, Bright
<1>6. QED
  BY <1>3, <1>4, <1>5 DEF Check

\* Time passes.
LEMMA NoticePass ==
  ASSUME SunTypeOK, WindowInDay, Near, Spaced, Ordered, Pass
  PROVE  Near' /\ Spaced' /\ Ordered'
<1> USE NoticeFacts
<1>1. /\ UNCHANGED <<season, time, circumpolar, checker, watched, noticed, ordinary>>
      /\ Moment' = Moment /\ clock' = clock + 1
      /\ late' = (late \/ IsLate') /\ GrowOlder
  BY DEF Pass, GrowOlder, Moment
<1>2. /\ sleeping' \in Int /\ sleeping <= sleeping' /\ sleeping' <= sleeping + 1
      /\ ~IsLate' => sleeping' = sleeping + 1 /\ untouched' = untouched + 1
  BY <1>1, AgeFacts DEF SunTypeOK
<1>3. Near' /\ Spaced'
  BY <1>1, <1>2 DEF Near, Unknown, Spaced
<1>4. ASSUME ordinary, ~late' PROVE Punctual'
  <2>1. ~IsLate' /\ Punctual
    BY <1>1, <1>4 DEF Ordered
  <2>2. sleeping' <= 2 * Half + 1 /\ untouched' <= UpdatePeriod
    BY <1>2, <2>1 DEF IsLate
  <2>3. QED
    BY <1>1, <1>2, <2>1, <2>2 DEF Punctual
<1>5. QED
  BY <1>1, <1>3, <1>4 DEF Ordered, Bright

\* A new day begins, and yesterday's time is a day further away.
LEMMA NoticeNewDay ==
  ASSUME SunTypeOK, WindowInDay, Near, Spaced, Ordered, NewDay
  PROVE  Near' /\ Spaced' /\ Ordered'
<1> USE NoticeFacts
<1>1. /\ UNCHANGED <<circumpolar, checker, watched>> /\ Moment' = Moment
      /\ clock' = 0 /\ noticed' = 0 /\ late' = IsLate' /\ GrowOlder
      /\ time' = IF time = Unknown THEN Unknown ELSE IF time < 0 THEN -Day ELSE time - Day
      /\ ordinary' = (ordinary /\ season' = Horizon)
  BY DEF NewDay, GrowOlder, Moment
<1>2. /\ sleeping' \in Int /\ 0 <= sleeping' /\ sleeping <= sleeping'
      /\ untouched' \in Int /\ 0 <= untouched'
  BY <1>1, AgeFacts, SunAssumption DEF SunTypeOK
<1>3. Moment - Half > UpdatePeriod /\ Moment + Half < Day
  BY DEF WindowInDay, Moment
<1>4. Near'
  <2>1. time \in {Moment, Moment - Day, -Day, 2 * Day}
    BY DEF Near, Unknown
  <2>2. time' \in {Moment - Day, -Day, 2 * Day}
    BY <1>1, <1>3, <2>1 DEF Unknown
  <2>3. QED
    BY <1>1, <2>2 DEF Near, Unknown
<1>5. Spaced'
  BY <1>1, <1>2 DEF Spaced
<1>6. ASSUME ~late' PROVE Punctual'
  <2>1. sleeping' <= 2 * Half + 1 /\ untouched' <= UpdatePeriod
    <3>1. ~IsLate'
      BY <1>1, <1>6, Zenon
    <3>2. QED
      BY <1>2, <3>1 DEF IsLate
  <2>2. clock' <= untouched' /\ clock' - sleeping' < Moment' - Half
    <3>1. clock' = 0 /\ Moment' = Moment
      BY <1>1
    <3>2. 0 - sleeping' < Moment - Half
      BY <1>2, <1>3
    <3>3. QED
      BY <1>2, <3>1, <3>2
  <2>3. QED
    BY <2>1, <2>2 DEF Punctual
<1>7. QED
  BY <1>1, <1>4, <1>5, <1>6 DEF Ordered, Bright

\* On its day an event is reported at most twice, whatever the two threads do, and at least once
\* on an ordinary day on which no check came so late that it stepped over the window and no
\* update so late that the time was still yesterday's (CAstronomical::runCheck,
\* CSunTracker::update, check, thisTimeIsEvent).
THEOREM EventsAreNoticed == SunSpec => []EventIsNoticed
<1>1. SunInit => NoticeInv
  <2> SUFFICES ASSUME SunInit, WindowInDay PROVE Near /\ Spaced /\ Ordered
    BY DEF NoticeInv
  <2>1. watched \in Event /\ Event = 1..26
    BY Events DEF SunInit, Event
  <2>2. Moment \in Int /\ Half \in Nat /\ UpdatePeriod \in Nat
    BY <2>1, TimeOfFacts, SunAssumption DEF Moment
  <2>3. Moment - Half > UpdatePeriod
    BY DEF WindowInDay, Moment
  <2>4. time \in {Moment, Unknown} /\ (season = Horizon => time = Moment)
    BY <2>1, Events DEF SunInit, Found, Moment
  <2>5. Near
    BY <2>4 DEF Near
  <2>6. checker = "look" /\ sleeping = 2 * Half /\ untouched = 0 /\ noticed = 0
    BY DEF SunInit
  <2>7. Spaced
    BY <2>2, <2>6 DEF Spaced
  <2>8. ASSUME ordinary PROVE Bright /\ (~late => Punctual)
    <3>1. season = Horizon /\ ~circumpolar
      <4>1. season = Horizon /\ circumpolar = (1 \notin season)
        BY <2>8 DEF SunInit
      <4>2. 1 \in season
        BY <4>1 DEF Horizon
      <4>3. QED
        BY <4>1, <4>2, Zenon
    <3>2. ~late => ~(clock > 0)
      <4>1. late = (clock > 0)
        BY DEF SunInit
      <4>2. QED
        BY <4>1, Zenon
    <3>3. ~late => clock = 0
      <4>1. clock \in 0..(Day - 1) /\ Day \in Nat
        BY SunAssumption DEF SunInit
      <4>2. QED
        BY <3>2, <4>1
    <3>4. ~late => Punctual
      BY <2>2, <2>3, <2>4, <2>6, <3>1, <3>3 DEF Punctual
    <3>5. QED
      BY <3>1, <3>4 DEF Bright
  <2>9. QED
    BY <2>5, <2>7, <2>8 DEF Ordered
<1>2. SunTypeOK /\ NoticeInv /\ [SunNext]_sunVars => NoticeInv'
  <2> SUFFICES ASSUME SunTypeOK, NoticeInv, [SunNext]_sunVars, WindowInDay'
               PROVE  Near' /\ Spaced' /\ Ordered'
    BY DEF NoticeInv
  <2>1. watched' = watched
    BY DEF SunNext, Update, StartUpdate, UpdateEvent, StoreTime, Check, WakeChecker, Look,
       CheckEvent, Pass, NewDay, GrowOlder, sunVars
  <2>2. WindowInDay /\ Near /\ Spaced /\ Ordered
    BY <2>1 DEF NoticeInv, WindowInDay
  <2>3. CASE UNCHANGED sunVars
    BY <2>2, <2>3 DEF sunVars, Near, Spaced, Ordered, Bright, Punctual, Moment, Unknown
  <2>4. QED
    BY <2>2, <2>3, NoticeUpdate, NoticeCheck, NoticePass, NoticeNewDay DEF SunNext
<1>3. SunTypeOK /\ NoticeInv => EventIsNoticed
  <2> SUFFICES ASSUME SunTypeOK, NoticeInv, WindowInDay
               PROVE  /\ noticed <= 2
                      /\ ordinary /\ ~late /\ clock > Moment + Half => noticed >= 1
    BY DEF EventIsNoticed, Moment
  <2>1. noticed <= 2
    BY DEF NoticeInv, Spaced
  <2>2. ASSUME ordinary, ~late, clock > Moment + Half PROVE noticed >= 1
    <3>1. Punctual
      BY <2>2 DEF NoticeInv, Ordered
    <3>2. QED
      BY <2>2, <3>1, NoticeFacts DEF Punctual
  <2>3. QED
    BY <2>1, <2>2
<1>4. QED
  BY <1>1, <1>2, <1>3, SunTypeCorrect, PTL DEF SunSpec

=============================================================================
