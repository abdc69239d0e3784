------------------------------ MODULE Observers ------------------------------
(***************************************************************************)
(* One property of a HOMEd device: its value history, the observers that   *)
(* scripts attach to it, and the way of a value from the MQTT thread to    *)
(* the script callbacks.                                                   *)
(*                                                                         *)
(*  - The MQTT thread runs CStorage::setValue: it pushes the value under   *)
(*    the exclusive lock, unlocks, and walks m_observers with no lock      *)
(*    (callObservers); each CObserver::call may append the method to the   *)
(*    property queue of its script.                                        *)
(*  - The thread of each script takes one entry of its queue at a time and *)
(*    runs the callback, which reads property.last(): a reference into     *)
(*    the deque that nothing protects once last() has returned.            *)
(*  - Script threads subscribe, unsubscribe and clear() at any time; the   *)
(*    destructor of a script removes all its observers.                    *)
(*                                                                         *)
(* Undefined behaviour (a freed value read, a destroyed observer called)   *)
(* has two outcomes: the old bytes are still there and the thread goes on  *)
(* with them, or the process is no longer described by this model: ub      *)
(* becomes TRUE and nothing more happens.                                  *)
(***************************************************************************)
EXTENDS StorageOps, FiniteSets

CONSTANTS Script, Method, Value,
          Never,         \* no callback has read the property yet
          Undef,         \* what last() of an empty history holds (m_emptyValue)
          MaxStores,     \* bound on calls of set()
          MaxSubscribes  \* bound on calls of subscribe()

ASSUME ObserversAssumption ==
  /\ Never # Undef
  /\ Never \notin Value /\ Undef \notin Value
  /\ MaxStores \in Nat /\ MaxSubscribes \in Nat

VARIABLES
  history,     \* m_history, newest first
  stores,      \* number of set() calls so far
  cleared,     \* value of stores when the history was last cleared
  observers,   \* m_observers
  subscribes,  \* number of subscribe() calls so far
  loop,        \* the MQTT thread inside setValue
  queue,       \* per script: the methods in its UPropertyCaller queue
  running,     \* per script: the callback its thread executes
  seen,        \* per script and method: the value its last callback read
  due,         \* the observers subscribed all along that have not heard of the newest value
  ub,          \* undefined behaviour has happened and did harm
  quiet        \* the scripts keep the discipline of QuietSubscription and Overlap; never changes

vars == <<history, stores, cleared, observers, subscribes, loop, queue, running, seen, due, ub, quiet>>

Observer == [script : Script, method : Method, changedOnly : BOOLEAN]
Element  == [id : Nat, value : Value]

\* callObservers.  at: the slot it looks at; slots: the memory between the begin and the
\* end its range-for took, a copy of m_observers unless that is changed meanwhile; moved:
\* the vector was reallocated, slots is freed memory; fresh: the value being announced is
\* the first one or differs from the one before.
NotLooping == [pc |-> "idle", at |-> 0, slots |-> <<>>, moved |-> FALSE, fresh |-> FALSE]
Loop ==
  [pc : {"idle", "visit", "raise"}, at : Nat, slots : Seq(Observer), moved : BOOLEAN,
   fresh : BOOLEAN]

NotRunning == [pc |-> "idle"]
Running ==
  {NotRunning}
    \cup [pc : {"called"}, method : Method]
    \cup [pc : {"holding"}, method : Method, id : Nat, value : Value \cup {Undef}]

TypeOK ==
  /\ history \in Seq(Element)
  /\ stores \in Nat /\ cleared \in Nat
  /\ observers \in Seq(Observer) /\ subscribes \in Nat
  /\ loop \in Loop
  /\ queue \in [Script -> Seq(Method)]
  /\ running \in [Script -> Running]
  /\ seen \in [Script -> [Method -> Value \cup {Never, Undef}]]
  /\ due \in SUBSET Observer
  /\ ub \in BOOLEAN /\ quiet \in BOOLEAN

Init ==
  /\ history = <<>> /\ stores = 0 /\ cleared = 0
  /\ observers = <<>> /\ subscribes = 0
  /\ loop = NotLooping
  /\ queue = [s \in Script |-> <<>>]
  /\ running = [s \in Script |-> NotRunning]
  /\ seen = [s \in Script |-> [m \in Method |-> Never]]
  /\ due = {}
  /\ ub = FALSE /\ quiet \in BOOLEAN

-----------------------------------------------------------------------------
(***************************************************************************)
(* The MQTT thread.                                                        *)
(***************************************************************************)

Subscribed == {observers[i] : i \in 1..Len(observers)}

\* The value v is the first one or differs from the one before.
Fresh(v) == history = <<>> \/ history[1].value # v

\* Who should hear of the value v.
Audience(v) == {o \in Subscribed : ~o.changedOnly \/ Fresh(v)}

StartLoop(v) ==
  [pc |-> "visit", at |-> 1, slots |-> observers, moved |-> FALSE, fresh |-> Fresh(v)]

\* CStorage::setValue up to the unlock and the start of callObservers.
Store(v) ==
  /\ ~ub /\ loop.pc = "idle" /\ stores < MaxStores
  /\ stores' = stores + 1
  /\ history' = Push(history, [id |-> stores + 1, value |-> v])
  /\ loop' = StartLoop(v)
  /\ due' = Audience(v)
  /\ UNCHANGED <<cleared, observers, subscribes, queue, running, seen, ub>>

\* The slot under the iterator holds a destroyed object.
Stale == loop.moved \/ loop.at > Len(observers)

Slot == loop.slots[loop.at]
Continue(pc, at) ==
  [pc |-> pc, at |-> at, slots |-> loop.slots, moved |-> loop.moved, fresh |-> loop.fresh]
Advance == Continue("visit", loop.at + 1)
Wants(o) == ~o.changedOnly \/ ValueChanged(history)

\* The condition of CObserver::call on the observer in the current slot.
Visit ==
  /\ ~ub /\ loop.pc = "visit" /\ loop.at <= Len(loop.slots)
  /\ \/ /\ loop' = IF Wants(Slot) THEN Continue("raise", loop.at) ELSE Advance
        /\ UNCHANGED ub
     \/ Stale /\ ub' = TRUE /\ UNCHANGED loop
  /\ UNCHANGED <<history, stores, cleared, observers, subscribes, queue, running, seen, due>>

\* The rest of CObserver::call.  Script and method are read from the slot only now, so
\* after an erase they are those of the observer that was shifted into it.
Raise ==
  /\ ~ub /\ loop.pc = "raise"
  /\ \/ /\ queue' = [queue EXCEPT ![Slot.script] = Append(@, Slot.method)]
        /\ due' = due \ {Slot}
        /\ loop' = Advance
        /\ UNCHANGED ub
     \/ Stale /\ ub' = TRUE /\ UNCHANGED <<queue, due, loop>>
  /\ UNCHANGED <<history, stores, cleared, observers, subscribes, running, seen>>

EndLoop ==
  /\ ~ub /\ loop.pc = "visit" /\ loop.at > Len(loop.slots)
  /\ loop' = NotLooping
  /\ UNCHANGED <<history, stores, cleared, observers, subscribes, queue, running, seen, due, ub>>

-----------------------------------------------------------------------------
(***************************************************************************)
(* Script threads, and the thread that destroys a script.                  *)
(***************************************************************************)

\* A script's own thread runs its subscribe(), unsubscribe() and clear() calls (README.md:11:
\* the caller passes its own script_name), and not in the middle of last().asString().
Free(s) == running[s].pc # "holding"

\* What the change of m_observers does to the memory callObservers walks: the slots of the
\* vector are those of the loop until it is reallocated; a slot past the end of a shrunk
\* vector keeps its bytes (CObserver declares a destructor, so erase copies, never moves).
SeenByLoop(reallocated) ==
  [pc |-> loop.pc, at |-> loop.at,
   slots |->
     IF reallocated \/ loop.moved THEN loop.slots
     ELSE [i \in 1..Len(loop.slots) |->
             IF i <= Len(observers') THEN observers'[i] ELSE loop.slots[i]],
   moved |-> loop.moved \/ (loop.pc # "idle" /\ reallocated),
   fresh |-> loop.fresh]

\* Whether emplace_back has to reallocate is up to the vector's spare capacity.
Subscribe(s, m, changedOnly) ==
  /\ ~ub /\ Free(s) /\ subscribes < MaxSubscribes
  /\ subscribes' = subscribes + 1
  /\ observers' = Append(observers, [script |-> s, method |-> m, changedOnly |-> changedOnly])
  /\ seen' = [seen EXCEPT ![s][m] = Never]
  /\ \E reallocated \in BOOLEAN : loop' = SeenByLoop(reallocated)
  /\ UNCHANGED <<history, stores, cleared, queue, running, due, ub>>

\* remove_if and erase: the observers in the slots of keep move down, in order.
Compact(keep) ==
  \E f \in [1..Cardinality(keep) -> keep] :
    /\ \A i, j \in 1..Cardinality(keep) : i < j => f[i] < f[j]
    /\ observers' = [i \in 1..Cardinality(keep) |-> observers[f[i]]]

Remove(gone) ==
  /\ ~ub /\ observers # <<>>
  /\ Compact({i \in 1..Len(observers) : observers[i] \notin gone})
  /\ due' = due \ gone
  /\ loop' = SeenByLoop(FALSE)
  /\ UNCHANGED <<history, stores, cleared, subscribes, queue, running, seen, ub>>

Unsubscribe(s, m) ==
  Free(s) /\ Remove({o \in Observer : o.script = s /\ o.method = m})

\* From ~CScript, on the thread that reloads the file.
UnsubscribeScript(s) == Remove({o \in Observer : o.script = s})

\* CStorage::clear takes the lock shared; the elements are destroyed while references
\* to them may be held.
Clear(s) ==
  /\ ~ub /\ Free(s) /\ history # <<>>
  /\ history' = <<>>
  /\ cleared' = stores
  \* Between the reads of valueChanged: at(1) has no element any more.
  /\ \/ UNCHANGED ub
     \/ loop.pc = "raise" /\ ub' = TRUE
  /\ UNCHANGED <<stores, observers, subscribes, loop, queue, running, seen, due>>

\* CCallerSingle::call: copy the front, pop it, call the method.
StartCallback(s) ==
  /\ ~ub /\ running[s].pc = "idle" /\ queue[s] # <<>>
  /\ running' = [running EXCEPT ![s] = [pc |-> "called", method |-> Head(queue[s])]]
  /\ queue' = [queue EXCEPT ![s] = Tail(@)]
  /\ UNCHANGED <<history, stores, cleared, observers, subscribes, loop, seen, due, ub>>

Holding(m, element) ==
  [pc |-> "holding", method |-> m, id |-> element.id, value |-> element.value]

\* m_emptyValue, a member of the storage.
EmptyValue == [id |-> 0, value |-> Undef]

\* CStorage::last.
Last == IF history = <<>> THEN EmptyValue ELSE history[1]

\* Mutant: the reference is to the oldest element, back() instead of front().
TakeOldest(s) ==
  /\ ~ub /\ running[s].pc = "called"
  /\ LET oldest == IF history = <<>> THEN EmptyValue ELSE history[Len(history)]
     IN  running' = [running EXCEPT ![s] = Holding(running[s].method, oldest)]
  /\ UNCHANGED <<history, stores, cleared, observers, subscribes, loop, queue, seen, due, ub>>

\* Mutant: an empty history yields a value nobody initialised, not m_emptyValue.
TakeUninitialised(s) ==
  /\ ~ub /\ running[s].pc = "called"
  /\ LET newest == IF history = <<>> THEN [id |-> 0, value |-> Never] ELSE history[1]
     IN  running' = [running EXCEPT ![s] = Holding(running[s].method, newest)]
  /\ UNCHANGED <<history, stores, cleared, observers, subscribes, loop, queue, seen, due, ub>>

\* The callback takes the reference property.last() returns.
TakeLast(s) ==
  /\ ~ub /\ running[s].pc = "called"
  /\ running' = [running EXCEPT ![s] = Holding(running[s].method, Last)]
  /\ UNCHANGED <<history, stores, cleared, observers, subscribes, loop, queue, seen, due, ub>>

\* The reference still points into the deque (or to m_emptyValue).
Live(id) == id = 0 \/ \E i \in 1..Len(history) : history[i].id = id

\* The callback uses the reference, and returns.
UseLast(s) ==
  /\ ~ub /\ running[s].pc = "holding"
  /\ \/ /\ seen' = [seen EXCEPT ![s][running[s].method] = running[s].value]
        /\ running' = [running EXCEPT ![s] = NotRunning]
        /\ UNCHANGED ub
     \/ /\ ~Live(running[s].id)
        /\ ub' = TRUE
        /\ UNCHANGED <<seen, running>>
  /\ UNCHANGED <<history, stores, cleared, observers, subscribes, loop, queue, due>>

-----------------------------------------------------------------------------
\* The discipline under which the unlocked vector is safe: nobody subscribes or
\* unsubscribes while a value is being announced, and no two threads do so at once.  The
\* code does not enforce it, so a behaviour may or may not keep it.
QuietSubscription == quiet => loop.pc = "idle"

\* A script's thread is in emplace_back or erase while another's, or the thread that
\* destroys a script, is there too.  The harmless outcome is one of the orders of the two
\* calls, an observer that is lost having never been added.
Overlap ==
  /\ ~ub /\ ~quiet
  /\ subscribes < MaxSubscribes \/ observers # <<>>
  /\ \E s \in Script : Free(s)
  /\ ub' = TRUE
  /\ UNCHANGED <<history, stores, cleared, observers, subscribes, loop, queue, running, seen, due>>

Subscription ==
  /\ QuietSubscription
  /\ \/ \E s \in Script, m \in Method, c \in BOOLEAN : Subscribe(s, m, c)
     \/ \E s \in Script, m \in Method : Unsubscribe(s, m)
     \/ \E s \in Script : UnsubscribeScript(s)

LoopStep == Visit \/ Raise \/ EndLoop

Next ==
  /\ UNCHANGED quiet
  /\ \/ \E v \in Value : Store(v)
     \/ LoopStep
     \/ Subscription
     \/ Overlap
     \/ \E s \in Script : Clear(s) \/ StartCallback(s) \/ TakeLast(s) \/ UseLast(s)

Spec == Init /\ [][Next]_vars

-----------------------------------------------------------------------------
(***************************************************************************)
(* Properties.                                                             *)
(***************************************************************************)

\* The history is exactly the newest values since the last clear(), newest first, and
\* never longer than the configured number (setValue and clear of CStorage).
HistoryIsRecent ==
  /\ cleared <= stores
  /\ Len(history) = IF stores - cleared < HistorySize THEN stores - cleared ELSE HistorySize
  /\ \A i \in 1..Len(history) : history[i].id = stores - i + 1

\* A reference a callback got from CStorage::last() dangles only after the property was
\* cleared or HistorySize newer values arrived: a shorter burst cannot free it.
ReferenceLifetime ==
  \A s \in Script :
    running[s].pc = "holding" /\ ~Live(running[s].id) =>
      running[s].id <= cleared \/ stores - running[s].id >= HistorySize

\* valueChanged() looks at the history when the observer's turn comes.  If a script cleared
\* it since setValue unlocked, the change it asked for is gone and it is passed over.
Swallowed(o) == o.changedOnly /\ cleared = stores

\* README.md:24: an observer gets an event for every arriving value, or for every
\* change.  Once callObservers is through, no observer that was subscribed all along is
\* still owed one, except that an observer of changes misses a value when a clear() falls
\* between the unlock of setValue and its own turn.
NoEventLost == loop.pc = "idle" /\ ~ub => \A o \in due : Swallowed(o)

\* It holds as long as nobody subscribes or unsubscribes during an announcement, and no
\* two threads do so at once: then clear() is the only way to miss an event, and an
\* observer of every value misses none.
NoEventLostIfQuiet == quiet => NoEventLost

\* README.md:24: an observer that asked for changes only is called only when the value
\* is the first one or differs from the one before (CObserver::call, valueChanged).
ChangedOnlyMeansChange ==
  [][\A s \in Script :
       quiet /\ Len(queue'[s]) > Len(queue[s]) =>
         loop.fresh \/ ~Slot.changedOnly]_vars

\* An entry of the queue or a callback that runs has still to read the property.
Pending(s, m) ==
  \/ \E i \in 1..Len(queue[s]) : queue[s][i] = m
  \/ running[s] # NotRunning /\ running[s].method = m

\* What a script last read of a property is not outdated without a callback on its way:
\* when no value is being announced and nothing is pending, the value its callback saw
\* is the value the property has, however sets, clears and callbacks interleave.
SeenIsCurrent ==
  quiet /\ loop.pc = "idle" /\ ~ub =>
    \A o \in Subscribed :
      /\ ~Pending(o.script, o.method)
      /\ seen[o.script][o.method] \in Value
      /\ history # <<>>
      => seen[o.script][o.method] = history[1].value

=============================================================================
