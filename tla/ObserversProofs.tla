--------------------------- MODULE ObserversProofs ---------------------------
(***************************************************************************)
(* Theorems about Observers, for every set of scripts, methods and values  *)
(* and every history size.                                                 *)
(***************************************************************************)
EXTENDS Observers, FiniteSetTheorems, TLAPS

(***************************************************************************)
(* What CStorage::setValue does to the deque.                              *)
(***************************************************************************)
LEMMA PushFacts ==
  ASSUME NEW S, NEW h \in Seq(S), NEW x \in S, Len(h) <= HistorySize
  PROVE  /\ Push(h, x) \in Seq(S)
         /\ Len(Push(h, x)) = IF Len(h) < HistorySize THEN Len(h) + 1 ELSE HistorySize
         /\ \A i \in 1..Len(Push(h, x)) : Push(h, x)[i] = IF i = 1 THEN x ELSE h[i - 1]
<1> DEFINE longer == <<x>> \o h
<1>1. /\ longer \in Seq(S)
      /\ Len(longer) = Len(h) + 1
      /\ \A i \in 1..Len(longer) : longer[i] = IF i = 1 THEN x ELSE h[i - 1]
  OBVIOUS
<1>2. CASE Len(h) < HistorySize
  BY <1>1, <1>2, HistorySizeAssumption DEF Push
<1>3. CASE Len(h) = HistorySize
  <2>1. Push(h, x) = SubSeq(longer, 1, Len(h))
    BY <1>1, <1>3, HistorySizeAssumption DEF Push
  <2>2. /\ SubSeq(longer, 1, Len(h)) \in Seq(S)
        /\ Len(SubSeq(longer, 1, Len(h))) = Len(h)
        /\ \A i \in 1..Len(h) : SubSeq(longer, 1, Len(h))[i] = longer[i]
    BY <1>1
  <2>3. QED
    BY <1>1, <1>3, <2>1, <2>2
<1>4. QED
  BY <1>2, <1>3, HistorySizeAssumption

-----------------------------------------------------------------------------
(***************************************************************************)
(* Types.  To type a step of callObservers one has to know that its        *)
(* iterator is inside the range it took.                                   *)
(***************************************************************************)
HistoryFits == Len(history) <= HistorySize

IteratorInRange ==
  /\ loop.pc = "visit" => loop.at \in 1..(Len(loop.slots) + 1)
  /\ loop.pc = "raise" => loop.at \in 1..Len(loop.slots)

Typed == TypeOK /\ HistoryFits /\ IteratorInRange

LEMMA InitTyped == Init => Typed
<1> SUFFICES ASSUME Init PROVE Typed
  OBVIOUS
<1>1. loop \in Loop /\ IteratorInRange
  BY DEF Init, NotLooping, Loop, IteratorInRange
<1>2. running \in [Script -> Running]
  <2>1. NotRunning \in Running
    BY DEF Running
  <2>2. QED
    BY <2>1 DEF Init
<1>3. /\ history = <<>> /\ stores = 0 /\ cleared = 0 /\ observers = <<>> /\ subscribes = 0
      /\ due = {} /\ ub = FALSE /\ quiet \in BOOLEAN
  BY DEF Init
<1>4. history \in Seq(Element) /\ HistoryFits /\ observers \in Seq(Observer)
  BY <1>3, HistorySizeAssumption DEF HistoryFits
<1>5. seen \in [Script -> [Method -> Value \cup {Never, Undef}]]
  BY DEF Init
<1>6. queue \in [Script -> Seq(Method)]
  BY DEF Init
<1>7. QED
  BY <1>1, <1>2, <1>3, <1>4, <1>5, <1>6 DEF Typed, TypeOK

LEMMA CompactFacts ==
  ASSUME observers \in Seq(Observer), NEW keep \in SUBSET (1..Len(observers)), Compact(keep)
  PROVE  /\ observers' \in Seq(Observer)
         /\ \A i \in 1..Len(observers') :
              \E j \in keep : observers'[i] = observers[j]
<1>1. IsFiniteSet(keep)
  BY FS_Interval, FS_Subset, 0 \in Int, 1 \in Int, Len(observers) \in Int
<1>2. Cardinality(keep) \in Nat
  BY <1>1, FS_CardinalityType
<1>3. PICK f \in [1..Cardinality(keep) -> keep] :
        observers' = [i \in 1..Cardinality(keep) |-> observers[f[i]]]
  BY DEF Compact
<1>4. \A i \in 1..Cardinality(keep) : f[i] \in keep /\ observers[f[i]] \in Observer
  <2>1. \A i \in 1..Cardinality(keep) : f[i] \in keep
    OBVIOUS
  <2>2. \A k \in keep : observers[k] \in Observer
    OBVIOUS
  <2>3. QED
    BY <2>1, <2>2
<1>5. observers' \in Seq(Observer) /\ Len(observers') = Cardinality(keep)
  BY <1>2, <1>3, <1>4
<1>6. QED
  BY <1>3, <1>4, <1>5

LEMMA SeenByLoopFacts ==
  ASSUME loop \in Loop, observers' \in Seq(Observer), NEW reallocated \in BOOLEAN
  PROVE  /\ SeenByLoop(reallocated) \in Loop
         /\ SeenByLoop(reallocated).pc = loop.pc
         /\ SeenByLoop(reallocated).at = loop.at
         /\ SeenByLoop(reallocated).fresh = loop.fresh
         /\ Len(SeenByLoop(reallocated).slots) = Len(loop.slots)
<1> DEFINE shared == [i \in 1..Len(loop.slots) |->
                        IF i <= Len(observers') THEN observers'[i] ELSE loop.slots[i]]
<1>1. loop.slots \in Seq(Observer) /\ loop.moved \in BOOLEAN /\ loop.pc \in {"idle", "visit", "raise"}
      /\ loop.at \in Nat /\ loop.fresh \in BOOLEAN
  BY DEF Loop
<1>2. shared \in Seq(Observer) /\ Len(shared) = Len(loop.slots)
  <2>1. \A i \in 1..Len(loop.slots) :
          (IF i <= Len(observers') THEN observers'[i] ELSE loop.slots[i]) \in Observer
    BY <1>1
  <2>2. Len(loop.slots) \in Nat
    BY <1>1
  <2>3. QED
    BY <2>1, <2>2
<1>3. QED
  BY <1>1, <1>2 DEF SeenByLoop, Loop

LEMMA RemoveTyped ==
  ASSUME Typed, NEW gone, Remove(gone), quiet' = quiet
  PROVE  Typed'
<1> USE DEF Typed, TypeOK, HistoryFits, IteratorInRange
<1>1. observers' \in Seq(Observer)
  <2> DEFINE keep == {i \in 1..Len(observers) : observers[i] \notin gone}
  <2>1. keep \in SUBSET (1..Len(observers)) /\ Compact(keep)
    BY DEF Remove
  <2>2. QED
    BY <2>1, CompactFacts
<1>2. /\ loop' \in Loop /\ loop'.pc = loop.pc /\ loop'.at = loop.at
      /\ Len(loop'.slots) = Len(loop.slots)
  BY <1>1, SeenByLoopFacts DEF Remove
<1>3. due' \in SUBSET Observer
  BY DEF Remove
<1>4. QED
  BY <1>1, <1>2, <1>3 DEF Remove

LEMMA NextTyped == Typed /\ [Next]_vars => Typed'
<1> SUFFICES ASSUME Typed, Next PROVE Typed'
  BY DEF vars, Typed, TypeOK, HistoryFits, IteratorInRange
<1> USE DEF Typed, TypeOK, HistoryFits, IteratorInRange
<1>0. quiet' = quiet
  BY DEF Next
<1>L. /\ loop.pc \in {"idle", "visit", "raise"} /\ loop.at \in Nat
      /\ loop.slots \in Seq(Observer) /\ loop.moved \in BOOLEAN /\ loop.fresh \in BOOLEAN
      /\ Len(loop.slots) \in Nat
  BY DEF Loop
<1>1. ASSUME NEW v \in Value, Store(v) PROVE Typed'
  <2>1. [id |-> stores + 1, value |-> v] \in Element
    BY DEF Element
  <2>2. history' \in Seq(Element) /\ HistoryFits'
    BY <1>1, <2>1, PushFacts, HistorySizeAssumption DEF Store
  <2>3. Fresh(v) \in BOOLEAN
    BY DEF Fresh
  <2>4. loop' \in Loop /\ IteratorInRange'
    BY <1>1, <2>3 DEF Store, StartLoop, Loop
  <2>5. due' \in SUBSET Observer
    BY <1>1 DEF Store, Audience, Subscribed
  <2>6. QED
    BY <1>0, <1>1, <2>2, <2>4, <2>5 DEF Store
<1>2. CASE Visit
  <2>1. Advance \in Loop /\ Continue("raise", loop.at) \in Loop
    BY <1>L DEF Advance, Continue, Loop
  <2>2. loop' \in Loop /\ IteratorInRange'
    BY <1>2, <1>L, <2>1 DEF Visit, Advance, Continue
  <2>3. QED
    BY <1>0, <1>2, <2>2 DEF Visit
<1>3. CASE Raise
  <2>1. Slot \in Observer
    BY <1>L, <1>3 DEF Raise, Slot
  <2>2. Slot.script \in Script /\ Slot.method \in Method
    BY <2>1 DEF Observer
  <2>3. loop' \in Loop /\ IteratorInRange'
    BY <1>L, <1>3 DEF Raise, Advance, Continue, Loop
  <2>4. queue' \in [Script -> Seq(Method)]
    <3>1. Append(queue[Slot.script], Slot.method) \in Seq(Method)
      BY <2>2
    <3>2. queue' = [queue EXCEPT ![Slot.script] = Append(queue[Slot.script], Slot.method)]
          \/ queue' = queue
      BY <1>3 DEF Raise
    <3>3. QED
      BY <3>1, <3>2
  <2>5. QED
    BY <1>0, <1>3, <2>3, <2>4 DEF Raise
<1>4. CASE EndLoop
  BY <1>0, <1>4 DEF EndLoop, NotLooping, Loop
<1>5. ASSUME NEW s \in Script, NEW m \in Method, NEW c \in BOOLEAN, Subscribe(s, m, c)
      PROVE  Typed'
  <2>1. observers' \in Seq(Observer)
    BY <1>5 DEF Subscribe, Observer
  <2>2. /\ loop' \in Loop /\ loop'.pc = loop.pc /\ loop'.at = loop.at
        /\ Len(loop'.slots) = Len(loop.slots)
    BY <1>5, <2>1, SeenByLoopFacts DEF Subscribe
  <2>3. seen' \in [Script -> [Method -> Value \cup {Never, Undef}]]
    BY <1>5 DEF Subscribe
  <2>4. QED
    BY <1>0, <1>5, <2>1, <2>2, <2>3 DEF Subscribe
<1>6. ASSUME NEW s \in Script, NEW m \in Method, Unsubscribe(s, m) PROVE Typed'
  BY <1>0, <1>6, RemoveTyped DEF Unsubscribe
<1>7. ASSUME NEW s \in Script, UnsubscribeScript(s) PROVE Typed'
  BY <1>0, <1>7, RemoveTyped DEF UnsubscribeScript
<1>8. ASSUME NEW s \in Script, Clear(s) PROVE Typed'
  <2>1. history' \in Seq(Element) /\ HistoryFits'
    BY <1>8, HistorySizeAssumption DEF Clear
  <2>2. cleared' \in Nat /\ due' \in SUBSET Observer /\ ub' \in BOOLEAN
    BY <1>8 DEF Clear
  <2>3. QED
    BY <1>0, <1>8, <2>1, <2>2 DEF Clear
<1>9. ASSUME NEW s \in Script, StartCallback(s) PROVE Typed'
  <2>1. Head(queue[s]) \in Method /\ Tail(queue[s]) \in Seq(Method)
    BY <1>9 DEF StartCallback
  <2>2. [pc |-> "called", method |-> Head(queue[s])] \in Running
    BY <2>1 DEF Running
  <2>3. QED
    BY <1>0, <1>9, <2>1, <2>2 DEF StartCallback
<1>10. ASSUME NEW s \in Script, TakeLast(s) PROVE Typed'
  <2>1. running[s].method \in Method
    BY <1>10 DEF TakeLast, Running, NotRunning
  <2>2. Last.id \in Nat /\ Last.value \in Value \cup {Undef}
    <3>1. CASE history = <<>>
      BY <3>1 DEF Last, EmptyValue
    <3>2. CASE history # <<>>
      <4>1. history[1] \in Element
        BY <3>2
      <4>2. QED
        BY <3>2, <4>1 DEF Last, Element
    <3>3. QED
      BY <3>1, <3>2
  <2>3. Holding(running[s].method, Last) \in Running
    BY <2>1, <2>2 DEF Running, Holding
  <2>4. running' = [running EXCEPT ![s] = Holding(running[s].method, Last)]
    BY <1>10 DEF TakeLast
  <2>5. QED
    BY <1>0, <1>10, <2>3, <2>4 DEF TakeLast
<1>11. ASSUME NEW s \in Script, UseLast(s) PROVE Typed'
  <2>1. running[s].method \in Method /\ running[s].value \in Value \cup {Undef}
    BY <1>11 DEF UseLast, Running, NotRunning
  <2>2. running' \in [Script -> Running]
    BY <1>11 DEF UseLast, Running
  <2>3. seen' \in [Script -> [Method -> Value \cup {Never, Undef}]]
    <3>1. [seen[s] EXCEPT ![running[s].method] = running[s].value]
            \in [Method -> Value \cup {Never, Undef}]
      BY <2>1
    <3>2. QED
      BY <1>11, <3>1 DEF UseLast
  <2>4. ub' \in BOOLEAN
    BY <1>11 DEF UseLast
  <2>5. QED
    BY <1>0, <1>11, <2>2, <2>3, <2>4 DEF UseLast
<1>12. CASE Overlap
  BY <1>0, <1>12 DEF Overlap
<1>13. QED
  BY <1>1, <1>2, <1>3, <1>4, <1>5, <1>6, <1>7, <1>8, <1>9, <1>10, <1>11, <1>12
     DEF Next, LoopStep, Subscription

\* The variables keep their types: in particular the iterator of callObservers never
\* reads outside the range it took, and no element of the history is uninitialised
\* (CStorage, CObserver::call, CCallerSingle::call).
THEOREM TypeCorrect == Spec => []TypeOK
<1>1. Spec => []Typed
  BY InitTyped, NextTyped, PTL DEF Spec
<1>2. Typed => TypeOK
  BY DEF Typed
<1>3. QED
  BY <1>1, <1>2, PTL

-----------------------------------------------------------------------------
(***************************************************************************)
(* The history, and the lifetime of references into it.                    *)
(***************************************************************************)

\* A reference is to a value that has arrived, or to m_emptyValue.
HeldWasStored ==
  \A s \in Script : running[s].pc = "holding" => running[s].id <= stores

HistoryInv == Typed /\ HistoryIsRecent /\ HeldWasStored

LEMMA HistoryUntouched ==
  ASSUME HistoryIsRecent, UNCHANGED <<history, stores, cleared>>
  PROVE  HistoryIsRecent'
  BY DEF HistoryIsRecent

LEMMA HeldUntouched ==
  ASSUME HeldWasStored, UNCHANGED <<stores, running>>
  PROVE  HeldWasStored'
  BY DEF HeldWasStored

LEMMA RecentNext == HistoryInv /\ [Next]_vars => HistoryIsRecent'
<1> SUFFICES ASSUME HistoryInv, [Next]_vars PROVE HistoryIsRecent'
  OBVIOUS
<1> USE DEF HistoryInv
<1>1. ASSUME NEW v \in Value, Store(v) PROVE HistoryIsRecent'
  <2> DEFINE x == [id |-> stores + 1, value |-> v]
  <2>0. /\ history \in Seq(Element) /\ Len(history) <= HistorySize /\ Len(history) \in Nat
        /\ stores \in Nat /\ cleared \in Nat /\ HistorySize \in Nat
    BY HistorySizeAssumption DEF Typed, TypeOK, HistoryFits
  <2>1. x \in Element /\ x.id = stores + 1
    BY <2>0 DEF Element
  <2>2. history' = Push(history, x) /\ stores' = stores + 1 /\ cleared' = cleared
    BY <1>1 DEF Store
  <2>3. /\ Len(history') = IF Len(history) < HistorySize THEN Len(history) + 1 ELSE HistorySize
        /\ \A i \in 1..Len(history') : history'[i] = IF i = 1 THEN x ELSE history[i - 1]
    BY <2>0, <2>1, <2>2, PushFacts
  <2>4. \A i \in 1..Len(history') : history'[i].id = stores' - i + 1
    <3> TAKE i \in 1..Len(history')
    <3>1. CASE i = 1
      BY <2>0, <2>1, <2>2, <2>3, <3>1
    <3>2. CASE i # 1
      <4>1. i - 1 \in 1..Len(history) /\ i \in Nat
        BY <2>0, <2>3, <3>2
      <4>2. history[i - 1].id = stores - (i - 1) + 1
        BY <4>1 DEF HistoryIsRecent
      <4>3. history'[i] = history[i - 1]
        BY <2>3, <3>2
      <4>4. QED
        BY <2>0, <2>2, <4>1, <4>2, <4>3
    <3>3. QED
      BY <3>1, <3>2
  <2>5. /\ cleared <= stores
        /\ Len(history) = IF stores - cleared < HistorySize THEN stores - cleared ELSE HistorySize
    BY DEF HistoryIsRecent
  <2>6. Len(history') = IF stores' - cleared' < HistorySize THEN stores' - cleared' ELSE HistorySize
    BY <2>0, <2>2, <2>3, <2>5
  <2>7. cleared' <= stores'
    BY <2>0, <2>2, <2>5
  <2>8. QED
    BY <2>4, <2>6, <2>7 DEF HistoryIsRecent
<1>2. ASSUME NEW s \in Script, Clear(s) PROVE HistoryIsRecent'
  BY <1>2, HistorySizeAssumption DEF Clear, HistoryIsRecent, Typed, TypeOK
<1>3. CASE LoopStep
  BY <1>3, HistoryUntouched DEF LoopStep, Visit, Raise, EndLoop
<1>4. CASE Subscription
  BY <1>4, HistoryUntouched DEF Subscription, Subscribe, Unsubscribe, UnsubscribeScript, Remove
<1>5. ASSUME NEW s \in Script, StartCallback(s) \/ TakeLast(s) \/ UseLast(s)
      PROVE  HistoryIsRecent'
  BY <1>5, HistoryUntouched DEF StartCallback, TakeLast, UseLast
<1>6. CASE UNCHANGED vars
  BY <1>6, HistoryUntouched DEF vars
<1>7. CASE Overlap
  BY <1>7, HistoryUntouched DEF Overlap
<1>8. QED
  BY <1>1, <1>2, <1>3, <1>4, <1>5, <1>6, <1>7 DEF Next

LEMMA HeldNext == HistoryInv /\ [Next]_vars => HeldWasStored'
<1> SUFFICES ASSUME HistoryInv, [Next]_vars PROVE HeldWasStored'
  OBVIOUS
<1> USE DEF HistoryInv
<1>0. stores \in Nat /\ running \in [Script -> Running]
  BY DEF Typed, TypeOK
<1>1. ASSUME NEW v \in Value, Store(v) PROVE HeldWasStored'
  <2>1. stores' = stores + 1 /\ running' = running
    BY <1>1 DEF Store
  <2>2. \A s \in Script : running[s].pc = "holding" => running[s].id \in Nat
    BY <1>0 DEF Running, NotRunning
  <2>3. QED
    BY <1>0, <2>1, <2>2 DEF HeldWasStored
<1>2. ASSUME NEW s \in Script, TakeLast(s) PROVE HeldWasStored'
  <2>1. Last.id <= stores
    <3>1. CASE history = <<>>
      BY <1>0, <3>1 DEF Last, EmptyValue
    <3>2. CASE history # <<>>
      <4>1. Len(history) \in Nat /\ 1 \in 1..Len(history)
        BY <3>2 DEF Typed, TypeOK
      <4>2. QED
        BY <1>0, <3>2, <4>1 DEF Last, HistoryIsRecent
    <3>3. QED
      BY <3>1, <3>2
  <2>2. running' = [running EXCEPT ![s] = Holding(running[s].method, Last)] /\ stores' = stores
    BY <1>2 DEF TakeLast
  <2>3. QED
    BY <1>0, <2>1, <2>2 DEF HeldWasStored, Holding
<1>3. ASSUME NEW s \in Script, StartCallback(s) PROVE HeldWasStored'
  BY <1>0, <1>3 DEF StartCallback, HeldWasStored
<1>4. ASSUME NEW s \in Script, UseLast(s) PROVE HeldWasStored'
  BY <1>0, <1>4 DEF UseLast, NotRunning, HeldWasStored
<1>5. CASE LoopStep
  BY <1>5, HeldUntouched DEF LoopStep, Visit, Raise, EndLoop
<1>6. CASE Subscription
  BY <1>6, HeldUntouched DEF Subscription, Subscribe, Unsubscribe, UnsubscribeScript, Remove
<1>7. ASSUME NEW s \in Script, Clear(s) PROVE HeldWasStored'
  BY <1>7, HeldUntouched DEF Clear
<1>8. CASE UNCHANGED vars \/ Overlap
  BY <1>8, HeldUntouched DEF vars, Overlap
<1>9. QED
  BY <1>1, <1>2, <1>3, <1>4, <1>5, <1>6, <1>7, <1>8 DEF Next

LEMMA HistoryInvariant == Spec => []HistoryInv
<1>1. Init => HistoryInv
  BY InitTyped, HistorySizeAssumption
     DEF Init, HistoryInv, HistoryIsRecent, HeldWasStored, NotRunning
<1>2. HistoryInv /\ [Next]_vars => HistoryInv'
  BY NextTyped, RecentNext, HeldNext DEF HistoryInv
<1>3. QED
  BY <1>1, <1>2, PTL DEF Spec

\* The history holds exactly the newest values since the last clear(), newest first, for
\* every configured length, 0 included (CStorage::setValue, clear).
THEOREM HistoryRecent == Spec => []HistoryIsRecent
<1>1. HistoryInv => HistoryIsRecent
  BY DEF HistoryInv
<1>2. QED
  BY <1>1, HistoryInvariant, PTL

\* A reference from last() outlives every burst of fewer than HistorySize values
\* (CStorage::last, setValue, clear).
THEOREM ReferencesLive == Spec => []ReferenceLifetime
<1>1. HistoryInv => ReferenceLifetime
  <2> SUFFICES ASSUME HistoryInv PROVE ReferenceLifetime
    OBVIOUS
  <2>0. /\ stores \in Nat /\ cleared \in Nat /\ HistorySize \in Nat
        /\ running \in [Script -> Running]
    BY HistorySizeAssumption DEF HistoryInv, Typed, TypeOK
  <2>1. \A s \in Script : running[s].pc = "holding" =>
          running[s].id \in Nat /\ running[s].id <= stores
    BY <2>0 DEF HistoryInv, HeldWasStored, Running, NotRunning
  <2> SUFFICES ASSUME NEW s \in Script, running[s].pc = "holding",
                      running[s].id > cleared, stores - running[s].id < HistorySize
               PROVE  Live(running[s].id)
    BY <2>0, <2>1 DEF ReferenceLifetime
  <2> DEFINE i == stores - running[s].id + 1
  <2>2. Len(history) = IF stores - cleared < HistorySize THEN stores - cleared ELSE HistorySize
    BY DEF HistoryInv, HistoryIsRecent
  <2>3. i \in 1..Len(history)
    BY <2>0, <2>1, <2>2
  <2>4. history[i].id = stores - i + 1
    BY <2>3 DEF HistoryInv, HistoryIsRecent
  <2>5. history[i].id = running[s].id
    BY <2>0, <2>1, <2>4
  <2>6. QED
    BY <2>3, <2>5 DEF Live
<1>2. QED
  BY <1>1, HistoryInvariant, PTL

-----------------------------------------------------------------------------
(***************************************************************************)
(* The discipline: nobody subscribes or unsubscribes while a value is      *)
(* announced, no two at once.  Then the memory callObservers walks is      *)
(* m_observers.                                                            *)
(***************************************************************************)
InLoop == loop.pc # "idle"

SlotsAreObservers == quiet /\ InLoop => loop.slots = observers /\ ~loop.moved

\* The observer has its turn still before it, and will take it.
HasTurn(o) ==
  /\ InLoop
  /\ \E i \in 1..Len(loop.slots) : i >= loop.at /\ loop.slots[i] = o
  /\ o.changedOnly => ValueChanged(history)

\* Whoever is owed an event will still get it, or a clear() has swallowed it.
OwedHaveTurn == quiet => \A o \in due : HasTurn(o) \/ Swallowed(o)

EventInv == Typed /\ SlotsAreObservers /\ OwedHaveTurn

\* What valueChanged() says is not more than what the announced value is.
ChangeIsFresh ==
  quiet /\ InLoop =>
    /\ ValueChanged(history) => loop.fresh
    /\ loop.pc = "raise" => ~Slot.changedOnly \/ loop.fresh

FreshInv == Typed /\ SlotsAreObservers /\ ChangeIsFresh

\* A notification of (s, m) is in the queue or has not read the property yet.
Awaiting(s, m) ==
  \/ \E i \in 1..Len(queue[s]) : queue[s][i] = m
  \/ running[s].pc = "called" /\ running[s].method = m

\* What (s, m) last read of the property.
Current(s, m) ==
  IF running[s].pc = "holding" /\ running[s].method = m THEN running[s].value ELSE seen[s][m]

Settled(s, m) == ~Awaiting(s, m) /\ Current(s, m) \in Value

UpToDate(s, m) == Settled(s, m) /\ history # <<>> => Current(s, m) = history[1].value

OneBehind(s, m) ==
  Settled(s, m) /\ Len(history) > 1 => Current(s, m) \in {history[1].value, history[2].value}

\* Observers that had their turn are up to date, the others at most one value behind.
TurnDecides ==
  quiet =>
    \A i \in 1..Len(observers) :
      IF InLoop /\ i >= loop.at
      THEN OneBehind(observers[i].script, observers[i].method)
      ELSE UpToDate(observers[i].script, observers[i].method)

SeenInv == Typed /\ SlotsAreObservers /\ TurnDecides

LEMMA QuietConstant == [Next]_vars => quiet' = quiet
  BY DEF Next, vars

\* A subscription that keeps the discipline leaves the loop idle.
LEMMA QuietSubscriptionIdle ==
  ASSUME Typed, Subscription, quiet
  PROVE  loop.pc = "idle" /\ loop'.pc = "idle"
<1>1. loop.pc = "idle"
  BY DEF Subscription, QuietSubscription
<1>2. \A r \in BOOLEAN : SeenByLoop(r).pc = loop.pc
  BY DEF SeenByLoop
<1>3. \E r \in BOOLEAN : loop' = SeenByLoop(r)
  BY DEF Subscription, Subscribe, Unsubscribe, UnsubscribeScript, Remove
<1>4. QED
  BY <1>1, <1>2, <1>3

LEMMA SlotsNext == Typed /\ SlotsAreObservers /\ [Next]_vars => SlotsAreObservers'
<1> SUFFICES ASSUME Typed, SlotsAreObservers, [Next]_vars, quiet, InLoop'
             PROVE  loop'.slots = observers' /\ ~loop'.moved
  BY QuietConstant DEF SlotsAreObservers
<1>1. ASSUME NEW v \in Value, Store(v) PROVE loop'.slots = observers' /\ ~loop'.moved
  BY <1>1 DEF Store, StartLoop
<1>2. CASE Visit \/ Raise
  BY <1>2 DEF Visit, Raise, Advance, Continue, SlotsAreObservers, InLoop
<1>3. CASE EndLoop
  BY <1>3 DEF EndLoop, NotLooping, InLoop
<1>4. CASE Subscription
  BY <1>4, QuietSubscriptionIdle DEF InLoop
<1>5. ASSUME NEW s \in Script, Clear(s) \/ StartCallback(s) \/ TakeLast(s) \/ UseLast(s)
      PROVE  loop'.slots = observers' /\ ~loop'.moved
  BY <1>5 DEF Clear, StartCallback, TakeLast, UseLast, SlotsAreObservers, InLoop
<1>6. CASE UNCHANGED vars
  BY <1>6 DEF vars, SlotsAreObservers, InLoop
<1>7. QED
  BY <1>1, <1>2, <1>3, <1>4, <1>5, <1>6 DEF Next, LoopStep, Overlap

\* Under the discipline the iterator is never stale.
LEMMA QuietNotStale ==
  ASSUME Typed, SlotsAreObservers, quiet, InLoop, loop.at <= Len(loop.slots)
  PROVE  ~Stale
<1>1. loop.at \in Nat /\ Len(observers) \in Nat
  BY DEF Typed, TypeOK, Loop
<1>2. QED
  BY <1>1 DEF SlotsAreObservers, Stale

LEMMA SlotTyped ==
  ASSUME Typed, loop.pc # "idle", loop.at <= Len(loop.slots)
  PROVE  /\ loop.at \in 1..Len(loop.slots) /\ Slot \in Observer
         /\ loop.slots \in Seq(Observer) /\ Len(loop.slots) \in Nat
<1>1. loop.pc \in {"idle", "visit", "raise"} /\ loop.at \in Nat /\ loop.slots \in Seq(Observer)
  BY DEF Typed, TypeOK, Loop
<1>2. loop.at \in 1..Len(loop.slots)
  BY <1>1 DEF Typed, IteratorInRange
<1>3. QED
  BY <1>1, <1>2 DEF Slot

-----------------------------------------------------------------------------
(***************************************************************************)
(* Every observer gets its event.                                          *)
(***************************************************************************)

\* A value that is the first one or a new one is a change for valueChanged().
LEMMA FreshIsChange ==
  ASSUME Typed, HistorySize > 0, NEW v \in Value, Store(v), Fresh(v)
  PROVE  ValueChanged(history')
<1> DEFINE x == [id |-> stores + 1, value |-> v]
<1>0. /\ history \in Seq(Element) /\ Len(history) <= HistorySize /\ Len(history) \in Nat
      /\ HistorySize \in Nat /\ stores \in Nat
  BY HistorySizeAssumption DEF Typed, TypeOK, HistoryFits
<1>1. x \in Element /\ x.value = v
  BY <1>0 DEF Element
<1>2. /\ Len(history') = IF Len(history) < HistorySize THEN Len(history) + 1 ELSE HistorySize
      /\ \A i \in 1..Len(history') : history'[i] = IF i = 1 THEN x ELSE history[i - 1]
  <2>1. history' = Push(history, x)
    BY DEF Store
  <2>2. QED
    BY <1>0, <1>1, <2>1, PushFacts
<1>3. CASE Len(history') = 1
  BY <1>3 DEF ValueChanged
<1>4. CASE Len(history') > 1
  <2>1. history'[1] = x /\ history'[2] = history[1] /\ history # <<>>
    BY <1>0, <1>2, <1>4
  <2>2. history[1].value # v
    BY <2>1 DEF Fresh
  <2>3. QED
    BY <1>1, <1>4, <2>1, <2>2 DEF ValueChanged, Differs
<1>5. QED
  BY <1>0, <1>2, <1>3, <1>4

LEMMA OwedNext ==
  ASSUME HistorySize > 0
  PROVE  EventInv /\ [Next]_vars => OwedHaveTurn'
<1> SUFFICES ASSUME EventInv, [Next]_vars, quiet PROVE OwedHaveTurn'
  BY QuietConstant DEF OwedHaveTurn
<1> USE DEF EventInv
<1>1. ASSUME NEW v \in Value, Store(v) PROVE OwedHaveTurn'
  <2>1. /\ loop'.pc = "visit" /\ loop'.at = 1 /\ loop'.slots = observers
        /\ due' = Audience(v)
    BY <1>1 DEF Store, StartLoop
  <2>2. \A o \in due' : \E i \in 1..Len(loop'.slots) : i >= loop'.at /\ loop'.slots[i] = o
    BY <2>1 DEF Audience, Subscribed, Typed, TypeOK
  <2>3. \A o \in due' : o.changedOnly => ValueChanged(history')
    BY <1>1, <2>1, FreshIsChange DEF Audience
  <2>4. QED
    BY <2>1, <2>2, <2>3 DEF OwedHaveTurn, HasTurn, InLoop
<1>2. CASE Visit \/ Raise
  <2>1. /\ InLoop /\ loop.at <= Len(loop.slots) /\ loop.at \in 1..Len(loop.slots)
        /\ Slot \in Observer
    BY <1>2, SlotTyped DEF Visit, Raise, InLoop, Typed, IteratorInRange
  <2>2. /\ UNCHANGED <<history, stores, cleared>> /\ loop'.slots = loop.slots /\ InLoop'
        /\ due' \in SUBSET due
        /\ \/ loop'.at = loop.at
           \/ loop'.at = loop.at + 1 /\ (Wants(Slot) => Slot \notin due')
    <3>1. ~Stale
      BY <2>1, QuietNotStale
    <3>2. CASE Visit
      <4>1. loop' = IF Wants(Slot) THEN Continue("raise", loop.at) ELSE Advance
        BY <3>1, <3>2 DEF Visit
      <4>2. QED
        BY <3>2, <4>1 DEF Visit, Continue, Advance, InLoop
    <3>3. CASE Raise
      BY <3>1, <3>3 DEF Raise, Continue, Advance, InLoop
    <3>4. QED
      BY <1>2, <3>2, <3>3
  <2>3. ASSUME NEW o \in due', ~Swallowed(o) PROVE HasTurn(o)'
    <3>1. HasTurn(o)
      BY <2>2, <2>3 DEF OwedHaveTurn
    <3>2. PICK i \in 1..Len(loop.slots) : i >= loop.at /\ loop.slots[i] = o
      BY <3>1 DEF HasTurn
    <3>3. loop'.at = loop.at + 1 => i # loop.at
      <4>1. o = Slot => Wants(Slot)
        BY <3>1 DEF HasTurn, Wants
      <4>2. loop'.at = loop.at + 1 => Slot # o
        BY <2>1, <2>2, <2>3, <4>1
      <4>3. QED
        BY <3>2, <4>2 DEF Slot
    <3>4. i >= loop'.at
      BY <2>1, <2>2, <3>2, <3>3
    <3>5. QED
      BY <2>2, <3>1, <3>2, <3>4 DEF HasTurn
  <2>4. \A o : Swallowed(o)' = Swallowed(o)
    BY <2>2 DEF Swallowed
  <2>5. QED
    BY <2>3, <2>4 DEF OwedHaveTurn
<1>3. CASE EndLoop
  <2>1. /\ InLoop /\ due' = due /\ loop.at > Len(loop.slots)
        /\ UNCHANGED <<cleared, stores>>
    BY <1>3 DEF EndLoop, InLoop
  <2>2. loop.at \in Nat /\ Len(loop.slots) \in Nat
    BY DEF Typed, TypeOK, Loop
  <2>3. \A o : ~HasTurn(o)
    BY <2>1, <2>2 DEF HasTurn
  <2>4. QED
    BY <2>1, <2>3 DEF OwedHaveTurn, Swallowed
<1>4. CASE Subscription
  <2>1. ~InLoop
    BY <1>4, QuietSubscriptionIdle DEF InLoop
  <2>2. due' \in SUBSET due /\ UNCHANGED <<cleared, stores>>
    BY <1>4 DEF Subscription, Subscribe, Unsubscribe, UnsubscribeScript, Remove
  <2>3. QED
    BY <2>1, <2>2 DEF OwedHaveTurn, HasTurn, Swallowed
<1>5. ASSUME NEW s \in Script, Clear(s) PROVE OwedHaveTurn'
  <2>1. UNCHANGED <<loop, due, stores>> /\ cleared' = stores
    BY <1>5 DEF Clear
  <2>2. ASSUME NEW o \in due' PROVE HasTurn(o)' \/ Swallowed(o)'
    <3>1. CASE o.changedOnly
      BY <2>1, <3>1 DEF Swallowed
    <3>2. CASE ~o.changedOnly
      BY <2>1, <2>2, <3>2 DEF OwedHaveTurn, HasTurn, Swallowed, InLoop
    <3>3. QED
      BY <3>1, <3>2
  <2>3. QED
    BY <2>2 DEF OwedHaveTurn
<1>6. ASSUME NEW s \in Script, StartCallback(s) \/ TakeLast(s) \/ UseLast(s)
      PROVE  OwedHaveTurn'
  BY <1>6 DEF StartCallback, TakeLast, UseLast, OwedHaveTurn, HasTurn, Swallowed, InLoop
<1>7. CASE UNCHANGED vars
  BY <1>7 DEF vars, OwedHaveTurn, HasTurn, Swallowed, InLoop
<1>8. QED
  BY <1>1, <1>2, <1>3, <1>4, <1>5, <1>6, <1>7 DEF Next, LoopStep, Overlap

\* README.md:24: unless a script subscribes or unsubscribes during an announcement, or two
\* do so at once, no observer misses its event whatever callbacks run meanwhile, except an
\* observer of changes whose value was cleared before its turn (callObservers, valueChanged).
THEOREM EventsArrive ==
  ASSUME HistorySize > 0
  PROVE  Spec => []NoEventLostIfQuiet
<1>1. Init => EventInv
  BY InitTyped DEF Init, EventInv, SlotsAreObservers, OwedHaveTurn, InLoop, NotLooping
<1>2. EventInv /\ [Next]_vars => EventInv'
  BY NextTyped, SlotsNext, OwedNext DEF EventInv
<1>3. EventInv => NoEventLostIfQuiet
  BY DEF EventInv, OwedHaveTurn, HasTurn, InLoop, NoEventLostIfQuiet, NoEventLost
<1>4. QED
  BY <1>1, <1>2, <1>3, PTL DEF Spec

-----------------------------------------------------------------------------
(***************************************************************************)
(* Observers of changes are called for changes only.                       *)
(***************************************************************************)

\* With room for two values, valueChanged() is TRUE for a fresh value only.
LEMMA ChangeIsFreshAtStore ==
  ASSUME Typed, HistorySize > 1, NEW v \in Value, Store(v), ValueChanged(history')
  PROVE  Fresh(v)
<1> DEFINE x == [id |-> stores + 1, value |-> v]
<1>0. /\ history \in Seq(Element) /\ Len(history) <= HistorySize /\ Len(history) \in Nat
      /\ HistorySize \in Nat /\ stores \in Nat
  BY HistorySizeAssumption DEF Typed, TypeOK, HistoryFits
<1>1. x \in Element /\ x.value = v
  BY <1>0 DEF Element
<1>2. /\ Len(history') = IF Len(history) < HistorySize THEN Len(history) + 1 ELSE HistorySize
      /\ \A i \in 1..Len(history') : history'[i] = IF i = 1 THEN x ELSE history[i - 1]
  <2>1. history' = Push(history, x)
    BY DEF Store
  <2>2. QED
    BY <1>0, <1>1, <2>1, PushFacts
<1>3. CASE Len(history') = 1
  BY <1>0, <1>2, <1>3 DEF Fresh
<1>4. CASE Len(history') > 1
  <2>1. history'[1] = x /\ history'[2] = history[1]
    BY <1>0, <1>2, <1>4
  <2>2. history[1].value # v
    BY <1>1, <1>4, <2>1 DEF ValueChanged, Differs
  <2>3. QED
    BY <2>2 DEF Fresh
<1>5. QED
  BY <1>3, <1>4 DEF ValueChanged

LEMMA FreshNext ==
  ASSUME HistorySize > 1
  PROVE  FreshInv /\ [Next]_vars => ChangeIsFresh'
<1> SUFFICES ASSUME FreshInv, [Next]_vars, quiet PROVE ChangeIsFresh'
  BY QuietConstant DEF ChangeIsFresh
<1> USE DEF FreshInv
<1>1. ASSUME NEW v \in Value, Store(v) PROVE ChangeIsFresh'
  BY <1>1, ChangeIsFreshAtStore DEF Store, StartLoop, ChangeIsFresh
<1>2. CASE Visit
  <2>1. InLoop /\ loop.at <= Len(loop.slots)
    BY <1>2 DEF Visit, InLoop
  <2>2. loop' = IF Wants(Slot) THEN Continue("raise", loop.at) ELSE Advance
    BY <1>2, <2>1, QuietNotStale DEF Visit
  <2>3. history' = history
    BY <1>2 DEF Visit
  <2>4. Continue("raise", loop.at).slots[loop.at] = Slot
    BY DEF Continue, Slot
  <2>5. QED
    BY <2>1, <2>2, <2>3, <2>4 DEF Continue, Advance, ChangeIsFresh, Wants, InLoop, Slot
<1>3. CASE Raise
  <2>1. InLoop /\ loop.at <= Len(loop.slots)
    BY <1>3 DEF Raise, InLoop, Typed, IteratorInRange, TypeOK, Loop
  <2>2. loop' = Advance /\ history' = history
    BY <1>3, <2>1, QuietNotStale DEF Raise
  <2>3. QED
    BY <2>1, <2>2 DEF Advance, Continue, ChangeIsFresh
<1>4. CASE EndLoop
  BY <1>4 DEF EndLoop, NotLooping, ChangeIsFresh, InLoop
<1>5. CASE Subscription
  BY <1>5, QuietSubscriptionIdle DEF ChangeIsFresh, InLoop
<1>6. ASSUME NEW s \in Script, Clear(s) PROVE ChangeIsFresh'
  <2>1. ~ValueChanged(<<>>)
    BY DEF ValueChanged
  <2>2. QED
    BY <1>6, <2>1 DEF Clear, ChangeIsFresh, InLoop, Slot
<1>7. ASSUME NEW s \in Script, StartCallback(s) \/ TakeLast(s) \/ UseLast(s)
      PROVE  ChangeIsFresh'
  BY <1>7 DEF StartCallback, TakeLast, UseLast, ChangeIsFresh, InLoop, Slot
<1>8. CASE UNCHANGED vars
  BY <1>8 DEF vars, ChangeIsFresh, InLoop, Slot
<1>9. QED
  BY <1>1, <1>2, <1>3, <1>4, <1>5, <1>6, <1>7, <1>8 DEF Next, LoopStep, Overlap

\* Only CObserver::call makes a queue longer.
LEMMA OnlyRaiseAppends ==
  ASSUME Typed, [Next]_vars, NEW s \in Script, Len(queue'[s]) > Len(queue[s])
  PROVE  loop.pc = "raise"
<1>0. queue \in [Script -> Seq(Method)] /\ \A r \in Script : Len(queue[r]) \in Nat
  BY DEF Typed, TypeOK
<1>1. ASSUME queue' = queue PROVE FALSE
  BY <1>0, <1>1
<1>2. ASSUME NEW r \in Script, StartCallback(r) PROVE FALSE
  <2>1. queue' = [queue EXCEPT ![r] = Tail(queue[r])] /\ queue[r] # <<>>
    BY <1>2 DEF StartCallback
  <2>2. Len(Tail(queue[r])) < Len(queue[r])
    BY <1>0, <2>1
  <2>3. QED
    BY <1>0, <2>1, <2>2
<1>3. CASE Raise
  BY <1>3 DEF Raise
<1>4. CASE Visit \/ EndLoop
  BY <1>1, <1>4 DEF Visit, EndLoop
<1>5. CASE Subscription
  BY <1>1, <1>5 DEF Subscription, Subscribe, Unsubscribe, UnsubscribeScript, Remove
<1>6. ASSUME NEW r \in Script, Clear(r) \/ TakeLast(r) \/ UseLast(r) PROVE FALSE
  BY <1>1, <1>6 DEF Clear, TakeLast, UseLast
<1>7. ASSUME NEW v \in Value, Store(v) PROVE FALSE
  BY <1>1, <1>7 DEF Store
<1>8. CASE UNCHANGED vars \/ Overlap
  BY <1>1, <1>8 DEF vars, Overlap
<1>9. QED
  BY <1>2, <1>3, <1>4, <1>5, <1>6, <1>7, <1>8 DEF Next, LoopStep

\* README.md:24: with a history of two values or more, an observer of changes is called
\* for the first value and for values that differ from the one before, and for no other.
THEOREM ChangesOnly ==
  ASSUME HistorySize > 1
  PROVE  Spec => ChangedOnlyMeansChange
<1>1. Init => FreshInv
  BY InitTyped DEF Init, FreshInv, SlotsAreObservers, ChangeIsFresh, InLoop, NotLooping
<1>2. FreshInv /\ [Next]_vars => FreshInv'
  BY NextTyped, SlotsNext, FreshNext DEF FreshInv
<1>3. FreshInv /\ [Next]_vars =>
        [\A s \in Script :
           quiet /\ Len(queue'[s]) > Len(queue[s]) => loop.fresh \/ ~Slot.changedOnly]_vars
  <2> SUFFICES ASSUME FreshInv, [Next]_vars, NEW s \in Script,
                      quiet, Len(queue'[s]) > Len(queue[s])
               PROVE  loop.fresh \/ ~Slot.changedOnly
    OBVIOUS
  <2>1. loop.pc = "raise"
    BY OnlyRaiseAppends DEF FreshInv
  <2>2. QED
    BY <2>1 DEF FreshInv, ChangeIsFresh, InLoop
<1>4. QED
  BY <1>1, <1>2, <1>3, PTL DEF Spec, ChangedOnlyMeansChange

-----------------------------------------------------------------------------
(***************************************************************************)
(* A script's view of a property is current once its callbacks are through.*)
(***************************************************************************)

\* What a step has to keep for one method of a script.
Kept(s, m) ==
  /\ UpToDate(s, m) => UpToDate(s, m)'
  /\ OneBehind(s, m) => OneBehind(s, m)'

LEMMA KeptIfSettled ==
  ASSUME NEW s, NEW m, history' = history,
         Settled(s, m)' => Settled(s, m) /\ Current(s, m)' = Current(s, m)
  PROVE  Kept(s, m)
  BY DEF Kept, UpToDate, OneBehind

LEMMA UpToDateIsOneBehind ==
  ASSUME NEW s, NEW m, UpToDate(s, m)
  PROVE  OneBehind(s, m)
<1>1. Len(<<>>) = 0
  OBVIOUS
<1>2. QED
  BY <1>1 DEF UpToDate, OneBehind

LEMMA KeptAtStart ==
  ASSUME Typed, NEW r \in Script, StartCallback(r), NEW s \in Script, NEW m \in Method
  PROVE  Kept(s, m)
<1>0. /\ queue \in [Script -> Seq(Method)] /\ running \in [Script -> Running]
      /\ running[r].pc = "idle" /\ queue[r] # <<>>
      /\ running' = [running EXCEPT ![r] = [pc |-> "called", method |-> Head(queue[r])]]
      /\ queue' = [queue EXCEPT ![r] = Tail(queue[r])]
      /\ seen' = seen /\ history' = history
  BY DEF Typed, TypeOK, StartCallback
<1>1. Current(s, m)' = Current(s, m)
  BY <1>0 DEF Current
<1>2. Awaiting(s, m) => Awaiting(s, m)'
  <2>1. CASE s # r
    BY <1>0, <2>1 DEF Awaiting
  <2>2. CASE s = r
    <3>1. SUFFICES ASSUME NEW i \in 1..Len(queue[r]), queue[r][i] = m
                   PROVE  Awaiting(s, m)'
      BY <1>0, <2>2 DEF Awaiting
    <3>2. CASE i = 1
      <4>1. Head(queue[r]) = m
        BY <1>0, <3>1, <3>2
      <4>2. QED
        BY <1>0, <2>2, <4>1 DEF Awaiting
    <3>3. CASE i # 1
      <4>1. i - 1 \in 1..Len(Tail(queue[r])) /\ Tail(queue[r])[i - 1] = m
        BY <1>0, <3>1, <3>3
      <4>2. QED
        BY <1>0, <2>2, <4>1 DEF Awaiting
    <3>4. QED
      BY <3>2, <3>3
  <2>3. QED
    BY <2>1, <2>2
<1>3. QED
  BY <1>0, <1>1, <1>2, KeptIfSettled DEF Settled

LEMMA KeptAtTake ==
  ASSUME Typed, NEW r \in Script, TakeLast(r), NEW s \in Script, NEW m \in Method
  PROVE  Kept(s, m)
<1>0. /\ running \in [Script -> Running] /\ running[r].pc = "called"
      /\ running' = [running EXCEPT ![r] = Holding(running[r].method, Last)]
      /\ queue' = queue /\ seen' = seen /\ history' = history
  BY DEF Typed, TypeOK, TakeLast
<1>1. CASE s = r /\ running[r].method = m
  <2>1. Current(s, m)' = Last.value
    BY <1>0, <1>1 DEF Current, Holding
  <2>2. history # <<>> => Last = history[1]
    BY DEF Last
  <2>3. UpToDate(s, m)'
    BY <1>0, <2>1, <2>2 DEF UpToDate
  <2>4. OneBehind(s, m)'
    <3>1. Len(<<>>) = 0
      OBVIOUS
    <3>2. QED
      BY <1>0, <2>1, <2>2, <3>1 DEF OneBehind
  <2>5. QED
    BY <2>3, <2>4 DEF Kept
<1>2. CASE s # r \/ running[r].method # m
  <2>1. Current(s, m)' = Current(s, m)
    BY <1>0, <1>2 DEF Current, Holding
  <2>2. Awaiting(s, m) => Awaiting(s, m)'
    BY <1>0, <1>2 DEF Awaiting, Holding
  <2>3. QED
    BY <1>0, <2>1, <2>2, KeptIfSettled DEF Settled
<1>3. QED
  BY <1>1, <1>2

LEMMA KeptAtUse ==
  ASSUME Typed, NEW r \in Script, UseLast(r), NEW s \in Script, NEW m \in Method
  PROVE  Kept(s, m)
<1>0. /\ running \in [Script -> Running] /\ running[r].pc = "holding"
      /\ seen \in [Script -> [Method -> Value \cup {Never, Undef}]]
      /\ queue' = queue /\ history' = history
  BY DEF Typed, TypeOK, UseLast
<1>1. CASE UNCHANGED <<seen, running>>
  <2>1. Current(s, m)' = Current(s, m)
    BY <1>1 DEF Current
  <2>2. Awaiting(s, m) => Awaiting(s, m)'
    BY <1>0, <1>1 DEF Awaiting
  <2>3. QED
    BY <1>0, <2>1, <2>2, KeptIfSettled DEF Settled
<1>2. CASE /\ seen' = [seen EXCEPT ![r][running[r].method] = running[r].value]
           /\ running' = [running EXCEPT ![r] = NotRunning]
  <2>1. running[r].method \in Method
    BY <1>0 DEF Running, NotRunning
  <2>2. Current(s, m)' = Current(s, m)
    <3>1. CASE s # r
      BY <1>0, <1>2, <3>1 DEF Current
    <3>2. CASE s = r
      <4>1. running'[s].pc = "idle" /\ Current(s, m)' = seen'[s][m]
        BY <1>0, <1>2, <3>2 DEF Current, NotRunning
      <4>2. seen'[r] = [seen[r] EXCEPT ![running[r].method] = running[r].value]
        BY <1>0, <1>2
      <4>3. seen'[r][m] = IF running[r].method = m THEN running[r].value ELSE seen[r][m]
        BY <1>0, <2>1, <4>2
      <4>4. QED
        BY <1>0, <3>2, <4>1, <4>3 DEF Current
    <3>3. QED
      BY <3>1, <3>2
  <2>3. Awaiting(s, m) => Awaiting(s, m)'
    BY <1>0, <1>2 DEF Awaiting, NotRunning
  <2>4. QED
    BY <1>0, <2>2, <2>3, KeptIfSettled DEF Settled
<1>3. QED
  BY <1>1, <1>2 DEF UseLast

\* A step that only concerns callbacks.
LEMMA TurnKept ==
  ASSUME Typed, TurnDecides, quiet' = quiet, UNCHANGED <<observers, loop>>,
         \A s \in Script, m \in Method : Kept(s, m)
  PROVE  TurnDecides'
<1>1. \A i \in 1..Len(observers) :
        observers[i].script \in Script /\ observers[i].method \in Method
  <2>1. \A i \in 1..Len(observers) : observers[i] \in Observer
    BY DEF Typed, TypeOK
  <2>2. QED
    BY <2>1 DEF Observer
<1>2. \A i \in 1..Len(observers) : Kept(observers[i].script, observers[i].method)
  BY <1>1
<1>3. QED
  BY <1>2 DEF TurnDecides, InLoop, Kept

\* A value arrives: everybody who was up to date is now one value behind.
LEMMA BehindAtStore ==
  ASSUME Typed, NEW v \in Value, Store(v), NEW s, NEW m, UpToDate(s, m)
  PROVE  OneBehind(s, m)'
<1> DEFINE x == [id |-> stores + 1, value |-> v]
<1>0. /\ history \in Seq(Element) /\ Len(history) <= HistorySize /\ Len(history) \in Nat
      /\ HistorySize \in Nat /\ stores \in Nat
  BY HistorySizeAssumption DEF Typed, TypeOK, HistoryFits
<1>1. x \in Element
  BY <1>0 DEF Element
<1>2. /\ Len(history') = IF Len(history) < HistorySize THEN Len(history) + 1 ELSE HistorySize
      /\ \A i \in 1..Len(history') : history'[i] = IF i = 1 THEN x ELSE history[i - 1]
  <2>1. history' = Push(history, x)
    BY DEF Store
  <2>2. QED
    BY <1>0, <1>1, <2>1, PushFacts
<1>3. Len(history') > 1 => history # <<>> /\ history'[2] = history[1]
  BY <1>0, <1>2
<1>4. queue' = queue /\ running' = running /\ seen' = seen
  BY DEF Store
<1>5. Settled(s, m)' = Settled(s, m) /\ Current(s, m)' = Current(s, m)
  BY <1>4 DEF Settled, Current, Awaiting
<1>6. QED
  BY <1>3, <1>5 DEF UpToDate, OneBehind

\* An observer that valueChanged() turns away has seen an equal value.
LEMMA TurnedAwayIsUpToDate ==
  ASSUME Typed, NEW s, NEW m, OneBehind(s, m), ~ValueChanged(history)
  PROVE  UpToDate(s, m)
<1>0. history \in Seq(Element)
  BY DEF Typed, TypeOK
<1>1. history # <<>> => Len(history) \in Nat /\ Len(history) > 0
  BY <1>0
<1>2. ~(Len(history) = 1) /\ ~(Len(history) > 1 /\ history[1].value # history[2].value)
  BY DEF ValueChanged, Differs
<1>3. QED
  BY <1>1, <1>2 DEF OneBehind, UpToDate

LEMMA TurnAtVisit ==
  ASSUME SeenInv, Visit, quiet, quiet' = quiet
  PROVE  TurnDecides'
<1>1. InLoop /\ loop.at <= Len(loop.slots) /\ loop.slots = observers /\ Typed
  BY DEF SeenInv, Visit, InLoop, SlotsAreObservers
<1>2. loop' = IF Wants(Slot) THEN Continue("raise", loop.at) ELSE Advance
  BY <1>1, QuietNotStale DEF SeenInv, Visit
<1>3. UNCHANGED <<history, observers, queue, running, seen>> /\ InLoop'
  BY <1>2 DEF Visit, Continue, Advance, InLoop
<1>4. \A s, m : UpToDate(s, m)' = UpToDate(s, m) /\ OneBehind(s, m)' = OneBehind(s, m)
  BY <1>3 DEF UpToDate, OneBehind, Settled, Current, Awaiting
<1>5. CASE Wants(Slot)
  <2>1. loop'.at = loop.at
    BY <1>2, <1>5 DEF Continue
  <2>2. QED
    BY <1>1, <1>3, <1>4, <2>1 DEF SeenInv, TurnDecides
<1>6. CASE ~Wants(Slot)
  <2>1. loop'.at = loop.at + 1 /\ loop.at \in 1..Len(observers) /\ Slot = observers[loop.at]
    BY <1>1, <1>2, <1>6, SlotTyped DEF Advance, Continue, InLoop, Slot
  <2>2. OneBehind(Slot.script, Slot.method)
    BY <1>1, <2>1 DEF SeenInv, TurnDecides
  <2>3. UpToDate(Slot.script, Slot.method)
    BY <1>1, <1>6, <2>2, TurnedAwayIsUpToDate DEF Wants
  <2>4. ASSUME NEW i \in 1..Len(observers)
        PROVE  IF i >= loop.at + 1
               THEN OneBehind(observers[i].script, observers[i].method)
               ELSE UpToDate(observers[i].script, observers[i].method)
    <3>1. CASE i = loop.at
      BY <2>1, <2>3, <3>1
    <3>2. CASE i # loop.at
      BY <1>1, <2>1, <3>2 DEF SeenInv, TurnDecides
    <3>3. QED
      BY <3>1, <3>2
  <2>5. QED
    BY <1>1, <1>3, <1>4, <2>1, <2>4 DEF TurnDecides
<1>7. QED
  BY <1>5, <1>6

LEMMA TurnAtRaise ==
  ASSUME SeenInv, Raise, quiet, quiet' = quiet
  PROVE  TurnDecides'
<1>1. InLoop /\ loop.slots = observers /\ Typed
  BY DEF SeenInv, Raise, InLoop, SlotsAreObservers
<1>2. loop.at \in 1..Len(observers) /\ Slot = observers[loop.at] /\ Slot \in Observer
  <2>1. loop.at <= Len(loop.slots)
    BY <1>1 DEF Raise, Typed, IteratorInRange, TypeOK, Loop
  <2>2. QED
    BY <1>1, <2>1, SlotTyped DEF InLoop, Slot
<1>3. /\ loop' = Advance
      /\ queue' = [queue EXCEPT ![Slot.script] = Append(queue[Slot.script], Slot.method)]
  BY <1>1, <1>2, QuietNotStale DEF SeenInv, Raise
<1>4. UNCHANGED <<history, observers, running, seen>> /\ InLoop' /\ loop'.at = loop.at + 1
  BY <1>3 DEF Raise, Advance, Continue, InLoop
<1>5. Slot.script \in Script /\ Slot.method \in Method /\ queue \in [Script -> Seq(Method)]
  BY <1>1, <1>2 DEF Observer, Typed, TypeOK
<1>6. ASSUME NEW s \in Script, NEW m \in Method, s = Slot.script, m = Slot.method
      PROVE  UpToDate(s, m)'
  <2>1. Len(queue[s]) + 1 \in 1..Len(queue'[s]) /\ queue'[s][Len(queue[s]) + 1] = m
    BY <1>3, <1>5, <1>6
  <2>2. Awaiting(s, m)'
    BY <2>1 DEF Awaiting
  <2>3. QED
    BY <2>2 DEF UpToDate, Settled
<1>7. ASSUME NEW s \in Script, NEW m \in Method PROVE Kept(s, m)
  <2>1. Current(s, m)' = Current(s, m)
    BY <1>4 DEF Current
  <2>2. \A i \in 1..Len(queue[s]) : i \in 1..Len(queue'[s]) /\ queue'[s][i] = queue[s][i]
    <3>1. CASE s = Slot.script
      BY <1>3, <1>5, <3>1
    <3>2. CASE s # Slot.script
      BY <1>3, <1>5, <3>2
    <3>3. QED
      BY <3>1, <3>2
  <2>3. Awaiting(s, m) => Awaiting(s, m)'
    BY <1>4, <2>2 DEF Awaiting
  <2>4. QED
    BY <1>4, <2>1, <2>3, KeptIfSettled DEF Settled
<1>8. ASSUME NEW i \in 1..Len(observers)
      PROVE  IF i >= loop.at + 1
             THEN OneBehind(observers[i].script, observers[i].method)'
             ELSE UpToDate(observers[i].script, observers[i].method)'
  <2>1. observers[i].script \in Script /\ observers[i].method \in Method
    <3>1. observers[i] \in Observer
      BY <1>1 DEF Typed, TypeOK
    <3>2. QED
      BY <3>1 DEF Observer
  <2>2. Kept(observers[i].script, observers[i].method)
    BY <1>7, <2>1
  <2>3. CASE i = loop.at
    <3>1. UpToDate(observers[i].script, observers[i].method)'
      <4>1. observers'[i] = observers[i] /\ observers[i] = Slot
        BY <1>2, <1>4, <2>3
      <4>2. QED
        BY <1>6, <2>1, <4>1
    <3>2. QED
      BY <1>2, <2>3, <3>1
  <2>4. CASE i # loop.at
    <3>1. IF i >= loop.at + 1
          THEN OneBehind(observers[i].script, observers[i].method)
          ELSE UpToDate(observers[i].script, observers[i].method)
      BY <1>1, <1>2, <2>4 DEF SeenInv, TurnDecides
    <3>2. QED
      BY <1>4, <2>2, <3>1 DEF Kept
  <2>5. QED
    BY <2>3, <2>4
<1>9. QED
  BY <1>4, <1>8 DEF TurnDecides, InLoop

LEMMA TurnAtRemove ==
  ASSUME SeenInv, NEW gone, Remove(gone), loop.pc = "idle", quiet, quiet' = quiet
  PROVE  TurnDecides'
<1> DEFINE keep == {i \in 1..Len(observers) : observers[i] \notin gone}
<1>1. \A i \in 1..Len(observers') : \E j \in keep : observers'[i] = observers[j]
  BY CompactFacts DEF Remove, SeenInv, Typed, TypeOK
<1>2. UNCHANGED <<history, queue, running, seen>> /\ loop'.pc = "idle"
  BY DEF Remove, SeenByLoop
<1>3. \A s, m : UpToDate(s, m)' = UpToDate(s, m)
  BY <1>2 DEF UpToDate, Settled, Current, Awaiting
<1>4. \A j \in 1..Len(observers) : UpToDate(observers[j].script, observers[j].method)
  BY DEF SeenInv, TurnDecides, InLoop
<1>5. ASSUME NEW i \in 1..Len(observers')
      PROVE  UpToDate(observers'[i].script, observers'[i].method)
  BY <1>1, <1>4
<1>6. QED
  BY <1>2, <1>3, <1>5 DEF TurnDecides, InLoop

LEMMA TurnAtSubscribe ==
  ASSUME SeenInv, NEW s \in Script, NEW m \in Method, NEW c \in BOOLEAN, Subscribe(s, m, c),
         loop.pc = "idle", quiet, quiet' = quiet
  PROVE  TurnDecides'
<1> DEFINE o == [script |-> s, method |-> m, changedOnly |-> c]
<1>0. /\ observers \in Seq(Observer) /\ seen \in [Script -> [Method -> Value \cup {Never, Undef}]]
      /\ UNCHANGED <<history, queue, running>> /\ running[s].pc # "holding"
      /\ observers' = Append(observers, o) /\ seen' = [seen EXCEPT ![s][m] = Never]
  BY DEF SeenInv, Typed, TypeOK, Subscribe, Free
<1>1. loop'.pc = "idle"
  BY DEF Subscribe, SeenByLoop
<1>2. UpToDate(s, m)'
  <2>1. seen'[s][m] = Never
    BY <1>0
  <2>2. Current(s, m)' = Never
    BY <1>0, <2>1 DEF Current
  <2>3. QED
    BY <2>2, ObserversAssumption DEF UpToDate, Settled
<1>3. ASSUME NEW t \in Script, NEW n \in Method, UpToDate(t, n)
      PROVE  UpToDate(t, n)'
  <2>1. CASE t = s /\ n = m
    BY <1>2, <2>1
  <2>2. CASE t # s \/ n # m
    <3>1. seen'[t][n] = seen[t][n]
      BY <1>0, <2>2
    <3>2. Current(t, n)' = Current(t, n) /\ Awaiting(t, n)' = Awaiting(t, n)
      BY <1>0, <3>1 DEF Current, Awaiting
    <3>3. QED
      BY <1>0, <1>3, <3>2 DEF UpToDate, Settled
  <2>3. QED
    BY <2>1, <2>2
<1>4. ASSUME NEW i \in 1..Len(observers')
      PROVE  UpToDate(observers[i].script, observers[i].method)'
  <2>1. CASE i \in 1..Len(observers)
    <3>1. observers'[i] = observers[i] /\ observers[i] \in Observer
      BY <1>0, <2>1
    <3>2. UpToDate(observers[i].script, observers[i].method)
      BY <2>1 DEF SeenInv, TurnDecides, InLoop
    <3>3. PICK t \in Script, n \in Method : t = observers[i].script /\ n = observers[i].method
      BY <3>1 DEF Observer
    <3>4. UpToDate(t, n)'
      BY <1>3, <3>2, <3>3
    <3>5. QED
      BY <3>1, <3>3, <3>4
  <2>2. CASE i \notin 1..Len(observers)
    <3>1. observers'[i] = o
      BY <1>0, <2>2
    <3>2. QED
      BY <1>2, <3>1
  <2>3. QED
    BY <2>1, <2>2
<1>5. QED
  BY <1>1, <1>4 DEF TurnDecides, InLoop

LEMMA TurnNext == SeenInv /\ [Next]_vars => TurnDecides'
<1> SUFFICES ASSUME SeenInv, [Next]_vars, quiet PROVE TurnDecides'
  BY QuietConstant DEF TurnDecides
<1>0. Typed /\ TurnDecides /\ quiet' = quiet
  BY QuietConstant DEF SeenInv
<1>1. ASSUME NEW v \in Value, Store(v) PROVE TurnDecides'
  <2>1. observers' = observers /\ loop'.pc = "visit" /\ loop'.at = 1 /\ ~InLoop
    BY <1>1 DEF Store, StartLoop, InLoop
  <2>2. \A i \in 1..Len(observers) : UpToDate(observers[i].script, observers[i].method)
    BY <1>0, <2>1 DEF TurnDecides
  <2>3. ASSUME NEW i \in 1..Len(observers)
        PROVE  OneBehind(observers[i].script, observers[i].method)'
    <3>1. PICK s, m : s = observers[i].script /\ m = observers[i].method
      OBVIOUS
    <3>2. OneBehind(s, m)'
      BY <1>0, <1>1, <2>2, <3>1, BehindAtStore
    <3>3. QED
      BY <2>1, <3>1, <3>2
  <2>4. QED
    BY <2>1, <2>3 DEF TurnDecides, InLoop
<1>2. CASE Visit
  BY <1>0, <1>2, TurnAtVisit
<1>3. CASE Raise
  BY <1>0, <1>3, TurnAtRaise
<1>4. CASE EndLoop
  <2>1. /\ InLoop /\ loop.slots = observers /\ loop.at > Len(loop.slots) /\ loop'.pc = "idle"
        /\ UNCHANGED <<history, observers, queue, running, seen>>
        /\ loop.at \in Nat /\ Len(observers) \in Nat
    BY <1>0, <1>4
       DEF EndLoop, NotLooping, InLoop, SeenInv, SlotsAreObservers, Typed, TypeOK, Loop
  <2>2. \A i \in 1..Len(observers) : ~(i >= loop.at)
    BY <2>1
  <2>3. \A i \in 1..Len(observers) : UpToDate(observers[i].script, observers[i].method)
    BY <1>0, <2>1, <2>2 DEF TurnDecides
  <2>4. \A s, m : UpToDate(s, m)' = UpToDate(s, m)
    BY <2>1 DEF UpToDate, Settled, Current, Awaiting
  <2>5. QED
    BY <2>1, <2>3, <2>4 DEF TurnDecides, InLoop
<1>5. CASE Subscription
  <2>1. loop.pc = "idle"
    BY <1>0, <1>5, QuietSubscriptionIdle
  <2>2. QED
    BY <1>0, <1>5, <2>1, TurnAtSubscribe, TurnAtRemove
       DEF Subscription, Unsubscribe, UnsubscribeScript
<1>6. ASSUME NEW s \in Script, Clear(s) PROVE TurnDecides'
  <2>1. history' = <<>> /\ UNCHANGED <<observers, loop>>
    BY <1>6 DEF Clear
  <2>2. Len(<<>>) = 0
    OBVIOUS
  <2>3. \A t, n : UpToDate(t, n)' /\ OneBehind(t, n)'
    BY <2>1, <2>2 DEF UpToDate, OneBehind
  <2>4. QED
    BY <2>1, <2>3 DEF TurnDecides
<1>7. ASSUME NEW s \in Script, StartCallback(s) PROVE TurnDecides'
  BY <1>0, <1>7, KeptAtStart, TurnKept DEF StartCallback
<1>8. ASSUME NEW s \in Script, TakeLast(s) PROVE TurnDecides'
  BY <1>0, <1>8, KeptAtTake, TurnKept DEF TakeLast
<1>9. ASSUME NEW s \in Script, UseLast(s) PROVE TurnDecides'
  BY <1>0, <1>9, KeptAtUse, TurnKept DEF UseLast
<1>10. CASE UNCHANGED vars
  <2>1. \A s, m : UpToDate(s, m)' = UpToDate(s, m) /\ OneBehind(s, m)' = OneBehind(s, m)
    BY <1>10 DEF vars, UpToDate, OneBehind, Settled, Current, Awaiting
  <2>2. QED
    BY <1>0, <1>10, <2>1 DEF vars, TurnDecides, InLoop
<1>11. QED
  BY <1>1, <1>2, <1>3, <1>4, <1>5, <1>6, <1>7, <1>8, <1>9, <1>10 DEF Next, LoopStep, Overlap

\* Unless a script subscribes or unsubscribes during an announcement, or two do so at once,
\* what its callback last read is the value of the property as soon as nothing is under
\* way, for every history length (setValue, callObservers, CObserver::call, CCallerSingle::call).
THEOREM SeenStaysCurrent == Spec => []SeenIsCurrent
<1>1. Init => SeenInv
  BY InitTyped DEF Init, SeenInv, SlotsAreObservers, TurnDecides, InLoop, NotLooping
<1>2. SeenInv /\ [Next]_vars => SeenInv'
  BY NextTyped, SlotsNext, TurnNext DEF SeenInv
<1>3. SeenInv => SeenIsCurrent
  <2> SUFFICES ASSUME SeenInv, quiet, loop.pc = "idle",
                      NEW i \in 1..Len(observers), NEW s, NEW m,
                      s = observers[i].script, m = observers[i].method,
                      ~Pending(s, m), seen[s][m] \in Value, history # <<>>
               PROVE  seen[s][m] = history[1].value
    BY DEF SeenIsCurrent, Subscribed
  <2>1. UpToDate(s, m)
    BY DEF SeenInv, TurnDecides, InLoop
  <2>2. Current(s, m) = seen[s][m] /\ ~Awaiting(s, m)
    BY DEF Current, Awaiting, Pending, NotRunning
  <2>3. QED
    BY <2>1, <2>2 DEF UpToDate, Settled
<1>4. QED
  BY <1>1, <1>2, <1>3, PTL DEF Spec
=============================================================================
