----------------------------- MODULE ScriptLifeProofs -----------------------------
(***************************************************************************)
(* Theorems about ScriptLife, for any number of file events and values.    *)
(***************************************************************************)
EXTENDS ScriptLife, FiniteSetTheorems, TLAPS

ObjectState ==
  [pc : Point, running : BOOLEAN, queue : 0..MaxNotices,
   callers : {"unset", "set", "deleted"}, freed : BOOLEAN]

-----------------------------------------------------------------------------
(***************************************************************************)
(* The invariant that needs no discipline.                                 *)
(***************************************************************************)

\* Where the main thread stands between an event it has taken and the object it makes for it.
Due == {"unsubscribe", "delete", "stop", "join", "erase", "new"}

\* Each object answers an event, so that there are enough numbers.
Counted == made + events + (IF main \in Due THEN 1 ELSE 0) <= happened

\* m_scripts holds the last object, except between erase() and push_back().
Placed ==
  /\ main \in {"idle", "unsubscribe", "delete", "stop", "join", "erase"} => current = made
  /\ main \in {"new", "assign", "push"} => current = 0
  /\ main \in {"unsubscribe", "delete", "stop", "join", "erase", "assign", "push"} => made # 0

\* The last object has been joined, and the next one is not there yet.
Gone == main \in {"erase", "new"}

\* Only the last object has a thread that may still run.
Lives ==
  \A k \in Object :
    /\ k > made => object[k].pc = "none" /\ ~object[k].freed
    /\ k = made /\ ~Gone => object[k].pc # "none" /\ ~object[k].freed
    /\ k < made \/ (k = made /\ Gone) => object[k].pc = "ended"

\* No object is told more than has been announced.
Queued == \A k \in Object : object[k].queue + (IF mqtt = k THEN 1 ELSE 0) <= notices

Typed == TypeOK /\ Counted /\ Placed /\ Lives /\ Queued

-----------------------------------------------------------------------------
(***************************************************************************)
(* The invariant of a calm behaviour.                                      *)
(***************************************************************************)
CalmInv ==
  calm =>
    /\ ~ub
    /\ mqtt # 0 => main = "idle" /\ mqtt = made
    /\ observers \subseteq {made}
    /\ main \notin {"idle", "unsubscribe"} => observers = {}
    /\ main \in {"idle", "push"} /\ made # 0 => object[made].callers = "set"
    /\ main \in {"unsubscribe", "delete", "stop"} => object[made].pc \in {"sleep", "ended"}
    /\ main = "join" => /\ object[made].pc \in {"sleep", "while", "deinitialize", "ended"}
                        /\ ~object[made].running

-----------------------------------------------------------------------------
(***************************************************************************)
(* The objects.                                                            *)
(***************************************************************************)

\* The objects are functions of their numbers, which are natural.
LEMMA ObjectFacts ==
  ASSUME Typed
  PROVE  /\ MaxEvents \in Nat /\ MaxNotices \in Nat
         /\ object \in [Object -> ObjectState]
         /\ \A k \in Object : object[k] \in ObjectState /\ k \in Nat /\ 1 <= k
         /\ made \in Nat /\ current \in Nat /\ mqtt \in Nat /\ events \in Nat /\ happened \in Nat
         /\ notices \in Nat
         /\ made # 0 => made \in Object
         /\ main \in Due => made + 1 \in Object
BY ScriptLifeAssumption DEF Typed, TypeOK, ObjectState, Object, Counted

\* What a change of one object does to all.
LEMMA OneObject ==
  ASSUME Typed, NEW k \in Object, NEW r \in ObjectState, object' = [object EXCEPT ![k] = r]
  PROVE  /\ object' \in [Object -> ObjectState]
         /\ object'[k] = r
         /\ \A j \in Object : j # k => object'[j] = object[j]
BY ObjectFacts

\* The objects after a step that keeps or shortens the queue of one of them, does not free it and
\* neither starts it nor brings it back to life.
LEMMA Changed ==
  ASSUME Typed, NEW k \in Object, NEW r \in ObjectState, object' = [object EXCEPT ![k] = r],
         r.queue <= object[k].queue, r.freed = object[k].freed,
         r.pc # object[k].pc => object[k].pc \notin {"none", "ended"} /\ r.pc # "none",
         UNCHANGED <<made, mqtt, notices>>, Gone' <=> Gone
  PROVE  object' \in [Object -> ObjectState] /\ Lives' /\ Queued'
<1>1. /\ object' \in [Object -> ObjectState] /\ object'[k] = r
      /\ \A j \in Object : j # k => object'[j] = object[j]
  BY OneObject
<1>2. object[k] \in ObjectState
  BY ObjectFacts
<1>3. Lives'
  BY <1>1, <1>2 DEF Typed, Lives
<1>4. Queued'
  <2>1. r.queue \in Nat /\ object[k].queue \in Nat /\ notices \in Nat
    BY <1>2, ObjectFacts DEF ObjectState
  <2>2. SUFFICES ASSUME NEW j \in Object
                 PROVE  object'[j].queue + (IF mqtt = j THEN 1 ELSE 0) <= notices
    BY DEF Queued
  <2>3. object[j].queue + (IF mqtt = j THEN 1 ELSE 0) <= notices
    BY DEF Typed, Queued
  <2>4. CASE j = k
    BY <1>1, <2>1, <2>3, <2>4
  <2>5. CASE j # k
    BY <1>1, <2>3, <2>5
  <2>6. QED
    BY <2>4, <2>5
<1>5. QED
  BY <1>1, <1>3, <1>4

-----------------------------------------------------------------------------
(***************************************************************************)
(* The steps keep Typed.                                                   *)
(***************************************************************************)
LEMMA InitTyped == Init => Typed
<1> SUFFICES ASSUME Init PROVE Typed
  OBVIOUS
<1>1. MaxEvents \in Nat /\ MaxNotices \in Nat
  BY ScriptLifeAssumption
<1>2. Unborn \in ObjectState /\ Unborn.pc = "none" /\ Unborn.queue = 0 /\ ~Unborn.freed
  BY <1>1 DEF Unborn, ObjectState, Point
<1>3. object = [k \in Object |-> Unborn]
  BY DEF Init
<1> HIDE DEF Unborn
<1>4. TypeOK
  <2>1. object \in [Object -> ObjectState]
    BY <1>2, <1>3
  <2>2. /\ events \in 0..MaxEvents /\ happened \in 0..MaxEvents /\ main \in MainPoint
        /\ current \in 0..MaxEvents /\ made \in 0..MaxEvents /\ mqtt \in 0..MaxEvents
        /\ notices \in 0..MaxNotices
    BY <1>1 DEF Init, MainPoint
  <2>3. observers \in SUBSET Object /\ ub \in BOOLEAN /\ calm \in BOOLEAN
    BY DEF Init
  <2>4. QED
    BY <2>1, <2>2, <2>3, Zenon DEF TypeOK, ObjectState
<1>5. Lives
  BY <1>1, <1>2, <1>3 DEF Init, Lives, Object, Gone
<1>6. Queued
  BY <1>1, <1>2, <1>3 DEF Init, Queued, Object
<1>7. Counted /\ Placed
  BY DEF Init, Counted, Placed, Due
<1>8. QED
  BY <1>4, <1>5, <1>6, <1>7 DEF Typed

\* An event for the file, and the first step for one.
LEMMA EventTyped ==
  ASSUME Typed, FileEvent \/ Attach
  PROVE  Typed'
<1>1. UNCHANGED <<current, made, object, observers, mqtt, notices, ub, calm>>
  BY DEF FileEvent, Attach
<1>2. CASE FileEvent
  <2>1. /\ events' = events + 1 /\ happened' = happened + 1 /\ happened < MaxEvents
        /\ main' = main
    BY <1>2 DEF FileEvent
  <2>2. Counted' /\ events' \in 0..MaxEvents /\ happened' \in 0..MaxEvents
    BY <1>1, <2>1, ObjectFacts DEF Counted, Typed
  <2>3. TypeOK'
    BY <1>1, <2>1, <2>2 DEF TypeOK, Typed
  <2>4. Placed' /\ Lives' /\ Queued'
    BY <1>1, <2>1 DEF Typed, Placed, Lives, Queued, Gone
  <2>5. QED
    BY <2>2, <2>3, <2>4 DEF Typed
<1>3. CASE Attach
  <2>1. /\ main = "idle" /\ events' = events - 1 /\ events > 0 /\ happened' = happened
        /\ main' = IF current = 0 THEN "new" ELSE "unsubscribe"
    BY <1>3 DEF Attach
  <2>2. Counted' /\ events' \in 0..MaxEvents
    BY <1>1, <2>1, ObjectFacts DEF Counted, Typed, TypeOK, Due
  <2>3. TypeOK'
    BY <1>1, <2>1, <2>2 DEF TypeOK, Typed, MainPoint
  <2>4. Placed'
    BY <1>1, <2>1 DEF Typed, Placed
  <2>5. current = made /\ made \in Nat
    BY <2>1, ObjectFacts DEF Typed, Placed
  <2>6. Lives'
    BY <1>1, <2>1, <2>5, ObjectFacts DEF Typed, Lives, Gone
  <2>7. Queued'
    BY <1>1 DEF Typed, Queued
  <2>8. QED
    BY <2>2, <2>3, <2>4, <2>6, <2>7 DEF Typed
<1>4. QED
  BY <1>2, <1>3

\* The destructor, before the join.
LEMMA DestroyTyped ==
  ASSUME Typed, Unsubscribe \/ DeleteCallers \/ StopThread
  PROVE  Typed'
<1>1. /\ UNCHANGED <<events, happened, current, made, mqtt, notices, ub, calm>>
      /\ main \in {"unsubscribe", "delete", "stop"} /\ main' \in {"delete", "stop", "join"}
      /\ observers' \in SUBSET Object
  BY DEF Unsubscribe, DeleteCallers, StopThread, MainStep, Typed, TypeOK
<1>2. current = made /\ current \in Object
  BY <1>1, ObjectFacts DEF Typed, Placed
<1>3. ~Gone /\ ~Gone'
  BY <1>1 DEF Gone
<1>4. object' \in [Object -> ObjectState] /\ Lives' /\ Queued'
  <2>1. object[current] \in ObjectState /\ 0 \in 0..MaxNotices /\ object[current].queue \in Nat
    BY <1>2, ObjectFacts DEF ObjectState
  <2>2. CASE Unsubscribe
    <3>1. object' = object
      BY <2>2 DEF Unsubscribe
    <3>2. Lives' /\ Queued'
      BY <1>1, <1>3, <3>1 DEF Typed, Lives, Queued
    <3>3. object \in [Object -> ObjectState]
      BY ObjectFacts
    <3>4. QED
      BY <3>1, <3>2, <3>3
  <2>3. CASE DeleteCallers
    <3> DEFINE r == [object[current] EXCEPT !.callers = "deleted", !.queue = 0]
    <3>1. object' = [object EXCEPT ![current] = r]
      BY <2>3 DEF DeleteCallers
    <3>2. r \in ObjectState /\ r.queue = 0 /\ r.pc = object[current].pc
          /\ r.freed = object[current].freed
      BY <2>1 DEF ObjectState
    <3> HIDE DEF r
    <3>3. r.queue <= object[current].queue
      BY <2>1, <3>2
    <3>4. QED
      BY <1>1, <1>2, <1>3, <3>1, <3>2, <3>3, Changed
  <2>4. CASE StopThread
    <3> DEFINE r == [object[current] EXCEPT !.running = FALSE]
    <3>1. object' = [object EXCEPT ![current] = r]
      BY <2>4 DEF StopThread
    <3>2. r \in ObjectState /\ r.queue = object[current].queue /\ r.pc = object[current].pc
          /\ r.freed = object[current].freed
      BY <2>1 DEF ObjectState
    <3> HIDE DEF r
    <3>3. r.queue <= object[current].queue
      BY <2>1, <3>2
    <3>4. QED
      BY <1>1, <1>2, <1>3, <3>1, <3>2, <3>3, Changed
  <2>5. QED
    BY <2>2, <2>3, <2>4
<1>5. TypeOK'
  BY <1>1, <1>4 DEF Typed, TypeOK, ObjectState, MainPoint
<1>6. Counted'
  BY <1>1 DEF Typed, Counted, Due
<1>7. Placed'
  BY <1>1 DEF Typed, Placed
<1>8. QED
  BY <1>4, <1>5, <1>6, <1>7 DEF Typed

\* The join, and detachScript.
LEMMA JoinTyped ==
  ASSUME Typed, Join \/ Erase
  PROVE  Typed'
<1>1. UNCHANGED <<events, happened, made, observers, mqtt, notices, ub, calm>>
  BY DEF Join, Erase
<1>2. current = made /\ current \in Object /\ main \in {"join", "erase"}
  BY ObjectFacts DEF Typed, Placed, Join, Erase, MainStep
<1>3. CASE Join
  <2> DEFINE r == [object[current] EXCEPT !.freed = TRUE]
  <2>1. /\ main = "join" /\ main' = "erase" /\ object[current].pc = "ended" /\ current' = current
        /\ object' = [object EXCEPT ![current] = r]
    BY <1>3 DEF Join, MainStep
  <2>2. object[current] \in ObjectState
    BY <1>2, ObjectFacts
  <2>3. r \in ObjectState /\ r.queue = object[current].queue /\ r.pc = "ended"
    BY <2>1, <2>2 DEF ObjectState
  <2> HIDE DEF r
  <2>4. /\ object' \in [Object -> ObjectState] /\ object'[current] = r
        /\ \A j \in Object : j # current => object'[j] = object[j]
    BY <1>2, <2>1, <2>3, OneObject
  <2>5. TypeOK'
    BY <1>1, <2>1, <2>4 DEF Typed, TypeOK, ObjectState, MainPoint
  <2>6. Counted' /\ Placed'
    BY <1>1, <2>1 DEF Typed, Counted, Placed, Due
  <2>7. Lives'
    <3>1. \A k \in Object : k \in Nat /\ made \in Nat
      BY ObjectFacts
    <3>2. QED
      BY <1>1, <1>2, <2>1, <2>3, <2>4, <3>1 DEF Typed, Lives, Gone
  <2>8. Queued'
    BY <1>1, <2>3, <2>4 DEF Typed, Queued
  <2>9. QED
    BY <2>5, <2>6, <2>7, <2>8 DEF Typed
<1>4. CASE Erase
  <2>1. main = "erase" /\ main' = "new" /\ current' = 0 /\ object' = object
    BY <1>4 DEF Erase, MainStep
  <2>2. TypeOK'
    BY <1>1, <2>1, ObjectFacts DEF Typed, TypeOK, MainPoint
  <2>3. Counted' /\ Placed' /\ Lives' /\ Queued'
    BY <1>1, <2>1 DEF Typed, Counted, Placed, Due, Lives, Gone, Queued
  <2>4. QED
    BY <2>2, <2>3 DEF Typed
<1>5. QED
  BY <1>3, <1>4

\* The constructor: the next object has a number of its own.
LEMMA NewTyped ==
  ASSUME Typed, New
  PROVE  Typed'
<1> DEFINE k == made + 1
           r == [object[k] EXCEPT !.pc = "start"]
<1>1. /\ main = "new" /\ main' = "assign" /\ made' = k /\ object' = [object EXCEPT ![k] = r]
      /\ UNCHANGED <<events, happened, current, observers, mqtt, notices, ub, calm>>
  BY DEF New, MainStep
<1>2. k \in Object /\ made \in Nat /\ \A j \in Object : j \in Nat
  BY <1>1, ObjectFacts DEF Due
<1>3. object[k] \in ObjectState /\ ~object[k].freed
  <2>1. k > made
    BY <1>2
  <2>2. QED
    BY <1>2, <2>1, ObjectFacts DEF Typed, Lives
<1>4. r \in ObjectState /\ r.queue = object[k].queue /\ r.pc = "start" /\ ~r.freed
  BY <1>3 DEF ObjectState, Point
<1> HIDE DEF r
<1>5. /\ object' \in [Object -> ObjectState] /\ object'[k] = r
      /\ \A j \in Object : j # k => object'[j] = object[j]
  BY <1>1, <1>2, <1>4, OneObject
<1>6. made' \in 0..MaxEvents
  BY <1>1, <1>2, ObjectFacts DEF Object
<1>7. TypeOK'
  BY <1>1, <1>5, <1>6 DEF Typed, TypeOK, ObjectState, MainPoint
<1>8. Counted'
  BY <1>1, ObjectFacts DEF Typed, Counted, Due
<1>9. Placed'
  BY <1>1, <1>2 DEF Typed, Placed
<1>10. Lives'
  BY <1>1, <1>2, <1>4, <1>5 DEF Typed, Lives, Gone
<1>11. Queued'
  BY <1>1, <1>4, <1>5 DEF Typed, Queued
<1>12. QED
  BY <1>7, <1>8, <1>9, <1>10, <1>11 DEF Typed

\* The end of the constructor, and push_back().
LEMMA PushTyped ==
  ASSUME Typed, AssignCallers \/ PushBack
  PROVE  Typed'
<1>1. UNCHANGED <<events, happened, made, observers, mqtt, notices, ub, calm>>
  BY DEF AssignCallers, PushBack
<1>2. made \in Object /\ main \in {"assign", "push"} /\ current = 0
  BY ObjectFacts DEF Typed, Placed, AssignCallers, PushBack, MainStep
<1>3. CASE AssignCallers
  <2> DEFINE r == [object[made] EXCEPT !.callers = "set"]
  <2>1. /\ main = "assign" /\ main' = "push" /\ current' = current
        /\ object' = [object EXCEPT ![made] = r]
    BY <1>3 DEF AssignCallers, MainStep
  <2>2. object[made] \in ObjectState /\ object[made].queue \in Nat
    BY <1>2, ObjectFacts DEF ObjectState
  <2>3. r \in ObjectState /\ r.queue <= object[made].queue /\ r.pc = object[made].pc
        /\ r.freed = object[made].freed
    BY <2>2 DEF ObjectState
  <2>4. ~Gone /\ ~Gone'
    BY <2>1 DEF Gone
  <2> HIDE DEF r
  <2>5. object' \in [Object -> ObjectState] /\ Lives' /\ Queued'
    BY <1>1, <1>2, <2>1, <2>3, <2>4, Changed
  <2>6. TypeOK'
    BY <1>1, <2>1, <2>5 DEF Typed, TypeOK, ObjectState, MainPoint
  <2>7. Counted' /\ Placed'
    BY <1>1, <2>1 DEF Typed, Counted, Placed, Due
  <2>8. QED
    BY <2>5, <2>6, <2>7 DEF Typed
<1>4. CASE PushBack
  <2>1. main = "push" /\ main' = "idle" /\ current' = made /\ object' = object
    BY <1>4 DEF PushBack, MainStep
  <2>2. TypeOK'
    BY <1>1, <2>1 DEF Typed, TypeOK, MainPoint
  <2>3. Counted' /\ Placed' /\ Lives' /\ Queued'
    BY <1>1, <2>1 DEF Typed, Counted, Placed, Due, Lives, Gone, Queued
  <2>4. QED
    BY <2>2, <2>3 DEF Typed
<1>5. QED
  BY <1>3, <1>4

\* The thread of an object takes the object from one point to another, may take a name out of its
\* queue and may subscribe; or something goes wrong.
ThreadMoves(k) ==
  \/ /\ object[k].pc \notin {"none", "ended"}
     /\ \E r \in ObjectState :
          /\ object' = [object EXCEPT ![k] = r]
          /\ r.queue <= object[k].queue /\ r.freed = object[k].freed
          /\ r.callers = object[k].callers /\ r.pc # "none"
     /\ observers' \in {observers, observers \cup {k}}
  \/ UNCHANGED <<object, observers>>

LEMMA ThreadDoesThat ==
  ASSUME Typed, NEW k \in Object, Thread(k)
  PROVE  ThreadMoves(k) /\ UNCHANGED Rest /\ ub' \in BOOLEAN
<1> DEFINE s == object[k]
           Moved(r) == /\ object' = [object EXCEPT ![k] = r]
                       /\ r \in ObjectState /\ r.queue <= s.queue /\ r.freed = s.freed
                       /\ r.callers = s.callers /\ r.pc # "none"
<1>1. s \in ObjectState /\ s.queue \in Nat /\ s.queue \in 0..MaxNotices /\ MaxNotices \in Nat
      /\ ub \in BOOLEAN
  BY ObjectFacts DEF ObjectState, Typed, TypeOK
<1>2. ASSUME NEW pc \in Point \ {"none"}, GoTo(k, pc)
      PROVE  Moved([s EXCEPT !.pc = pc])
  <2> DEFINE r == [s EXCEPT !.pc = pc]
  <2>1. r \in ObjectState /\ r.queue = s.queue /\ r.freed = s.freed
        /\ r.callers = s.callers /\ r.pc = pc
    BY <1>1, <1>2 DEF ObjectState
  <2>2. object' = [object EXCEPT ![k] = r]
    BY <1>2 DEF GoTo
  <2> HIDE DEF r
  <2>3. Moved(r)
    BY <1>1, <1>2, <2>1, <2>2
  <2>4. QED
    BY <2>3 DEF r
<1>3. CASE Start(k)
  <2> DEFINE r == [s EXCEPT !.pc = "build", !.running = TRUE]
  <2>4. r \in ObjectState /\ r.queue = s.queue /\ r.freed = s.freed
        /\ r.callers = s.callers /\ r.pc = "build"
    BY <1>1 DEF ObjectState, Point
  <2>5. object' = [object EXCEPT ![k] = r]
    BY <1>3 DEF Start
  <2> HIDE DEF r
  <2>1. Moved(r)
    BY <1>1, <2>4, <2>5
  <2>2. s.pc = "start" /\ UNCHANGED <<observers, ub>>
    BY <1>3 DEF Start
  <2>3. QED
    BY <1>1, <2>1, <2>2 DEF ThreadMoves, Thread
<1>4. CASE Call(k)
  <2> DEFINE r == [s EXCEPT !.pc = IF s.queue > 0 THEN "callback" ELSE "sleep",
                            !.queue = IF @ > 0 THEN @ - 1 ELSE 0]
  <2>1. (IF s.queue > 0 THEN s.queue - 1 ELSE 0) \in 0..MaxNotices
        /\ (IF s.queue > 0 THEN s.queue - 1 ELSE 0) <= s.queue
    BY <1>1
  <2>2. r \in ObjectState /\ r.queue <= s.queue /\ r.freed = s.freed
        /\ r.callers = s.callers /\ r.pc # "none"
    BY <1>1, <2>1 DEF ObjectState, Point
  <2>3. s.pc = "call"
    BY <1>4 DEF Call
  <2>4. \/ object' = [object EXCEPT ![k] = r] /\ UNCHANGED <<observers, ub>>
        \/ Harm
    BY <1>4 DEF Call
  <2> HIDE DEF r
  <2>5. QED
    BY <1>1, <2>2, <2>3, <2>4 DEF ThreadMoves, Thread, Harm
<1>5. CASE \/ Build(k) \/ RunCode(k, "initialize", "while") \/ RunCode(k, "callback", "rest")
           \/ While(k) \/ CallOthers(k) \/ WakeUp(k) \/ Deinitialize(k)
  <2>1. \/ /\ s.pc \notin {"none", "ended"}
           /\ \E pc \in Point \ {"none"} : GoTo(k, pc)
           /\ observers' \in {observers, observers \cup {k}} /\ ub' = ub
        \/ Harm
    BY <1>5 DEF Build, RunCode, While, CallOthers, WakeUp, Deinitialize, Point
  <2>2. QED
    BY <1>1, <1>2, <2>1 DEF ThreadMoves, Thread, Harm
<1>6. QED
  BY <1>3, <1>4, <1>5 DEF Thread

LEMMA ThreadTyped ==
  ASSUME Typed, NEW k \in Object, Thread(k)
  PROVE  Typed'
<1>1. /\ UNCHANGED <<events, happened, main, current, made, mqtt, notices, calm>>
      /\ ThreadMoves(k) /\ ub' \in BOOLEAN
  BY ThreadDoesThat DEF Rest
<1>2. Gone' <=> Gone
  BY <1>1 DEF Gone
<1>3. CASE UNCHANGED <<object, observers>>
  <2>1. TypeOK'
    BY <1>1, <1>3 DEF Typed, TypeOK
  <2>2. Counted' /\ Placed' /\ Lives' /\ Queued'
    BY <1>1, <1>2, <1>3 DEF Typed, Counted, Placed, Due, Lives, Queued
  <2>3. QED
    BY <2>1, <2>2 DEF Typed
<1>4. CASE ~UNCHANGED <<object, observers>>
  <2>1. PICK r \in ObjectState :
          /\ object' = [object EXCEPT ![k] = r]
          /\ r.queue <= object[k].queue /\ r.freed = object[k].freed /\ r.pc # "none"
    BY <1>1, <1>4 DEF ThreadMoves
  <2>2. object[k].pc \notin {"none", "ended"} /\ observers' \in {observers, observers \cup {k}}
    BY <1>1, <1>4 DEF ThreadMoves
  <2>3. object' \in [Object -> ObjectState] /\ Lives' /\ Queued'
    BY <1>1, <1>2, <2>1, <2>2, Changed
  <2>4. observers' \in SUBSET Object
    BY <2>2 DEF Typed, TypeOK
  <2>5. TypeOK'
    BY <1>1, <2>3, <2>4 DEF Typed, TypeOK, ObjectState
  <2>6. Counted' /\ Placed'
    BY <1>1 DEF Typed, Counted, Placed, Due
  <2>7. QED
    BY <2>3, <2>5, <2>6 DEF Typed
<1>5. QED
  BY <1>3, <1>4

\* The MQTT thread.
LEMMA MqttTyped ==
  ASSUME Typed, LookUp \/ Append
  PROVE  Typed'
<1>1. UNCHANGED <<events, happened, main, current, made, observers, calm>>
  BY DEF LookUp, Append, Keep
<1>2. Counted' /\ Placed' /\ (Gone' <=> Gone)
  BY <1>1 DEF Typed, Counted, Placed, Due, Gone
<1>3. CASE LookUp
  <2>1. /\ object' = object /\ notices' = notices + 1 /\ notices < MaxNotices /\ mqtt = 0
        /\ mqtt' \in {0, current} /\ ub' \in {ub, TRUE}
    BY <1>3 DEF LookUp
  <2>6. notices' \in 0..MaxNotices /\ mqtt' \in 0..MaxEvents
    BY <2>1, ScriptLifeAssumption DEF Typed, TypeOK
  <2>2. TypeOK'
    BY <1>1, <2>1, <2>6 DEF Typed, TypeOK
  <2>3. Lives'
    BY <1>1, <1>2, <2>1 DEF Typed, Lives
  <2>4. Queued'
    <3>1. ASSUME NEW k \in Object
          PROVE  object[k].queue + (IF mqtt' = k THEN 1 ELSE 0) <= notices + 1
      <4>1. object[k].queue <= notices /\ object[k].queue \in Nat /\ notices \in Nat
        BY <2>1, ObjectFacts DEF Typed, Queued, ObjectState
      <4>2. QED
        BY <4>1
    <3>2. QED
      BY <2>1, <3>1 DEF Queued
  <2>5. QED
    BY <1>2, <2>2, <2>3, <2>4 DEF Typed
<1>4. CASE Append
  <2>1. mqtt # 0 /\ mqtt' = 0 /\ notices' = notices /\ ub' \in {ub, TRUE}
    BY <1>4 DEF Append
  <2>2. mqtt \in Object
    BY <2>1 DEF Typed, TypeOK, Object
  <2>3. /\ object[mqtt] \in ObjectState /\ object[mqtt].queue \in Nat /\ notices \in 0..MaxNotices
        /\ MaxNotices \in Nat
    BY <2>2, ObjectFacts DEF ObjectState, Typed, TypeOK
  <2>4. object[mqtt].queue + 1 <= notices
    BY <2>2, <2>3 DEF Typed, Queued
  <2>8. 0 \in 0..MaxEvents
    BY ScriptLifeAssumption
  <2>5. CASE object' = object
    <3>1. TypeOK'
      BY <1>1, <2>1, <2>5, <2>8 DEF Typed, TypeOK
    <3>2. Lives'
      BY <1>1, <1>2, <2>5 DEF Typed, Lives
    <3>3. Queued'
      <4>1. ASSUME NEW k \in Object
            PROVE  object[k].queue <= notices
        <5>1. /\ object[k].queue \in Nat /\ notices \in Nat
              /\ object[k].queue + (IF mqtt = k THEN 1 ELSE 0) <= notices
          BY ObjectFacts DEF Typed, Queued, ObjectState
        <5>2. QED
          BY <5>1
      <4>2. \A k \in Object : k # 0 /\ object[k].queue \in Nat
        BY ObjectFacts DEF ObjectState
      <4>3. QED
        BY <2>1, <2>5, <4>1, <4>2 DEF Queued
    <3>4. QED
      BY <1>2, <3>1, <3>2, <3>3 DEF Typed
  <2>6. CASE object' # object
    <3> DEFINE r == [object[mqtt] EXCEPT !.queue = @ + 1]
    <3>1. object' = [object EXCEPT ![mqtt] = r]
      BY <1>4, <2>6 DEF Append
    <3>2. object[mqtt].queue + 1 \in 0..MaxNotices
      BY <2>3, <2>4
    <3>3. r \in ObjectState /\ r.queue = object[mqtt].queue + 1 /\ r.pc = object[mqtt].pc
          /\ r.freed = object[mqtt].freed
      BY <2>3, <3>2 DEF ObjectState
    <3> HIDE DEF r
    <3>4. /\ object' \in [Object -> ObjectState] /\ object'[mqtt] = r
          /\ \A j \in Object : j # mqtt => object'[j] = object[j]
      BY <2>2, <3>1, <3>3, OneObject
    <3>5. TypeOK'
      BY <1>1, <2>1, <2>8, <3>4 DEF Typed, TypeOK, ObjectState
    <3>6. Lives'
      BY <1>1, <1>2, <3>3, <3>4 DEF Typed, Lives
    <3>7. Queued'
      <4>1. ASSUME NEW k \in Object
            PROVE  object'[k].queue + (IF mqtt' = k THEN 1 ELSE 0) <= notices
        <5>1. k # 0 /\ object[k].queue \in Nat
          BY ObjectFacts DEF ObjectState
        <5>2. CASE k = mqtt
          BY <2>1, <2>3, <2>4, <3>3, <3>4, <5>1, <5>2
        <5>3. CASE k # mqtt
          <6>1. object[k].queue + 0 <= notices
            BY <5>3 DEF Typed, Queued
          <6>2. QED
            BY <2>1, <3>4, <5>1, <5>3, <6>1
        <5>4. QED
          BY <5>2, <5>3
      <4>2. QED
        BY <2>1, <4>1 DEF Queued
    <3>8. QED
      BY <1>2, <3>5, <3>6, <3>7 DEF Typed
  <2>7. QED
    BY <2>5, <2>6
<1>5. QED
  BY <1>3, <1>4

LEMMA StepTyped == Typed /\ [Next]_vars => Typed'
<1> SUFFICES ASSUME Typed, [Next]_vars PROVE Typed'
  OBVIOUS
<1>1. CASE UNCHANGED vars
  BY <1>1 DEF vars, Typed, TypeOK, Counted, Placed, Due, Lives, Gone, Queued
<1>2. CASE Next
  BY <1>2, EventTyped, DestroyTyped, JoinTyped, NewTyped, PushTyped, ThreadTyped, MqttTyped
  DEF Next, Main, Destroy, Construct, Mqtt
<1>3. QED
  BY <1>1, <1>2

-----------------------------------------------------------------------------
(***************************************************************************)
(* The steps keep CalmInv.                                                 *)
(***************************************************************************)

\* Nothing has subscribed and nobody is looked up unless the script is there.
LEMMA CalmFacts ==
  ASSUME Typed, CalmInv, calm
  PROVE  /\ made = 0 => observers = {} /\ mqtt = 0
         /\ main # "idle" => mqtt = 0
         /\ observers # {} => made \in Object /\ main \in {"idle", "unsubscribe"}
<1>1. observers \subseteq Object /\ 0 \notin Object
  BY ScriptLifeAssumption DEF Typed, TypeOK, Object
<1>2. /\ observers \subseteq {made} /\ (mqtt # 0 => main = "idle" /\ mqtt = made)
      /\ main \notin {"idle", "unsubscribe"} => observers = {}
  BY DEF CalmInv
<1>3. QED
  BY <1>1, <1>2

\* The main thread.
LEMMA MainCalm ==
  ASSUME Typed, CalmInv, calm, Main
  PROVE  CalmInv'
<1>1. UNCHANGED <<mqtt, ub, calm>>
  BY DEF Main, Attach, Destroy, Construct, Unsubscribe, DeleteCallers, StopThread, Join, Erase,
         New, AssignCallers, PushBack
<1>2. CASE Attach
  <2>1. /\ main = "idle" /\ main' \in {"new", "unsubscribe"} /\ UNCHANGED <<made, object, observers>>
        /\ main' = "unsubscribe" => current # 0 /\ Resting(current) /\ mqtt = 0
        /\ main' = "new" => current = 0
    BY <1>2 DEF Attach, MayDestroy
  <2>2. current = made
    BY <2>1 DEF Typed, Placed
  <2>3. mqtt = 0 /\ (main' = "new" => observers = {})
    BY <2>1, <2>2, CalmFacts
  <2>4. main' = "unsubscribe" => object[made].pc \in {"sleep", "ended"}
    BY <2>1, <2>2 DEF Resting
  <2>5. QED
    BY <1>1, <2>1, <2>3, <2>4 DEF CalmInv
<1>3. CASE Unsubscribe \/ DeleteCallers \/ StopThread
  <2>1. /\ main \in {"unsubscribe", "delete", "stop"} /\ main' \in {"delete", "stop", "join"}
        /\ UNCHANGED made /\ observers' \in {observers, {}}
        /\ main = "unsubscribe" => observers' = {}
        /\ main' = "join" => main = "stop"
    BY <1>3 DEF Unsubscribe, DeleteCallers, StopThread, MainStep
  <2>2. made \in Object /\ current = made /\ object[made] \in ObjectState
    BY <2>1, ObjectFacts DEF Typed, Placed
  <2>3. observers' = {} /\ mqtt = 0
    BY <2>1 DEF CalmInv
  <2>4. object'[made].pc = object[made].pc
    <3>1. CASE Unsubscribe
      BY <3>1 DEF Unsubscribe
    <3>2. CASE DeleteCallers
      BY <2>2, <3>2, ObjectFacts DEF DeleteCallers, ObjectState
    <3>3. CASE StopThread
      BY <2>2, <3>3, ObjectFacts DEF StopThread, ObjectState
    <3>4. QED
      BY <1>3, <3>1, <3>2, <3>3
  <2>5. main' = "join" => ~object'[made].running
    <3>1. main' = "join" => StopThread
      BY <1>3 DEF Unsubscribe, DeleteCallers, StopThread, MainStep
    <3>2. StopThread => ~object'[made].running
      BY <2>2, ObjectFacts DEF StopThread, ObjectState
    <3>3. QED
      BY <3>1, <3>2
  <2>6. object[made].pc \in {"sleep", "ended"}
    BY <2>1 DEF CalmInv
  <2>7. QED
    BY <1>1, <2>1, <2>3, <2>4, <2>5, <2>6 DEF CalmInv
<1>4. CASE Join \/ Erase \/ New
  <2>1. /\ main \in {"join", "erase", "new"} /\ main' \in {"erase", "new", "assign"}
        /\ UNCHANGED observers
    BY <1>4 DEF Join, Erase, New, MainStep
  <2>2. observers = {} /\ mqtt = 0
    BY <2>1 DEF CalmInv
  <2>3. QED
    BY <1>1, <2>1, <2>2 DEF CalmInv
<1>5. CASE AssignCallers \/ PushBack
  <2>1. /\ main \in {"assign", "push"} /\ main' \in {"push", "idle"} /\ UNCHANGED <<observers, made>>
        /\ PushBack => main = "push" /\ object' = object
        /\ AssignCallers => main' = "push" /\ object' = [object EXCEPT ![made].callers = "set"]
    BY <1>5 DEF AssignCallers, PushBack, MainStep
  <2>2. observers = {} /\ mqtt = 0
    BY <2>1 DEF CalmInv
  <2>3. made \in Object /\ object[made] \in ObjectState
    BY <2>1, ObjectFacts DEF Typed, Placed
  <2>4. AssignCallers => object'[made].callers = "set"
    BY <2>1, <2>3, ObjectFacts DEF ObjectState
  <2>5. PushBack => object'[made].callers = "set"
    BY <2>1, <2>3, ObjectFacts DEF CalmInv
  <2>6. QED
    BY <1>1, <1>5, <2>1, <2>2, <2>4, <2>5 DEF CalmInv
<1>6. QED
  BY <1>2, <1>3, <1>4, <1>5 DEF Main, Destroy, Construct

\* Only the thread of the last object moves.
LEMMA LastMoves ==
  ASSUME Typed, NEW k \in Object, Thread(k)
  PROVE  object[k].pc \notin {"none", "ended"} /\ k = made /\ made # 0 /\ ~Gone
<1>1. object[k].pc \notin {"none", "ended"}
  BY DEF Thread, Start, Build, RunCode, While, Call, CallOthers, WakeUp, Deinitialize
<1>2. k \in Nat /\ made \in Nat /\ 1 <= k
  BY ObjectFacts
<1>3. k > made => object[k].pc = "none"
  BY DEF Typed, Lives
<1>4. k < made \/ (k = made /\ Gone) => object[k].pc = "ended"
  BY DEF Typed, Lives
<1>5. QED
  BY <1>1, <1>2, <1>3, <1>4

\* The thread of an object, which is the last one: its callers are there, or it is on its way out.
LEMMA ThreadCalm ==
  ASSUME Typed, CalmInv, calm, NEW k \in Object, Thread(k)
  PROVE  CalmInv'
<1>1. UNCHANGED <<main, made, mqtt, calm>> /\ ThreadMoves(k)
  BY ThreadDoesThat DEF Rest
<1>2. object[k].pc \notin {"none", "ended"}
  BY LastMoves
<1>3. k = made /\ made # 0 /\ ~Gone
  BY LastMoves
<1>4. main \in {"idle", "join"}
  BY <1>3 DEF Thread, OthersMayStep, Short, Gone, Typed, TypeOK, MainPoint
<1>5. object[k] \in ObjectState /\ ~ub
  BY ObjectFacts DEF CalmInv
<1>6. CASE main = "idle"
  <2>1. object[k].callers = "set"
    BY <1>3, <1>6 DEF CalmInv
  <2>2. ub' = ub
    BY <2>1 DEF Thread, Start, Build, RunCode, While, Call, CallOthers, WakeUp, Deinitialize
  <2>3. object'[k].callers = "set"
    BY <1>1, <2>1, ObjectFacts DEF ThreadMoves
  <2>4. observers' \subseteq {made}
    BY <1>1, <1>3 DEF ThreadMoves, CalmInv
  <2>5. QED
    BY <1>1, <1>3, <1>5, <1>6, <2>2, <2>3, <2>4 DEF CalmInv
<1>7. CASE main = "join"
  <2>1. object[k].pc \in {"sleep", "while", "deinitialize"} /\ ~object[k].running
    BY <1>2, <1>3, <1>7 DEF CalmInv
  <2>2. /\ UNCHANGED <<observers, ub>>
        /\ \E pc \in {"while", "deinitialize", "ended"} :
             object' = [object EXCEPT ![k].pc = pc]
    BY <2>1 DEF Thread, Start, Build, RunCode, While, Call, CallOthers, WakeUp, Deinitialize, GoTo
  <2>3. object'[k].pc \in {"while", "deinitialize", "ended"} /\ ~object'[k].running
    BY <1>5, <2>1, <2>2, ObjectFacts DEF ObjectState
  <2>4. QED
    BY <1>1, <1>3, <1>5, <1>7, <2>2, <2>3 DEF CalmInv
<1>8. QED
  BY <1>4, <1>6, <1>7

\* The MQTT thread finds the object, and finds it whole.
LEMMA MqttCalm ==
  ASSUME Typed, CalmInv, calm, Mqtt
  PROVE  CalmInv'
<1>1. UNCHANGED <<main, made, observers, calm, current>> /\ ~Short
  BY DEF Mqtt, LookUp, Append, Keep, OthersMayStep
<1>2. CASE LookUp
  <2>1. observers # {} /\ object' = object
    BY <1>2 DEF LookUp
  <2>2. main = "idle" /\ made \in Object
    BY <1>1, <2>1, CalmFacts DEF Short
  <2>3. current = made /\ ~object[made].freed /\ made # 0
    BY <2>2, ObjectFacts DEF Typed, Placed, Lives, Gone
  <2>4. mqtt' = made /\ ub' = ub
    BY <1>2, <2>3 DEF LookUp
  <2>5. QED
    BY <1>1, <2>1, <2>2, <2>4 DEF CalmInv
<1>3. CASE Append
  <2>1. mqtt # 0 /\ mqtt' = 0
    BY <1>3 DEF Append
  <2>2. main = "idle" /\ mqtt = made /\ made # 0
    BY <2>1 DEF CalmInv
  <2>3. made \in Object /\ object[made] \in ObjectState
    BY <2>2, ObjectFacts
  <2>4. ~object[made].freed /\ object[made].callers = "set"
    BY <2>2, <2>3 DEF CalmInv, Typed, Lives, Gone
  <2>5. object' = [object EXCEPT ![made].queue = @ + 1] /\ ub' = ub
    BY <1>3, <2>2, <2>4 DEF Append
  <2>6. object'[made].callers = "set"
    BY <2>3, <2>4, <2>5, ObjectFacts DEF ObjectState
  <2>7. QED
    BY <1>1, <2>1, <2>2, <2>5, <2>6 DEF CalmInv
<1>4. QED
  BY <1>2, <1>3 DEF Mqtt

LEMMA StepCalm == Typed /\ CalmInv /\ [Next]_vars => CalmInv'
<1> SUFFICES ASSUME Typed, CalmInv, [Next]_vars PROVE CalmInv'
  OBVIOUS
<1>1. calm' = calm
  BY DEF Next, vars, FileEvent, Main, Attach, Destroy, Construct, Unsubscribe, DeleteCallers,
         StopThread, Join, Erase, New, AssignCallers, PushBack, Thread, Rest, Mqtt, LookUp,
         Append, Keep
<1>2. CASE ~calm
  BY <1>1, <1>2 DEF CalmInv
<1>3. CASE calm /\ (UNCHANGED vars \/ FileEvent)
  BY <1>3 DEF CalmInv, vars, FileEvent
<1>4. CASE calm /\ Next /\ ~FileEvent
  BY <1>4, MainCalm, ThreadCalm, MqttCalm DEF Next
<1>5. QED
  BY <1>2, <1>3, <1>4

LEMMA InitCalm == Init => CalmInv
BY DEF Init, CalmInv

-----------------------------------------------------------------------------
(***************************************************************************)
(* The steps keep Subscribed.                                              *)
(***************************************************************************)

\* Only the last two versions have observers, and from the destructor's first step to the next
\* object only the last one.
Subscribed ==
  IF main \in {"delete", "stop", "join", "erase", "new"}
  THEN observers \subseteq {made}
  ELSE observers \subseteq {made - 1, made}

\* Only the last object's thread subscribes, and Unsubscribe comes between two objects.
LEMMA StepSubscribed == Typed /\ Subscribed /\ [Next]_vars => Subscribed'
<1> SUFFICES ASSUME Typed, Subscribed, [Next]_vars PROVE Subscribed'
  OBVIOUS
<1>1. CASE UNCHANGED vars \/ FileEvent \/ Mqtt
  BY <1>1 DEF vars, FileEvent, Mqtt, LookUp, Append, Keep, Subscribed
<1>2. CASE Attach
  <2>1. main = "idle" /\ main' \in {"new", "unsubscribe"} /\ UNCHANGED <<made, observers>>
        /\ (main' = "new" => current = 0)
    BY <1>2 DEF Attach
  <2>2. main' = "new" => made = 0
    BY <2>1 DEF Typed, Placed
  <2>3. main' = "new" => observers = {}
    <3>1. observers \subseteq Object /\ 0 \notin Object /\ 0 - 1 \notin Object
      BY ScriptLifeAssumption DEF Typed, TypeOK, Object
    <3>2. QED
      BY <2>1, <2>2, <3>1 DEF Subscribed
  <2>4. QED
    BY <2>1, <2>3 DEF Subscribed
<1>3. CASE Unsubscribe
  BY <1>3 DEF Unsubscribe, MainStep, Subscribed
<1>4. CASE DeleteCallers \/ StopThread \/ Join \/ Erase \/ AssignCallers \/ PushBack
  <2>1. UNCHANGED <<made, observers>>
    BY <1>4 DEF DeleteCallers, StopThread, Join, Erase, AssignCallers, PushBack
  <2>2. \/ main \in {"delete", "stop", "join", "erase"} /\ main' \in {"stop", "join", "erase", "new"}
        \/ main \in {"assign", "push"} /\ main' \in {"push", "idle"}
    BY <1>4 DEF DeleteCallers, StopThread, Join, Erase, AssignCallers, PushBack, MainStep
  <2>3. QED
    BY <2>1, <2>2 DEF Subscribed
<1>5. CASE New
  <2>1. main = "new" /\ main' = "assign" /\ made' = made + 1 /\ observers' = observers
    BY <1>5 DEF New, MainStep
  <2>2. made = made' - 1
    BY <2>1, ObjectFacts
  <2>3. QED
    BY <2>1, <2>2 DEF Subscribed
<1>6. ASSUME NEW k \in Object, Thread(k) PROVE Subscribed'
  <2>1. UNCHANGED <<main, made>> /\ observers' \in {observers, observers \cup {k}}
    BY <1>6, ThreadDoesThat DEF Rest, ThreadMoves
  <2>2. k = made
    BY <1>6, LastMoves
  <2>3. QED
    BY <2>1, <2>2 DEF Subscribed
<1>7. QED
  BY <1>1, <1>2, <1>3, <1>4, <1>5, <1>6 DEF Next, Main, Destroy, Construct

-----------------------------------------------------------------------------
\* The objects, the queues and the places of the threads keep their types: there is an object
\* number for every event, and a queue never holds more than has been announced (CScript).
THEOREM TypeCorrect == Spec => []TypeOK
<1>1. Typed => TypeOK
  BY DEF Typed
<1>2. QED
  BY <1>1, InitTyped, StepTyped, PTL DEF Spec

\* Two versions of a script never run at the same time, with or without the discipline, for any
\* number of changes of the file: the join of the old thread comes before the new object
\* (detachScript, ~CScript).
THEOREM OneVersion == Spec => []OneVersionRuns
<1>1. Typed => OneVersionRuns
  <2> SUFFICES ASSUME Typed PROVE Cardinality(Running) <= 1
    BY DEF OneVersionRuns
  <2>1. Running \subseteq {made}
    <3>1. SUFFICES ASSUME NEW k \in Object, object[k].pc \notin {"none", "ended"}
                   PROVE  k = made
      BY DEF Running
    <3>2. k \in Nat /\ made \in Nat
      BY ObjectFacts
    <3>3. ~(k > made) /\ ~(k < made)
      BY <3>1 DEF Typed, Lives
    <3>4. QED
      BY <3>2, <3>3
  <2>2. IsFiniteSet({made}) /\ Cardinality({made}) = 1
    BY FS_Singleton
  <2>3. Cardinality(Running) <= Cardinality({made})
    BY <2>1, <2>2, FS_Subset
  <2>4. QED
    BY <2>2, <2>3
<1>2. QED
  BY <1>1, InitTyped, StepTyped, PTL DEF Spec

\* Under the discipline no freed or unset object is touched and no script is looked up in vain
\* (CScript, ~CScript, CObserver::call).
THEOREM SafeIfCalm == Spec => []CalmIsSafe
<1>1. CalmInv => CalmIsSafe
  BY DEF CalmInv, CalmIsSafe
<1>2. QED
  BY <1>1, InitTyped, InitCalm, StepTyped, StepCalm, PTL DEF Spec

\* Whatever the order of the steps: an observer that a destroyed script has left behind, because its
\* thread subscribed after the destructor had removed its observers, goes with the next version,
\* so that only the version destroyed last has left any (~CScript, removeObserversForScript).
THEOREM OrphansAreFew == Spec => []OrphansDoNotPileUp
<1>1. Init => Subscribed
  BY DEF Init, Subscribed
<1>2. Typed /\ Subscribed /\ [Next]_vars => Subscribed'
  BY StepSubscribed
<1>3. Typed /\ Subscribed => OrphansDoNotPileUp
  <2> SUFFICES ASSUME Typed, Subscribed, NEW k \in observers, object[k].freed
               PROVE  k = LastDestroyed
    BY DEF OrphansDoNotPileUp
  <2>1. k \in Object
    BY DEF Typed, TypeOK
  <2>2. CASE Gone
    BY <2>2 DEF Gone, Subscribed, LastDestroyed
  <2>3. CASE ~Gone
    <3>1. k # made
      BY <2>1, <2>3 DEF Typed, Lives
    <3>2. QED
      BY <2>3, <3>1 DEF Gone, Subscribed, LastDestroyed
  <2>4. QED
    BY <2>2, <2>3
<1>4. QED
  BY <1>1, <1>2, <1>3, InitTyped, StepTyped, PTL DEF Spec

\* How many steps a thread whose flag is down is from its end.
TurnsLeft == [ended |-> 0, deinitialize |-> 1, while |-> 2, sleep |-> 3]

\* Under the discipline ~CScript never joins a thread that is busy, and each step of the thread
\* brings it nearer to its end: the flag it reads next is down and nobody raises it (CScript::run,
\* ~CScript).  What a fair scheduler needs for CalmReloadEnds.
JoinComesNearer ==
  [][calm /\ main = "join" =>
       /\ object[current].pc \in DOMAIN TurnsLeft
       /\ main' = "join" =>
            object' = object \/ TurnsLeft[object'[current].pc] < TurnsLeft[object[current].pc]]_vars

\* Under the discipline the main thread waits for three steps of the script's thread at most.
THEOREM JoinIsNear == Spec => JoinComesNearer
<1>1. Typed /\ CalmInv /\ [Next]_vars =>
        [calm /\ main = "join" =>
           /\ object[current].pc \in DOMAIN TurnsLeft
           /\ main' = "join" =>
                object' = object
                  \/ TurnsLeft[object'[current].pc] < TurnsLeft[object[current].pc]]_vars
  <2> SUFFICES ASSUME Typed, CalmInv, Next, calm, main = "join"
               PROVE  /\ object[current].pc \in DOMAIN TurnsLeft
                      /\ main' = "join" =>
                           object' = object
                             \/ TurnsLeft[object'[current].pc] < TurnsLeft[object[current].pc]
    OBVIOUS
  <2>1. /\ current = made /\ object[made].pc \in {"sleep", "while", "deinitialize", "ended"}
        /\ ~object[made].running /\ mqtt = 0 /\ observers = {}
    BY CalmFacts DEF Typed, Placed, CalmInv
  <2>2. object[current].pc \in DOMAIN TurnsLeft
    BY <2>1 DEF TurnsLeft
  <2>3. ASSUME NEW k \in Object, Thread(k)
        PROVE  TurnsLeft[object'[current].pc] < TurnsLeft[object[current].pc]
    <3>1. k = made /\ object[made].pc # "ended" /\ object[made] \in ObjectState
      BY <2>3, LastMoves, ObjectFacts
    <3>2. \/ object[made].pc = "sleep" /\ object'[made].pc = "while"
          \/ object[made].pc = "while" /\ object'[made].pc = "deinitialize"
          \/ object[made].pc = "deinitialize" /\ object'[made].pc = "ended"
      <4>1. \/ WakeUp(made) \/ While(made) \/ Deinitialize(made)
        BY <2>1, <2>3, <3>1 DEF Thread, Start, Build, RunCode, Call, CallOthers
      <4>2. QED
        BY <2>1, <2>3, <3>1, <4>1, ObjectFacts DEF WakeUp, While, Deinitialize, GoTo, ObjectState
    <3>3. QED
      BY <2>1, <3>2 DEF TurnsLeft
  <2>4. CASE FileEvent \/ Mqtt
    BY <2>1, <2>2, <2>4 DEF FileEvent, Mqtt, LookUp, Append
  <2>5. CASE Main
    BY <2>2, <2>5 DEF Main, Attach, Destroy, Construct, Unsubscribe, DeleteCallers, StopThread,
                      Join, Erase, New, AssignCallers, PushBack, MainStep
  <2>6. QED
    BY <2>2, <2>3, <2>4, <2>5 DEF Next
<1>2. QED
  BY <1>1, InitTyped, InitCalm, StepTyped, StepCalm, PTL DEF Spec, JoinComesNearer

=============================================================================
