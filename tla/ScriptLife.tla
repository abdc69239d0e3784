------------------------------ MODULE ScriptLife ------------------------------
(***************************************************************************)
(* The life of one script file: every change of the file destroys the      *)
(* running CScript object and makes a new one.  Three threads meet:        *)
(*                                                                         *)
(*  - the main thread, in CFileWatcher::watch: attachScript, detachScript, *)
(*    the constructor and the destructor of CScript;                       *)
(*  - the thread of each object: CScript::run;                             *)
(*  - the MQTT thread, which looks the script up by name for each of its   *)
(*    observers and appends to the queue of the object it found.           *)
(*                                                                         *)
(* Nothing orders them but join().  A use of freed or unset memory has two *)
(* outcomes: the thread finds what was there (an empty queue) and goes on, *)
(* or ub becomes TRUE and the process is not described any further.        *)
(***************************************************************************)
EXTENDS Naturals, FiniteSets

CONSTANTS
  MaxEvents,  \* bound on inotify events for the file
  MaxNotices  \* bound on values announced to the script's observers

ASSUME ScriptLifeAssumption == MaxEvents \in Nat /\ MaxNotices \in Nat

VARIABLES
  events,   \* inotify events not yet read
  happened, \* inotify events so far
  main,     \* where the main thread is
  current,  \* the pointer in m_scripts: the number of an object, 0 if none
  made,     \* CScript objects constructed so far; the object in construction is the last
  object,   \* per object: its members and its thread
  observers,\* the objects whose code has subscribed; the entries only hold the name
  mqtt,     \* the object the MQTT thread has looked up and will append to, or 0
  notices,  \* values announced so far
  ub,       \* undefined behaviour has happened and did harm
  calm      \* the behaviour keeps the discipline of Calm; never changes

vars == <<events, happened, main, current, made, object, observers, mqtt, notices, ub, calm>>

Object == 1..MaxEvents

MainPoint ==
  {"idle", "unsubscribe", "delete", "stop", "join", "erase", "new", "assign", "push"}

Point ==
  {"none", "start", "build", "initialize", "while", "call", "callback", "rest", "sleep",
   "deinitialize", "ended"}

\* running: m_running; callers: the four CCaller members; queue: entries of the property
\* caller's queue.
TypeOK ==
  /\ events \in 0..MaxEvents /\ happened \in 0..MaxEvents
  /\ main \in MainPoint
  /\ current \in 0..MaxEvents /\ made \in 0..MaxEvents
  /\ object \in [Object -> [pc : Point, running : BOOLEAN, queue : 0..MaxNotices,
                            callers : {"unset", "set", "deleted"}, freed : BOOLEAN]]
  /\ observers \in SUBSET Object
  /\ mqtt \in 0..MaxEvents
  /\ notices \in 0..MaxNotices
  /\ ub \in BOOLEAN /\ calm \in BOOLEAN

Unborn == [pc |-> "none", running |-> FALSE, queue |-> 0, callers |-> "unset", freed |-> FALSE]

Init ==
  /\ events = 0 /\ happened = 0
  /\ main = "idle"
  /\ current = 0 /\ made = 0
  /\ object = [k \in Object |-> Unborn]
  /\ observers = {}
  /\ mqtt = 0 /\ notices = 0
  /\ ub = FALSE /\ calm \in BOOLEAN

-----------------------------------------------------------------------------
(***************************************************************************)
(* The discipline.  The main thread gets through a piece of a constructor  *)
(* or destructor that does not wait before the others take a step, and a   *)
(* script is only destroyed while its thread sleeps in its loop, or has    *)
(* ended, and no value is being announced to it.  The code enforces        *)
(* neither.                                                                *)
(***************************************************************************)
Short == main \in {"unsubscribe", "delete", "stop", "assign", "push"}

OthersMayStep == ~ub /\ (calm => ~Short)

Resting(k) == object[k].pc \in {"sleep", "ended"}

MayDestroy == calm => Resting(current) /\ mqtt = 0

-----------------------------------------------------------------------------
(***************************************************************************)
(* The main thread.                                                        *)
(***************************************************************************)

\* The file is created or modified and contains initialize().  Writing a new file makes
\* several events.
FileEvent ==
  /\ ~ub /\ happened < MaxEvents
  /\ events' = events + 1 /\ happened' = happened + 1
  /\ UNCHANGED <<main, current, made, object, observers, mqtt, notices, ub, calm>>

\* processEvent: attachScript, as far as the lookup.
Attach ==
  /\ ~ub /\ main = "idle" /\ events > 0
  /\ events' = events - 1
  /\ IF current = 0 THEN main' = "new" ELSE MayDestroy /\ main' = "unsubscribe"
  /\ UNCHANGED <<happened, current, made, object, observers, mqtt, notices, ub, calm>>

MainStep(from, to) == ~ub /\ main = from /\ main' = to

\* Mutant: the destructor forgets the observers.
UnsubscribeNothing ==
  /\ MainStep("unsubscribe", "delete")
  /\ UNCHANGED <<events, happened, current, made, object, observers, mqtt, notices, ub, calm>>

\* ~CScript.  The observers go by name: those of every object of this file.
Unsubscribe ==
  /\ MainStep("unsubscribe", "delete")
  /\ observers' = {}
  /\ UNCHANGED <<events, happened, current, made, object, mqtt, notices, ub, calm>>

DeleteCallers ==
  /\ MainStep("delete", "stop")
  /\ object' = [object EXCEPT ![current].callers = "deleted", ![current].queue = 0]
  /\ UNCHANGED <<events, happened, current, made, observers, mqtt, notices, ub, calm>>

StopThread ==
  /\ MainStep("stop", "join")
  /\ object' = [object EXCEPT ![current].running = FALSE]
  /\ UNCHANGED <<events, happened, current, made, observers, mqtt, notices, ub, calm>>

\* Mutant: the thread is detached.
Detach ==
  /\ MainStep("join", "erase")
  /\ object' = [object EXCEPT ![current].freed = TRUE]
  /\ UNCHANGED <<events, happened, current, made, observers, mqtt, notices, ub, calm>>

\* join() returns, the members are gone, the memory is freed.
Join ==
  /\ MainStep("join", "erase")
  /\ object[current].pc = "ended"
  /\ object' = [object EXCEPT ![current].freed = TRUE]
  /\ UNCHANGED <<events, happened, current, made, observers, mqtt, notices, ub, calm>>

\* detachScript removes the pointer from m_scripts.
Erase ==
  /\ MainStep("erase", "new")
  /\ current' = 0
  /\ UNCHANGED <<events, happened, made, object, observers, mqtt, notices, ub, calm>>

\* CScript::CScript: m_running is FALSE, then the thread starts, then come the callers.
New ==
  /\ MainStep("new", "assign")
  /\ made' = made + 1
  /\ object' = [object EXCEPT ![made + 1].pc = "start"]
  /\ UNCHANGED <<events, happened, current, observers, mqtt, notices, ub, calm>>

AssignCallers ==
  /\ MainStep("assign", "push")
  /\ object' = [object EXCEPT ![made].callers = "set"]
  /\ UNCHANGED <<events, happened, current, made, observers, mqtt, notices, ub, calm>>

\* attachScript: push_back.
PushBack ==
  /\ MainStep("push", "idle")
  /\ current' = made
  /\ UNCHANGED <<events, happened, made, object, observers, mqtt, notices, ub, calm>>

Destroy == Unsubscribe \/ DeleteCallers \/ StopThread \/ Join \/ Erase
Construct == New \/ AssignCallers \/ PushBack
Main == Attach \/ Destroy \/ Construct

-----------------------------------------------------------------------------
(***************************************************************************)
(* The thread of an object: CScript::run.                                  *)
(***************************************************************************)
Rest == <<events, happened, main, current, made, mqtt, notices, calm>>

GoTo(k, pc) == object' = [object EXCEPT ![k].pc = pc]

Harm == ub' = TRUE /\ UNCHANGED <<object, observers>>

Start(k) ==
  /\ object[k].pc = "start"
  /\ object' = [object EXCEPT ![k].pc = "build", ![k].running = TRUE]
  /\ UNCHANGED <<observers, ub>>

\* registerEntities and build(), which may fail.
Build(k) ==
  /\ object[k].pc = "build"
  /\ \E pc \in {"initialize", "ended"} : GoTo(k, pc)
  /\ UNCHANGED <<observers, ub>>

\* The script's initialize(), or one of its callbacks, which may subscribe.
RunCode(k, from, to) ==
  /\ object[k].pc = from
  /\ GoTo(k, to)
  /\ observers' \in {observers, observers \cup {k}}
  /\ UNCHANGED ub

\* Mutant: m_running is not looked at.
WhileForever(k) ==
  /\ object[k].pc = "while"
  /\ GoTo(k, "call")
  /\ UNCHANGED <<observers, ub>>

While(k) ==
  /\ object[k].pc = "while"
  /\ GoTo(k, IF object[k].running THEN "call" ELSE "deinitialize")
  /\ UNCHANGED <<observers, ub>>

\* Mutant: the queue is only looked at after a second value has come.
CallLater(k) ==
  /\ object[k].pc = "call"
  /\ \/ /\ object' = [object EXCEPT
             ![k].pc = IF object[k].queue > 1 THEN "callback" ELSE "sleep",
             ![k].queue = IF @ > 1 THEN @ - 1 ELSE @]
        /\ UNCHANGED <<observers, ub>>
     \/ object[k].callers # "set" /\ Harm

\* m_propertyCaller->call(): pop one entry and call its method.
Call(k) ==
  /\ object[k].pc = "call"
  /\ \/ /\ object' = [object EXCEPT ![k].pc = IF object[k].queue > 0 THEN "callback" ELSE "sleep",
                                    ![k].queue = IF @ > 0 THEN @ - 1 ELSE 0]
        /\ UNCHANGED <<observers, ub>>
     \/ object[k].callers # "set" /\ Harm

\* The other callers, after a callback that may have taken its time.
CallOthers(k) ==
  /\ object[k].pc = "rest"
  /\ \/ GoTo(k, "sleep") /\ UNCHANGED <<observers, ub>>
     \/ object[k].callers # "set" /\ Harm

WakeUp(k) ==
  /\ object[k].pc = "sleep"
  /\ GoTo(k, "while")
  /\ UNCHANGED <<observers, ub>>

\* deinitialize() of the script, which does not subscribe.
Deinitialize(k) ==
  /\ object[k].pc = "deinitialize"
  /\ GoTo(k, "ended")
  /\ UNCHANGED <<observers, ub>>

Thread(k) ==
  /\ OthersMayStep
  /\ UNCHANGED Rest
  /\ \/ Start(k) \/ Build(k)
     \/ RunCode(k, "initialize", "while") \/ RunCode(k, "callback", "rest")
     \/ While(k) \/ Call(k) \/ CallOthers(k) \/ WakeUp(k) \/ Deinitialize(k)

-----------------------------------------------------------------------------
(***************************************************************************)
(* The MQTT thread: CObserver::call for one of the script's observers.     *)
(***************************************************************************)
Keep == <<events, happened, main, current, made, observers, calm>>

\* manager()->script(name).  A null pointer or a freed object goes wrong.
LookUp ==
  /\ OthersMayStep
  /\ observers # {} /\ mqtt = 0 /\ notices < MaxNotices
  /\ notices' = notices + 1
  /\ \/ current # 0 /\ mqtt' = current /\ UNCHANGED ub
     \/ current = 0 /\ ub' = TRUE /\ UNCHANGED mqtt
     \/ current # 0 /\ object[current].freed /\ ub' = TRUE /\ UNCHANGED mqtt
  /\ UNCHANGED object /\ UNCHANGED Keep

\* Mutant: the method is queued twice.
AppendTwice ==
  /\ OthersMayStep
  /\ mqtt # 0
  /\ mqtt' = 0
  /\ IF object[mqtt].callers = "set" /\ ~object[mqtt].freed
     THEN object' = [object EXCEPT ![mqtt].queue = @ + 2] /\ UNCHANGED ub
     ELSE UNCHANGED object /\ ub' \in {ub, TRUE}
  /\ UNCHANGED notices /\ UNCHANGED Keep

\* propertyCaller()->append(...) on the object it found.
Append ==
  /\ OthersMayStep
  /\ mqtt # 0
  /\ mqtt' = 0
  /\ IF object[mqtt].callers = "set" /\ ~object[mqtt].freed
     THEN object' = [object EXCEPT ![mqtt].queue = @ + 1] /\ UNCHANGED ub
     ELSE UNCHANGED object /\ ub' \in {ub, TRUE}
  /\ UNCHANGED notices /\ UNCHANGED Keep

Mqtt == LookUp \/ Append

-----------------------------------------------------------------------------
Next == FileEvent \/ Main \/ (\E k \in Object : Thread(k)) \/ Mqtt

\* Every thread that can step is run, a callback returns, and the MQTT thread finishes
\* what it began.  Neither file events nor values have to come.
Fairness ==
  /\ WF_vars(Main) /\ WF_vars(Append)
  /\ \A k \in Object : WF_vars(Thread(k))

Spec == Init /\ [][Next]_vars /\ Fairness

-----------------------------------------------------------------------------
(***************************************************************************)
(* Properties.                                                             *)
(***************************************************************************)
Running == {k \in Object : object[k].pc \notin {"none", "ended"}}

\* Two versions of a script never run at the same time, however fast the file changes
\* (detachScript, ~CScript).
OneVersionRuns == Cardinality(Running) <= 1

\* Under the discipline no freed or unset object is touched and no script is looked up in
\* vain (CScript, ~CScript, CObserver::call).
CalmIsSafe == calm => ~ub

\* The number of the object that was destroyed last.
LastDestroyed == IF main \in {"erase", "new"} THEN made ELSE made - 1

\* With or without the discipline: the thread of a script that is being destroyed may subscribe
\* after the destructor has removed its observers, and such an observer stays behind and calls
\* the successor twice.  But the destructor goes by the name of the script, which all versions
\* share, so that the next one removes it: only the version destroyed last has left any
\* (~CScript, removeObserversForScript, CObserver::call).
OrphansDoNotPileUp == \A k \in observers : object[k].freed => k = LastDestroyed

\* Under the discipline a reload that has begun comes to its end.
CalmReloadEnds == calm /\ main # "idle" ~> main = "idle"

\* A notification in the queue of a script that runs is delivered, or the script goes
\* (CScript::run, CCallerSingle::call).
NoticesAreTaken ==
  \A k \in Object :
    object[k].queue > 0 /\ k \in Running ~> object[k].queue = 0 \/ k \notin Running \/ ub

\* README.md:13: a new or changed script is run: after the last event for the file there
\* is an object made from it, past its initialize() or refused by the compiler.
Loaded(k) == object[k].pc \notin {"none", "start", "build", "initialize"}

ChangedScriptRuns ==
  events > 0 ~> ub \/ (events = 0 /\ main = "idle" /\ current # 0 /\ Loaded(current))

=============================================================================
