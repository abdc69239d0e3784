------------------------------- MODULE Endpoint -------------------------------
(***************************************************************************)
(* The state of one endpoint of a device: its properties, and how a state  *)
(* message (topic fd/ or device/) becomes values and events.               *)
(*                                                                         *)
(*  - The MQTT thread takes one message at a time.  findChangedProperties  *)
(*    goes through its members and compares each with last(); the changed  *)
(*    ones are stored then, or all of them when none has changed.          *)
(*  - Script threads clear() histories at any time, also between the two   *)
(*    calls, empty() and last(), of the comparison.                        *)
(*                                                                         *)
(* Every property has two observers, subscribed all along: one for every   *)
(* arriving value, one for changes.  Observers has the rest of the story.  *)
(***************************************************************************)
EXTENDS StorageOps, FiniteSets

CONSTANTS
  Name,          \* property names; < is the order of Json::Value::getMemberNames
  AlwaysUpdate,  \* the names isAlwaysUpdateProperty accepts ("action")
  Value,
  None,          \* no message has carried the property yet
  MaxMessages,   \* bound on state messages
  MaxClears      \* bound on clear() calls of scripts

ASSUME EndpointAssumption ==
  /\ Name \subseteq Nat /\ IsFiniteSet(Name)
  /\ AlwaysUpdate \subseteq Name
  /\ None \notin Value
  /\ MaxMessages \in Nat /\ MaxClears \in Nat

VARIABLES
  exposed,   \* the names the container of properties has
  history,   \* per property: its m_history
  mqtt,      \* the MQTT thread in updateFd / updateDevice
  carried,   \* per property: the value the last message carried for it
  named,     \* per property: how many messages carried it
  changes,   \* per property: how often the value it was carried with has changed
  arrivals,  \* per property: events for the observer of every arrival
  alarms,    \* per property: events for the observer of changes
  messages,  \* number of state messages so far
  clears     \* per property: number of clear() calls so far

vars == <<exposed, history, mqtt, carried, named, changes, arrivals, alarms, messages, clears>>

Element == [id : Nat, value : Value]
Message == UNION {[names -> Value] : names \in SUBSET Name}

\* message: the payload; rest: the members still to be looked at, then the names still to
\* be stored; known, changed: allNames and updatedNames of findChangedProperties; name:
\* the property in hand.
NoMessage == [n \in {} |-> None]
Thread ==
  [pc : {"idle", "find", "compare", "store", "call"}, message : Message,
   rest : SUBSET Name, known : SUBSET Name, changed : SUBSET Name, name : Nat]

Idle == [pc |-> "idle", message |-> NoMessage, rest |-> {}, known |-> {}, changed |-> {}, name |-> 0]

TypeOK ==
  /\ exposed \in SUBSET Name
  /\ history \in [Name -> Seq(Element)]
  /\ mqtt \in Thread
  /\ carried \in [Name -> Value \cup {None}]
  /\ {named, changes, arrivals, alarms, clears} \subseteq [Name -> Nat]
  /\ messages \in Nat

Zero == [n \in Name |-> 0]

Init ==
  /\ exposed = {}
  /\ history = [n \in Name |-> <<>>]
  /\ mqtt = Idle
  /\ carried = [n \in Name |-> None]
  /\ named = Zero /\ changes = Zero /\ arrivals = Zero /\ alarms = Zero /\ clears = Zero
  /\ messages = 0

\* Adds 1 to the counters of the names in S.
Count(f, S) == [n \in Name |-> IF n \in S THEN f[n] + 1 ELSE f[n]]

\* The first of the names in S.
First(S) == CHOOSE n \in S : \A k \in S : n <= k

-----------------------------------------------------------------------------
(***************************************************************************)
(* The MQTT thread.                                                        *)
(***************************************************************************)

\* updateExpose, updateStatus: properties()->ensure.
Expose(n) ==
  /\ mqtt.pc = "idle" /\ n \notin exposed
  /\ exposed' = exposed \cup {n}
  /\ UNCHANGED <<history, mqtt, carried, named, changes, arrivals, alarms, messages, clears>>

Receive(m) ==
  /\ mqtt.pc = "idle" /\ messages < MaxMessages
  /\ messages' = messages + 1
  /\ mqtt' = [Idle EXCEPT !.pc = "find", !.message = m, !.rest = DOMAIN m]
  /\ LET mine == DOMAIN m \cap exposed
     IN  /\ carried' = [n \in Name |-> IF n \in mine THEN m[n] ELSE carried[n]]
         /\ named' = Count(named, mine)
         /\ changes' = Count(changes, {n \in mine : m[n] # carried[n]})
  /\ UNCHANGED <<exposed, history, arrivals, alarms, clears>>

\* Mutant: no property is updated by force.
FindOrdinary ==
  /\ mqtt.pc = "find" /\ mqtt.rest # {}
  /\ LET n == First(mqtt.rest)
         next == [mqtt EXCEPT !.rest = @ \ {n}, !.name = n]
     IN  mqtt' =
           IF n \notin exposed THEN next
           ELSE IF history[n] = <<>>
           THEN [next EXCEPT !.known = @ \cup {n}, !.changed = @ \cup {n}]
           ELSE [next EXCEPT !.known = @ \cup {n}, !.pc = "compare"]
  /\ UNCHANGED <<exposed, history, carried, named, changes, arrivals, alarms, messages, clears>>

\* One turn of the loop of findChangedProperties, up to the question of the storage
\* whether it is empty.
Find ==
  /\ mqtt.pc = "find" /\ mqtt.rest # {}
  /\ LET n == First(mqtt.rest)
         next == [mqtt EXCEPT !.rest = @ \ {n}, !.name = n]
     IN  mqtt' =
           IF n \notin exposed THEN next
           ELSE IF history[n] = <<>> \/ n \in AlwaysUpdate
           THEN [next EXCEPT !.known = @ \cup {n}, !.changed = @ \cup {n}]
           ELSE [next EXCEPT !.known = @ \cup {n}, !.pc = "compare"]
  /\ UNCHANGED <<exposed, history, carried, named, changes, arrivals, alarms, messages, clears>>

\* The rest of the turn: last() against the member.  If a script has emptied the storage
\* in between, last() is m_emptyValue, or a freed element, and may compare either way.
Compare ==
  /\ mqtt.pc = "compare"
  /\ LET n == mqtt.name
         h == history[n]
     IN  \E differs \in BOOLEAN :
           /\ h # <<>> => differs = (h[1].value # mqtt.message[n])
           /\ mqtt' = [mqtt EXCEPT !.pc = "find",
                                   !.changed = IF differs THEN @ \cup {n} ELSE @]
  /\ UNCHANGED <<exposed, history, carried, named, changes, arrivals, alarms, messages, clears>>

StoreThese(names) == [Idle EXCEPT !.pc = "store", !.message = mqtt.message, !.rest = names]

\* Mutant: only the first changed property is stored.
SelectFirst ==
  /\ mqtt.pc = "find" /\ mqtt.rest = {}
  /\ mqtt' = StoreThese(IF mqtt.changed = {} THEN mqtt.known ELSE {First(mqtt.changed)})
  /\ UNCHANGED <<exposed, history, carried, named, changes, arrivals, alarms, messages, clears>>

\* findChangedProperties returns.
Select ==
  /\ mqtt.pc = "find" /\ mqtt.rest = {}
  /\ mqtt' = StoreThese(IF mqtt.changed = {} THEN mqtt.known ELSE mqtt.changed)
  /\ UNCHANGED <<exposed, history, carried, named, changes, arrivals, alarms, messages, clears>>

\* Mutant: a JSON type the switch of updateProperty does not know leaves the value unset.
StoreUntyped ==
  /\ mqtt.pc = "store" /\ mqtt.rest # {}
  /\ LET n == First(mqtt.rest)
     IN  /\ history' = [history EXCEPT ![n] = Push(@, [id |-> messages, value |-> None])]
         /\ mqtt' = [mqtt EXCEPT !.pc = "call", !.rest = @ \ {n}, !.name = n]
  /\ UNCHANGED <<exposed, carried, named, changes, arrivals, alarms, messages, clears>>

\* updateProperty: CStorage::setValue, the locked part.
Store ==
  /\ mqtt.pc = "store" /\ mqtt.rest # {}
  /\ LET n == First(mqtt.rest)
     IN  /\ history' = [history EXCEPT ![n] =
                          Push(@, [id |-> messages, value |-> mqtt.message[n]])]
         /\ mqtt' = [mqtt EXCEPT !.pc = "call", !.rest = @ \ {n}, !.name = n]
  /\ UNCHANGED <<exposed, carried, named, changes, arrivals, alarms, messages, clears>>

\* CStorage::callObservers.
Call ==
  /\ mqtt.pc = "call"
  /\ LET n == mqtt.name
     IN  /\ arrivals' = Count(arrivals, {n})
         /\ alarms' = IF ValueChanged(history[n]) THEN Count(alarms, {n}) ELSE alarms
  /\ mqtt' = [mqtt EXCEPT !.pc = "store", !.name = 0]
  /\ UNCHANGED <<exposed, history, carried, named, changes, messages, clears>>

Done ==
  /\ mqtt.pc = "store" /\ mqtt.rest = {}
  /\ mqtt' = Idle
  /\ UNCHANGED <<exposed, history, carried, named, changes, arrivals, alarms, messages, clears>>

-----------------------------------------------------------------------------
\* A script calls storage.clear() (CStorage::clear).
Clear(n) ==
  /\ n \in exposed /\ history[n] # <<>> /\ clears[n] < MaxClears
  /\ history' = [history EXCEPT ![n] = <<>>]
  /\ clears' = Count(clears, {n})
  /\ UNCHANGED <<exposed, mqtt, carried, named, changes, arrivals, alarms, messages>>

Update == Find \/ Compare \/ Select \/ Store \/ Call \/ Done

Next ==
  \/ \E n \in Name : Expose(n) \/ Clear(n)
  \/ \E m \in Message : Receive(m)
  \/ Update

Spec == Init /\ [][Next]_vars

-----------------------------------------------------------------------------
(***************************************************************************)
(* Properties.                                                             *)
(***************************************************************************)
Handled == mqtt.pc = "idle"

\* Between messages a property that has a value has the one the last message carried for
\* it, although unchanged members are not stored and scripts clear histories in the
\* middle of the comparison (findChangedProperties, updateProperty).
StoredIsCarried ==
  Handled => \A n \in Name : history[n] # <<>> => history[n][1].value = carried[n]

\* An always-update property ("action") raises one event per message that carries it,
\* whatever else the message carries (isAlwaysUpdateProperty).
ActionsArrive ==
  Handled => \A n \in AlwaysUpdate : arrivals[n] = named[n]

\* The observer of changes hears of each change exactly once; a clear() can make it miss
\* one or hear of an old value again, but no more (findChangedProperties, valueChanged).
AlarmsAreChanges ==
  Handled =>
    \A n \in Name :
      /\ alarms[n] <= changes[n] + clears[n]
      /\ changes[n] <= alarms[n] + clears[n]

\* README.md:24: an observer that did not ask for changes only gets an event for every
\* arriving value.
EveryArrivalIsAnEvent ==
  Handled => \A n \in Name : arrivals[n] = named[n]

=============================================================================
