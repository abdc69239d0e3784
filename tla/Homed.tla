-------------------------------- MODULE Homed --------------------------------
(***************************************************************************)
(* The start of the program and the tree of instances and devices that     *)
(* grows from the messages of the HOMEd services.                          *)
(*                                                                         *)
(*  - The main thread makes the CHomed singleton, whose constructor        *)
(*    subscribes and waits for the SUBACK, and then asks ready() until it  *)
(*    is TRUE; scripts are loaded only then.                               *)
(*  - The callback thread of the MQTT library takes one packet after the   *)
(*    other.  A PUBLISH needs the singleton: as long as that is under      *)
(*    construction the thread waits, and so does every packet behind it.   *)
(*  - The broker sends what it has retained (status and expose, which      *)
(*    build the tree, and the availability of devices), and what the       *)
(*    services publish: new values, and answers to getProperties, which    *)
(*    the program sends once for each device it sees for the first time.   *)
(*                                                                         *)
(* The topics of zigbee name an instance, those of custom belong to the    *)
(* nameless one (CTopic::parseTopic): each instance has one service.       *)
(***************************************************************************)
EXTENDS Naturals, SequencesExt

CONSTANTS
  Instance,
  Device,      \* the names of the devices of an instance
  Value,
  None,        \* the property has no value
  MaxLink,     \* bound on packets between the broker and the callback thread
  MaxChanges   \* bound on changes of values

ASSUME HomedAssumption ==
  /\ Value # {} /\ None \notin Value
  /\ MaxLink \in Nat /\ MaxChanges \in Nat

VARIABLES
  main,       \* the main thread: where it is, and its loop in ready()
  instances,  \* the vector of CInstances: the names in the order they were added
  updated,    \* per instance: what m_updated has of status and expose
  known,      \* the devices in the tree
  exposed,    \* per device: which of its properties exist
  stored,     \* per device: the newest value of its property "value"
  online,     \* the devices whose property "online" has a value
  mqtt,       \* the callback thread: its packet and the devices in it still to be handled
  ack,        \* the SUBACK: "unsent", "sent", "received"
  link,       \* packets on their way to the callback thread
  retained,   \* retained messages the broker still has to send
  requests,   \* devices with a getProperties command on its way
  actual,     \* per device: the value it has
  changes,    \* number of changes so far
  speaking,   \* the instances whose service is there; never changes
  order,      \* what the broker's order can be relied upon; never changes
  ub          \* undefined behaviour has happened and did harm

tree == <<instances, updated, known, exposed, stored, online>>
broker == <<ack, link, retained, requests, actual, changes>>
vars == <<main, tree, mqtt, broker, speaking, order, ub>>

Thing == Instance \X Device

Building == {"status", "expose"}

\* status: the list of the devices; device: its availability; fd: a value.
Packet ==
  [kind : {"suback"}]
    \cup [kind : {"status"}, instance : Instance]
    \cup [kind : {"expose", "device"}, instance : Instance, device : Device]
    \cup [kind : {"fd"}, instance : Instance, device : Device, value : Value]

\* What the services have retained before the program comes.
RetainedBy(i) ==
  {[kind |-> "status", instance |-> i]}
    \cup [kind : {"expose", "device"}, instance : {i}, device : Device]

Fd(t) == [kind |-> "fd", instance |-> t[1], device |-> t[2], value |-> actual'[t]]

\* "any": the broker may send publishes before the SUBACK, which MQTT permits; "acked": it
\* does not; "orderly": moreover status and expose come before everything else.
Order == {"any", "acked", "orderly"}

NotHandling == [packet |-> [kind |-> "suback"], rest |-> {}]

\* Types; and an instance is in the vector at most once, although each of its messages
\* asks for it (CContainer::ensure).
TypeOK ==
  /\ main \in [pc : {"subscribe", "wait", "poll", "ask", "started"}, at : Nat, end : Nat]
  /\ instances \in Seq(Instance) /\ IsInjective(instances)
  /\ updated \in [Instance -> SUBSET Building]
  /\ known \in SUBSET Thing /\ online \in SUBSET Thing
  /\ exposed \in [Thing -> SUBSET {"online", "value"}]
  /\ stored \in [Thing -> Value \cup {None}]
  /\ mqtt \in [packet : Packet, rest : SUBSET Device]
  /\ ack \in {"unsent", "sent", "received"}
  /\ link \in Seq(Packet)
  /\ retained \in SUBSET Packet
  /\ requests \in SUBSET Thing
  /\ actual \in [Thing -> Value]
  /\ changes \in Nat
  /\ speaking \in SUBSET Instance /\ order \in Order /\ ub \in BOOLEAN

Init ==
  /\ main = [pc |-> "subscribe", at |-> 0, end |-> 0]
  /\ instances = <<>>
  /\ updated = [i \in Instance |-> {}]
  /\ known = {} /\ online = {}
  /\ exposed = [t \in Thing |-> {}]
  /\ stored = [t \in Thing |-> None]
  /\ mqtt = NotHandling
  /\ ack = "unsent" /\ link = <<>>
  /\ speaking \in SUBSET Instance
  /\ retained = UNION {RetainedBy(i) : i \in speaking}
  /\ requests = {}
  /\ actual = [t \in Thing |-> CHOOSE v \in Value : TRUE]   \* the values are alike
  /\ changes = 0
  /\ order \in Order
  /\ ub = FALSE

-----------------------------------------------------------------------------
(***************************************************************************)
(* The main thread.                                                        *)
(***************************************************************************)
MainAt(pc) == ~ub /\ main.pc = pc
MainGoes(pc) == main' = [pc |-> pc, at |-> 0, end |-> 0]

\* CHomed::CHomed: subscribe to <topic>/#.
Subscribe ==
  /\ MainAt("subscribe")
  /\ MainGoes("wait")
  /\ UNCHANGED <<tree, mqtt, broker, speaking, order, ub>>

\* wait() returns, and so does the constructor.
Construct ==
  /\ MainAt("wait") /\ ack = "received"
  /\ MainGoes("poll")
  /\ UNCHANGED <<tree, mqtt, broker, speaking, order, ub>>

\* CInstance::ready: its service has sent both status and expose.
Ready(i) == updated[i] = Building

\* CInstances::ready, called every 100 ms: the loop takes begin and end of the vector.
Poll ==
  /\ MainAt("poll") /\ instances # <<>>
  /\ main' = [pc |-> "ask", at |-> 1, end |-> Len(instances)]
  /\ UNCHANGED <<tree, mqtt, broker, speaking, order, ub>>

\* Mutant: one ready instance is enough.
AskAny ==
  /\ MainAt("ask")
  /\ IF Ready(instances[main.at])
     THEN main' = [main EXCEPT !.pc = "started"]
     ELSE MainGoes("poll")
  /\ UNCHANGED <<tree, mqtt, broker, speaking, order, ub>>

\* One turn of that loop.
Ask ==
  /\ MainAt("ask")
  /\ IF ~Ready(instances[main.at])
     THEN MainGoes("poll")
     ELSE main' = IF main.at = main.end
                  THEN [main EXCEPT !.pc = "started"]
                  ELSE [main EXCEPT !.at = @ + 1]
  /\ UNCHANGED <<tree, mqtt, broker, speaking, order, ub>>

\* The elements of the vector have moved since the loop began, or those of m_updated move
\* while ready() copies them: the callback thread appends to both without a lock.
Torn ==
  /\ MainAt("ask")
  /\ \/ Len(instances) > main.end
     \/ mqtt.rest # {} /\ mqtt.packet.instance = instances[main.at]
  /\ ub' = TRUE
  /\ UNCHANGED <<main, tree, mqtt, broker, speaking, order>>

Main == Subscribe \/ Construct \/ Poll \/ Ask \/ Torn

-----------------------------------------------------------------------------
(***************************************************************************)
(* The callback thread.                                                    *)
(***************************************************************************)
Constructed == main.pc \in {"poll", "ask", "started"}

DevicesIn(p) == IF p.kind = "status" THEN Device ELSE {p.device}

\* Mutant: the SUBACK needs the singleton, too.
TakeGuarded ==
  /\ ~ub /\ mqtt.rest = {} /\ link # <<>> /\ Constructed
  /\ LET p == Head(link)
     IN  IF p.kind = "suback"
         THEN ack' = "received" /\ UNCHANGED mqtt
         ELSE /\ mqtt' = [packet |-> p, rest |-> DevicesIn(p)]
              /\ UNCHANGED ack
  /\ link' = Tail(link)
  /\ UNCHANGED <<main, tree, retained, requests, actual, changes, speaking, order, ub>>

\* The library takes the next packet.
Take ==
  /\ ~ub /\ mqtt.rest = {} /\ link # <<>>
  /\ LET p == Head(link)
     IN  IF p.kind = "suback"
         THEN ack' = "received" /\ UNCHANGED mqtt
         ELSE /\ Constructed
              /\ mqtt' = [packet |-> p, rest |-> DevicesIn(p)]
              /\ UNCHANGED ack
  /\ link' = Tail(link)
  /\ UNCHANGED <<main, tree, retained, requests, actual, changes, speaking, order, ub>>

\* Mutant: only the first element is looked at.
FirstIs(i) == instances # <<>> /\ Head(instances) = i

\* CContainer::get
Known(i) == i \in Range(instances)

\* Mutant: expose is dropped before the instance is ready.
PassesStatus(p) == p.kind = "status" \/ Ready(p.instance)

\* The filter of CInstance::update.
Passes(p) == p.kind \in Building \/ Ready(p.instance)

\* Mutant: a device is asked for its values only if its instance is ready.
AsksIfReady(t) == t \notin known /\ Ready(t[1])

\* CDevices::update asks a device for its values when it sees it for the first time.
Asks(t) == t \notin known

\* updateStatus, updateExpose, updateDevice, updateFd, as far as the tree is concerned:
\* an unexposed property is passed over.
Apply(p, t) ==
  /\ exposed' = [exposed EXCEPT ![t] = @ \cup
                   (IF p.kind = "status" THEN {"online"}
                    ELSE IF p.kind = "expose" THEN {"value"} ELSE {})]
  /\ stored' = IF p.kind = "fd" /\ "value" \in exposed[t]
               THEN [stored EXCEPT ![t] = p.value] ELSE stored
  /\ online' = IF p.kind = "device" /\ "online" \in exposed[t]
               THEN online \cup {t} ELSE online

\* sendUpdate for one device: CInstances::update, CInstance::update, CDevices::update.
Update(d) ==
  /\ ~ub /\ d \in mqtt.rest
  /\ LET p == mqtt.packet
         i == p.instance
         t == <<i, d>>
     IN  /\ instances' = IF Known(i) THEN instances ELSE Append(instances, i)
         /\ IF Passes(p)
            THEN /\ known' = known \cup {t}
                 /\ Apply(p, t)
                 /\ updated' = [updated EXCEPT ![i] = @ \cup ({p.kind} \cap Building)]
                 /\ requests' = IF Asks(t) THEN requests \cup {t} ELSE requests
            ELSE UNCHANGED <<updated, known, exposed, stored, online, requests>>
  /\ mqtt' = [mqtt EXCEPT !.rest = @ \ {d}]
  /\ UNCHANGED <<main, ack, link, retained, actual, changes, speaking, order, ub>>

Callback == Take \/ \E d \in Device : Update(d)

-----------------------------------------------------------------------------
(***************************************************************************)
(* The broker and the services.                                            *)
(***************************************************************************)
Subscribed == main.pc # "subscribe"

BuildingDone == \A p \in retained : p.kind \notin Building

MaySend(kind) ==
  /\ Subscribed /\ ~ub /\ Len(link) < MaxLink
  /\ order # "any" => ack # "unsent"
  /\ order = "orderly" /\ kind \notin Building => BuildingDone

SubAck ==
  /\ ~ub /\ Subscribed /\ ack = "unsent"
  /\ ack' = "sent"
  /\ link' = Append(link, [kind |-> "suback"])
  /\ UNCHANGED <<main, tree, mqtt, retained, requests, actual, changes, speaking, order, ub>>

SendRetained ==
  /\ \E p \in retained :
       /\ MaySend(p.kind)
       /\ link' = Append(link, p)
       /\ retained' = retained \ {p}
  /\ UNCHANGED <<main, tree, mqtt, ack, requests, actual, changes, speaking, order, ub>>

\* A service answers getProperties.
Answer ==
  /\ MaySend("fd")
  /\ \E t \in requests :
       /\ requests' = requests \ {t}
       /\ actual' = actual
       /\ link' = Append(link, Fd(t))
  /\ UNCHANGED <<main, tree, mqtt, ack, retained, changes, speaking, order, ub>>

\* A value changes; values are not retained.
Change(t, v) ==
  /\ MaySend("fd") /\ changes < MaxChanges /\ v # actual[t]
  /\ actual' = [actual EXCEPT ![t] = v]
  /\ changes' = changes + 1
  /\ link' = Append(link, Fd(t))
  /\ UNCHANGED <<main, tree, mqtt, ack, retained, requests, speaking, order, ub>>

Broker == SubAck \/ SendRetained \/ Answer

-----------------------------------------------------------------------------
Next == Main \/ Callback \/ Broker \/ \E t \in Thing, v \in Value : Change(t, v)

\* The operating system runs the main and the callback thread, the broker delivers what it
\* has, the services answer.  No value has to change.
Fairness ==
  /\ WF_vars(Main) /\ WF_vars(Callback)
  /\ WF_vars(SubAck) /\ WF_vars(SendRetained) /\ WF_vars(Answer)

Spec == Init /\ [][Next]_vars /\ Fairness

-----------------------------------------------------------------------------
(***************************************************************************)
(* Properties.                                                             *)
(***************************************************************************)

\* Scripts are loaded only when every instance that was in the tree when ready() began to
\* look has told its devices and their properties (CInstances::ready, initialize of main.cpp).
StartedIsReady ==
  main.pc = "started" => \A k \in 1..main.end : Ready(instances[k])

Quiet ==
  /\ Constructed /\ mqtt.rest = {}
  /\ link = <<>> /\ retained = {} /\ requests = {}

\* If status and expose come first, then, once everything sent has been handled, the tree
\* shows what the devices have: the one request per device is enough, although messages
\* before ready() are dropped (CInstance::update, CDevices::update).
NothingForgotten ==
  order = "orderly" /\ Quiet /\ ~ub =>
    \A t \in Thing : t[1] \in speaking => stored[t] = actual[t] /\ t \in online

\* If the broker sends the SUBACK first, the constructor of the singleton ends, although
\* the thread that is to receive the SUBACK waits for the singleton at each publish.
ConstructorEnds == order # "any" ~> Constructed

\* If, moreover, every instance has a service that tells its devices, the scripts are
\* loaded in the end (ready() and initialize of main.cpp), unless the race on the vectors
\* does harm.
ScriptsStart == order # "any" /\ speaking = Instance ~> main.pc = "started" \/ ub

=============================================================================
