----------------------------- MODULE HomedProofs -----------------------------
(***************************************************************************)
(* Theorems about Homed, for any instances, devices and values: types,     *)
(* that scripts find a tree that is ready, and that no value is forgotten. *)
(***************************************************************************)
EXTENDS Homed, TLAPS

\* What the places of the two threads say of the rest.
Typed ==
  /\ TypeOK
  /\ mqtt.rest # {} => mqtt.packet.kind # "suback"
  /\ main.pc \in {"ask", "started"} =>
       1 <= main.at /\ main.at <= main.end /\ main.end <= Len(instances)

\* The loop of ready() has passed ready instances only.
Asked ==
  /\ main.pc = "ask" => \A k \in 1..main.at : k < main.at => Ready(instances[k])
  /\ StartedIsReady

-----------------------------------------------------------------------------
(***************************************************************************)
(* Packets and instances.                                                  *)
(***************************************************************************)

\* A packet that is not the SUBACK has an instance; it names a device unless it is a
\* status, and only fd carries a value.
LEMMA PacketFacts ==
  ASSUME NEW p \in Packet, p.kind # "suback"
  PROVE  /\ p.instance \in Instance
         /\ p.kind # "status" => p.device \in Device
         /\ p.kind = "fd" => p.value \in Value
<1>1. CASE p \in [kind : {"suback"}]
  BY <1>1
<1>2. CASE p \in [kind : {"status"}, instance : Instance]
  BY <1>2
<1>3. CASE p \in [kind : {"expose", "device"}, instance : Instance, device : Device]
  BY <1>3
<1>4. CASE p \in [kind : {"fd"}, instance : Instance, device : Device, value : Value]
  BY <1>4
<1> QED BY <1>1, <1>2, <1>3, <1>4 DEF Packet

\* What is retained is packets.
LEMMA RetainedFacts ==
  ASSUME NEW i \in Instance
  PROVE  RetainedBy(i) \in SUBSET Packet
<1>1. [kind |-> "status", instance |-> i] \in [kind : {"status"}, instance : Instance]
  OBVIOUS
<1>2. [kind : {"expose", "device"}, instance : {i}, device : Device]
        \in SUBSET [kind : {"expose", "device"}, instance : Instance, device : Device]
  OBVIOUS
<1> QED BY <1>1, <1>2 DEF RetainedBy, Packet

\* Adding an instance that is not there keeps the others in their places.
LEMMA AddFacts ==
  ASSUME NEW s \in Seq(Instance), IsInjective(s), NEW i \in Instance, i \notin Range(s)
  PROVE  /\ Append(s, i) \in Seq(Instance) /\ IsInjective(Append(s, i))
         /\ Len(Append(s, i)) = Len(s) + 1
         /\ \A k \in 1..Len(s) : Append(s, i)[k] = s[k]
<1>1. /\ Append(s, i) \in Seq(Instance)
      /\ Len(s) \in Nat
      /\ Len(Append(s, i)) = Len(s) + 1
      /\ \A k \in 1..Len(s) : Append(s, i)[k] = s[k]
      /\ Append(s, i)[Len(s) + 1] = i
  OBVIOUS
<1>2. DOMAIN s = 1..Len(s) /\ DOMAIN Append(s, i) = 1..Len(s) + 1
  BY <1>1
<1>3. \A k \in 1..Len(s) : s[k] # i
  BY <1>2 DEF Range
<1>4. ASSUME NEW a \in 1..Len(s) + 1, NEW b \in 1..Len(s) + 1,
             Append(s, i)[a] = Append(s, i)[b]
      PROVE  a = b
  <2>1. CASE a \in 1..Len(s) /\ b \in 1..Len(s)
    BY <2>1, <1>1, <1>2, <1>4 DEF IsInjective
  <2>2. CASE a = Len(s) + 1 /\ b \in 1..Len(s)
    BY <2>2, <1>1, <1>3, <1>4
  <2>3. CASE b = Len(s) + 1 /\ a \in 1..Len(s)
    BY <2>3, <1>1, <1>3, <1>4
  <2> QED BY <2>1, <2>2, <2>3, <1>1
<1> QED BY <1>1, <1>2, <1>4 DEF IsInjective

-----------------------------------------------------------------------------
(***************************************************************************)
(* Types.                                                                  *)
(***************************************************************************)
LEMMA InitTyped == Init => Typed
<1> SUFFICES ASSUME Init PROVE Typed
  OBVIOUS
<1>1. main = [pc |-> "subscribe", at |-> 0, end |-> 0]
  BY DEF Init
<1>2. main \in [pc : {"subscribe", "wait", "poll", "ask", "started"}, at : Nat, end : Nat]
  BY <1>1
<1>3. instances \in Seq(Instance) /\ IsInjective(instances)
  BY DEF Init, IsInjective
<1>4. mqtt \in [packet : Packet, rest : SUBSET Device] /\ mqtt.rest = {}
  <2>1. [kind |-> "suback"] \in [kind : {"suback"}]
    OBVIOUS
  <2>2. [kind |-> "suback"] \in Packet
    BY <2>1 DEF Packet
  <2> QED BY <2>2 DEF Init, NotHandling
<1>5. retained \in SUBSET Packet
  BY RetainedFacts DEF Init
<1>6. updated \in [Instance -> SUBSET Building] /\ exposed \in [Thing -> SUBSET {"online", "value"}]
  BY DEF Init
<1>7. stored \in [Thing -> Value \cup {None}]
  BY DEF Init
<1>8. actual \in [Thing -> Value]
  BY HomedAssumption DEF Init
<1>9. link \in Seq(Packet)
  BY DEF Init
<1>10. /\ known \in SUBSET Thing /\ online \in SUBSET Thing /\ requests \in SUBSET Thing
       /\ ack \in {"unsent", "sent", "received"} /\ changes \in Nat
       /\ speaking \in SUBSET Instance /\ order \in Order /\ ub \in BOOLEAN
  BY DEF Init
<1> QED BY <1>1, <1>2, <1>3, <1>4, <1>5, <1>6, <1>7, <1>8, <1>9, <1>10 DEF Typed, TypeOK

\* One turn of the loop.
LEMMA TurnFacts ==
  ASSUME NEW pcs, NEW m \in [pc : pcs, at : Nat, end : Nat]
  PROVE  LET n == [m EXCEPT !.at = @ + 1]
         IN  n \in [pc : pcs, at : Nat, end : Nat] /\ n.pc = m.pc /\ n.end = m.end /\ n.at = m.at + 1
OBVIOUS

\* The main thread moves within its loop or out of it.
LEMMA MainTyped == Typed /\ Main => Typed'
<1> SUFFICES ASSUME Typed, Main PROVE Typed'
  OBVIOUS
<1> USE DEF Typed, TypeOK, MainAt, MainGoes, tree, broker
<1>t. main \in [pc : {"subscribe", "wait", "poll", "ask", "started"}, at : Nat, end : Nat]
      /\ Len(instances) \in Nat /\ instances \in Seq(Instance)
  OBVIOUS
<1>1. CASE Subscribe
  BY <1>1 DEF Subscribe
<1>2. CASE Construct
  BY <1>2 DEF Construct
<1>3. CASE Poll
  <2>1. Len(instances) > 0
    BY <1>3, <1>t DEF Poll
  <2>2. main' = [pc |-> "ask", at |-> 1, end |-> Len(instances)]
        /\ UNCHANGED <<instances, updated, known, exposed, stored, online, mqtt, ack, link,
                       retained, requests, actual, changes, speaking, order, ub>>
    BY <1>3 DEF Poll
  <2>3. main' \in [pc : {"subscribe", "wait", "poll", "ask", "started"}, at : Nat, end : Nat]
        /\ 1 <= main'.at /\ main'.at <= main'.end /\ main'.end <= Len(instances)
    BY <2>1, <2>2, <1>t
  <2> QED BY <2>2, <2>3
<1>4. CASE Ask
  <2>1. \/ main' = [pc |-> "poll", at |-> 0, end |-> 0]
        \/ main.at = main.end /\ main' = [main EXCEPT !.pc = "started"]
        \/ main.at # main.end /\ main' = [main EXCEPT !.at = @ + 1]
    BY <1>4 DEF Ask
  <2>2. UNCHANGED <<instances, updated, known, exposed, stored, online, mqtt, ack, link,
                    retained, requests, actual, changes, speaking, order, ub>>
    BY <1>4 DEF Ask
  <2>3. main.pc = "ask" /\ 1 <= main.at /\ main.at <= main.end /\ main.end <= Len(instances)
    BY <1>4 DEF Ask
  <2>4. /\ main' \in [pc : {"subscribe", "wait", "poll", "ask", "started"}, at : Nat, end : Nat]
        /\ main'.pc \in {"ask", "started"} =>
             1 <= main'.at /\ main'.at <= main'.end /\ main'.end <= Len(instances)
    <3>1. CASE main' = [pc |-> "poll", at |-> 0, end |-> 0]
      BY <3>1
    <3>2. CASE main.at = main.end /\ main' = [main EXCEPT !.pc = "started"]
      BY <3>2, <2>3, <1>t
    <3>3. CASE main.at # main.end /\ main' = [main EXCEPT !.at = @ + 1]
      <4>1. /\ main'.pc = main.pc /\ main'.end = main.end /\ main'.at = main.at + 1
            /\ main' \in [pc : {"subscribe", "wait", "poll", "ask", "started"},
                          at : Nat, end : Nat]
        BY <3>3, <1>t, TurnFacts
      <4> QED BY <4>1, <3>3, <2>3, <1>t
    <3> QED BY <2>1, <3>1, <3>2, <3>3
  <2> QED BY <2>2, <2>4
<1>5. CASE Torn
  BY <1>5 DEF Torn
<1> QED BY <1>1, <1>2, <1>3, <1>4, <1>5 DEF Main

\* A packet is taken off the link, and the devices in it are known ones.
LEMMA TakeTyped == Typed /\ Take => Typed'
<1> SUFFICES ASSUME Typed, Take PROVE Typed'
  OBVIOUS
<1>1. link \in Seq(Packet) /\ link # <<>>
  BY DEF Typed, TypeOK, Take
<1>2. Head(link) \in Packet /\ Tail(link) \in Seq(Packet)
  BY <1>1
<1>3. /\ mqtt' \in [packet : Packet, rest : SUBSET Device]
      /\ mqtt'.rest # {} => mqtt'.packet.kind # "suback"
      /\ ack' \in {"unsent", "sent", "received"}
  <2>1. CASE Head(link).kind = "suback"
    BY <2>1 DEF Take, Typed, TypeOK
  <2>2. CASE Head(link).kind # "suback"
    <3>1. mqtt' = [packet |-> Head(link), rest |-> DevicesIn(Head(link))] /\ ack' = ack
      BY <2>2 DEF Take
    <3>2. DevicesIn(Head(link)) \in SUBSET Device
      BY <1>2, <2>2, PacketFacts DEF DevicesIn
    <3> QED BY <3>1, <3>2, <1>2, <2>2 DEF Typed, TypeOK
  <2> QED BY <2>1, <2>2
<1>4. /\ UNCHANGED <<main, tree, retained, requests, actual, changes, speaking, order, ub>>
      /\ link' \in Seq(Packet)
  BY <1>2 DEF Take
<1> QED BY <1>3, <1>4 DEF Typed, TypeOK, tree

\* What one sendUpdate changes, step by step.
LEMMA UpdateTyped == ASSUME NEW d \in Device PROVE Typed /\ Update(d) => Typed'
<1> SUFFICES ASSUME Typed, Update(d) PROVE Typed'
  OBVIOUS
<1> DEFINE p == mqtt.packet
           i == p.instance
           t == <<i, d>>
<1>1. d \in mqtt.rest /\ mqtt \in [packet : Packet, rest : SUBSET Device]
  BY DEF Update, Typed, TypeOK
<1>2. p \in Packet /\ p.kind # "suback" /\ i \in Instance
  BY <1>1, PacketFacts DEF Typed
<1>3. t \in Thing
  BY <1>2 DEF Thing
<1>4. /\ instances' \in Seq(Instance) /\ IsInjective(instances')
      /\ Len(instances) \in Nat /\ Len(instances') \in Nat
      /\ Len(instances) <= Len(instances')
  <2>1. instances \in Seq(Instance) /\ IsInjective(instances) /\ Len(instances) \in Nat
    BY DEF Typed, TypeOK
  <2>2. CASE Known(i)
    BY <2>1, <2>2 DEF Update
  <2>3. CASE ~Known(i)
    <3>1. instances' = Append(instances, i)
      BY <2>3 DEF Update
    <3>2. i \notin Range(instances)
      BY <2>3 DEF Known
    <3> QED BY <3>1, <3>2, <2>1, <1>2, AddFacts
  <2> QED BY <2>2, <2>3
<1>5. /\ updated' \in [Instance -> SUBSET Building]
      /\ known' \in SUBSET Thing /\ online' \in SUBSET Thing
      /\ exposed' \in [Thing -> SUBSET {"online", "value"}]
      /\ stored' \in [Thing -> Value \cup {None}]
      /\ requests' \in SUBSET Thing
  <2> USE DEF Typed, TypeOK
  <2>1. CASE ~Passes(p)
    BY <2>1 DEF Update
  <2>2. CASE Passes(p)
    <3>1. known' = known \cup {t} /\ requests' \in {requests, requests \cup {t}}
      BY <2>2 DEF Update
    <3>2. updated' = [updated EXCEPT ![i] = @ \cup ({p.kind} \cap Building)]
      BY <2>2 DEF Update
    <3>3. Apply(p, t)
      BY <2>2 DEF Update
    <3>4. exposed' = [exposed EXCEPT ![t] = @ \cup
                        (IF p.kind = "status" THEN {"online"}
                         ELSE IF p.kind = "expose" THEN {"value"} ELSE {})]
      BY <3>3 DEF Apply
    <3>5. stored' \in [Thing -> Value \cup {None}]
      <4>1. CASE p.kind = "fd"
        <5>1. p.value \in Value
          BY <4>1, <1>2, PacketFacts
        <5>2. stored' = stored \/ stored' = [stored EXCEPT ![t] = p.value]
          BY <3>3, <4>1 DEF Apply
        <5> QED BY <5>1, <5>2, <1>3
      <4>2. CASE p.kind # "fd"
        BY <4>2, <3>3 DEF Apply
      <4> QED BY <4>1, <4>2
    <3>6. online' \in SUBSET Thing
      BY <3>3, <1>3 DEF Apply
    <3>7. updated' \in [Instance -> SUBSET Building]
      BY <3>2, <1>2
    <3>8. exposed' \in [Thing -> SUBSET {"online", "value"}]
      BY <3>4, <1>3
    <3> QED BY <3>1, <3>5, <3>6, <3>7, <3>8, <1>3
  <2> QED BY <2>1, <2>2
<1>6. mqtt' \in [packet : Packet, rest : SUBSET Device] /\ mqtt'.packet = p
  BY <1>1 DEF Update
<1>7. UNCHANGED <<main, ack, link, retained, actual, changes, speaking, order, ub>>
  BY DEF Update
<1>8. main.pc \in {"ask", "started"} =>
        1 <= main.at /\ main.at <= main.end /\ main.end <= Len(instances')
  <2>1. main.end \in Nat
    BY DEF Typed, TypeOK
  <2> QED BY <1>4, <2>1 DEF Typed
<1> QED BY <1>2, <1>4, <1>5, <1>6, <1>7, <1>8 DEF Typed, TypeOK

\* What broker and services send is packets.
LEMMA OutsideTyped ==
  ASSUME Typed, Broker \/ \E t \in Thing, v \in Value : Change(t, v)
  PROVE  Typed'
<1> USE DEF Typed, TypeOK, tree
<1>1. CASE SubAck
  <2>1. [kind |-> "suback"] \in [kind : {"suback"}]
    OBVIOUS
  <2>2. [kind |-> "suback"] \in Packet
    BY <2>1 DEF Packet
  <2>3. Append(link, [kind |-> "suback"]) \in Seq(Packet)
    BY <2>2
  <2> QED BY <1>1, <2>3 DEF SubAck
<1>2. CASE SendRetained
  <2>1. PICK p \in retained : link' = Append(link, p) /\ retained' = retained \ {p}
    BY <1>2 DEF SendRetained
  <2>2. link' \in Seq(Packet) /\ retained' \in SUBSET Packet
    BY <2>1
  <2> QED BY <1>2, <2>2 DEF SendRetained
<1>f. ASSUME NEW t \in Thing, actual' \in [Thing -> Value] PROVE Append(link, Fd(t)) \in Seq(Packet)
  <2>1. actual'[t] \in Value /\ t[1] \in Instance /\ t[2] \in Device
    BY <1>f DEF Thing
  <2>2. Fd(t) = [kind |-> "fd", instance |-> t[1], device |-> t[2], value |-> actual'[t]]
    BY DEF Fd
  <2>3. Fd(t) \in [kind : {"fd"}, instance : Instance, device : Device, value : Value]
    BY <2>1, <2>2
  <2>4. Fd(t) \in Packet
    BY <2>3 DEF Packet
  <2> QED BY <2>4
<1>3. CASE Answer
  <2>1. PICK t \in requests : requests' = requests \ {t} /\ actual' = actual
                              /\ link' = Append(link, Fd(t))
    BY <1>3 DEF Answer
  <2>2. link' \in Seq(Packet)
    BY <2>1, <1>f
  <2> QED BY <1>3, <2>1, <2>2 DEF Answer
<1>4. ASSUME NEW t \in Thing, NEW v \in Value, Change(t, v) PROVE Typed'
  <2>1. actual' \in [Thing -> Value]
    BY <1>4 DEF Change
  <2>2. link' \in Seq(Packet)
    BY <1>4, <2>1, <1>f DEF Change
  <2> QED BY <1>4, <2>1, <2>2 DEF Change
<1> QED BY <1>1, <1>2, <1>3, <1>4 DEF Broker

\* Every step keeps the types.
LEMMA NextTyped == Typed /\ [Next]_vars => Typed'
<1>1. Typed /\ UNCHANGED vars => Typed'
  BY DEF Typed, TypeOK, vars, tree, broker
<1> QED BY <1>1, MainTyped, TakeTyped, UpdateTyped, OutsideTyped DEF Next, Callback

\* Every variable keeps its type; in particular an instance is in the vector once, however
\* its messages arrive (CContainer::ensure).
THEOREM TypeCorrect == Spec => []TypeOK
<1>1. Typed => TypeOK
  BY DEF Typed
<1> QED BY InitTyped, NextTyped, <1>1, PTL DEF Spec

-----------------------------------------------------------------------------
(***************************************************************************)
(* Scripts start when the tree is ready.                                   *)
(***************************************************************************)

\* Once an instance is in the vector it keeps its place, and once ready it stays ready.
LEMMA ReadyStays ==
  ASSUME Typed, Next
  PROVE  /\ \A k \in 1..Len(instances) : instances'[k] = instances[k]
         /\ \A i \in Instance : updated[i] = Building => updated'[i] = Building
<1>1. CASE UNCHANGED <<instances, updated>>
  BY <1>1
<1>2. ASSUME NEW d \in Device, Update(d)
      PROVE  /\ \A k \in 1..Len(instances) : instances'[k] = instances[k]
             /\ \A i \in Instance : updated[i] = Building => updated'[i] = Building
  <2> DEFINE p == mqtt.packet
  <2>1. /\ instances \in Seq(Instance) /\ IsInjective(instances)
        /\ updated \in [Instance -> SUBSET Building]
    BY DEF Typed, TypeOK
  <2>2. p.instance \in Instance
    <3>1. d \in mqtt.rest /\ p \in Packet
      BY <1>2 DEF Update, Typed, TypeOK
    <3> QED BY <3>1, PacketFacts DEF Typed
  <2>3. \A k \in 1..Len(instances) : instances'[k] = instances[k]
    <3>1. CASE Known(p.instance)
      BY <1>2, <3>1 DEF Update
    <3>2. CASE ~Known(p.instance)
      <4>1. instances' = Append(instances, p.instance) /\ p.instance \notin Range(instances)
        BY <1>2, <3>2 DEF Update, Known
      <4> QED BY <4>1, <2>1, <2>2, AddFacts
    <3> QED BY <3>1, <3>2
  <2>4. \/ updated' = updated
        \/ updated' = [updated EXCEPT ![p.instance] = @ \cup ({p.kind} \cap Building)]
    BY <1>2 DEF Update
  <2>5. \A i \in Instance : updated[i] = Building => updated'[i] = Building
    BY <2>1, <2>2, <2>4
  <2> QED BY <2>3, <2>5
<1>3. Main \/ Take \/ Broker => UNCHANGED <<instances, updated>>
  BY DEF Main, Subscribe, Construct, Poll, Ask, Torn, Take, Broker, SubAck, SendRetained,
         Answer, tree
<1>4. \A t \in Thing, v \in Value : Change(t, v) => UNCHANGED <<instances, updated>>
  BY DEF Change, tree
<1> QED BY <1>1, <1>2, <1>3, <1>4 DEF Next, Callback

\* A step of another thread leaves what the loop has seen as it is.
LEMMA AskedKept ==
  ASSUME Typed, Asked, Next, main' = main
  PROVE  Asked'
<1>1. /\ instances \in Seq(Instance) /\ Len(instances) \in Nat
      /\ main.at \in Nat /\ main.end \in Nat
  BY DEF Typed, TypeOK
<1>2. \A k \in 1..Len(instances) :
        updated[instances[k]] = Building => updated'[instances'[k]] = Building
  <2>1. \A k \in 1..Len(instances) : instances[k] \in Instance
    BY <1>1
  <2> QED BY <2>1, ReadyStays
<1>3. main.pc = "ask" =>
        \A k \in 1..main.at : k < main.at => updated'[instances'[k]] = Building
  <2> SUFFICES ASSUME main.pc = "ask", NEW k \in 1..main.at, k < main.at
               PROVE  updated'[instances'[k]] = Building
    OBVIOUS
  <2>1. updated[instances[k]] = Building
    BY DEF Asked, Ready
  <2>2. k \in 1..Len(instances)
    BY <1>1 DEF Typed
  <2> QED BY <2>1, <2>2, <1>2
<1>4. main.pc = "started" => \A k \in 1..main.end : updated'[instances'[k]] = Building
  <2> SUFFICES ASSUME main.pc = "started", NEW k \in 1..main.end
               PROVE  updated'[instances'[k]] = Building
    OBVIOUS
  <2>1. updated[instances[k]] = Building
    BY DEF Asked, StartedIsReady, Ready
  <2>2. k \in 1..Len(instances)
    BY <1>1 DEF Typed
  <2> QED BY <2>1, <2>2, <1>2
<1> QED BY <1>3, <1>4 DEF Asked, StartedIsReady, Ready

\* One turn of the loop adds one ready instance, or ends the loop behind the last.
LEMMA AskAsked == Typed /\ Asked /\ Ask => Asked'
<1> SUFFICES ASSUME Typed, Asked, Ask PROVE Asked'
  OBVIOUS
<1>1. /\ main \in [pc : {"subscribe", "wait", "poll", "ask", "started"}, at : Nat, end : Nat]
      /\ main.pc = "ask" /\ 1 <= main.at /\ main.at <= main.end
      /\ UNCHANGED <<instances, updated>>
  BY DEF Ask, MainAt, Typed, TypeOK, tree
<1>2. \A k \in 1..main.at : k < main.at => updated[instances[k]] = Building
  BY <1>1 DEF Asked, Ready
<1>3. CASE main'.pc = "poll"
  BY <1>3 DEF Asked, StartedIsReady
<1>4. CASE main'.pc # "poll"
  <2>1. updated[instances[main.at]] = Building
    BY <1>4 DEF Ask, Ready, MainGoes
  <2>2. \A k \in 1..main.at : updated[instances[k]] = Building
    BY <1>1, <1>2, <2>1
  <2>3. CASE main.at = main.end
    <3>1. main' = [main EXCEPT !.pc = "started"]
      BY <1>4, <2>3 DEF Ask, MainGoes
    <3>2. main'.pc = "started" /\ main'.end = main.end
      BY <3>1, <1>1
    <3> QED BY <3>2, <2>2, <2>3, <1>1 DEF Asked, StartedIsReady, Ready
  <2>4. CASE main.at # main.end
    <3>1. main' = [main EXCEPT !.at = @ + 1]
      BY <1>4, <2>4 DEF Ask, MainGoes
    <3>2. main'.pc = "ask" /\ main'.at = main.at + 1
      BY <3>1, <1>1
    <3>3. \A k \in 1..main'.at : k < main'.at => updated'[instances'[k]] = Building
      BY <3>2, <2>2, <1>1
    <3> QED BY <3>2, <3>3 DEF Asked, StartedIsReady, Ready
  <2> QED BY <2>3, <2>4
<1> QED BY <1>3, <1>4

\* Every step keeps Asked.
LEMMA NextAsked == Typed /\ Asked /\ [Next]_vars => Asked'
<1> SUFFICES ASSUME Typed, Asked, [Next]_vars PROVE Asked'
  OBVIOUS
<1>1. CASE UNCHANGED vars
  BY <1>1 DEF Asked, StartedIsReady, Ready, vars, tree
<1>2. CASE Subscribe \/ Construct
  BY <1>2 DEF Subscribe, Construct, MainGoes, Asked, StartedIsReady
<1>3. CASE Poll
  <2>1. main' = [pc |-> "ask", at |-> 1, end |-> Len(instances)]
    BY <1>3 DEF Poll
  <2> QED BY <2>1 DEF Asked, StartedIsReady
<1>4. CASE Ask
  BY <1>4, AskAsked
<1>5. CASE main' = main /\ Next
  BY <1>5, AskedKept
<1>6. Torn \/ Callback \/ Broker \/ (\E t \in Thing, v \in Value : Change(t, v)) => main' = main
  BY DEF Torn, Callback, Take, Update, Broker, SubAck, SendRetained, Answer, Change
<1> QED BY <1>1, <1>2, <1>3, <1>4, <1>5, <1>6 DEF Next, Main

\* Scripts are loaded only when every instance that was in the vector when ready() began its
\* loop is ready, whatever the callback thread adds meanwhile (CInstances::ready).
THEOREM ReadyAtStart == Spec => []StartedIsReady
<1>1. Init => Asked
  BY DEF Init, Asked, StartedIsReady
<1>2. Asked => StartedIsReady
  BY DEF Asked
<1> QED BY InitTyped, NextTyped, NextAsked, <1>1, <1>2, PTL DEF Spec

-----------------------------------------------------------------------------
(***************************************************************************)
(* Nothing is forgotten.                                                   *)
(***************************************************************************)
StatusOf(t) == [kind |-> "status", instance |-> t[1]]
Of(kind, t) == [kind |-> kind, instance |-> t[1], device |-> t[2]]

\* A packet on its way to a device: with the broker, between it and the callback thread, or in
\* that thread's hands.
Coming(p, t) ==
  \/ p \in retained
  \/ \E k \in 1..Len(link) : link[k] = p
  \/ mqtt.packet = p /\ t[2] \in mqtt.rest

\* Each building message is still to come or has had its effect.
Told(t) ==
  /\ Coming(StatusOf(t), t) \/ ("online" \in exposed[t] /\ "status" \in updated[t[1]] /\ t \in known)
  /\ Coming(Of("expose", t), t) \/ ("value" \in exposed[t] /\ "expose" \in updated[t[1]])
  /\ Coming(Of("device", t), t) \/ t \in online

IsFd(p, t) == p.kind = "fd" /\ p.instance = t[1] /\ p.device = t[2]

NoFdBehind(k, t) == \A j \in 1..Len(link) : j > k => ~IsFd(link[j], t)

Handling(t) == IsFd(mqtt.packet, t) /\ t[2] \in mqtt.rest

\* The last value on its way is the one the device has; without one it is the stored value.
Newest(t) ==
  \/ \E k \in 1..Len(link) :
       IsFd(link[k], t) /\ link[k].value = actual[t] /\ NoFdBehind(k, t)
  \/ Handling(t) /\ mqtt.packet.value = actual[t] /\ NoFdBehind(0, t)
  \/ ~Handling(t) /\ stored[t] = actual[t] /\ NoFdBehind(0, t)

Late(p) == p.kind \in {"device", "fd"}

\* What builds the tree is before the rest.
Ordered ==
  /\ \A k \in 1..Len(link) : Late(link[k]) =>
       BuildingDone /\ \A j \in 1..Len(link) : j > k => link[j].kind \notin Building
  /\ mqtt.rest # {} /\ Late(mqtt.packet) =>
       BuildingDone /\ \A j \in 1..Len(link) : link[j].kind \notin Building

Remembered(t) ==
  t[1] \in speaking => Told(t) /\ (t \in known => t \in requests \/ Newest(t))

\* The devices still to be handled are in the packet.
InPacket == mqtt.rest \subseteq DevicesIn(mqtt.packet)

\* Values are not retained.
NoValueRetained == \A p \in retained : p.kind # "fd"

Unforgotten ==
  order = "orderly" =>
    InPacket /\ NoValueRetained /\ Ordered /\ \A t \in Thing : Remembered(t)

\* One packet more on the link.
LEMMA LinkLonger ==
  ASSUME Typed, NEW p \in Packet, link' = Append(link, p)
  PROVE  /\ Len(link) \in Nat /\ Len(link') = Len(link) + 1
         /\ link'[Len(link) + 1] = p
         /\ \A k \in 1..Len(link) : link'[k] = link[k]
BY DEF Typed, TypeOK

\* One packet less.
LEMMA LinkShorter ==
  ASSUME Typed, link # <<>>, link' = Tail(link)
  PROVE  /\ Len(link) \in Nat \ {0} /\ Len(link') = Len(link) - 1
         /\ Head(link) = link[1] /\ link[1] \in Packet
         /\ \A k \in 1..Len(link') : link'[k] = link[k + 1]
BY DEF Typed, TypeOK

\* A packet for the devices of t that is sent does not get lost, and does not overtake.
LEMMA SentInOrder ==
  ASSUME Typed, Ordered, NEW p \in Packet, link' = Append(link, p),
         retained' \in SUBSET retained, UNCHANGED mqtt,
         p.kind \in Building => p \in retained,
         Late(p) => BuildingDone
  PROVE  Ordered'
<1>1. /\ Len(link) \in Nat /\ Len(link') = Len(link) + 1 /\ link'[Len(link) + 1] = p
      /\ \A k \in 1..Len(link) : link'[k] = link[k]
  BY LinkLonger
<1>2. BuildingDone => BuildingDone' /\ p.kind \notin Building
  BY DEF BuildingDone
<1>3. Late(p) => BuildingDone'
  BY <1>2
<1>4. ASSUME NEW k \in 1..Len(link'), Late(link'[k])
      PROVE  BuildingDone' /\ \A j \in 1..Len(link') : j > k => link'[j].kind \notin Building
  <2>1. CASE k = Len(link) + 1
    BY <1>1, <1>3, <1>4, <2>1
  <2>2. CASE k # Len(link) + 1
    <3>1. k \in 1..Len(link) /\ Late(link[k])
      BY <1>1, <1>4, <2>2
    <3>2. BuildingDone /\ \A j \in 1..Len(link) : j > k => link[j].kind \notin Building
      BY <3>1 DEF Ordered
    <3>3. \A j \in 1..Len(link') : j > k => link'[j].kind \notin Building
      BY <1>1, <1>2, <3>1, <3>2
    <3> QED BY <1>2, <3>2, <3>3
  <2> QED BY <2>1, <2>2
<1>5. ASSUME mqtt.rest # {}, Late(mqtt.packet)
      PROVE  BuildingDone' /\ \A j \in 1..Len(link') : link'[j].kind \notin Building
  <2>1. BuildingDone /\ \A j \in 1..Len(link) : link[j].kind \notin Building
    BY <1>5 DEF Ordered
  <2> QED BY <1>1, <1>2, <2>1
<1> QED BY <1>4, <1>5 DEF Ordered, Late

\* A packet is sent: who was told is still told, by what is retained or by what is on the link.
LEMMA SentIsComing ==
  ASSUME Typed, NEW p \in Packet, link' = Append(link, p),
         retained \subseteq retained' \cup {p}, UNCHANGED <<mqtt, exposed, updated, known, online>>,
         NEW t \in Thing, Told(t)
  PROVE  Told(t)'
<1>1. /\ Len(link) \in Nat /\ Len(link') = Len(link) + 1 /\ link'[Len(link) + 1] = p
      /\ \A k \in 1..Len(link) : link'[k] = link[k]
  BY LinkLonger
<1>2. ASSUME NEW q, Coming(q, t) PROVE Coming(q, t)'
  <2>1. CASE q \in retained
    BY <1>1, <2>1 DEF Coming
  <2>2. CASE \E k \in 1..Len(link) : link[k] = q
    BY <1>1, <2>2 DEF Coming
  <2>3. CASE mqtt.packet = q /\ t[2] \in mqtt.rest
    BY <2>3 DEF Coming
  <2> QED BY <1>2, <2>1, <2>2, <2>3 DEF Coming
<1>3. /\ Coming(StatusOf(t), t) => Coming(StatusOf(t), t)'
      /\ Coming(Of("expose", t), t) => Coming(Of("expose", t), t)'
      /\ Coming(Of("device", t), t) => Coming(Of("device", t), t)'
  BY <1>2 DEF StatusOf, Of
<1> QED BY <1>3 DEF Told

\* The newest value stays the newest when another packet follows, and a value that follows is
\* the newest.
LEMMA SentNewest ==
  ASSUME Typed, NEW p \in Packet, link' = Append(link, p), UNCHANGED <<mqtt, stored>>,
         NEW t \in Thing,
         \/ IsFd(p, t) /\ p.value = actual'[t]
         \/ ~IsFd(p, t) /\ actual'[t] = actual[t] /\ Newest(t)
  PROVE  Newest(t)'
<1>1. /\ Len(link) \in Nat /\ Len(link') = Len(link) + 1 /\ link'[Len(link) + 1] = p
      /\ \A k \in 1..Len(link) : link'[k] = link[k]
  BY LinkLonger
<1>2. CASE IsFd(p, t) /\ p.value = actual'[t]
  <2>1. NoFdBehind(Len(link) + 1, t)'
    BY <1>1 DEF NoFdBehind
  <2>2. \E k \in 1..Len(link') :
          IsFd(link'[k], t) /\ link'[k].value = actual'[t]
            /\ \A j \in 1..Len(link') : j > k => ~IsFd(link'[j], t)
    BY <1>1, <1>2
  <2> QED BY <2>2 DEF Newest, NoFdBehind, IsFd
<1>3. CASE ~IsFd(p, t) /\ actual'[t] = actual[t] /\ Newest(t)
  <2>1. \A k \in 0..Len(link) : NoFdBehind(k, t) =>
          \A j \in 1..Len(link') : j > k => ~IsFd(link'[j], t)
    BY <1>1, <1>3 DEF NoFdBehind
  <2>2. CASE \E k \in 1..Len(link) :
               IsFd(link[k], t) /\ link[k].value = actual[t] /\ NoFdBehind(k, t)
    <3>1. PICK k \in 1..Len(link) :
               IsFd(link[k], t) /\ link[k].value = actual[t] /\ NoFdBehind(k, t)
      BY <2>2
    <3>2. k \in 1..Len(link') /\ IsFd(link'[k], t) /\ link'[k].value = actual'[t]
          /\ \A j \in 1..Len(link') : j > k => ~IsFd(link'[j], t)
      BY <1>1, <1>3, <2>1, <3>1
    <3> QED BY <3>2 DEF Newest, NoFdBehind, IsFd
  <2>3. CASE NoFdBehind(0, t)
    <3>1. \A j \in 1..Len(link') : j > 0 => ~IsFd(link'[j], t)
      BY <1>1, <2>1, <2>3
    <3>2. NoFdBehind(0, t)'
      BY <3>1 DEF NoFdBehind, IsFd
    <3> QED BY <1>3, <2>2, <3>2 DEF Newest, Handling, IsFd
  <2> QED BY <1>3, <2>2, <2>3 DEF Newest
<1> QED BY <1>2, <1>3

\* The callback thread takes the packets in their order.
LEMMA TakenInOrder ==
  ASSUME Typed, Ordered, Take
  PROVE  Ordered'
<1>1. /\ Len(link) \in Nat \ {0} /\ Len(link') = Len(link) - 1
      /\ Head(link) = link[1] /\ \A k \in 1..Len(link') : link'[k] = link[k + 1]
  BY LinkShorter DEF Take
<1>2. BuildingDone' <=> BuildingDone
  BY DEF Take, BuildingDone
<1>3. ASSUME NEW k \in 1..Len(link'), Late(link'[k])
      PROVE  BuildingDone' /\ \A j \in 1..Len(link') : j > k => link'[j].kind \notin Building
  <2>1. k + 1 \in 1..Len(link) /\ Late(link[k + 1])
    BY <1>1, <1>3
  <2>2. BuildingDone /\ \A j \in 1..Len(link) : j > k + 1 => link[j].kind \notin Building
    BY <2>1 DEF Ordered
  <2>3. \A j \in 1..Len(link') : j > k => link'[j].kind \notin Building
    BY <1>1, <2>2
  <2> QED BY <1>2, <2>2, <2>3
<1>4. ASSUME mqtt'.rest # {}, Late(mqtt'.packet)
      PROVE  BuildingDone' /\ \A j \in 1..Len(link') : link'[j].kind \notin Building
  <2>1. mqtt'.packet = link[1] /\ 1 \in 1..Len(link)
    BY <1>1, <1>4 DEF Take
  <2>2. BuildingDone /\ \A j \in 1..Len(link) : j > 1 => link[j].kind \notin Building
    BY <1>4, <2>1 DEF Ordered
  <2> QED BY <1>1, <1>2, <2>2
<1> QED BY <1>3, <1>4 DEF Ordered, Late

\* The devices left to do are those of the packet taken.
LEMMA TakenInPacket ==
  ASSUME Typed, InPacket, Take
  PROVE  InPacket'
<1>1. mqtt' = mqtt \/ mqtt' = [packet |-> Head(link), rest |-> DevicesIn(Head(link))]
  BY DEF Take
<1> QED BY <1>1 DEF InPacket, DevicesIn

\* What was on the link is in the thread's hands.
LEMMA TakenIsComing ==
  ASSUME Typed, Take, NEW t \in Thing, Told(t)
  PROVE  Told(t)'
<1>1. /\ Len(link) \in Nat \ {0} /\ Len(link') = Len(link) - 1
      /\ Head(link) = link[1] /\ \A k \in 1..Len(link') : link'[k] = link[k + 1]
  BY LinkShorter DEF Take
<1>2. mqtt.rest = {} /\ UNCHANGED <<retained, exposed, updated, known, online>>
  BY DEF Take, tree
<1>3. ASSUME NEW q, q.kind # "suback", t[2] \in DevicesIn(q), Coming(q, t)
      PROVE  Coming(q, t)'
  <2>1. CASE q \in retained
    BY <1>2, <2>1 DEF Coming
  <2>2. ASSUME NEW k \in 1..Len(link), link[k] = q
        PROVE  Coming(q, t)'
    <3>1. CASE k = 1
      <4>1. mqtt' = [packet |-> q, rest |-> DevicesIn(q)]
        BY <1>1, <1>3, <2>2, <3>1 DEF Take
      <4> QED BY <1>3, <4>1 DEF Coming
    <3>2. CASE k # 1
      <4>1. k - 1 \in 1..Len(link') /\ link'[k - 1] = q
        BY <1>1, <2>2, <3>2
      <4> QED BY <4>1 DEF Coming
    <3> QED BY <3>1, <3>2
  <2> QED BY <1>2, <1>3, <2>1, <2>2 DEF Coming
<1>4. t[2] \in Device
  BY DEF Thing
<1>5. ASSUME NEW q \in {StatusOf(t), Of("expose", t), Of("device", t)}
      PROVE  q.kind # "suback" /\ t[2] \in DevicesIn(q)
  BY <1>4 DEF StatusOf, Of, DevicesIn
<1>6. /\ Coming(StatusOf(t), t) => Coming(StatusOf(t), t)'
      /\ Coming(Of("expose", t), t) => Coming(Of("expose", t), t)'
      /\ Coming(Of("device", t), t) => Coming(Of("device", t), t)'
  BY <1>3, <1>5 DEF StatusOf, Of
<1> QED BY <1>2, <1>6 DEF Told

\* What is behind the packet taken is what was behind it on the link.
LEMMA TakenNewest ==
  ASSUME Typed, Take, NEW t \in Thing, Newest(t)
  PROVE  Newest(t)'
<1>1. /\ Len(link) \in Nat \ {0} /\ Len(link') = Len(link) - 1
      /\ Head(link) = link[1] /\ \A k \in 1..Len(link') : link'[k] = link[k + 1]
  BY LinkShorter DEF Take
<1>2. mqtt.rest = {} /\ UNCHANGED <<stored, actual>>
  BY DEF Take, tree
<1>3. ASSUME NEW k \in 0..Len(link), k > 0, NoFdBehind(k, t)
      PROVE  NoFdBehind(k - 1, t)'
  <2>1. \A j \in 1..Len(link') : j > k - 1 => ~IsFd(link'[j], t)
    BY <1>1, <1>3 DEF NoFdBehind
  <2> QED BY <2>1 DEF NoFdBehind, IsFd
<1>4. ASSUME NEW k \in 1..Len(link),
             IsFd(link[k], t), link[k].value = actual[t], NoFdBehind(k, t)
      PROVE  Newest(t)'
  <2>1. CASE k = 1
    <3>1. mqtt' = [packet |-> link[1], rest |-> {link[1].device}]
      BY <1>1, <1>4, <2>1 DEF Take, IsFd, DevicesIn
    <3>2. NoFdBehind(0, t)'
      BY <1>3, <1>4, <2>1
    <3> QED BY <1>2, <1>4, <2>1, <3>1, <3>2 DEF Newest, Handling, IsFd
  <2>2. CASE k # 1
    <3>1. k - 1 \in 1..Len(link') /\ link'[k - 1] = link[k] /\ NoFdBehind(k - 1, t)'
      BY <1>1, <1>3, <1>4, <2>2
    <3> QED BY <1>2, <1>4, <3>1 DEF Newest, IsFd
  <2> QED BY <2>1, <2>2
<1>5. ASSUME stored[t] = actual[t], NoFdBehind(0, t)
      PROVE  Newest(t)'
  <2>1. ~IsFd(link[1], t)
    BY <1>1, <1>5 DEF NoFdBehind
  <2>2. ~Handling(t)'
    <3>1. CASE mqtt' = mqtt
      BY <1>2, <3>1 DEF Handling
    <3>2. CASE mqtt'.packet = link[1]
      BY <2>1, <3>2 DEF Handling, IsFd
    <3> QED BY <1>1, <3>1, <3>2 DEF Take
  <2>3. NoFdBehind(0, t)'
    BY <1>1, <1>5 DEF NoFdBehind, IsFd
  <2> QED BY <1>2, <1>5, <2>2, <2>3 DEF Newest
<1> QED BY <1>2, <1>4, <1>5 DEF Newest, Handling

\* When a value or an availability is handled, its instance is ready and has what it is about.
LEMMA LateIsReady ==
  ASSUME Typed, Ordered, NEW d \in mqtt.rest, Late(mqtt.packet),
         NEW t \in Thing, t[2] = d, Told(t)
  PROVE  /\ "status" \in updated[t[1]] /\ "expose" \in updated[t[1]]
         /\ "online" \in exposed[t] /\ "value" \in exposed[t]
<1>1. BuildingDone /\ \A j \in 1..Len(link) : link[j].kind \notin Building
  BY DEF Ordered
<1>2. ASSUME NEW q, q.kind \in Building PROVE ~Coming(q, t)
  BY <1>1, <1>2 DEF Coming, BuildingDone, Late, Building
<1>3. StatusOf(t).kind \in Building /\ Of("expose", t).kind \in Building
  BY DEF StatusOf, Of, Building
<1>4. ~Coming(StatusOf(t), t) /\ ~Coming(Of("expose", t), t)
  BY <1>2, <1>3
<1> QED BY <1>4 DEF Told

\* What a handled packet changes in the tree.
LEMMA UpdateFacts ==
  ASSUME Typed, NEW d \in Device, Update(d)
  PROVE  /\ d \in mqtt.rest /\ mqtt.packet \in Packet /\ mqtt.packet.kind # "suback"
         /\ <<mqtt.packet.instance, d>> \in Thing
         /\ mqtt'.packet = mqtt.packet /\ mqtt'.rest = mqtt.rest \ {d}
         /\ UNCHANGED <<link, retained, actual, speaking, order>>
         /\ requests \subseteq requests' /\ online \subseteq online'
         /\ known \subseteq known' /\ known' \subseteq known \cup {<<mqtt.packet.instance, d>>}
         /\ \A i \in Instance : updated[i] \subseteq updated'[i]
         /\ \A t \in Thing : exposed[t] \subseteq exposed'[t]
         /\ \A t \in Thing : t # <<mqtt.packet.instance, d>> => stored'[t] = stored[t]
         /\ mqtt.packet.kind # "fd" => stored' = stored
<1> DEFINE p == mqtt.packet
           i == p.instance
           t == <<i, d>>
<1>1. d \in mqtt.rest /\ mqtt \in [packet : Packet, rest : SUBSET Device]
  BY DEF Update, Typed, TypeOK
<1>2. p \in Packet /\ p.kind # "suback" /\ i \in Instance
  BY <1>1, PacketFacts DEF Typed
<1>3. t \in Thing
  BY <1>2 DEF Thing
<1>4. mqtt'.packet = p /\ mqtt'.rest = mqtt.rest \ {d}
  BY <1>1 DEF Update
<1>5. /\ updated \in [Instance -> SUBSET Building]
      /\ exposed \in [Thing -> SUBSET {"online", "value"}]
      /\ stored \in [Thing -> Value \cup {None}]
  BY DEF Typed, TypeOK
<1>6. UNCHANGED <<link, retained, actual, speaking, order>>
  BY DEF Update
<1>7. CASE ~Passes(p)
  <2>1. UNCHANGED <<updated, known, exposed, stored, online, requests>>
    BY <1>7 DEF Update
  <2> QED BY <1>1, <1>2, <1>3, <1>4, <1>6, <2>1
<1>8. CASE Passes(p)
  <2>1. /\ known' = known \cup {t} /\ requests' \in {requests, requests \cup {t}}
        /\ Apply(p, t)
        /\ updated' = [updated EXCEPT ![i] = @ \cup ({p.kind} \cap Building)]
    BY <1>8 DEF Update
  <2>2. online \subseteq online' /\ (p.kind # "fd" => stored' = stored)
    BY <2>1 DEF Apply
  <2>3. stored' = stored \/ stored' = [stored EXCEPT ![t] = p.value]
    BY <2>1 DEF Apply
  <2>4. \A u \in Thing : u # t => stored'[u] = stored[u]
    BY <1>5, <2>3
  <2>5. \A j \in Instance : updated[j] \subseteq updated'[j]
    BY <1>2, <1>5, <2>1
  <2>6. PICK x : exposed' = [exposed EXCEPT ![t] = @ \cup x]
    BY <2>1 DEF Apply
  <2>7. \A u \in Thing : exposed[u] \subseteq exposed'[u]
    BY <1>3, <1>5, <2>6
  <2> QED BY <1>1, <1>2, <1>3, <1>4, <1>6, <2>1, <2>2, <2>4, <2>5, <2>7
<1> QED BY <1>7, <1>8

\* What a packet in the thread's hands is about is what it brings about.
LEMMA UpdateIsTold ==
  ASSUME Typed, Ordered, NEW d \in Device, Update(d), NEW t \in Thing, Told(t)
  PROVE  Told(t)'
<1> DEFINE p == mqtt.packet
           o == <<p.instance, d>>
<1>1. /\ d \in mqtt.rest /\ p \in Packet /\ p.kind # "suback" /\ o \in Thing
      /\ mqtt'.packet = p /\ mqtt'.rest = mqtt.rest \ {d}
      /\ UNCHANGED <<link, retained>> /\ online \subseteq online' /\ known \subseteq known'
      /\ t[1] \in Instance /\ t[2] \in Device
  BY UpdateFacts DEF Thing
<1>2. updated[t[1]] \subseteq updated'[t[1]] /\ exposed[t] \subseteq exposed'[t]
  BY <1>1, UpdateFacts
<1>3. ASSUME NEW q, Coming(q, t), ~(p = q /\ d = t[2])
      PROVE  Coming(q, t)'
  BY <1>1, <1>3 DEF Coming
<1>4. ASSUME p.instance = t[1], d = t[2], Passes(p)
      PROVE  /\ t \in known' /\ {p.kind} \cap Building \subseteq updated'[t[1]]
             /\ p.kind = "status" => "online" \in exposed'[t]
             /\ p.kind = "expose" => "value" \in exposed'[t]
             /\ p.kind = "device" /\ "online" \in exposed[t] => t \in online'
  <2>1. o = t
    BY <1>4 DEF Thing
  <2>2. known' = known \cup {t} /\ Apply(p, t)
        /\ updated' = [updated EXCEPT ![t[1]] = @ \cup ({p.kind} \cap Building)]
    BY <1>4, <2>1 DEF Update
  <2>3. updated \in [Instance -> SUBSET Building]
        /\ exposed \in [Thing -> SUBSET {"online", "value"}]
    BY DEF Typed, TypeOK
  <2>4. {p.kind} \cap Building \subseteq updated'[t[1]]
    BY <1>1, <2>2, <2>3
  <2>5. exposed' = [exposed EXCEPT ![t] = @ \cup
                      (IF p.kind = "status" THEN {"online"}
                       ELSE IF p.kind = "expose" THEN {"value"} ELSE {})]
    BY <2>2 DEF Apply
  <2>6. p.kind = "status" => "online" \in exposed'[t]
    BY <2>3, <2>5
  <2>7. p.kind = "expose" => "value" \in exposed'[t]
    BY <2>3, <2>5
  <2>8. p.kind = "device" /\ "online" \in exposed[t] => t \in online'
    BY <2>2 DEF Apply
  <2> QED BY <2>2, <2>4, <2>6, <2>7, <2>8
<1>5. Coming(StatusOf(t), t)'
        \/ ("online" \in exposed'[t] /\ "status" \in updated'[t[1]] /\ t \in known')
  <2>1. CASE p = StatusOf(t) /\ d = t[2]
    <3>1. p.kind = "status" /\ p.instance = t[1]
      BY <2>1 DEF StatusOf
    <3>2. Passes(p)
      BY <3>1 DEF Passes, Building
    <3> QED BY <1>4, <2>1, <3>1, <3>2 DEF Building
  <2>2. CASE ~(p = StatusOf(t) /\ d = t[2])
    <3>1. CASE Coming(StatusOf(t), t)
      <4>1. Coming(StatusOf(t), t)'
        BY <1>3, <2>2, <3>1 DEF StatusOf
      <4> QED BY <4>1
    <3>2. CASE ~Coming(StatusOf(t), t)
      BY <1>1, <1>2, <3>2 DEF Told
    <3> QED BY <3>1, <3>2
  <2> QED BY <2>1, <2>2
<1>6. Coming(Of("expose", t), t)'
        \/ ("value" \in exposed'[t] /\ "expose" \in updated'[t[1]])
  <2>1. CASE p = Of("expose", t) /\ d = t[2]
    <3>1. p.kind = "expose" /\ p.instance = t[1]
      BY <2>1 DEF Of
    <3>2. Passes(p)
      BY <3>1 DEF Passes, Building
    <3> QED BY <1>4, <2>1, <3>1, <3>2 DEF Building
  <2>2. CASE ~(p = Of("expose", t) /\ d = t[2])
    <3>1. CASE Coming(Of("expose", t), t)
      <4>1. Coming(Of("expose", t), t)'
        BY <1>3, <2>2, <3>1 DEF Of
      <4> QED BY <4>1
    <3>2. CASE ~Coming(Of("expose", t), t)
      BY <1>1, <1>2, <3>2 DEF Told
    <3> QED BY <3>1, <3>2
  <2> QED BY <2>1, <2>2
<1>7. Coming(Of("device", t), t)' \/ t \in online'
  <2>1. CASE p = Of("device", t) /\ d = t[2]
    <3>1. p.kind = "device" /\ p.instance = t[1]
      BY <2>1 DEF Of
    <3>2. Late(p)
      BY <3>1 DEF Late
    <3>3. /\ "status" \in updated[t[1]] /\ "expose" \in updated[t[1]]
          /\ "online" \in exposed[t]
      BY <1>1, <2>1, <3>2, LateIsReady
    <3>4. Passes(p)
      <4>1. updated[t[1]] \in SUBSET Building
        BY <1>1 DEF Typed, TypeOK
      <4> QED BY <3>1, <3>3, <4>1 DEF Passes, Ready, Building
    <3> QED BY <1>4, <2>1, <3>1, <3>3, <3>4
  <2>2. CASE ~(p = Of("device", t) /\ d = t[2])
    <3>1. CASE Coming(Of("device", t), t)
      <4>1. Coming(Of("device", t), t)'
        BY <1>3, <2>2, <3>1 DEF Of
      <4> QED BY <4>1
    <3>2. CASE ~Coming(Of("device", t), t)
      BY <1>1, <3>2 DEF Told
    <3> QED BY <3>1, <3>2
  <2> QED BY <2>1, <2>2
<1>8. QED
  BY <1>5, <1>6, <1>7 DEF Told, StatusOf, Of

\* A value that is handled is stored, since its instance is ready and its property is there.
LEMMA UpdateNewest ==
  ASSUME Typed, InPacket, Ordered, NEW d \in Device, Update(d), NEW t \in Thing, Told(t), Newest(t)
  PROVE  Newest(t)'
<1> DEFINE p == mqtt.packet
           o == <<p.instance, d>>
<1>1. /\ d \in mqtt.rest /\ p \in Packet /\ p.kind # "suback" /\ o \in Thing
      /\ mqtt'.packet = p /\ mqtt'.rest = mqtt.rest \ {d}
      /\ UNCHANGED <<link, retained, actual>>
      /\ t # o => stored'[t] = stored[t]
      /\ p.kind # "fd" => stored' = stored
      /\ t[1] \in Instance /\ t[2] \in Device
  BY UpdateFacts DEF Thing
<1>2. CASE \E k \in 1..Len(link) :
             IsFd(link[k], t) /\ link[k].value = actual[t] /\ NoFdBehind(k, t)
  BY <1>1, <1>2 DEF Newest, NoFdBehind, IsFd
<1>3. CASE Handling(t) /\ p.value = actual[t] /\ NoFdBehind(0, t)
  <2>0. NoFdBehind(0, t)'
    BY <1>1, <1>3 DEF NoFdBehind, IsFd
  <2>1. CASE d # t[2]
    <3>1. Handling(t)'
      BY <1>1, <1>3, <2>1 DEF Handling, IsFd
    <3> QED BY <1>1, <1>3, <2>0, <3>1 DEF Newest
  <2>2. CASE d = t[2]
    <3>1. p.kind = "fd" /\ p.instance = t[1] /\ o = t /\ Late(p)
      BY <1>3, <2>2 DEF Handling, IsFd, Late, Thing
    <3>2. /\ "status" \in updated[t[1]] /\ "expose" \in updated[t[1]]
          /\ "value" \in exposed[t]
      BY <1>1, <2>2, <3>1, LateIsReady
    <3>3. Passes(p)
      <4>1. updated[t[1]] \in SUBSET Building
        BY <1>1 DEF Typed, TypeOK
      <4> QED BY <3>1, <3>2, <4>1 DEF Passes, Ready, Building
    <3>4. stored' = [stored EXCEPT ![t] = p.value]
      BY <3>1, <3>2, <3>3 DEF Update, Apply
    <3>5. stored'[t] = actual'[t]
      BY <1>1, <1>3, <3>4 DEF Typed, TypeOK
    <3>6. ~Handling(t)'
      BY <1>1, <2>2 DEF Handling
    <3> QED BY <2>0, <3>5, <3>6 DEF Newest
  <2> QED BY <2>1, <2>2
<1>4. CASE ~Handling(t) /\ stored[t] = actual[t] /\ NoFdBehind(0, t)
  <2>0. NoFdBehind(0, t)'
    BY <1>1, <1>4 DEF NoFdBehind, IsFd
  <2>1. ~Handling(t)'
    BY <1>1, <1>4 DEF Handling, IsFd
  <2>2. stored'[t] = stored[t]
    <3>1. CASE p.kind = "fd"
      <4>1. mqtt.rest \subseteq {p.device}
        BY <3>1 DEF InPacket, DevicesIn
      <4>2. d = p.device
        BY <1>1, <4>1
      <4>3. t # o
        BY <1>1, <1>4, <3>1, <4>2 DEF Handling, IsFd
      <4> QED BY <1>1, <4>3
    <3>2. CASE p.kind # "fd"
      BY <1>1, <3>2
    <3> QED BY <3>1, <3>2
  <2> QED BY <1>1, <1>4, <2>0, <2>1, <2>2 DEF Newest
<1> QED BY <1>2, <1>3, <1>4 DEF Newest

\* One sendUpdate forgets nothing.
LEMMA UpdateUnforgotten ==
  ASSUME Typed, Unforgotten, NEW d \in Device, Update(d)
  PROVE  Unforgotten'
<1> SUFFICES ASSUME order = "orderly"
             PROVE  InPacket' /\ NoValueRetained' /\ Ordered' /\ (\A t \in Thing : Remembered(t))'
  BY UpdateFacts DEF Unforgotten
<1> DEFINE p == mqtt.packet
           o == <<p.instance, d>>
<1>1. InPacket /\ Ordered /\ \A t \in Thing : Remembered(t)
  BY DEF Unforgotten
<1>2. /\ d \in mqtt.rest /\ o \in Thing
      /\ mqtt'.packet = p /\ mqtt'.rest = mqtt.rest \ {d}
      /\ UNCHANGED <<link, retained, speaking>>
      /\ requests \subseteq requests'
      /\ known' \subseteq known \cup {o}
  BY UpdateFacts
<1>3. InPacket'
  BY <1>1, <1>2 DEF InPacket, DevicesIn
<1>4. Ordered'
  BY <1>1, <1>2 DEF Ordered, BuildingDone, Late
<1>5. ASSUME NEW t \in Thing PROVE Remembered(t)'
  <2> SUFFICES ASSUME t[1] \in speaking
               PROVE  Told(t)' /\ (t \in known' => t \in requests' \/ Newest(t)')
    BY <1>2 DEF Remembered
  <2>1. Told(t) /\ (t \in known => t \in requests \/ Newest(t))
    BY <1>1 DEF Remembered
  <2>2. Told(t)'
    BY <1>1, <2>1, UpdateIsTold
  <2>3. CASE t \in known
    BY <1>1, <1>2, <2>1, <2>2, <2>3, UpdateNewest
  <2>4. CASE t \notin known /\ t \in known'
    <3>1. t = o
      BY <1>2, <2>4
    <3>2. requests' = requests \cup {t}
      BY <2>4, <3>1 DEF Update, Asks
    <3> QED BY <2>2, <3>2
  <2> QED BY <2>2, <2>3, <2>4
<1>6. NoValueRetained'
  BY <1>2 DEF Unforgotten, NoValueRetained
<1> QED BY <1>3, <1>4, <1>5, <1>6

\* The callback thread takes a packet.
LEMMA TakeUnforgotten == Typed /\ Unforgotten /\ Take => Unforgotten'
<1> SUFFICES ASSUME Typed, Unforgotten, Take, order = "orderly"
             PROVE  InPacket' /\ NoValueRetained' /\ Ordered' /\ (\A t \in Thing : Remembered(t))'
  BY DEF Unforgotten, Take
<1>1. InPacket /\ Ordered /\ \A t \in Thing : Remembered(t)
  BY DEF Unforgotten
<1>2. UNCHANGED <<known, speaking, requests>>
  BY DEF Take, tree
<1>3. ASSUME NEW t \in Thing PROVE Remembered(t)'
  BY <1>1, <1>2, TakenIsComing, TakenNewest DEF Remembered
<1>4. NoValueRetained'
  BY DEF Take, Unforgotten, NoValueRetained
<1> QED BY <1>1, <1>3, <1>4, TakenInOrder, TakenInPacket

\* What the broker and the services send.
LEMMA SentUnforgotten ==
  ASSUME Typed, Unforgotten, order = "orderly", NEW p \in Packet, link' = Append(link, p),
         retained' \in SUBSET retained, retained \subseteq retained' \cup {p},
         UNCHANGED <<mqtt, tree, speaking, order>>,
         p.kind \in Building => p \in retained,
         Late(p) => BuildingDone,
         \A t \in Thing : \/ IsFd(p, t) /\ p.value = actual'[t]
                          \/ ~IsFd(p, t) /\ actual'[t] = actual[t] /\ (t \in requests => t \in requests')
  PROVE  Unforgotten'
<1>1. InPacket /\ Ordered /\ \A t \in Thing : Remembered(t)
  BY DEF Unforgotten
<1>2. InPacket'
  BY <1>1 DEF InPacket, DevicesIn
<1>3. Ordered'
  BY <1>1, SentInOrder
<1>4. ASSUME NEW t \in Thing PROVE Remembered(t)'
  <2> SUFFICES ASSUME t[1] \in speaking
               PROVE  Told(t)' /\ (t \in known' => t \in requests' \/ Newest(t)')
    BY DEF Remembered
  <2>1. Told(t) /\ (t \in known => t \in requests \/ Newest(t))
    BY <1>1 DEF Remembered
  <2>2. Told(t)'
    BY <2>1, SentIsComing DEF tree
  <2>3. CASE IsFd(p, t) /\ p.value = actual'[t]
    BY <2>2, <2>3, SentNewest DEF tree
  <2>4. CASE ~IsFd(p, t) /\ actual'[t] = actual[t] /\ (t \in requests => t \in requests')
    BY <2>1, <2>2, <2>4, SentNewest DEF tree
  <2> QED BY <2>3, <2>4
<1>5. NoValueRetained'
  BY DEF Unforgotten, NoValueRetained
<1> QED BY <1>2, <1>3, <1>4, <1>5 DEF Unforgotten

\* The broker and the services act.
LEMMA OutsideUnforgotten ==
  ASSUME Typed, Unforgotten, Broker \/ \E t \in Thing, v \in Value : Change(t, v)
  PROVE  Unforgotten'
<1>0. CASE order # "orderly"
  BY <1>0 DEF Broker, SubAck, SendRetained, Answer, Change, Unforgotten
<1> SUFFICES ASSUME order = "orderly" PROVE Unforgotten'
  BY <1>0
<1>1. CASE SubAck
  <2>0. [kind |-> "suback"] \in [kind : {"suback"}]
    OBVIOUS
  <2>1. PICK p \in Packet : p = [kind |-> "suback"]
    BY <2>0 DEF Packet
  <2>2. p.kind = "suback"
    BY <2>1
  <2>3. /\ link' = Append(link, p)
        /\ UNCHANGED <<main, tree, mqtt, retained, requests, actual, changes, speaking, order, ub>>
    BY <1>1, <2>1 DEF SubAck
  <2>4. p.kind \notin Building /\ ~Late(p) /\ \A t \in Thing : ~IsFd(p, t)
    BY <2>2 DEF Building, Late, IsFd
  <2> QED BY <2>3, <2>4, SentUnforgotten
<1>2. CASE SendRetained
  <2>1. PICK p \in retained : MaySend(p.kind) /\ link' = Append(link, p) /\ retained' = retained \ {p}
    BY <1>2 DEF SendRetained
  <2>2. UNCHANGED <<main, tree, mqtt, ack, requests, actual, changes, speaking, order, ub>>
    BY <1>2 DEF SendRetained
  <2>3. p \in Packet
    BY DEF Typed, TypeOK
  <2>4. Late(p) => BuildingDone
    BY <2>1 DEF MaySend, Late, Building
  <2>5. p.kind # "fd"
    BY DEF Unforgotten, NoValueRetained
  <2> QED BY <2>1, <2>2, <2>3, <2>4, <2>5, SentUnforgotten DEF IsFd
<1>f. ASSUME NEW t \in Thing, actual' \in [Thing -> Value]
      PROVE  /\ Fd(t) \in Packet /\ Fd(t).kind = "fd" /\ Fd(t).value = actual'[t]
             /\ IsFd(Fd(t), t)
             /\ \A u \in Thing : IsFd(Fd(t), u) => u = t
  <2>1. actual'[t] \in Value /\ t[1] \in Instance /\ t[2] \in Device
    BY <1>f DEF Thing
  <2>2. Fd(t) = [kind |-> "fd", instance |-> t[1], device |-> t[2], value |-> actual'[t]]
    BY DEF Fd
  <2>3. Fd(t) \in [kind : {"fd"}, instance : Instance, device : Device, value : Value]
    BY <2>1, <2>2
  <2>4. Fd(t) \in Packet
    BY <2>3 DEF Packet
  <2>5. Fd(t).kind = "fd" /\ Fd(t).value = actual'[t] /\ Fd(t).instance = t[1] /\ Fd(t).device = t[2]
    BY <2>2
  <2>6. \A u \in Thing : u[1] = t[1] /\ u[2] = t[2] => u = t
    BY DEF Thing
  <2> QED BY <2>4, <2>5, <2>6 DEF IsFd
<1>g. ASSUME NEW t \in Thing, actual' \in [Thing -> Value], MaySend("fd"),
             link' = Append(link, Fd(t)), UNCHANGED <<tree, mqtt, retained, speaking, order>>,
             \A u \in Thing : u # t =>
               actual'[u] = actual[u] /\ (u \in requests => u \in requests')
      PROVE  Unforgotten'
  <2>1. PICK p \in Packet :
          /\ p = Fd(t) /\ p.kind = "fd" /\ p.value = actual'[t] /\ IsFd(p, t)
          /\ \A u \in Thing : IsFd(p, u) => u = t
    BY <1>f, <1>g
  <2>2. link' = Append(link, p)
    BY <1>g, <2>1
  <2>3. p.kind \notin Building
    BY <2>1 DEF Building
  <2>4. BuildingDone
    BY <1>g DEF MaySend, Building
  <2>5. \A u \in Thing :
          \/ IsFd(p, u) /\ p.value = actual'[u]
          \/ ~IsFd(p, u) /\ actual'[u] = actual[u] /\ (u \in requests => u \in requests')
    BY <1>g, <2>1
  <2>6. retained' \in SUBSET retained /\ retained \subseteq retained' \cup {p}
    BY <1>g
  <2> QED BY <1>g, <2>2, <2>3, <2>4, <2>5, <2>6, SentUnforgotten
<1>3. CASE Answer
  <2>1. PICK t \in requests : requests' = requests \ {t} /\ actual' = actual
                              /\ link' = Append(link, Fd(t))
    BY <1>3 DEF Answer
  <2>2. t \in Thing /\ actual' \in [Thing -> Value]
    BY <2>1 DEF Typed, TypeOK
  <2> QED BY <1>3, <1>g, <2>1, <2>2 DEF Answer
<1>4. ASSUME NEW t \in Thing, NEW v \in Value, Change(t, v) PROVE Unforgotten'
  <2>1. actual' \in [Thing -> Value] /\ \A u \in Thing : u # t => actual'[u] = actual[u]
    BY <1>4 DEF Change, Typed, TypeOK
  <2> QED BY <1>4, <1>g, <2>1 DEF Change
<1> QED BY <1>1, <1>2, <1>3, <1>4 DEF Broker

\* At first everything is retained.
LEMMA InitUnforgotten == Init => Unforgotten
<1> SUFFICES ASSUME Init PROVE InPacket /\ NoValueRetained /\ Ordered /\ \A t \in Thing : Remembered(t)
  BY DEF Unforgotten
<1>1. /\ link = <<>> /\ mqtt.rest = {} /\ known = {}
      /\ retained = UNION {RetainedBy(i) : i \in speaking}
  BY DEF Init, NotHandling
<1>2. InPacket /\ Ordered
  BY <1>1 DEF InPacket, Ordered
<1>3. ASSUME NEW t \in Thing, t[1] \in speaking PROVE Told(t)
  <2>1. StatusOf(t) \in RetainedBy(t[1])
    BY DEF RetainedBy, StatusOf
  <2>2. Of("expose", t) \in RetainedBy(t[1]) /\ Of("device", t) \in RetainedBy(t[1])
    BY DEF RetainedBy, Of, Thing
  <2>3. RetainedBy(t[1]) \subseteq retained
    BY <1>1, <1>3
  <2> QED BY <2>1, <2>2, <2>3 DEF Told, Coming
<1>4. NoValueRetained
  BY <1>1 DEF NoValueRetained, RetainedBy
<1> QED BY <1>1, <1>2, <1>3, <1>4 DEF Remembered

\* Every step keeps in mind what is still to come.
LEMMA NextUnforgotten == Typed /\ Unforgotten /\ [Next]_vars => Unforgotten'
<1> SUFFICES ASSUME Typed, Unforgotten, [Next]_vars PROVE Unforgotten'
  OBVIOUS
<1>1. CASE UNCHANGED <<tree, mqtt, broker, speaking, order>>
  <2>1. UNCHANGED <<known, exposed, updated, stored, online, mqtt, link, retained, requests,
                    actual, speaking, order>>
    BY <1>1 DEF tree, broker
  <2>2. \A t \in Thing : Remembered(t)' <=> Remembered(t)
    BY <2>1 DEF Remembered, Told, Coming, StatusOf, Of, Newest, Handling, NoFdBehind, IsFd
  <2>3. (Ordered' <=> Ordered) /\ (InPacket' <=> InPacket) /\ (NoValueRetained' <=> NoValueRetained)
    BY <2>1 DEF Ordered, BuildingDone, Late, InPacket, DevicesIn, NoValueRetained
  <2> QED BY <2>1, <2>2, <2>3 DEF Unforgotten
<1>2. Main \/ UNCHANGED vars => UNCHANGED <<tree, mqtt, broker, speaking, order>>
  BY DEF Main, Subscribe, Construct, Poll, Ask, Torn, vars
<1> QED
  BY <1>1, <1>2, TakeUnforgotten, UpdateUnforgotten, OutsideUnforgotten DEF Next, Callback

\* If the services' retained messages that build the tree come before all else, then, once
\* everything sent has been handled, each device of a service that runs is in the tree with
\* its newest value and its availability: although a message before ready() is dropped, the
\* one request per device is enough (CInstance::update, CDevices::update).
THEOREM NothingIsForgotten == Spec => []NothingForgotten
<1>1. Unforgotten => NothingForgotten
  <2> SUFFICES ASSUME Unforgotten, order = "orderly", Quiet, NEW t \in Thing, t[1] \in speaking
               PROVE  stored[t] = actual[t] /\ t \in online
    BY DEF NothingForgotten
  <2>1. Told(t) /\ (t \in known => t \in requests \/ Newest(t))
    BY DEF Unforgotten, Remembered
  <2>2. link = <<>> /\ Len(link) = 0 /\ mqtt.rest = {} /\ retained = {} /\ requests = {}
    BY DEF Quiet
  <2>3. \A q : ~Coming(q, t)
    BY <2>2 DEF Coming
  <2> QED BY <2>1, <2>2, <2>3 DEF Told, Newest, Handling
<1> QED BY InitTyped, NextTyped, InitUnforgotten, NextUnforgotten, <1>1, PTL DEF Spec

-----------------------------------------------------------------------------
(***************************************************************************)
(* The wait for the SUBACK in the constructor of the singleton.            *)
(***************************************************************************)

\* While the constructor of CHomed waits, the SUBACK it waits for is the next packet of the callback
\* thread, which handles nothing meanwhile: the two do not wait for each other, provided
\* that the broker sends the SUBACK first (CHomed::CHomed, CMqttHomedCallback).  What a fair
\* scheduler needs for ConstructorEnds.
AckIsNext ==
  order # "any" /\ ~Constructed /\ ack = "sent" =>
    mqtt.rest = {} /\ link # <<>> /\ Head(link).kind = "suback"

\* Nothing is handled before the singleton is there; nothing is sent before the SUBACK.
AckInv ==
  /\ ack # "received" => ~Constructed
  /\ ~Constructed => mqtt.rest = {}
  /\ order # "any" /\ ack = "unsent" => link = <<>>
  /\ order # "any" /\ ack = "sent" => link # <<>> /\ Head(link).kind = "suback"

\* The SUBACK stays the first when something is sent after it.
LEMMA StillFirst ==
  ASSUME Typed, AckInv, NEW p \in Packet, link' = Append(link, p), MaySend(p.kind),
         UNCHANGED <<main, mqtt, ack, order>>
  PROVE  AckInv'
<1>1. order # "any" => ack # "unsent"
  BY DEF MaySend
<1>2. link # <<>> => link' # <<>> /\ Head(link') = Head(link)
  <2> SUFFICES ASSUME link # <<>> PROVE link' # <<>> /\ Head(link') = Head(link)
    OBVIOUS
  <2>1. link \in Seq(Packet) /\ Len(link) \in Nat \ {0}
    BY DEF Typed, TypeOK
  <2>2. link' \in Seq(Packet) /\ Len(link') = Len(link) + 1 /\ link'[1] = link[1]
    BY <2>1, LinkLonger
  <2> QED BY <2>1, <2>2
<1> QED BY <1>1, <1>2 DEF AckInv, Constructed

\* Every step keeps the order.
LEMMA NextAck == Typed /\ AckInv /\ [Next]_vars => AckInv'
<1> SUFFICES ASSUME Typed, AckInv, [Next]_vars PROVE AckInv'
  OBVIOUS
<1>1. CASE UNCHANGED <<main, mqtt, ack, link, order>>
  BY <1>1 DEF AckInv, Constructed
<1>2. CASE Main
  <2>1. UNCHANGED <<mqtt, ack, link, order>>
    BY <1>2 DEF Main, Subscribe, Construct, Poll, Ask, Torn, broker
  <2>2. /\ main.pc \in {"subscribe", "wait"} /\ main'.pc \in {"poll", "ask", "started"} =>
             ack = "received"
        /\ main.pc \in {"poll", "ask", "started"} => main'.pc \in {"poll", "ask", "started"}
    BY <1>2 DEF Main, Subscribe, Construct, Poll, Ask, Torn, MainAt, MainGoes, Typed, TypeOK
  <2>3. main.pc \in {"subscribe", "wait", "poll", "ask", "started"}
    BY DEF Typed, TypeOK
  <2> QED BY <2>1, <2>2, <2>3 DEF AckInv, Constructed
<1>3. CASE Take
  <2>1. UNCHANGED <<main, order>> /\ link # <<>>
    BY <1>3 DEF Take
  <2>2. CASE Head(link).kind = "suback"
    <3>1. ack' = "received" /\ mqtt' = mqtt
      BY <1>3, <2>2 DEF Take
    <3> QED BY <2>1, <3>1 DEF AckInv, Constructed
  <2>3. CASE Head(link).kind # "suback"
    <3>1. Constructed /\ ack' = ack
      BY <1>3, <2>3 DEF Take
    <3> QED BY <2>1, <2>3, <3>1 DEF AckInv, Constructed
  <2> QED BY <2>2, <2>3
<1>4. ASSUME NEW d \in Device, Update(d) PROVE AckInv'
  BY <1>4 DEF Update, AckInv, Constructed
<1>5. CASE SubAck
  <2>1. /\ ack = "unsent" /\ ack' = "sent" /\ UNCHANGED <<main, mqtt, order>>
        /\ link' = Append(link, [kind |-> "suback"])
    BY <1>5 DEF SubAck
  <2>2. link = <<>> => link' # <<>> /\ Head(link').kind = "suback"
    BY <2>1
  <2> QED BY <2>1, <2>2 DEF AckInv, Constructed
<1>6. CASE SendRetained
  <2>1. PICK p \in retained : MaySend(p.kind) /\ link' = Append(link, p)
    BY <1>6 DEF SendRetained
  <2>2. p \in Packet /\ UNCHANGED <<main, mqtt, ack, order>>
    BY <1>6 DEF SendRetained, Typed, TypeOK
  <2> QED BY <2>1, <2>2, StillFirst
<1>7. CASE Answer \/ \E t \in Thing, v \in Value : Change(t, v)
  <2>1. \E t \in Thing : actual' \in [Thing -> Value] /\ link' = Append(link, Fd(t))
    <3>1. CASE Answer
      BY <3>1 DEF Answer, Typed, TypeOK
    <3>2. CASE \E t \in Thing, v \in Value : Change(t, v)
      BY <3>2 DEF Change, Typed, TypeOK
    <3> QED BY <1>7, <3>1, <3>2
  <2>2. MaySend("fd") /\ UNCHANGED <<main, mqtt, ack, order>>
    BY <1>7 DEF Answer, Change
  <2>3. PICK t \in Thing : actual' \in [Thing -> Value] /\ link' = Append(link, Fd(t))
    BY <2>1
  <2>4. actual'[t] \in Value /\ t[1] \in Instance /\ t[2] \in Device
    BY <2>3 DEF Thing
  <2>5. Fd(t) \in Packet /\ Fd(t).kind = "fd"
    BY <2>4 DEF Fd, Packet
  <2> QED BY <2>2, <2>3, <2>5, StillFirst
<1> QED
  BY <1>1, <1>2, <1>3, <1>4, <1>5, <1>6, <1>7 DEF Next, Callback, Broker, vars, broker

\* The constructor of the singleton and the thread that is to receive the SUBACK never wait for
\* each other if the broker sends the SUBACK before anything else.
THEOREM NoStandstillAtStart == Spec => []AckIsNext
<1>1. Init => AckInv
  BY DEF Init, AckInv, Constructed, NotHandling
<1>2. AckInv => AckIsNext
  BY DEF AckInv, AckIsNext
<1> QED BY InitTyped, NextTyped, NextAck, <1>1, <1>2, PTL DEF Spec

=============================================================================
