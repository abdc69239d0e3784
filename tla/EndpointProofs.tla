------------------------------ MODULE EndpointProofs ------------------------------
(***************************************************************************)
(* Theorems about Endpoint, for any properties, values, messages and       *)
(* clears.                                                                 *)
(***************************************************************************)
EXTENDS Endpoint, WellFoundedInduction, TLAPS

-----------------------------------------------------------------------------
(***************************************************************************)
(* Where the MQTT thread is in a message.                                  *)
(***************************************************************************)

\* The properties the message in hand carries values for.
Mine == DOMAIN mqtt.message \cap exposed

Compared == IF mqtt.pc = "compare" THEN {mqtt.name} ELSE {}

Called == IF mqtt.pc = "call" THEN {mqtt.name} ELSE {}

\* A turn for each member; what is known has had its turn, and of what is known the always-update
\* properties are to be stored; what is stored is among what the message carries.
Placed ==
  /\ mqtt.pc = "idle" => mqtt = Idle
  /\ mqtt.rest \subseteq DOMAIN mqtt.message
  /\ mqtt.pc \in {"find", "compare"} =>
       /\ mqtt.known \subseteq Mine /\ mqtt.changed \subseteq mqtt.known
       /\ mqtt.rest \cap mqtt.known = {}
       /\ Mine \subseteq mqtt.rest \cup mqtt.known
       /\ AlwaysUpdate \cap mqtt.known \subseteq mqtt.changed
  /\ mqtt.pc = "compare" => mqtt.name \in mqtt.known \ (mqtt.changed \cup AlwaysUpdate)
  /\ mqtt.pc \in {"store", "call"} => mqtt.rest \subseteq Mine /\ mqtt.changed = {}
  /\ mqtt.pc = "call" => mqtt.name \in Mine \ mqtt.rest
  /\ \A n \in Mine : carried[n] = mqtt.message[n]

Typed == TypeOK /\ Placed

-----------------------------------------------------------------------------
\* The properties that are to be stored, if nothing interferes, and those that may be.
Sure == Mine \cap (mqtt.rest \cup mqtt.changed)
Open == Sure \cup Compared

\* The rest of them have what was carried for them.
StoreInv ==
  \A n \in Name \ Open : history[n] # <<>> => history[n][1].value = carried[n]

\* An event is still to come for the always-update properties that are to be stored, and for
\* the one that has been.
ArrivalInv ==
  \A n \in AlwaysUpdate :
    named[n] = arrivals[n] + (IF n \in Sure \cup Called THEN 1 ELSE 0)

-----------------------------------------------------------------------------
\* The change has been counted, and its event has not been raised.
Ahead ==
  {n \in Name : /\ history[n] # <<>>
                /\ \/ n \in Open /\ history[n][1].value # mqtt.message[n]
                   \/ n \in Called /\ ValueChanged(history[n])}

\* The changes and the events are apart by at most the number of clears; a history that has been
\* emptied will raise an event too many.
AlarmInv ==
  \A n \in Name :
    /\ history[n] # <<>> =>
         /\ alarms[n] + (IF n \in Ahead THEN 1 ELSE 0) <= changes[n] + clears[n]
         /\ changes[n] <= alarms[n] + clears[n] + (IF n \in Ahead THEN 1 ELSE 0)
    /\ history[n] = <<>> /\ carried[n] # None =>
         /\ alarms[n] + 1 <= changes[n] + clears[n]
         /\ changes[n] <= alarms[n] + clears[n] + (IF n \in Sure THEN 1 ELSE 0)
    /\ carried[n] = None => history[n] = <<>> /\ alarms[n] = changes[n]

-----------------------------------------------------------------------------
(***************************************************************************)
(* The operators.                                                          *)
(***************************************************************************)

\* A set of names has a first one.
LEMMA FirstFacts ==
  ASSUME NEW S, S \subseteq Name, S # {}
  PROVE  First(S) \in S
<1> DEFINE R == {ss \in Nat \X Nat : ss[1] < ss[2]}
<1>1. IsWellFoundedOn(R, Nat)
  BY NatLessThanWellFounded DEF OpToRel
<1>2. S \subseteq Nat
  BY EndpointAssumption
<1> HIDE DEF R
<1>3. PICK n \in S : \A k \in S : ~(<<k, n>> \in R)
  BY <1>1, <1>2, WFMin
<1>4. ASSUME NEW k \in S, k < n
      PROVE  FALSE
  <2>1. <<k, n>> \in Nat \X Nat /\ <<k, n>>[1] < <<k, n>>[2]
    BY <1>2, <1>4
  <2>2. <<k, n>> \in R
    BY <2>1, Zenon DEF R
  <2>3. QED
    BY <1>3, <2>2
<1>5. \A k \in S : n <= k
  BY <1>2, <1>4
<1>6. QED
  BY <1>5 DEF First

LEMMA CountFacts ==
  ASSUME NEW f \in [Name -> Nat], NEW S
  PROVE  /\ Count(f, S) \in [Name -> Nat]
         /\ \A n \in Name : Count(f, S)[n] = IF n \in S THEN f[n] + 1 ELSE f[n]
BY DEF Count

\* What is stored is the newest, and a change if it differs from what was the newest, or was
\* stored into an empty history.
LEMMA PushFacts ==
  ASSUME NEW h \in Seq(Element), NEW x \in Element
  PROVE  /\ Push(h, x) \in Seq(Element)
         /\ Push(h, x) # <<>> => Push(h, x)[1] = x
         /\ HistorySize > 1 =>
              /\ Push(h, x) # <<>>
              /\ ValueChanged(Push(h, x)) <=> h = <<>> \/ h[1].value # x.value
<1> DEFINE longer == <<x>> \o h
           r == Push(h, x)
<1>1. /\ longer \in Seq(Element) /\ Len(longer) = Len(h) + 1 /\ Len(h) \in Nat
      /\ longer[1] = x /\ (h # <<>> => longer[2] = h[1])
  OBVIOUS
<1>2. HistorySize \in Nat
  BY HistorySizeAssumption
<1>3. h = <<>> <=> Len(h) = 0
  OBVIOUS
<1>4. CASE Len(longer) > HistorySize
  <2>1. r = SubSeq(longer, 1, Len(h))
    BY <1>1, <1>4 DEF Push
  <2>2. /\ r \in Seq(Element) /\ Len(r) = Len(h)
        /\ \A i \in 1..Len(h) : r[i] = longer[i]
    BY <1>1, <2>1
  <2>3. r # <<>> => r[1] = x
    BY <1>1, <2>2
  <2>4. ASSUME HistorySize > 1
        PROVE  /\ r # <<>>
               /\ ValueChanged(r) <=> h = <<>> \/ h[1].value # x.value
    <3>1. Len(h) > 1
      BY <1>1, <1>2, <1>4, <2>4
    <3>2. r[1] = x /\ r[2] = h[1] /\ r # <<>> /\ h # <<>>
      BY <1>1, <1>3, <2>2, <3>1
    <3>3. QED
      BY <2>2, <3>1, <3>2 DEF ValueChanged, Differs
  <2>5. QED
    BY <2>2, <2>3, <2>4
<1>5. CASE ~(Len(longer) > HistorySize)
  <2>1. r = longer
    BY <1>5 DEF Push
  <2>2. r # <<>> /\ r[1] = x /\ Len(r) = Len(h) + 1
    BY <1>1, <2>1
  <2>3. ValueChanged(r) <=> h = <<>> \/ h[1].value # x.value
    <3>1. CASE h = <<>>
      BY <1>3, <2>2, <3>1 DEF ValueChanged
    <3>2. CASE h # <<>>
      <4>1. Len(r) > 1 /\ r[2] = h[1]
        BY <1>1, <1>3, <2>1, <2>2, <3>2
      <4>2. QED
        BY <2>2, <3>2, <4>1 DEF ValueChanged, Differs
    <3>3. QED
      BY <3>1, <3>2
  <2>4. QED
    BY <1>1, <2>1, <2>2, <2>3
<1>6. QED
  BY <1>4, <1>5

\* A message is a function from some of the names to values.
LEMMA MessageFacts ==
  /\ \A m \in Message : DOMAIN m \subseteq Name /\ \A n \in DOMAIN m : m[n] \in Value
  /\ NoMessage \in Message /\ DOMAIN NoMessage = {}
<1>1. ASSUME NEW m \in Message
      PROVE  DOMAIN m \subseteq Name /\ \A n \in DOMAIN m : m[n] \in Value
  <2>1. PICK names \in SUBSET Name : m \in [names -> Value]
    BY DEF Message
  <2>2. QED
    BY <2>1
<1>2. NoMessage \in [{} -> Value] /\ DOMAIN NoMessage = {}
  BY DEF NoMessage
<1>3. NoMessage \in Message
  BY <1>2 DEF Message
<1>4. QED
  BY <1>1, <1>2, <1>3

LEMMA IdleFacts ==
  /\ Idle \in Thread /\ Idle.pc = "idle" /\ Idle.message = NoMessage /\ Idle.rest = {}
  /\ Idle.known = {} /\ Idle.changed = {} /\ Idle.name = 0
BY MessageFacts DEF Idle, Thread

\* What the type says of the thread and the message in hand.
LEMMA Fields ==
  ASSUME Typed
  PROVE  /\ mqtt \in Thread /\ mqtt.message \in Message /\ mqtt.name \in Nat
         /\ mqtt.pc \in {"idle", "find", "compare", "store", "call"}
         /\ mqtt.rest \subseteq Name /\ mqtt.known \subseteq Name /\ mqtt.changed \subseteq Name
         /\ DOMAIN mqtt.message \subseteq Name
         /\ \A n \in DOMAIN mqtt.message : mqtt.message[n] \in Value
         /\ Mine \subseteq Name
         /\ \A n \in Name : history[n] \in Seq(Element)
         /\ \A n \in Name : history[n] # <<>> => history[n][1] \in Element
<1>1. mqtt \in Thread /\ exposed \subseteq Name
  BY DEF Typed, TypeOK
<1>2. /\ mqtt.message \in Message /\ mqtt.name \in Nat
      /\ mqtt.pc \in {"idle", "find", "compare", "store", "call"}
      /\ mqtt.rest \subseteq Name /\ mqtt.known \subseteq Name /\ mqtt.changed \subseteq Name
  BY <1>1 DEF Thread
<1>3. /\ DOMAIN mqtt.message \subseteq Name
      /\ \A n \in DOMAIN mqtt.message : mqtt.message[n] \in Value
  BY <1>2, MessageFacts
<1>4. Mine \subseteq Name
  BY <1>1 DEF Mine
<1>5. \A n \in Name : history[n] \in Seq(Element)
  BY DEF Typed, TypeOK
<1>6. \A n \in Name : history[n] # <<>> => history[n][1] \in Element
  BY <1>5
<1>7. QED
  BY <1>1, <1>2, <1>3, <1>4, <1>5, <1>6

\* Between messages nothing is open.
LEMMA IdleSets ==
  ASSUME Typed, mqtt.pc = "idle"
  PROVE  mqtt = Idle /\ Mine = {} /\ Sure = {} /\ Open = {} /\ Called = {} /\ Ahead = {}
<1>1. mqtt = Idle
  BY DEF Typed, Placed
<1>2. Mine = {}
  BY <1>1, IdleFacts, MessageFacts DEF Mine
<1>3. Sure = {} /\ Open = {} /\ Called = {}
  BY <1>2 DEF Sure, Open, Compared, Called
<1>4. QED
  BY <1>1, <1>2, <1>3 DEF Ahead

-----------------------------------------------------------------------------
(***************************************************************************)
(* The three invariants over the sets a step leaves as they are.           *)
(***************************************************************************)
IInv == Typed /\ StoreInv /\ ArrivalInv

\* A step of the thread that only looks: the histories and the counters stay.
Looks == UNCHANGED <<exposed, history, carried, named, changes, arrivals, alarms, messages, clears>>

\* The type after a step that only looks.
LEMMA LooksTyped ==
  ASSUME Typed, Looks, mqtt' \in Thread
  PROVE  TypeOK'
BY DEF Looks, Typed, TypeOK

\* Looking closes a property only if its value is the one carried for it.
LEMMA LooksKeeps ==
  ASSUME IInv, Looks,
         \A n \in Open \ Open' : history[n] # <<>> => history[n][1].value = carried[n],
         \A n \in AlwaysUpdate : n \in Sure' \cup Called' <=> n \in Sure \cup Called
  PROVE  StoreInv' /\ ArrivalInv'
<1>1. StoreInv'
  BY DEF IInv, StoreInv, Looks
<1>2. ArrivalInv'
  BY DEF IInv, ArrivalInv, Looks
<1>3. QED
  BY <1>1, <1>2

-----------------------------------------------------------------------------
(***************************************************************************)
(* The steps.  Each lemma says what becomes of the sets.                   *)
(***************************************************************************)

\* A turn of the loop for one member.
LEMMA FindMoves ==
  ASSUME Typed, Find
  PROVE  /\ Looks /\ mqtt.pc = "find" /\ mqtt' \in Thread /\ mqtt'.message = mqtt.message
         /\ \E n \in mqtt.rest :
              /\ mqtt'.rest = mqtt.rest \ {n}
              /\ \/ /\ n \notin exposed /\ mqtt'.pc = "find"
                    /\ mqtt'.known = mqtt.known /\ mqtt'.changed = mqtt.changed
                 \/ /\ n \in exposed /\ mqtt'.pc = "find"
                    /\ mqtt'.known = mqtt.known \cup {n}
                    /\ mqtt'.changed = mqtt.changed \cup {n}
                 \/ /\ n \in exposed /\ n \notin AlwaysUpdate /\ history[n] # <<>>
                    /\ mqtt'.pc = "compare" /\ mqtt'.name = n
                    /\ mqtt'.known = mqtt.known \cup {n} /\ mqtt'.changed = mqtt.changed
<1> DEFINE n == First(mqtt.rest)
           next == [mqtt EXCEPT !.rest = @ \ {n}, !.name = n]
           update == [next EXCEPT !.known = @ \cup {n}, !.changed = @ \cup {n}]
           compare == [next EXCEPT !.known = @ \cup {n}, !.pc = "compare"]
<1>1. mqtt.pc = "find" /\ mqtt.rest # {} /\ Looks
      /\ mqtt' = IF n \notin exposed THEN next
                 ELSE IF history[n] = <<>> \/ n \in AlwaysUpdate THEN update ELSE compare
  BY DEF Find, Looks
<1>2. n \in mqtt.rest /\ n \in Name /\ n \in Nat
  BY <1>1, FirstFacts, Fields, EndpointAssumption
<1>3. mqtt \in Thread
  BY Fields
<1> HIDE DEF n
<1>4. /\ next \in Thread /\ next.message = mqtt.message /\ next.rest = mqtt.rest \ {n}
      /\ next.pc = mqtt.pc /\ next.known = mqtt.known /\ next.changed = mqtt.changed
  BY <1>2, <1>3 DEF Thread
<1>5. /\ update \in Thread /\ update.message = mqtt.message /\ update.rest = mqtt.rest \ {n}
      /\ update.pc = mqtt.pc /\ update.known = mqtt.known \cup {n}
      /\ update.changed = mqtt.changed \cup {n}
  BY <1>2, <1>3 DEF Thread
<1>6. /\ compare \in Thread /\ compare.message = mqtt.message /\ compare.rest = mqtt.rest \ {n}
      /\ compare.pc = "compare" /\ compare.known = mqtt.known \cup {n}
      /\ compare.changed = mqtt.changed /\ compare.name = n
  BY <1>2, <1>3 DEF Thread
<1> HIDE DEF next, update, compare
<1>7. CASE n \notin exposed
  BY <1>1, <1>2, <1>4, <1>7
<1>8. CASE n \in exposed /\ (history[n] = <<>> \/ n \in AlwaysUpdate)
  BY <1>1, <1>2, <1>5, <1>8
<1>9. CASE n \in exposed /\ ~(history[n] = <<>> \/ n \in AlwaysUpdate)
  BY <1>1, <1>2, <1>6, <1>9
<1>10. QED
  BY <1>7, <1>8, <1>9

\* The member stays open, and stays sure unless it is to be compared.
LEMMA FindSets ==
  ASSUME Typed, Find
  PROVE  /\ Typed' /\ Mine' = Mine /\ Open' = Open /\ Called = {} /\ Called' = {}
         /\ Sure' \subseteq Sure
         /\ \A n \in Sure \ Sure' : n \notin AlwaysUpdate /\ history[n] # <<>>
<1>1. /\ Looks /\ mqtt.pc = "find" /\ mqtt' \in Thread /\ mqtt'.message = mqtt.message
      /\ exposed' = exposed /\ carried' = carried
  BY FindMoves DEF Looks
<1>2. TypeOK'
  BY <1>1, LooksTyped
<1>3. Mine' = Mine
  BY <1>1 DEF Mine
<1>4. PICK n \in mqtt.rest :
        /\ mqtt'.rest = mqtt.rest \ {n}
        /\ \/ /\ n \notin exposed /\ mqtt'.pc = "find"
              /\ mqtt'.known = mqtt.known /\ mqtt'.changed = mqtt.changed
           \/ /\ n \in exposed /\ mqtt'.pc = "find"
              /\ mqtt'.known = mqtt.known \cup {n}
              /\ mqtt'.changed = mqtt.changed \cup {n}
           \/ /\ n \in exposed /\ n \notin AlwaysUpdate /\ history[n] # <<>>
              /\ mqtt'.pc = "compare" /\ mqtt'.name = n
              /\ mqtt'.known = mqtt.known \cup {n} /\ mqtt'.changed = mqtt.changed
  BY FindMoves
<1>5. /\ mqtt.rest \subseteq DOMAIN mqtt.message
      /\ mqtt.known \subseteq Mine /\ mqtt.changed \subseteq mqtt.known
      /\ mqtt.rest \cap mqtt.known = {}
      /\ Mine \subseteq mqtt.rest \cup mqtt.known
      /\ AlwaysUpdate \cap mqtt.known \subseteq mqtt.changed
      /\ \A k \in Mine : carried[k] = mqtt.message[k]
  BY <1>1 DEF Typed, Placed
<1>6. n \in exposed => n \in Mine
  BY <1>4, <1>5 DEF Mine
<1>7. n \notin exposed => n \notin Mine
  BY DEF Mine
<1>8. mqtt'.pc \in {"find", "compare"}
  BY <1>4
<1>9. Placed'
  BY <1>1, <1>3, <1>4, <1>5, <1>6, <1>7, <1>8 DEF Placed
<1>10. Compared = {} /\ Called = {} /\ Called' = {}
  BY <1>1, <1>8 DEF Compared, Called
<1>11. Sure' \subseteq Sure /\ \A k \in Sure \ Sure' : k \notin AlwaysUpdate /\ history[k] # <<>>
  BY <1>3, <1>4, <1>5, <1>6, <1>7 DEF Sure
<1>12. Open' = Open
  BY <1>3, <1>4, <1>5, <1>6, <1>7, <1>10 DEF Sure, Open, Compared
<1>13. QED
  BY <1>2, <1>3, <1>9, <1>10, <1>11, <1>12 DEF Typed

\* The comparison, which finds a change if there is a value and it differs.
LEMMA CompareSets ==
  ASSUME Typed, Compare
  PROVE  /\ Looks /\ mqtt'.message = mqtt.message
         /\ Typed' /\ Mine' = Mine /\ Called = {} /\ Called' = {}
         /\ Sure \subseteq Sure' /\ Sure' = Open' /\ Open' \subseteq Open
         /\ \A n \in Open \ Open' :
              history[n] # <<>> => history[n][1].value = mqtt.message[n]
         /\ \A n \in Open \ Sure : n \notin AlwaysUpdate
         /\ \A n \in Open : n \in Mine
<1> DEFINE n == mqtt.name
<1>1. Looks /\ mqtt.pc = "compare" /\ exposed' = exposed /\ carried' = carried
  BY DEF Compare, Looks
<1>2. PICK differs \in BOOLEAN :
        /\ history[n] # <<>> => differs = (history[n][1].value # mqtt.message[n])
        /\ mqtt' = [mqtt EXCEPT !.pc = "find",
                                !.changed = IF differs THEN @ \cup {n} ELSE @]
  BY DEF Compare
<1>3. /\ mqtt.known \subseteq Mine /\ mqtt.changed \subseteq mqtt.known
      /\ mqtt.rest \subseteq DOMAIN mqtt.message
      /\ mqtt.rest \cap mqtt.known = {} /\ Mine \subseteq mqtt.rest \cup mqtt.known
      /\ AlwaysUpdate \cap mqtt.known \subseteq mqtt.changed
      /\ n \in mqtt.known \ (mqtt.changed \cup AlwaysUpdate)
      /\ \A k \in Mine : carried[k] = mqtt.message[k]
  BY <1>1 DEF Typed, Placed
<1>4. mqtt \in Thread /\ n \in Name
  BY <1>3, Fields
<1>5. /\ mqtt' \in Thread /\ mqtt'.pc = "find" /\ mqtt'.message = mqtt.message
      /\ mqtt'.rest = mqtt.rest /\ mqtt'.known = mqtt.known
      /\ mqtt'.changed = IF differs THEN mqtt.changed \cup {n} ELSE mqtt.changed
  BY <1>2, <1>4 DEF Thread
<1>6. Mine' = Mine
  BY <1>1, <1>5 DEF Mine
<1>7. TypeOK'
  BY <1>1, <1>5, LooksTyped
<1>8. Placed'
  BY <1>1, <1>3, <1>5, <1>6 DEF Placed
<1>9. Called = {} /\ Called' = {} /\ Compared = {n} /\ Compared' = {}
  BY <1>1, <1>5 DEF Called, Compared
<1>10. Sure \subseteq Sure' /\ Sure' = Open' /\ Open' \subseteq Open
  BY <1>3, <1>5, <1>6, <1>9 DEF Sure, Open
<1>11. ASSUME NEW k \in Open \ Open', history[k] # <<>>
       PROVE  history[k][1].value = mqtt.message[k]
  <2>1. k = n /\ ~differs
    BY <1>3, <1>5, <1>6, <1>9, <1>11 DEF Sure, Open
  <2>2. QED
    BY <1>2, <1>11, <2>1
<1>12. (\A k \in Open \ Sure : k \notin AlwaysUpdate) /\ \A k \in Open : k \in Mine
  BY <1>3, <1>9 DEF Sure, Open
<1>13. QED
  BY <1>1, <1>5, <1>6, <1>7, <1>8, <1>9, <1>10, <1>11, <1>12 DEF Typed

\* The choice: what is not to be stored has been compared and is equal.
LEMMA SelectSets ==
  ASSUME Typed, Select
  PROVE  /\ Looks /\ mqtt'.message = mqtt.message
         /\ Typed' /\ Mine' = Mine /\ Called = {} /\ Called' = {}
         /\ Sure = Open /\ Sure' = Open' /\ Open \subseteq Open' /\ Open' \subseteq Mine
         /\ \A n \in Open' \ Open : n \notin AlwaysUpdate
<1> DEFINE rest == IF mqtt.changed = {} THEN mqtt.known ELSE mqtt.changed
<1>1. /\ Looks /\ mqtt.pc = "find" /\ mqtt.rest = {} /\ exposed' = exposed /\ carried' = carried
      /\ mqtt' = [Idle EXCEPT !.pc = "store", !.message = mqtt.message, !.rest = rest]
  BY DEF Select, StoreThese, Looks
<1>2. /\ mqtt.known \subseteq Mine /\ mqtt.changed \subseteq mqtt.known
      /\ Mine \subseteq mqtt.known /\ AlwaysUpdate \cap mqtt.known \subseteq mqtt.changed
      /\ \A k \in Mine : carried[k] = mqtt.message[k]
  BY <1>1 DEF Typed, Placed
<1>3. mqtt.message \in Message /\ mqtt.known \subseteq Name /\ mqtt.changed \subseteq Name
  BY Fields
<1>4. rest \subseteq Name /\ rest \subseteq Mine /\ mqtt.changed \subseteq rest
      /\ (rest \ mqtt.changed) \cap AlwaysUpdate = {}
  BY <1>2, <1>3
<1> HIDE DEF rest
<1>5. /\ mqtt' \in Thread /\ mqtt'.pc = "store" /\ mqtt'.message = mqtt.message
      /\ mqtt'.rest = rest /\ mqtt'.changed = {}
  BY <1>1, <1>3, <1>4, IdleFacts DEF Thread
<1>6. Mine' = Mine
  BY <1>1, <1>5 DEF Mine
<1>7. TypeOK'
  BY <1>1, <1>5, LooksTyped
<1>8. rest \subseteq DOMAIN mqtt.message
  BY <1>4 DEF Mine
<1>9. Placed'
  BY <1>1, <1>2, <1>4, <1>5, <1>6, <1>8 DEF Placed
<1>10. Called = {} /\ Called' = {} /\ Compared = {} /\ Compared' = {}
  BY <1>1, <1>5 DEF Called, Compared
<1>11. Sure = mqtt.changed /\ Open = mqtt.changed /\ Sure' = rest /\ Open' = rest
  BY <1>1, <1>2, <1>4, <1>5, <1>6, <1>10 DEF Sure, Open
<1>12. QED
  BY <1>1, <1>4, <1>5, <1>6, <1>7, <1>9, <1>10, <1>11 DEF Typed

\* The value is stored.
LEMMA StoreSets ==
  ASSUME Typed, Store
  PROVE  /\ UNCHANGED <<exposed, carried, named, changes, arrivals, alarms, clears>>
         /\ mqtt'.message = mqtt.message
         /\ Typed' /\ Mine' = Mine /\ Called = {} /\ Sure = Open /\ Sure' = Open'
         /\ \E n \in Mine :
              /\ n \in Sure /\ Sure' = Sure \ {n} /\ Called' = {n}
              /\ \E x \in Element :
                   /\ x.value = mqtt.message[n]
                   /\ history' = [history EXCEPT ![n] = Push(history[n], x)]
<1> DEFINE n == First(mqtt.rest)
           x == [id |-> messages, value |-> mqtt.message[n]]
<1>1. /\ mqtt.pc = "store" /\ mqtt.rest # {}
      /\ history' = [history EXCEPT ![n] = Push(history[n], x)]
      /\ mqtt' = [mqtt EXCEPT !.pc = "call", !.rest = @ \ {n}, !.name = n]
      /\ UNCHANGED <<exposed, carried, named, changes, arrivals, alarms, messages, clears>>
  BY DEF Store
<1>2. n \in mqtt.rest /\ n \in Name /\ n \in Nat
  BY <1>1, FirstFacts, Fields, EndpointAssumption
<1> HIDE DEF n
<1>3. mqtt.rest \subseteq Mine /\ mqtt.changed = {} /\ \A k \in Mine : carried[k] = mqtt.message[k]
  BY <1>1 DEF Typed, Placed
<1>4. n \in DOMAIN mqtt.message /\ n \in Mine /\ mqtt.message[n] \in Value
  BY <1>2, <1>3, Fields DEF Mine
<1>5. messages \in Nat
  BY DEF Typed, TypeOK
<1>6. x \in Element /\ x.value = mqtt.message[n]
  BY <1>4, <1>5 DEF Element
<1> HIDE DEF x
<1>7. mqtt \in Thread
  BY Fields
<1>8. /\ mqtt' \in Thread /\ mqtt'.pc = "call" /\ mqtt'.message = mqtt.message
      /\ mqtt'.rest = mqtt.rest \ {n} /\ mqtt'.changed = mqtt.changed /\ mqtt'.name = n
  BY <1>1, <1>2, <1>7 DEF Thread
<1>9. history' \in [Name -> Seq(Element)]
  <2>1. Push(history[n], x) \in Seq(Element) /\ history \in [Name -> Seq(Element)]
    BY <1>2, <1>6, Fields, PushFacts DEF Typed, TypeOK
  <2>2. QED
    BY <1>1, <2>1
<1>10. TypeOK'
  BY <1>1, <1>8, <1>9 DEF Typed, TypeOK
<1>11. Mine' = Mine
  BY <1>1, <1>8 DEF Mine
<1>12. mqtt'.rest \subseteq DOMAIN mqtt.message
  BY <1>3, <1>8 DEF Mine
<1>13. Placed'
  BY <1>1, <1>3, <1>4, <1>8, <1>11, <1>12 DEF Placed
<1>14. Called = {} /\ Called' = {n} /\ Compared = {} /\ Compared' = {}
  BY <1>1, <1>8 DEF Called, Compared
<1>15. /\ Sure = mqtt.rest /\ Open = mqtt.rest
       /\ Sure' = mqtt.rest \ {n} /\ Open' = mqtt.rest \ {n}
  BY <1>3, <1>8, <1>11, <1>14 DEF Sure, Open
<1>16. /\ n \in Sure /\ Sure' = Sure \ {n} /\ Called' = {n}
       /\ \E y \in Element :
            /\ y.value = mqtt.message[n]
            /\ history' = [history EXCEPT ![n] = Push(history[n], y)]
  BY <1>1, <1>2, <1>6, <1>14, <1>15
<1>17. QED
  BY <1>1, <1>4, <1>8, <1>10, <1>11, <1>13, <1>14, <1>15, <1>16 DEF Typed

\* The observers are told.
LEMMA CallSets ==
  ASSUME Typed, Call
  PROVE  /\ UNCHANGED <<exposed, history, carried, named, changes, messages, clears>>
         /\ mqtt'.message = mqtt.message
         /\ Typed' /\ Mine' = Mine /\ Called' = {} /\ Sure' = Sure /\ Open' = Sure /\ Open = Sure
         /\ \E n \in Mine :
              /\ n \notin Sure /\ Called = {n} /\ arrivals' = Count(arrivals, {n})
              /\ alarms' = IF ValueChanged(history[n]) THEN Count(alarms, {n}) ELSE alarms
<1> DEFINE n == mqtt.name
<1>1. /\ mqtt.pc = "call" /\ arrivals' = Count(arrivals, {n})
      /\ alarms' = IF ValueChanged(history[n]) THEN Count(alarms, {n}) ELSE alarms
      /\ mqtt' = [mqtt EXCEPT !.pc = "store", !.name = 0]
      /\ UNCHANGED <<exposed, history, carried, named, changes, messages, clears>>
  BY DEF Call
<1>2. /\ mqtt.rest \subseteq Mine /\ mqtt.changed = {} /\ n \in Mine \ mqtt.rest
      /\ mqtt.rest \subseteq DOMAIN mqtt.message
      /\ \A k \in Mine : carried[k] = mqtt.message[k]
  BY <1>1 DEF Typed, Placed
<1>3. mqtt \in Thread
  BY Fields
<1>4. /\ mqtt' \in Thread /\ mqtt'.pc = "store" /\ mqtt'.message = mqtt.message
      /\ mqtt'.rest = mqtt.rest /\ mqtt'.changed = mqtt.changed
  BY <1>1, <1>3 DEF Thread
<1>5. arrivals' \in [Name -> Nat] /\ alarms' \in [Name -> Nat]
  <2>1. arrivals \in [Name -> Nat] /\ alarms \in [Name -> Nat]
    BY DEF Typed, TypeOK
  <2>2. Count(arrivals, {n}) \in [Name -> Nat] /\ Count(alarms, {n}) \in [Name -> Nat]
    BY <2>1, CountFacts
  <2>3. QED
    BY <1>1, <2>1, <2>2
<1>6. TypeOK'
  BY <1>1, <1>4, <1>5 DEF Typed, TypeOK
<1>7. Mine' = Mine
  BY <1>1, <1>4 DEF Mine
<1>8. Placed'
  BY <1>1, <1>2, <1>4, <1>7 DEF Placed
<1>9. Called = {n} /\ Called' = {} /\ Compared = {} /\ Compared' = {}
  BY <1>1, <1>4 DEF Called, Compared
<1>10. Sure = mqtt.rest /\ Open = mqtt.rest /\ Sure' = mqtt.rest /\ Open' = mqtt.rest
  BY <1>2, <1>4, <1>7, <1>9 DEF Sure, Open
<1>11. QED
  BY <1>1, <1>2, <1>4, <1>6, <1>7, <1>8, <1>9, <1>10 DEF Typed

\* The message has been handled.
LEMMA DoneSets ==
  ASSUME Typed, Done
  PROVE  /\ Looks /\ Typed' /\ Mine' = {}
         /\ Sure = {} /\ Open = {} /\ Called = {} /\ Sure' = {} /\ Open' = {} /\ Called' = {}
<1>1. Looks /\ mqtt.pc = "store" /\ mqtt.rest = {} /\ mqtt' = Idle
  BY DEF Done, Looks
<1>2. mqtt.changed = {}
  BY <1>1 DEF Typed, Placed
<1>3. TypeOK'
  BY <1>1, IdleFacts, LooksTyped
<1>4. Mine' = {}
  BY <1>1, IdleFacts, MessageFacts DEF Mine
<1>5. Placed'
  BY <1>1, <1>4, IdleFacts DEF Placed
<1>6. Compared = {} /\ Called = {} /\ Compared' = {} /\ Called' = {}
  BY <1>1, IdleFacts DEF Compared, Called
<1>7. Sure = {} /\ Open = {} /\ Sure' = {} /\ Open' = {}
  BY <1>1, <1>2, <1>4, <1>6 DEF Sure, Open
<1>8. QED
  BY <1>1, <1>3, <1>4, <1>5, <1>6, <1>7 DEF Typed

\* A message comes.
LEMMA ReceiveSets ==
  ASSUME Typed, NEW m \in Message, Receive(m)
  PROVE  /\ UNCHANGED <<exposed, history, arrivals, alarms, clears>>
         /\ mqtt.pc = "idle" /\ mqtt'.message = m /\ Typed'
         /\ Mine' = DOMAIN m \cap exposed /\ Sure' = Mine' /\ Open' = Mine' /\ Called' = {}
         /\ \A n \in Name :
              IF n \in Mine'
              THEN /\ carried'[n] = m[n] /\ m[n] \in Value /\ named'[n] = named[n] + 1
                   /\ changes'[n] = IF m[n] # carried[n] THEN changes[n] + 1 ELSE changes[n]
              ELSE carried'[n] = carried[n] /\ named'[n] = named[n] /\ changes'[n] = changes[n]
<1> DEFINE mine == DOMAIN m \cap exposed
           changing == {n \in mine : m[n] # carried[n]}
<1>1. /\ mqtt.pc = "idle" /\ messages' = messages + 1
      /\ mqtt' = [Idle EXCEPT !.pc = "find", !.message = m, !.rest = DOMAIN m]
      /\ carried' = [n \in Name |-> IF n \in mine THEN m[n] ELSE carried[n]]
      /\ named' = Count(named, mine) /\ changes' = Count(changes, changing)
      /\ UNCHANGED <<exposed, history, arrivals, alarms, clears>>
  BY DEF Receive
<1>2. DOMAIN m \subseteq Name /\ \A n \in DOMAIN m : m[n] \in Value
  BY MessageFacts
<1>3. /\ mqtt' \in Thread /\ mqtt'.pc = "find" /\ mqtt'.message = m /\ mqtt'.rest = DOMAIN m
      /\ mqtt'.known = {} /\ mqtt'.changed = {}
  BY <1>1, <1>2, IdleFacts DEF Thread
<1>4. /\ named \in [Name -> Nat] /\ changes \in [Name -> Nat] /\ messages \in Nat
      /\ carried \in [Name -> Value \cup {None}]
  BY DEF Typed, TypeOK
<1>5. /\ named' \in [Name -> Nat] /\ changes' \in [Name -> Nat]
      /\ \A n \in Name : named'[n] = IF n \in mine THEN named[n] + 1 ELSE named[n]
      /\ \A n \in Name : changes'[n] = IF n \in changing THEN changes[n] + 1 ELSE changes[n]
  BY <1>1, <1>4, CountFacts
<1>6. mine \subseteq Name /\ \A n \in mine : m[n] \in Value
  BY <1>2
<1>7. /\ carried' \in [Name -> Value \cup {None}]
      /\ \A n \in Name : carried'[n] = IF n \in mine THEN m[n] ELSE carried[n]
  BY <1>1, <1>4, <1>6
<1>8. TypeOK'
  <2>1. arrivals' \in [Name -> Nat] /\ alarms' \in [Name -> Nat] /\ clears' \in [Name -> Nat]
    BY <1>1 DEF Typed, TypeOK
  <2>2. {named', changes', arrivals', alarms', clears'} \subseteq [Name -> Nat]
    BY <1>5, <2>1
  <2>3. messages' \in Nat
    BY <1>1, <1>4
  <2>4. exposed' \in SUBSET Name /\ history' \in [Name -> Seq(Element)]
    BY <1>1 DEF Typed, TypeOK
  <2>5. QED
    BY <1>3, <1>7, <2>2, <2>3, <2>4, Zenon DEF TypeOK
<1>9. Mine' = mine
  BY <1>1, <1>3 DEF Mine
<1>10. Placed'
  <2>1. \A n \in mine : carried'[n] = m[n]
    BY <1>6, <1>7
  <2> HIDE DEF mine
  <2>2. mine \subseteq DOMAIN m
    BY DEF mine
  <2>3. QED
    BY <1>3, <1>9, <2>1, <2>2 DEF Placed
<1>11. Called' = {} /\ Compared' = {}
  BY <1>3 DEF Called, Compared
<1>12. Sure' = mine /\ Open' = mine
  BY <1>3, <1>9, <1>11 DEF Sure, Open
<1>13. \A n \in Name :
          IF n \in mine
          THEN /\ carried'[n] = m[n] /\ m[n] \in Value /\ named'[n] = named[n] + 1
               /\ changes'[n] = IF m[n] # carried[n] THEN changes[n] + 1 ELSE changes[n]
          ELSE carried'[n] = carried[n] /\ named'[n] = named[n] /\ changes'[n] = changes[n]
  BY <1>5, <1>6, <1>7
<1>14. QED
  BY <1>1, <1>3, <1>8, <1>9, <1>10, <1>11, <1>12, <1>13 DEF Typed

\* A property is made; a script clears a history.
LEMMA ExposeSets ==
  ASSUME Typed, NEW n \in Name, Expose(n)
  PROVE  /\ UNCHANGED <<history, mqtt, carried, named, changes, arrivals, alarms, clears>>
         /\ Typed'
         /\ Sure = {} /\ Open = {} /\ Called = {} /\ Sure' = {} /\ Open' = {} /\ Called' = {}
<1>1. /\ mqtt.pc = "idle" /\ exposed' = exposed \cup {n}
      /\ UNCHANGED <<history, mqtt, carried, named, changes, arrivals, alarms, messages, clears>>
  BY DEF Expose
<1>2. mqtt = Idle /\ Sure = {} /\ Open = {} /\ Called = {}
  BY <1>1, IdleSets
<1>3. TypeOK'
  BY <1>1 DEF Typed, TypeOK
<1>4. Mine' = {}
  BY <1>1, <1>2, IdleFacts, MessageFacts DEF Mine
<1>5. Placed'
  BY <1>1, <1>2, <1>4, IdleFacts DEF Placed
<1>6. Compared' = {} /\ Called' = {}
  BY <1>1 DEF Compared, Called
<1>7. Sure' = {} /\ Open' = {}
  BY <1>4, <1>6 DEF Sure, Open
<1>8. QED
  BY <1>1, <1>2, <1>3, <1>5, <1>6, <1>7 DEF Typed

LEMMA ClearSets ==
  ASSUME Typed, NEW n \in Name, Clear(n)
  PROVE  /\ UNCHANGED <<exposed, mqtt, carried, named, changes, arrivals, alarms>>
         /\ Typed' /\ Sure' = Sure /\ Open' = Open /\ Called' = Called /\ Mine' = Mine
         /\ history[n] # <<>> /\ history'[n] = <<>> /\ clears'[n] = clears[n] + 1
         /\ \A k \in Name : k # n => history'[k] = history[k] /\ clears'[k] = clears[k]
<1>1. /\ history' = [history EXCEPT ![n] = <<>>] /\ history[n] # <<>>
      /\ clears' = Count(clears, {n})
      /\ UNCHANGED <<exposed, mqtt, carried, named, changes, arrivals, alarms, messages>>
  BY DEF Clear
<1>2. history \in [Name -> Seq(Element)] /\ clears \in [Name -> Nat]
  BY DEF Typed, TypeOK
<1>3. /\ history' \in [Name -> Seq(Element)] /\ history'[n] = <<>>
      /\ \A k \in Name : k # n => history'[k] = history[k]
  BY <1>1, <1>2
<1>4. clears' \in [Name -> Nat] /\ \A k \in Name : clears'[k] = IF k = n THEN clears[k] + 1
                                                                ELSE clears[k]
  BY <1>1, <1>2, CountFacts
<1>5. TypeOK'
  <2>1. /\ named' \in [Name -> Nat] /\ changes' \in [Name -> Nat] /\ arrivals' \in [Name -> Nat]
        /\ alarms' \in [Name -> Nat]
    BY <1>1 DEF Typed, TypeOK
  <2>2. {named', changes', arrivals', alarms', clears'} \subseteq [Name -> Nat]
    BY <1>4, <2>1
  <2>3. /\ exposed' \in SUBSET Name /\ mqtt' \in Thread /\ messages' \in Nat
        /\ carried' \in [Name -> Value \cup {None}]
    BY <1>1 DEF Typed, TypeOK
  <2>4. QED
    BY <1>3, <2>2, <2>3, Zenon DEF TypeOK
<1>6. Mine' = Mine /\ Called' = Called /\ Compared' = Compared
  BY <1>1 DEF Mine, Called, Compared
<1>7. Placed'
  BY <1>1, <1>6 DEF Typed, Placed
<1>8. Sure' = Sure /\ Open' = Open
  BY <1>1, <1>6 DEF Sure, Open
<1>9. QED
  BY <1>1, <1>3, <1>4, <1>5, <1>6, <1>7, <1>8 DEF Typed

-----------------------------------------------------------------------------
(***************************************************************************)
(* The steps keep the first three invariants.                              *)
(***************************************************************************)
LEMMA InitIInv == Init => IInv
<1> SUFFICES ASSUME Init PROVE IInv
  OBVIOUS
<1>1. mqtt = Idle /\ exposed = {} /\ Mine = {}
  BY DEF Init, Mine
<1>2. Zero \in [Name -> Nat] /\ \A n \in Name : Zero[n] = 0
  BY DEF Zero
<1>3. history = [n \in Name |-> <<>>] /\ history \in [Name -> Seq(Element)]
  BY DEF Init
<1>4. carried \in [Name -> Value \cup {None}]
  BY DEF Init
<1>5. /\ named = Zero /\ changes = Zero /\ arrivals = Zero /\ alarms = Zero /\ clears = Zero
      /\ messages = 0
  BY DEF Init
<1>6. TypeOK
  <2>1. {named, changes, arrivals, alarms, clears} \subseteq [Name -> Nat] /\ messages \in Nat
    BY <1>2, <1>5
  <2>2. exposed \in SUBSET Name /\ mqtt \in Thread
    BY <1>1, IdleFacts
  <2>3. QED
    BY <1>3, <1>4, <2>1, <2>2, Zenon DEF TypeOK
<1>7. Placed
  BY <1>1, IdleFacts DEF Placed
<1>8. Typed /\ Sure = {} /\ Called = {}
  BY <1>1, <1>6, <1>7, IdleFacts DEF Typed, Sure, Called
<1>9. StoreInv
  BY <1>3 DEF StoreInv
<1>10. ArrivalInv
  BY <1>2, <1>5, <1>8, EndpointAssumption DEF ArrivalInv
<1>11. QED
  BY <1>8, <1>9, <1>10 DEF IInv

LEMMA StepIInv == IInv /\ [Next]_vars => IInv'
<1> SUFFICES ASSUME IInv, [Next]_vars PROVE IInv'
  OBVIOUS
<1>1. Typed /\ AlwaysUpdate \subseteq Name
  BY EndpointAssumption DEF IInv
<1>2. CASE UNCHANGED vars
  BY <1>2 DEF vars, IInv, Typed, TypeOK, Placed, Mine, Compared, Called, StoreInv, Open, Sure,
              ArrivalInv
<1>3. CASE Find
  BY <1>1, <1>3, FindSets, FindMoves, LooksKeeps DEF IInv
<1>4. CASE Compare
  <2>1. \A n \in Open \ Open' : history[n] # <<>> => history[n][1].value = carried[n]
    <3>1. \A n \in Mine : carried[n] = mqtt.message[n]
      BY <1>1 DEF Typed, Placed
    <3>2. QED
      BY <1>1, <1>4, <3>1, CompareSets
  <2>2. QED
    BY <1>1, <1>4, <2>1, CompareSets, LooksKeeps DEF IInv
<1>5. CASE Select
  BY <1>1, <1>5, SelectSets, LooksKeeps DEF IInv
<1>6. CASE Done
  BY <1>1, <1>6, DoneSets, LooksKeeps DEF IInv
<1>7. CASE Store
  <2>1. PICK n \in Mine, x \in Element :
          /\ n \in Sure /\ Sure' = Sure \ {n} /\ Called' = {n} /\ x.value = mqtt.message[n]
          /\ history' = [history EXCEPT ![n] = Push(history[n], x)]
    BY <1>1, <1>7, StoreSets
  <2>2. /\ UNCHANGED <<carried, named, arrivals>>
        /\ Typed' /\ Called = {} /\ Sure = Open /\ Sure' = Open'
    BY <1>1, <1>7, StoreSets
  <2>3. n \in Name /\ history[n] \in Seq(Element) /\ history \in [Name -> Seq(Element)]
        /\ carried[n] = mqtt.message[n]
    BY <1>1, Fields DEF Typed, TypeOK, Placed
  <2>4. history'[n] # <<>> => history'[n][1] = x
    BY <2>1, <2>3, PushFacts
  <2>5. \A k \in Name : k # n => history'[k] = history[k]
    BY <2>1, <2>3
  <2>6. StoreInv'
    <3>1. ASSUME NEW k \in Name \ Open', history'[k] # <<>>
          PROVE  history'[k][1].value = carried[k]
      <4>1. CASE k = n
        BY <2>1, <2>3, <2>4, <3>1, <4>1
      <4>2. CASE k # n
        BY <2>1, <2>2, <2>5, <3>1, <4>2 DEF IInv, StoreInv
      <4>3. QED
        BY <4>1, <4>2
    <3>2. QED
      BY <2>2, <3>1 DEF StoreInv
  <2>7. ArrivalInv'
    BY <2>1, <2>2 DEF IInv, ArrivalInv
  <2>8. QED
    BY <2>2, <2>6, <2>7 DEF IInv
<1>8. CASE Call
  <2>1. /\ UNCHANGED <<history, carried, named>> /\ Typed' /\ Called' = {}
        /\ Sure' = Sure /\ Open' = Sure /\ Open = Sure
    BY <1>1, <1>8, CallSets
  <2>2. PICK n \in Mine : n \notin Sure /\ Called = {n} /\ arrivals' = Count(arrivals, {n})
    BY <1>1, <1>8, CallSets
  <2>3. StoreInv'
    BY <2>1 DEF IInv, StoreInv
  <2>4. arrivals \in [Name -> Nat]
    BY <1>1 DEF Typed, TypeOK
  <2>5. \A k \in Name : arrivals'[k] = IF k = n THEN arrivals[k] + 1 ELSE arrivals[k]
    BY <2>2, <2>4, CountFacts
  <2>6. \A k \in Name : arrivals[k] \in Nat
    BY <2>4
  <2>7. ArrivalInv'
    <3>1. ASSUME NEW k \in AlwaysUpdate
          PROVE  named[k] = arrivals'[k] + (IF k \in Sure THEN 1 ELSE 0)
      <4>1. named[k] = arrivals[k] + (IF k \in Sure \cup {n} THEN 1 ELSE 0) /\ arrivals[k] \in Nat
        BY <1>1, <2>2, <2>6 DEF IInv, ArrivalInv
      <4>2. arrivals'[k] = IF k = n THEN arrivals[k] + 1 ELSE arrivals[k]
        BY <1>1, <2>5
      <4>3. CASE k = n
        BY <2>2, <4>1, <4>2, <4>3
      <4>4. CASE k # n
        BY <4>1, <4>2, <4>4
      <4>5. QED
        BY <4>3, <4>4
    <3>2. QED
      BY <2>1, <3>1 DEF ArrivalInv
  <2>8. QED
    BY <2>1, <2>3, <2>7 DEF IInv
<1>9. CASE \E m \in Message : Receive(m)
  <2>1. PICK m \in Message : Receive(m)
    BY <1>9
  <2>2. /\ UNCHANGED <<history, arrivals>> /\ mqtt.pc = "idle" /\ Typed'
        /\ Sure' = Mine' /\ Open' = Mine' /\ Called' = {}
        /\ \A n \in Name :
             IF n \in Mine'
             THEN named'[n] = named[n] + 1
             ELSE carried'[n] = carried[n] /\ named'[n] = named[n]
    BY <1>1, <2>1, ReceiveSets
  <2>3. Sure = {} /\ Open = {} /\ Called = {}
    BY <1>1, <2>2, IdleSets
  <2>4. StoreInv'
    BY <2>2, <2>3 DEF IInv, StoreInv
  <2>5. \A n \in Name : arrivals[n] \in Nat /\ named[n] \in Nat
    BY <1>1 DEF Typed, TypeOK
  <2>6. ArrivalInv'
    BY <1>1, <2>2, <2>3, <2>5 DEF IInv, ArrivalInv
  <2>7. QED
    BY <2>2, <2>4, <2>6 DEF IInv
<1>10. CASE \E n \in Name : Expose(n)
  <2>1. PICK n \in Name : Expose(n)
    BY <1>10
  <2>2. /\ UNCHANGED <<history, carried, named, arrivals>> /\ Typed'
        /\ Sure = {} /\ Open = {} /\ Called = {} /\ Sure' = {} /\ Open' = {} /\ Called' = {}
    BY <1>1, <2>1, ExposeSets
  <2>3. QED
    BY <2>2 DEF IInv, StoreInv, ArrivalInv
<1>11. CASE \E n \in Name : Clear(n)
  <2>1. PICK n \in Name : Clear(n)
    BY <1>11
  <2>2. /\ UNCHANGED <<carried, named, arrivals>> /\ Typed'
        /\ Sure' = Sure /\ Open' = Open /\ Called' = Called /\ history'[n] = <<>>
        /\ \A k \in Name : k # n => history'[k] = history[k]
    BY <1>1, <2>1, ClearSets
  <2>3. QED
    BY <2>2 DEF IInv, StoreInv, ArrivalInv
<1>12. QED
  BY <1>2, <1>3, <1>4, <1>5, <1>6, <1>7, <1>8, <1>9, <1>10, <1>11 DEF Next, Update

-----------------------------------------------------------------------------
(***************************************************************************)
(* The steps keep AlarmInv, if a history has room for two values.          *)
(***************************************************************************)

\* What AlarmInv says of one property, in terms of what a step may change.
Book(h, c, a, k, known, ahead, sure) ==
  /\ h # <<>> => /\ a + (IF ahead THEN 1 ELSE 0) <= c + k
                 /\ c <= a + k + (IF ahead THEN 1 ELSE 0)
  /\ h = <<>> /\ known => /\ a + 1 <= c + k
                          /\ c <= a + k + (IF sure THEN 1 ELSE 0)
  /\ ~known => h = <<>> /\ a = c

LEMMA AlarmBooks ==
  AlarmInv <=>
    \A n \in Name : Book(history[n], changes[n], alarms[n], clears[n], carried[n] # None,
                         n \in Ahead, n \in Sure)
BY DEF AlarmInv, Book

\* The counters are numbers.
LEMMA Numbers ==
  ASSUME Typed, NEW n \in Name
  PROVE  changes[n] \in Nat /\ alarms[n] \in Nat /\ clears[n] \in Nat
BY DEF Typed, TypeOK

\* A step that changes neither histories nor counters, and takes nobody with an empty history off
\* those that are sure to be stored.
LEMMA LooksAlarm ==
  ASSUME Typed, AlarmInv, UNCHANGED <<history, carried, changes, alarms, clears>>,
         \A n \in Name : n \in Ahead' <=> n \in Ahead,
         \A n \in Name : n \in Sure /\ history[n] = <<>> => n \in Sure'
  PROVE  AlarmInv'
<1> SUFFICES ASSUME NEW n \in Name
             PROVE  Book(history[n], changes[n], alarms[n], clears[n], carried[n] # None,
                         n \in Ahead', n \in Sure')
  BY DEF AlarmInv, Book
<1>1. Book(history[n], changes[n], alarms[n], clears[n], carried[n] # None, n \in Ahead,
           n \in Sure)
  BY AlarmBooks
<1>2. changes[n] \in Nat /\ alarms[n] \in Nat /\ clears[n] \in Nat
  BY Numbers
<1>3. (n \in Ahead' <=> n \in Ahead) /\ (n \in Sure /\ history[n] = <<>> => n \in Sure')
  OBVIOUS
<1>4. QED
  BY <1>1, <1>2, <1>3 DEF Book

\* Everything of the message in hand is carried.
LEMMA MineIsKnown ==
  ASSUME Typed, NEW n \in Mine
  PROVE  n \in Name /\ carried[n] = mqtt.message[n] /\ mqtt.message[n] \in Value /\ carried[n] # None
<1>1. n \in Name /\ carried[n] = mqtt.message[n] /\ mqtt.message[n] \in Value
  BY Fields DEF Typed, Placed, Mine
<1>2. QED
  BY <1>1, EndpointAssumption

\* The turns of the comparison.
LEMMA FindAlarm ==
  ASSUME IInv, AlarmInv, Find
  PROVE  AlarmInv'
<1>1. Typed /\ UNCHANGED <<history, carried, changes, alarms, clears>>
      /\ mqtt'.message = mqtt.message
  BY FindMoves DEF IInv, Looks
<1>2. /\ Open' = Open /\ Called = {} /\ Called' = {}
      /\ \A n \in Sure \ Sure' : history[n] # <<>>
  BY <1>1, FindSets
<1>3. Ahead' = Ahead
  BY <1>1, <1>2 DEF Ahead
<1>4. QED
  BY <1>1, <1>2, <1>3, LooksAlarm

LEMMA CompareAlarm ==
  ASSUME IInv, AlarmInv, Compare
  PROVE  AlarmInv'
<1>1. Typed
  BY DEF IInv
<1>2. /\ UNCHANGED <<history, carried, changes, alarms, clears>> /\ mqtt'.message = mqtt.message
      /\ Called = {} /\ Called' = {} /\ Open' \subseteq Open /\ Sure \subseteq Sure'
      /\ \A n \in Open \ Open' : history[n] # <<>> => history[n][1].value = mqtt.message[n]
  BY <1>1, CompareSets DEF Looks
<1>3. \A n \in Name : n \in Ahead' <=> n \in Ahead
  BY <1>2 DEF Ahead
<1>4. QED
  BY <1>1, <1>2, <1>3, LooksAlarm

LEMMA SelectAlarm ==
  ASSUME IInv, AlarmInv, Select
  PROVE  AlarmInv'
<1>1. Typed
  BY DEF IInv
<1>2. /\ UNCHANGED <<history, carried, changes, alarms, clears>> /\ mqtt'.message = mqtt.message
      /\ Called = {} /\ Called' = {} /\ Open \subseteq Open' /\ Open' \subseteq Mine
      /\ Sure \subseteq Sure'
  BY <1>1, SelectSets DEF Looks
<1>3. ASSUME NEW n \in Open' \ Open, history[n] # <<>>
      PROVE  history[n][1].value = mqtt.message[n]
  <2>1. n \in Name /\ carried[n] = mqtt.message[n]
    BY <1>1, <1>2, <1>3, MineIsKnown
  <2>2. QED
    BY <1>3, <2>1 DEF IInv, StoreInv
<1>4. \A n \in Name : n \in Ahead' <=> n \in Ahead
  BY <1>2, <1>3 DEF Ahead
<1>5. QED
  BY <1>1, <1>2, <1>4, LooksAlarm

\* Nothing is open before and after the step.
LEMMA QuietAlarm ==
  ASSUME IInv, AlarmInv, UNCHANGED <<history, carried, changes, alarms, clears>>,
         Sure = {}, Open = {}, Called = {}, Sure' = {}, Open' = {}, Called' = {}
  PROVE  AlarmInv'
<1>1. Typed
  BY DEF IInv
<1>2. Ahead = {} /\ Ahead' = {}
  BY DEF Ahead
<1>3. QED
  BY <1>1, <1>2, LooksAlarm

\* What was ahead before it is stored is a change after it.
LEMMA StoreAlarm ==
  ASSUME IInv, AlarmInv, Store, HistorySize > 1
  PROVE  AlarmInv'
<1>1. Typed
  BY DEF IInv
<1>2. PICK n \in Mine, x \in Element :
        /\ n \in Sure /\ Sure' = Sure \ {n} /\ Called' = {n} /\ x.value = mqtt.message[n]
        /\ history' = [history EXCEPT ![n] = Push(history[n], x)]
  BY <1>1, StoreSets
<1>3. /\ UNCHANGED <<carried, changes, alarms, clears>> /\ mqtt'.message = mqtt.message
      /\ Called = {} /\ Sure = Open /\ Sure' = Open'
  BY <1>1, StoreSets
<1>4. n \in Name /\ carried[n] # None /\ history[n] \in Seq(Element)
      /\ history \in [Name -> Seq(Element)]
  BY <1>1, MineIsKnown, Fields DEF Typed, TypeOK
<1>5. history'[n] = Push(history[n], x) /\ \A k \in Name : k # n => history'[k] = history[k]
  BY <1>2, <1>4
<1>6. /\ history'[n] # <<>>
      /\ ValueChanged(history'[n]) <=> history[n] = <<>> \/ history[n][1].value # x.value
  BY <1>4, <1>5, PushFacts
<1>7. ASSUME NEW k \in Name, k # n
      PROVE  (k \in Ahead' <=> k \in Ahead) /\ (k \in Sure' <=> k \in Sure)
  <2>1. history'[k] = history[k] /\ (k \in Open' <=> k \in Open) /\ k \notin Called'
        /\ k \notin Called
    BY <1>2, <1>3, <1>5, <1>7
  <2>2. k \in Ahead' <=> k \in Ahead
    BY <1>3, <2>1 DEF Ahead
  <2>3. QED
    BY <1>2, <1>7, <2>2
<1>8. n \in Ahead' <=> history[n] = <<>> \/ history[n][1].value # x.value
  <2>1. n \notin Open' /\ n \in Called'
    BY <1>2, <1>3
  <2>2. n \in Ahead' <=> ValueChanged(history'[n])
    BY <1>4, <1>6, <2>1 DEF Ahead
  <2>3. QED
    BY <1>6, <2>2
<1>9. history[n] # <<>> => (n \in Ahead <=> history[n][1].value # x.value)
  BY <1>2, <1>3, <1>4 DEF Ahead
<1>10. ASSUME NEW k \in Name
       PROVE  Book(history'[k], changes[k], alarms[k], clears[k], carried[k] # None,
                   k \in Ahead', k \in Sure')
  <2>1. Book(history[k], changes[k], alarms[k], clears[k], carried[k] # None, k \in Ahead,
             k \in Sure)
    BY AlarmBooks
  <2>2. changes[k] \in Nat /\ alarms[k] \in Nat /\ clears[k] \in Nat
    BY <1>1, Numbers
  <2>3. CASE k # n
    BY <1>5, <1>7, <2>1, <2>3 DEF Book
  <2>4. CASE k = n /\ history[n] = <<>>
    <3>1. n \in Ahead' /\ history'[n] # <<>> /\ n \in Sure /\ carried[n] # None
      BY <1>2, <1>4, <1>6, <1>8, <2>4
    <3>2. QED
      BY <2>1, <2>2, <2>4, <3>1 DEF Book
  <2>5. CASE k = n /\ history[n] # <<>>
    <3>1. (n \in Ahead' <=> n \in Ahead) /\ history'[n] # <<>> /\ carried[n] # None
      BY <1>4, <1>6, <1>8, <1>9, <2>5
    <3>2. QED
      BY <2>1, <2>2, <2>5, <3>1 DEF Book
  <2>6. QED
    BY <2>3, <2>4, <2>5
<1>11. QED
  BY <1>3, <1>10 DEF AlarmInv, Book

\* The event is raised, or the history has been emptied and it is not.
LEMMA CallAlarm ==
  ASSUME IInv, AlarmInv, Call
  PROVE  AlarmInv'
<1>1. Typed
  BY DEF IInv
<1>2. PICK n \in Mine :
        /\ n \notin Sure /\ Called = {n}
        /\ alarms' = IF ValueChanged(history[n]) THEN Count(alarms, {n}) ELSE alarms
  BY <1>1, CallSets
<1>3. /\ UNCHANGED <<history, carried, changes, clears>> /\ mqtt'.message = mqtt.message
      /\ Called' = {} /\ Sure' = Sure /\ Open' = Sure /\ Open = Sure
  BY <1>1, CallSets
<1>4. n \in Name /\ carried[n] # None /\ history[n] \in Seq(Element)
  BY <1>1, MineIsKnown, Fields
<1>5. alarms \in [Name -> Nat]
  BY <1>1 DEF Typed, TypeOK
<1>6. /\ \A k \in Name : k # n => alarms'[k] = alarms[k]
      /\ alarms'[n] = IF ValueChanged(history[n]) THEN alarms[n] + 1 ELSE alarms[n]
  BY <1>2, <1>4, <1>5, CountFacts
<1>7. history[n] = <<>> => ~ValueChanged(history[n])
  <2>1. history[n] = <<>> => Len(history[n]) = 0
    BY <1>4
  <2>2. QED
    BY <2>1 DEF ValueChanged
<1>8. (history[n] # <<>> => (n \in Ahead <=> ValueChanged(history[n]))) /\ n \notin Ahead'
  BY <1>2, <1>3, <1>4 DEF Ahead
<1>9. \A k \in Name : k # n => (k \in Ahead' <=> k \in Ahead)
  BY <1>2, <1>3 DEF Ahead
<1>10. ASSUME NEW k \in Name
       PROVE  Book(history[k], changes[k], alarms'[k], clears[k], carried[k] # None,
                   k \in Ahead', k \in Sure)
  <2>1. Book(history[k], changes[k], alarms[k], clears[k], carried[k] # None, k \in Ahead,
             k \in Sure)
    BY AlarmBooks
  <2>2. changes[k] \in Nat /\ alarms[k] \in Nat /\ clears[k] \in Nat
    BY <1>1, Numbers
  <2>3. CASE k # n
    BY <1>6, <1>9, <2>1, <2>3 DEF Book
  <2>4. CASE k = n /\ history[n] = <<>>
    BY <1>4, <1>6, <1>7, <2>1, <2>4 DEF Book
  <2>5. CASE k = n /\ history[n] # <<>>
    BY <1>4, <1>6, <1>8, <2>1, <2>2, <2>5 DEF Book
  <2>6. QED
    BY <2>3, <2>4, <2>5
<1>11. QED
  BY <1>3, <1>10 DEF AlarmInv, Book

\* What differs from the value before is a change, and ahead.
LEMMA ReceiveAlarm ==
  ASSUME IInv, AlarmInv, NEW m \in Message, Receive(m)
  PROVE  AlarmInv'
<1>1. Typed
  BY DEF IInv
<1>2. /\ UNCHANGED <<history, alarms, clears>> /\ mqtt.pc = "idle" /\ mqtt'.message = m
      /\ Sure' = Mine' /\ Open' = Mine' /\ Called' = {}
      /\ \A n \in Name :
           IF n \in Mine'
           THEN /\ carried'[n] = m[n] /\ m[n] \in Value
                /\ changes'[n] = IF m[n] # carried[n] THEN changes[n] + 1 ELSE changes[n]
           ELSE carried'[n] = carried[n] /\ changes'[n] = changes[n]
  BY <1>1, ReceiveSets
<1>3. Sure = {} /\ Open = {} /\ Ahead = {}
  BY <1>1, <1>2, IdleSets
<1>4. \A n \in Name : history[n] # <<>> => history[n][1].value = carried[n]
  BY <1>3 DEF IInv, StoreInv
<1>5. \A n \in Name : n \in Ahead' <=> n \in Mine' /\ history[n] # <<>> /\ carried[n] # m[n]
  BY <1>2, <1>4 DEF Ahead
<1>6. ASSUME NEW n \in Name
      PROVE  Book(history[n], changes'[n], alarms[n], clears[n], carried'[n] # None,
                  n \in Ahead', n \in Sure')
  <2>1. Book(history[n], changes[n], alarms[n], clears[n], carried[n] # None, FALSE, FALSE)
    BY <1>3, AlarmBooks DEF Book
  <2>2. changes[n] \in Nat /\ alarms[n] \in Nat /\ clears[n] \in Nat
    BY <1>1, Numbers
  <2>3. CASE n \notin Mine'
    <3>1. n \notin Ahead' /\ n \notin Sure' /\ carried'[n] = carried[n] /\ changes'[n] = changes[n]
      BY <1>2, <1>5, <2>3
    <3>2. QED
      BY <2>1, <3>1 DEF Book
  <2>4. CASE n \in Mine'
    <3>1. /\ n \in Sure' /\ carried'[n] # None
          /\ changes'[n] = IF m[n] # carried[n] THEN changes[n] + 1 ELSE changes[n]
          /\ history[n] # <<>> => (n \in Ahead' <=> m[n] # carried[n])
          /\ carried[n] = None => m[n] # carried[n]
      BY <1>2, <1>5, <2>4, EndpointAssumption
    <3>2. CASE m[n] # carried[n]
      BY <2>1, <2>2, <3>1, <3>2 DEF Book
    <3>3. CASE m[n] = carried[n]
      BY <2>1, <2>2, <3>1, <3>3 DEF Book
    <3>4. QED
      BY <3>2, <3>3
  <2>5. QED
    BY <2>3, <2>4
<1>7. QED
  BY <1>2, <1>6 DEF AlarmInv, Book

\* A clear may cost an event, or cause one.
LEMMA ClearAlarm ==
  ASSUME IInv, AlarmInv, NEW n \in Name, Clear(n)
  PROVE  AlarmInv'
<1>1. Typed
  BY DEF IInv
<1>2. /\ UNCHANGED <<mqtt, carried, changes, alarms>>
      /\ Sure' = Sure /\ Open' = Open /\ Called' = Called
      /\ history[n] # <<>> /\ history'[n] = <<>> /\ clears'[n] = clears[n] + 1
      /\ \A k \in Name : k # n => history'[k] = history[k] /\ clears'[k] = clears[k]
  BY <1>1, ClearSets
<1>3. \A k \in Name : k # n => (k \in Ahead' <=> k \in Ahead)
  BY <1>2 DEF Ahead
<1>4. ASSUME NEW k \in Name
      PROVE  Book(history'[k], changes[k], alarms[k], clears'[k], carried[k] # None,
                  k \in Ahead', k \in Sure)
  <2>1. Book(history[k], changes[k], alarms[k], clears[k], carried[k] # None, k \in Ahead,
             k \in Sure)
    BY AlarmBooks
  <2>2. changes[k] \in Nat /\ alarms[k] \in Nat /\ clears[k] \in Nat
    BY <1>1, Numbers
  <2>3. CASE k # n
    BY <1>2, <1>3, <2>1, <2>3 DEF Book
  <2>4. CASE k = n
    BY <1>2, <2>1, <2>2, <2>4 DEF Book
  <2>5. QED
    BY <2>3, <2>4
<1>5. QED
  BY <1>2, <1>4 DEF AlarmInv, Book

LEMMA StepAlarm == HistorySize > 1 /\ IInv /\ AlarmInv /\ [Next]_vars => AlarmInv'
<1> SUFFICES ASSUME HistorySize > 1, IInv, AlarmInv, [Next]_vars PROVE AlarmInv'
  OBVIOUS
<1>1. Typed
  BY DEF IInv
<1>2. CASE UNCHANGED vars
  BY <1>2 DEF vars, AlarmInv, Ahead, Sure, Open, Mine, Called, Compared
<1>3. CASE Done
  BY <1>1, <1>3, DoneSets, QuietAlarm DEF Looks
<1>4. CASE \E n \in Name : Expose(n)
  BY <1>1, <1>4, ExposeSets, QuietAlarm
<1>5. QED
  BY <1>2, <1>3, <1>4, FindAlarm, CompareAlarm, SelectAlarm, StoreAlarm, CallAlarm, ReceiveAlarm,
     ClearAlarm
  DEF Next, Update

LEMMA InitAlarm == Init => AlarmInv
BY DEF Init, AlarmInv, Zero

-----------------------------------------------------------------------------
\* The thread and its sets, the histories and the counters keep their types: a name is stored
\* only if the message carries it (CEndpoint::findChangedProperties, updateProperty).
THEOREM TypeCorrect == Spec => []TypeOK
<1>1. IInv => TypeOK
  BY DEF IInv, Typed
<1>2. QED
  BY <1>1, InitIInv, StepIInv, PTL DEF Spec

\* Between messages a property has the value that was last carried for it, for any properties,
\* messages and clears (findChangedProperties, updateProperty).
THEOREM StoredCorrect == Spec => []StoredIsCarried
<1>1. IInv => StoredIsCarried
  BY IdleSets DEF IInv, StoreInv, StoredIsCarried, Handled
<1>2. QED
  BY <1>1, InitIInv, StepIInv, PTL DEF Spec

\* An action raises one event per message that carries it (isAlwaysUpdateProperty).
THEOREM ActionsCorrect == Spec => []ActionsArrive
<1>1. IInv => ActionsArrive
  <2> SUFFICES ASSUME IInv, mqtt.pc = "idle", NEW n \in AlwaysUpdate
               PROVE  arrivals[n] = named[n]
    BY DEF ActionsArrive, Handled
  <2>1. Typed /\ n \in Name
    BY EndpointAssumption DEF IInv
  <2>2. n \notin Sure \cup Called /\ arrivals[n] \in Nat
    BY <2>1, IdleSets DEF Typed, TypeOK
  <2>3. QED
    BY <2>2 DEF IInv, ArrivalInv
<1>2. QED
  BY <1>1, InitIInv, StepIInv, PTL DEF Spec

\* If a history has room for two values, the observer of changes hears of each change once, up to
\* one miss or one repetition per clear (findChangedProperties, valueChanged).
THEOREM AlarmsCorrect ==
  ASSUME HistorySize > 1
  PROVE  Spec => []AlarmsAreChanges
<1>1. IInv /\ AlarmInv => AlarmsAreChanges
  <2> SUFFICES ASSUME IInv, AlarmInv, mqtt.pc = "idle", NEW n \in Name
               PROVE  /\ alarms[n] <= changes[n] + clears[n]
                      /\ changes[n] <= alarms[n] + clears[n]
    BY DEF AlarmsAreChanges, Handled
  <2>1. Typed
    BY DEF IInv
  <2>2. Book(history[n], changes[n], alarms[n], clears[n], carried[n] # None, FALSE, FALSE)
    BY <2>1, IdleSets, AlarmBooks DEF Book
  <2>3. changes[n] \in Nat /\ alarms[n] \in Nat /\ clears[n] \in Nat
    BY <2>1, Numbers
  <2>4. QED
    BY <2>2, <2>3 DEF Book
<1>2. IInv /\ AlarmInv /\ [Next]_vars => AlarmInv'
  BY StepAlarm
<1>3. QED
  BY <1>1, <1>2, InitIInv, InitAlarm, StepIInv, PTL DEF Spec

=============================================================================
