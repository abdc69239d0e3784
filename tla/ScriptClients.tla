------------------------------ MODULE ScriptClients ------------------------------
(***************************************************************************)
(* The MQTT clients of the scripts: CMqtt keeps one for each method that   *)
(* has subscribed, in a map without a lock.  The threads of the scripts    *)
(* fill the map (CMqtt::subscribe), the main thread, in ~CScript, empties  *)
(* it (CMqtt::unsubscribe), and each client has a thread that delivers.    *)
(***************************************************************************)
EXTENDS Naturals, Sequences

CONSTANTS
  ScriptName, Method, Topic,
  MaxCalls   \* calls of subscribe(), and hence clients

\* The placeholders of the initial state need a name each.
ASSUME ScriptClientsAssumption ==
  /\ ScriptName # {} /\ Method # {} /\ Topic # {} /\ "none" \notin Topic
  /\ MaxCalls \in Nat

VARIABLES
  listed,   \* m_clientsScript: per script and method the number of a client, 0 if none
  client,   \* the clients made so far
  caller,   \* per script: the call of subscribe() its thread is in
  closer,   \* the main thread in unsubscribe(): of which script, with which client
  present,  \* the scripts that have an object, and with it a thread
  found,    \* those of them that are in the list of the manager
  wanted,   \* per script and method: the topic of the last call, "none" if there was none
  calls,    \* calls of subscribe() so far
  cub,      \* undefined behaviour has happened and did harm
  ccalm     \* the behaviour keeps the discipline; never changes

clientVars == <<listed, client, caller, closer, present, found, wanted, calls, cub, ccalm>>

Key == ScriptName \X Method

Client == [key : Key, topic : Topic, heard : SUBSET Topic, callback : BOOLEAN, connected : BOOLEAN]

ClientsTypeOK ==
  /\ listed \in [Key -> 0..MaxCalls] /\ client \in Seq(Client) /\ Len(client) <= MaxCalls
  /\ caller \in [ScriptName -> [pc : {"idle", "unsubscribe", "connect", "subscribe", "insert",
                                      "inserting"},
                                key : Key, topic : Topic, with : 0..MaxCalls, new : BOOLEAN]]
  /\ closer \in [pc : {"idle", "next", "callback", "disconnect"}, on : ScriptName,
                 with : 0..MaxCalls]
  /\ present \subseteq ScriptName /\ found \subseteq present
  /\ wanted \in [Key -> Topic \cup {"none"}]
  /\ calls \in 0..MaxCalls /\ cub \in BOOLEAN /\ ccalm \in BOOLEAN

ClientsInit ==
  /\ listed = [k \in Key |-> 0] /\ client = <<>>
  /\ caller = [s \in ScriptName |->
                 [pc |-> "idle", key |-> <<s, CHOOSE m \in Method : TRUE>>,
                  topic |-> CHOOSE t \in Topic : TRUE, with |-> 0, new |-> FALSE]]
  /\ closer = [pc |-> "idle", on |-> CHOOSE s \in ScriptName : TRUE, with |-> 0]
  /\ present = ScriptName /\ found = ScriptName
  /\ wanted = [k \in Key |-> "none"]
  /\ calls = 0 /\ cub = FALSE /\ ccalm \in BOOLEAN

-----------------------------------------------------------------------------
(***************************************************************************)
(* The thread of a script in CMqtt::subscribe.                             *)
(***************************************************************************)
Inserting == {s \in ScriptName : caller[s].pc = "inserting"}

\* Who reads or changes the map while another thread inserts.
InMap == /\ ccalm => Inserting = {}
         /\ cub' \in {FALSE, Inserting # {}}

Steps(s, pc) == caller' = [caller EXCEPT ![s].pc = pc]

Subscribe(s, m, t) ==
  LET k == <<s, m>>
  IN  /\ ~cub /\ s \in present /\ caller[s].pc = "idle" /\ calls < MaxCalls
      /\ ccalm => closer.pc = "idle" \/ closer.on # s
      /\ InMap
      /\ calls' = calls + 1 /\ wanted' = [wanted EXCEPT ![k] = t]
      /\ caller' = [caller EXCEPT ![s] =
           [pc |-> IF listed[k] = 0 THEN "connect"
                   ELSE IF client[listed[k]].topic # t THEN "unsubscribe" ELSE "idle",
            key |-> k, topic |-> t, with |-> listed[k], new |-> listed[k] = 0]]
      /\ UNCHANGED <<listed, client, closer, present, found, ccalm>>

\* CMqttScriptClient, its callback, connect().
Connect(s) ==
  /\ ~cub /\ caller[s].pc = "connect"
  /\ client' = Append(client, [key |-> caller[s].key, topic |-> caller[s].topic, heard |-> {},
                               callback |-> TRUE, connected |-> TRUE])
  /\ caller' = [caller EXCEPT ![s].pc = "subscribe", ![s].with = Len(client) + 1]
  /\ UNCHANGED <<listed, closer, present, found, wanted, calls, cub, ccalm>>

\* The client may have been deleted meanwhile.
Freed(c) == ~client[c].connected

\* Mutant: the new topic is not kept in the client.
RetargetForgotten(c, t) == [client EXCEPT ![c].heard = @ \ {client[c].topic}]

\* CMqttClient::unsubscribe, then m_subscrptionTopic is set.
Retarget(c, t) == [client EXCEPT ![c].heard = @ \ {client[c].topic}, ![c].topic = t]

Unsubscribe(s) ==
  LET c == caller[s].with
  IN  /\ ~cub /\ caller[s].pc = "unsubscribe"
      /\ IF Freed(c)
         THEN cub' = TRUE /\ UNCHANGED client
         ELSE client' = Retarget(c, caller[s].topic) /\ UNCHANGED cub
      /\ Steps(s, "subscribe")
      /\ UNCHANGED <<listed, closer, present, found, wanted, calls, ccalm>>

\* CMqttClient::subscribe waits for the broker.
Acknowledged(s) ==
  LET c == caller[s].with
  IN  /\ ~cub /\ caller[s].pc = "subscribe"
      /\ IF Freed(c)
         THEN cub' = TRUE /\ UNCHANGED client
         ELSE client' = [client EXCEPT ![c].heard = @ \cup {caller[s].topic}] /\ UNCHANGED cub
      /\ Steps(s, IF caller[s].new THEN "insert" ELSE "idle")
      /\ UNCHANGED <<listed, closer, present, found, wanted, calls, ccalm>>

StartInsert(s) ==
  /\ ~cub /\ caller[s].pc = "insert"
  /\ InMap
  /\ Steps(s, "inserting")
  /\ UNCHANGED <<listed, client, closer, present, found, wanted, calls, ccalm>>

Insert(s) ==
  /\ ~cub /\ caller[s].pc = "inserting"
  /\ listed' = [listed EXCEPT ![caller[s].key] = caller[s].with]
  /\ Steps(s, "idle")
  /\ UNCHANGED <<client, closer, present, found, wanted, calls, cub, ccalm>>

-----------------------------------------------------------------------------
(***************************************************************************)
(* The main thread: CMqtt::unsubscribe in ~CScript, and what follows.      *)
(***************************************************************************)
Leave(s) ==
  /\ ~cub /\ closer.pc = "idle" /\ s \in present /\ found = present
  /\ ccalm => caller[s].pc = "idle"
  /\ closer' = [closer EXCEPT !.pc = "next", !.on = s]
  /\ UNCHANGED <<listed, client, caller, present, found, wanted, calls, cub, ccalm>>

Unlist(m) ==
  LET k == <<closer.on, m>>
  IN  /\ ~cub /\ closer.pc = "next" /\ listed[k] # 0
      /\ InMap
      /\ listed' = [listed EXCEPT ![k] = 0]
      /\ closer' = [closer EXCEPT !.pc = "callback", !.with = listed[k]]
      /\ UNCHANGED <<client, caller, present, found, wanted, calls, ccalm>>

\* The destructor of the derived class goes first: the callback is deleted ...
DeleteCallback ==
  /\ ~cub /\ closer.pc = "callback"
  /\ client' = [client EXCEPT ![closer.with].callback = FALSE]
  /\ closer' = [closer EXCEPT !.pc = "disconnect"]
  /\ UNCHANGED <<listed, caller, present, found, wanted, calls, cub, ccalm>>

\* ... then CMqttClient unsubscribes and CMqttBase disconnects.
Disconnect ==
  /\ ~cub /\ closer.pc = "disconnect"
  /\ client' = [client EXCEPT ![closer.with].connected = FALSE, ![closer.with].heard = {}]
  /\ closer' = [closer EXCEPT !.pc = "next"]
  /\ UNCHANGED <<listed, caller, present, found, wanted, calls, cub, ccalm>>

\* The thread of the script has been joined and the script is off the list.
Gone(s) ==
  /\ ~cub /\ closer.pc = "next" /\ closer.on = s /\ caller[s].pc = "idle"
  /\ \A m \in Method : listed[<<s, m>>] = 0
  /\ present' = present \ {s} /\ found' = found \ {s}
  /\ closer' = [closer EXCEPT !.pc = "idle"]
  /\ wanted' = [k \in Key |-> IF k[1] = s THEN "none" ELSE wanted[k]]
  /\ UNCHANGED <<listed, client, caller, calls, cub, ccalm>>

\* The new version of the script: its thread runs before the manager has it in its list.
Return(s) ==
  /\ ~cub /\ closer.pc = "idle" /\ s \notin present /\ found = present
  /\ present' = present \cup {s}
  /\ UNCHANGED <<listed, client, caller, closer, found, wanted, calls, cub, ccalm>>

PushBack ==
  /\ ~cub /\ closer.pc = "idle" /\ found # present
  /\ found' = present
  /\ UNCHANGED <<listed, client, caller, closer, present, wanted, calls, cub, ccalm>>

-----------------------------------------------------------------------------
\* The thread of a client calls CMqttScriptCallback::incomingMessage, which does not ask whether
\* there is such a script.  A message for a script that is there changes nothing here.
Deliver(c) ==
  /\ ~cub /\ client[c].connected /\ client[c].heard # {}
  /\ ccalm => client[c].callback /\ found = present
  /\ ~client[c].callback \/ client[c].key[1] \notin found
  /\ cub' = TRUE
  /\ UNCHANGED <<listed, client, caller, closer, present, found, wanted, calls, ccalm>>

ClientsNext ==
  \/ \E s \in ScriptName, m \in Method, t \in Topic : Subscribe(s, m, t)
  \/ \E s \in ScriptName :
       \/ Connect(s) \/ Unsubscribe(s) \/ Acknowledged(s) \/ StartInsert(s) \/ Insert(s)
       \/ Leave(s) \/ Gone(s) \/ Return(s)
  \/ \E m \in Method : Unlist(m)
  \/ DeleteCallback \/ Disconnect \/ PushBack
  \/ \E c \in DOMAIN client : Deliver(c)

ClientsSpec == ClientsInit /\ [][ClientsNext]_clientVars

-----------------------------------------------------------------------------
(***************************************************************************)
(* Properties.                                                             *)
(***************************************************************************)
ClientsOf(s) == {c \in DOMAIN client : client[c].connected /\ client[c].key[1] = s}

Busy(s) == caller[s].pc # "idle" \/ (closer.pc # "idle" /\ closer.on = s)

\* As long as only one thread at a time is in the map, no script subscribes while it is being
\* destroyed, and no message arrives for a client in its destructor or while a script that already
\* runs is not yet in the manager's list, nothing undefined happens,
\* and the clients that are connected are those the scripts asked for: one per method, in the
\* map, on the topic of the last call and no other, and none for a script that has gone, so that
\* no message is delivered twice or to nobody (CMqtt::subscribe, unsubscribe).
ClientsAreAskedFor ==
  ccalm =>
    /\ ~cub
    /\ \A s \in ScriptName : ~Busy(s) =>
         /\ \A m \in Method :
              LET k == <<s, m>>
                  mine == {c \in ClientsOf(s) : client[c].key = k}
              IN  IF wanted[k] = "none" THEN mine = {} /\ listed[k] = 0
                  ELSE mine = {listed[k]} /\ client[listed[k]].heard = {wanted[k]}

=============================================================================
