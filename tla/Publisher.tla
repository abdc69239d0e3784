------------------------------ MODULE Publisher ------------------------------
(***************************************************************************)
(* The way of a command to the broker: the queue of the MQTT publisher,    *)
(* its worker thread, its destructor, and the connection.                  *)
(*                                                                         *)
(*  - Script, timer and MQTT threads call publish(), which appends under   *)
(*    m_publishMutex.                                                      *)
(*  - publishWorker takes one command at a time; the client sends it       *)
(*    asynchronously and the worker waits at most m_publishInterval for    *)
(*    the token, so several commands can be under way to the broker.       *)
(*  - The connect options ask for no automatic reconnect: once the         *)
(*    connection is gone, every publish() of the client throws, and the    *)
(*    worker logs and goes on with the next command.                       *)
(*  - The destructor sets m_publishStop and joins the worker, whose first  *)
(*    step resets that flag.                                               *)
(***************************************************************************)
EXTENDS Naturals, Sequences

CONSTANT MaxPublished  \* bound on calls of publish()

ASSUME PublisherAssumption == MaxPublished \in Nat

VARIABLES
  published,  \* number of publish() calls so far; a command is the number of its call
  queue,      \* m_publishMessages
  worker,     \* the thread of publishWorker: where it is and the command it has popped
  stop,       \* m_publishStop
  owner,      \* the thread that owns the publisher: "alive", "joining", "gone"
  link,       \* the TCP connection: "up" or "down"
  wire,       \* commands the client has sent and the broker has not received
  received    \* commands the broker has received

vars == <<published, queue, worker, stop, owner, link, wire, received>>

Point == {"start", "while", "look", "pop", "send", "wait", "ended"}

TypeOK ==
  /\ published \in Nat
  /\ queue \in Seq(Nat) /\ wire \in Seq(Nat) /\ received \in Seq(Nat)
  /\ worker \in [pc : Point, command : Nat]
  /\ stop \in BOOLEAN
  /\ owner \in {"alive", "joining", "gone"}
  /\ link \in {"up", "down"}

\* The constructor of CMqtt has connected and created the worker's thread; before it
\* returns nobody else can reach the publisher.
Init ==
  /\ published = 0
  /\ queue = <<>> /\ wire = <<>> /\ received = <<>>
  /\ worker = [pc |-> "start", command |-> 0]
  /\ stop = FALSE
  /\ owner = "alive"
  /\ link = "up"

At(pc) == worker.pc = pc
GoTo(pc) == worker' = [pc |-> pc, command |-> 0]

-----------------------------------------------------------------------------
\* publish, of any thread.  Those threads are gone before the publisher is destroyed.
Publish ==
  /\ owner = "alive" /\ published < MaxPublished
  /\ published' = published + 1
  /\ queue' = Append(queue, published + 1)
  /\ UNCHANGED <<worker, stop, owner, link, wire, received>>

-----------------------------------------------------------------------------
(***************************************************************************)
(* publishWorker.                                                          *)
(***************************************************************************)

Start ==
  /\ At("start")
  /\ stop' = FALSE
  /\ GoTo("while")
  /\ UNCHANGED <<published, queue, owner, link, wire, received>>

\* Mutant: the worker drains the queue before it heeds the stop flag, and an empty queue
\* sends it back to sleep.
WhileDrains ==
  /\ At("while")
  /\ GoTo("look")
  /\ UNCHANGED <<published, queue, stop, owner, link, wire, received>>

\* The condition of the loop.
While ==
  /\ At("while")
  /\ GoTo(IF stop THEN "ended" ELSE "look")
  /\ UNCHANGED <<published, queue, stop, owner, link, wire, received>>

\* Mutant: a worker that finds nothing to do returns.
LookOnce ==
  /\ At("look")
  /\ GoTo(IF queue = <<>> THEN "ended" ELSE "pop")
  /\ UNCHANGED <<published, queue, stop, owner, link, wire, received>>

\* Under the lock: is the queue empty?  An empty one costs a sleep of 10 ms.
Look ==
  /\ At("look")
  /\ GoTo(IF queue = <<>> THEN "while" ELSE "pop")
  /\ UNCHANGED <<published, queue, stop, owner, link, wire, received>>

\* Mutant: pop() before front(), which reads an empty queue when one command was left.
PopUnchecked ==
  /\ At("pop")
  /\ worker' = [pc |-> "send", command |-> IF Len(queue) > 1 THEN queue[2] ELSE 0 - 1]
  /\ queue' = Tail(queue)
  /\ UNCHANGED <<published, stop, owner, link, wire, received>>

\* Mutant: front() without pop().
PopPeeks ==
  /\ At("pop")
  /\ worker' = [pc |-> "send", command |-> Head(queue)]
  /\ UNCHANGED <<published, queue, stop, owner, link, wire, received>>

\* Mutant: the newest command is taken.
PopNewest ==
  /\ At("pop")
  /\ worker' = [pc |-> "send", command |-> queue[Len(queue)]]
  /\ queue' = SubSeq(queue, 1, Len(queue) - 1)
  /\ UNCHANGED <<published, stop, owner, link, wire, received>>

\* Under the lock again: front() and pop().
Pop ==
  /\ At("pop")
  /\ worker' = [pc |-> "send", command |-> Head(queue)]
  /\ queue' = Tail(queue)
  /\ UNCHANGED <<published, stop, owner, link, wire, received>>

\* Mutant: a command is handed over only to a client that has nothing under way.
SendIfIdle ==
  /\ At("send")
  /\ IF link = "up" /\ wire = <<>>
     THEN wire' = Append(wire, worker.command) /\ GoTo("wait")
     ELSE UNCHANGED wire /\ GoTo("while")
  /\ UNCHANGED <<published, queue, stop, owner, link, received>>

\* client()->publish: the exception without a connection loses the command.
Send ==
  /\ At("send")
  /\ IF link = "up"
     THEN wire' = Append(wire, worker.command) /\ GoTo("wait")
     ELSE UNCHANGED wire /\ GoTo("while")
  /\ UNCHANGED <<published, queue, stop, owner, link, received>>

\* wait_for returns: the token is complete, has failed (an exception, logged), or the
\* interval is over.
Wait ==
  /\ At("wait")
  /\ GoTo("while")
  /\ UNCHANGED <<published, queue, stop, owner, link, wire, received>>

-----------------------------------------------------------------------------
(***************************************************************************)
(* The destructor, and the connection.                                     *)
(***************************************************************************)
RequestStop ==
  /\ owner = "alive"
  /\ owner' = "joining"
  /\ stop' = TRUE
  /\ UNCHANGED <<published, queue, worker, link, wire, received>>

\* Mutant: the thread is detached, not joined.
Detach ==
  /\ owner = "joining"
  /\ owner' = "gone"
  /\ UNCHANGED <<published, queue, worker, stop, link, wire, received>>

\* join() returns; the destructor of the base class follows.  The commands still queued are
\* discarded with the object; they stay in the queue here, to be told from what was lost before.
Join ==
  /\ owner = "joining" /\ At("ended")
  /\ owner' = "gone"
  /\ UNCHANGED <<published, queue, worker, stop, link, wire, received>>

\* The broker receives the oldest command under way.
Arrive ==
  /\ wire # <<>>
  /\ received' = Append(received, Head(wire))
  /\ wire' = Tail(wire)
  /\ UNCHANGED <<published, queue, worker, stop, owner, link>>

\* The connection breaks, or the destructor disconnects.
Break ==
  /\ link = "up"
  /\ link' = "down"
  /\ wire' = <<>>
  /\ UNCHANGED <<published, queue, worker, stop, owner, received>>

-----------------------------------------------------------------------------
Worker == Start \/ While \/ Look \/ Pop \/ Send \/ Wait
Owner == RequestStop \/ Join
Network == Arrive \/ Break

Next == Publish \/ Worker \/ Owner \/ Network

\* The operating system runs the worker and a thread whose join can return; the broker
\* takes what was sent.  Nobody has to publish, to stop, or to break the connection.
Fairness == WF_vars(Worker) /\ WF_vars(Join) /\ WF_vars(Arrive)

Spec == Init /\ [][Next]_vars /\ Fairness

-----------------------------------------------------------------------------
(***************************************************************************)
(* Properties.                                                             *)
(***************************************************************************)
Popped == IF At("send") THEN <<worker.command>> ELSE <<>>

\* Every command that is not lost, the oldest first.
Pipeline == received \o wire \o Popped \o queue

\* Commands reach the broker in the order publish() was called, each at most once,
\* whatever times out or breaks (publish and publishWorker).
InOrder ==
  \A i, j \in 1..Len(Pipeline) : i < j => Pipeline[i] < Pipeline[j]

\* While the connection stands no command is lost: a worker that is slow, a full
\* pipeline or a timeout of wait_for do not cost one.
LossNeedsBreak ==
  link = "up" => Len(Pipeline) = published

\* After the join nothing is sent: the client may be deleted (the destructor).
SilentOnceGone ==
  [][owner = "gone" => Len(wire') <= Len(wire)]_vars

\* As long as the connection stands and the publisher lives, every command gets to the
\* broker, however many are queued (publishWorker; on destruction the rest is dropped).
EveryCommandArrives ==
  \A i \in 1..MaxPublished :
    published >= i ~>
      link = "down" \/ owner # "alive" \/ \E k \in 1..Len(received) : received[k] = i

\* A stop request that finds the worker in its loop ends it: the destructor returns.  (A
\* request before the worker's first step is overwritten by m_publishStop = false.)
StopIsHeard ==
  owner = "joining" /\ ~At("start") /\ stop ~> owner = "gone"

\* The publisher keeps its promise.
Promise == INSTANCE OrderedDelivery WITH accepted <- published

DeliversInOrder == Promise!Spec

=============================================================================
