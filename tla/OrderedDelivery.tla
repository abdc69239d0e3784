--------------------------- MODULE OrderedDelivery ---------------------------
(***************************************************************************)
(* What the publisher promises to the callers of publish(): commands reach *)
(* the broker in the order of the calls, each at most once.  A command may *)
(* be lost, but then no later one stands for it.  A command is the number  *)
(* of its publish() call.                                                  *)
(***************************************************************************)
EXTENDS Naturals, Sequences

VARIABLES
  accepted,  \* how many commands publish() has taken
  received   \* what the broker has received, in order

vars == <<accepted, received>>

Newest == IF received = <<>> THEN 0 ELSE received[Len(received)]

Init == accepted = 0 /\ received = <<>>

Accept ==
  /\ accepted' = accepted + 1
  /\ UNCHANGED received

Deliver(i) ==
  /\ Newest < i /\ i <= accepted
  /\ received' = Append(received, i)
  /\ UNCHANGED accepted

Next == Accept \/ \E i \in 1..accepted : Deliver(i)

Spec == Init /\ [][Next]_vars

=============================================================================
