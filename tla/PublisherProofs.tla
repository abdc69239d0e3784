--------------------------- MODULE PublisherProofs ---------------------------
(***************************************************************************)
(* Theorems about Publisher: its invariants, the silence after the join,   *)
(* and that it implements OrderedDelivery, for any number of commands.     *)
(***************************************************************************)
EXTENDS Publisher, TLAPS

\* What the places of the worker and of the owner say of the rest.
Typed ==
  /\ TypeOK
  /\ At("pop") => queue # <<>>
  /\ owner = "gone" => At("ended")

Increasing(s) == \A i, j \in 1..Len(s) : i < j => s[i] < s[j]

Before(s, t) == \A i \in 1..Len(s), j \in 1..Len(t) : s[i] < t[j]

Below(s, x) == \A i \in 1..Len(s) : s[i] < x
Above(s, x) == \A i \in 1..Len(s) : x < s[i]
AtMost(s, n) == \A i \in 1..Len(s) : s[i] <= n

\* InOrder, piece by piece: each piece of the pipeline is in order and before the ones
\* behind it, and commands count from 1 to the newest call.
Chain ==
  /\ Increasing(received) /\ Increasing(wire) /\ Increasing(queue)
  /\ Before(received, wire) /\ Before(received, queue) /\ Before(wire, queue)
  /\ AtMost(received, published) /\ AtMost(wire, published) /\ AtMost(queue, published)
  /\ Above(wire, 0) /\ Above(queue, 0)
  /\ At("send") =>
       /\ Below(received, worker.command) /\ Below(wire, worker.command)
       /\ Above(queue, worker.command)
       /\ 0 < worker.command /\ worker.command <= published

\* LossNeedsBreak, counted piece by piece.
Held == IF At("send") THEN 1 ELSE 0

Counted ==
  link = "up" => Len(received) + Len(wire) + Len(queue) + Held = published

PublisherInv == Typed /\ Chain /\ Counted

-----------------------------------------------------------------------------
(***************************************************************************)
(* Sequences.                                                              *)
(***************************************************************************)

\* The elements of Tail are those of the sequence, one place earlier.
LEMMA TailFacts ==
  ASSUME NEW s \in Seq(Nat), s # <<>>
  PROVE  /\ Head(s) \in Nat /\ Head(s) = s[1]
         /\ Len(s) \in Nat /\ Len(s) > 0
         /\ Tail(s) \in Seq(Nat)
         /\ Len(Tail(s)) = Len(s) - 1
         /\ \A i \in 1..Len(Tail(s)) : Tail(s)[i] = s[i + 1]
OBVIOUS

\* The elements of a sequence with one more at the end.
LEMMA AppendFacts ==
  ASSUME NEW s \in Seq(Nat), NEW x \in Nat
  PROVE  /\ Append(s, x) \in Seq(Nat)
         /\ Len(s) \in Nat
         /\ Len(Append(s, x)) = Len(s) + 1
         /\ \A i \in 1..Len(s) : Append(s, x)[i] = s[i] /\ s[i] \in Nat
         /\ Append(s, x)[Len(s) + 1] = x
OBVIOUS

\* Two sequences in order, the first before the second, are in order as one.
LEMMA ConcatIncreasing ==
  ASSUME NEW s \in Seq(Nat), NEW t \in Seq(Nat),
         Increasing(s), Increasing(t), Before(s, t)
  PROVE  s \o t \in Seq(Nat) /\ Increasing(s \o t)
<1>1. /\ s \o t \in Seq(Nat)
      /\ Len(s) \in Nat /\ Len(t) \in Nat
      /\ Len(s \o t) = Len(s) + Len(t)
      /\ \A i \in 1..Len(s) + Len(t) :
           (s \o t)[i] = IF i <= Len(s) THEN s[i] ELSE t[i - Len(s)]
  OBVIOUS
<1>2. ASSUME NEW i \in 1..Len(s) + Len(t), NEW j \in 1..Len(s) + Len(t), i < j
      PROVE  (s \o t)[i] < (s \o t)[j]
  <2>1. CASE j <= Len(s)
    BY <1>1, <1>2, <2>1 DEF Increasing
  <2>2. CASE i > Len(s)
    <3>1. /\ i - Len(s) \in 1..Len(t) /\ j - Len(s) \in 1..Len(t)
          /\ i - Len(s) < j - Len(s)
      BY <1>1, <1>2, <2>2
    <3>2. t[i - Len(s)] < t[j - Len(s)]
      BY <3>1 DEF Increasing
    <3> QED BY <1>1, <1>2, <2>2, <3>2
  <2>3. CASE i <= Len(s) /\ j > Len(s)
    <3>1. i \in 1..Len(s) /\ j - Len(s) \in 1..Len(t)
      BY <1>1, <1>2, <2>3
    <3>2. s[i] < t[j - Len(s)]
      BY <3>1 DEF Before
    <3> QED BY <1>1, <1>2, <2>3, <3>2
  <2> QED BY <1>1, <1>2, <2>1, <2>2, <2>3
<1> QED BY <1>1, <1>2 DEF Increasing

\* What comes after two sequences comes after them as one.
LEMMA ConcatBefore ==
  ASSUME NEW s \in Seq(Nat), NEW t \in Seq(Nat), NEW u \in Seq(Nat),
         Before(s, u), Before(t, u)
  PROVE  Before(s \o t, u)
<1>1. /\ Len(s) \in Nat /\ Len(t) \in Nat
      /\ Len(s \o t) = Len(s) + Len(t)
      /\ \A i \in 1..Len(s) + Len(t) :
           (s \o t)[i] = IF i <= Len(s) THEN s[i] ELSE t[i - Len(s)]
  OBVIOUS
<1>2. ASSUME NEW i \in 1..Len(s) + Len(t), NEW j \in 1..Len(u)
      PROVE  (s \o t)[i] < u[j]
  <2>1. CASE i <= Len(s)
    BY <1>1, <1>2, <2>1 DEF Before
  <2>2. CASE i > Len(s)
    <3>1. i - Len(s) \in 1..Len(t)
      BY <1>1, <1>2, <2>2
    <3>2. t[i - Len(s)] < u[j]
      BY <1>2, <3>1 DEF Before
    <3> QED BY <1>1, <1>2, <2>2, <3>2
  <2> QED BY <1>1, <1>2, <2>1, <2>2
<1> QED BY <1>1, <1>2 DEF Before

\* An ordered sequence without its head: still in order, and behind the head.
LEMMA TailOrder ==
  ASSUME NEW s \in Seq(Nat), s # <<>>, Increasing(s)
  PROVE  Increasing(Tail(s)) /\ Above(Tail(s), Head(s))
<1>1. \A i \in 1..Len(Tail(s)) :
        /\ Tail(s)[i] = s[i + 1]
        /\ 1 \in 1..Len(s) /\ i + 1 \in 1..Len(s) /\ 1 < i + 1
  BY TailFacts
<1>2. Head(s) = s[1]
  BY TailFacts
<1>3. Above(Tail(s), Head(s))
  BY <1>1, <1>2 DEF Increasing, Above
<1>4. ASSUME NEW i \in 1..Len(Tail(s)), NEW j \in 1..Len(Tail(s)), i < j
      PROVE  Tail(s)[i] < Tail(s)[j]
  <2>1. i + 1 < j + 1
    BY <1>4, TailFacts
  <2> QED BY <1>1, <2>1 DEF Increasing
<1> QED BY <1>3, <1>4 DEF Increasing

\* What is before or behind a sequence is before or behind its head and its tail.
LEMMA TailBefore ==
  ASSUME NEW s \in Seq(Nat), s # <<>>, NEW t \in Seq(Nat)
  PROVE  /\ Before(s, t) => Before(Tail(s), t) /\ Above(t, Head(s))
         /\ Before(t, s) => Before(t, Tail(s)) /\ Below(t, Head(s))
<1>1. /\ Head(s) = s[1] /\ 1 \in 1..Len(s)
      /\ \A i \in 1..Len(Tail(s)) : Tail(s)[i] = s[i + 1] /\ i + 1 \in 1..Len(s)
  BY TailFacts
<1>2. Before(s, t) => Before(Tail(s), t) /\ Above(t, Head(s))
  BY <1>1 DEF Before, Above
<1>3. Before(t, s) => Before(t, Tail(s)) /\ Below(t, Head(s))
  BY <1>1 DEF Before, Below
<1> QED BY <1>2, <1>3

\* The tail keeps a bound, and the head obeys it.
LEMMA TailBound ==
  ASSUME NEW s \in Seq(Nat), s # <<>>, NEW n \in Nat
  PROVE  /\ AtMost(s, n) => AtMost(Tail(s), n) /\ Head(s) <= n
         /\ Above(s, n) => Above(Tail(s), n) /\ n < Head(s)
<1>1. /\ Head(s) = s[1] /\ 1 \in 1..Len(s)
      /\ \A i \in 1..Len(Tail(s)) : Tail(s)[i] = s[i + 1] /\ i + 1 \in 1..Len(s)
  BY TailFacts
<1> QED BY <1>1 DEF AtMost, Above

\* A sequence in order with something greater at its end.
LEMMA AppendOrder ==
  ASSUME NEW s \in Seq(Nat), NEW x \in Nat, Increasing(s), Below(s, x)
  PROVE  Increasing(Append(s, x))
<1>1. ASSUME NEW i \in 1..Len(s) + 1, NEW j \in 1..Len(s) + 1, i < j
      PROVE  Append(s, x)[i] < Append(s, x)[j]
  <2>1. i \in 1..Len(s) /\ Append(s, x)[i] = s[i]
    BY <1>1, AppendFacts
  <2>2. CASE j = Len(s) + 1
    <3>1. s[i] < x
      BY <2>1 DEF Below
    <3> QED BY <2>1, <2>2, <3>1, AppendFacts
  <2>3. CASE j \in 1..Len(s)
    <3>1. s[i] < s[j]
      BY <1>1, <2>1, <2>3 DEF Increasing
    <3> QED BY <2>1, <2>3, <3>1, AppendFacts
  <2> QED BY <2>2, <2>3, AppendFacts
<1> QED BY <1>1, AppendFacts DEF Increasing

\* What is before or behind a sequence and the element appended to it.
LEMMA AppendBefore ==
  ASSUME NEW s \in Seq(Nat), NEW t \in Seq(Nat), NEW x \in Nat
  PROVE  /\ Before(s, t) /\ Above(t, x) => Before(Append(s, x), t)
         /\ Before(t, s) /\ Below(t, x) => Before(t, Append(s, x))
<1>1. \A i \in 1..Len(Append(s, x)) :
        \/ i \in 1..Len(s) /\ Append(s, x)[i] = s[i]
        \/ Append(s, x)[i] = x
  BY AppendFacts
<1>2. Before(s, t) /\ Above(t, x) => Before(Append(s, x), t)
  BY <1>1 DEF Before, Above
<1>3. Before(t, s) /\ Below(t, x) => Before(t, Append(s, x))
  BY <1>1 DEF Before, Below
<1> QED BY <1>2, <1>3

\* Bounds of a sequence and of the element appended to it.
LEMMA AppendBound ==
  ASSUME NEW s \in Seq(Nat), NEW x \in Nat, NEW y \in Nat
  PROVE  /\ Below(s, y) /\ x < y => Below(Append(s, x), y)
         /\ Above(s, y) /\ y < x => Above(Append(s, x), y)
         /\ AtMost(s, y) /\ x <= y => AtMost(Append(s, x), y)
<1>1. \A i \in 1..Len(Append(s, x)) :
        \/ i \in 1..Len(s) /\ Append(s, x)[i] = s[i]
        \/ Append(s, x)[i] = x
  BY AppendFacts
<1> QED BY <1>1 DEF Below, Above, AtMost

\* A bound leaves room for the next number.
LEMMA NextNumber ==
  ASSUME NEW s \in Seq(Nat), NEW n \in Nat, AtMost(s, n)
  PROVE  Below(s, n + 1) /\ AtMost(s, n + 1)
<1>1. \A i \in 1..Len(s) : s[i] \in Nat
  OBVIOUS
<1> QED BY <1>1 DEF AtMost, Below

-----------------------------------------------------------------------------
(***************************************************************************)
(* Types.                                                                  *)
(***************************************************************************)
LEMMA InitTyped == Init => Typed
<1>1. <<>> \in Seq(Nat)
  OBVIOUS
<1>2. Init => /\ worker \in [pc : Point, command : Nat]
              /\ ~At("pop")
  BY DEF Init, At, Point
<1>3. Init => /\ published \in Nat
              /\ stop \in BOOLEAN
              /\ owner \in {"alive", "joining", "gone"} /\ owner # "gone"
              /\ link \in {"up", "down"}
  <2>1. ASSUME Init PROVE published = 0 /\ stop = FALSE /\ owner = "alive" /\ link = "up"
    BY <2>1 DEF Init
  <2> QED BY <2>1
<1>4. Init => queue \in Seq(Nat) /\ wire \in Seq(Nat) /\ received \in Seq(Nat)
  <2>1. Init => queue = <<>> /\ wire = <<>> /\ received = <<>>
    BY DEF Init
  <2> QED BY <1>1, <2>1
<1> QED BY <1>2, <1>3, <1>4 DEF Typed, TypeOK

LEMMA NextTyped == Typed /\ [Next]_vars => Typed'
<1> SUFFICES ASSUME Typed, [Next]_vars PROVE Typed'
  OBVIOUS
<1> USE DEF Typed, TypeOK, At, Point, GoTo
<1>1. CASE Publish
  <2>1. /\ published' = published + 1 /\ published' \in Nat
        /\ queue' = Append(queue, published + 1)
        /\ UNCHANGED <<worker, stop, owner, link, wire, received>>
    BY <1>1 DEF Publish
  <2>2. queue' \in Seq(Nat) /\ Len(queue') = Len(queue) + 1 /\ Len(queue) \in Nat
    BY <2>1, AppendFacts
  <2>3. queue' # <<>>
    BY <2>2
  <2> QED BY <2>1, <2>2, <2>3
<1>2. CASE Start
  BY <1>2 DEF Start
<1>3. CASE While
  BY <1>3 DEF While
<1>4. CASE Look
  BY <1>4 DEF Look
<1>5. CASE Pop
  BY <1>5, TailFacts DEF Pop
<1>6. CASE Send
  <2>1. worker.command \in Nat /\ owner # "gone"
    BY <1>6 DEF Send
  <2>2. wire' \in Seq(Nat)
    <3>1. Append(wire, worker.command) \in Seq(Nat)
      BY <2>1, AppendFacts
    <3>2. wire' = Append(wire, worker.command) \/ wire' = wire
      BY <1>6 DEF Send
    <3> QED BY <3>1, <3>2
  <2>3. worker' \in {[pc |-> "wait", command |-> 0], [pc |-> "while", command |-> 0]}
    BY <1>6 DEF Send
  <2>4. UNCHANGED <<published, queue, stop, owner, link, received>>
    BY <1>6 DEF Send
  <2>5. /\ [pc |-> "wait", command |-> 0] \in [pc : Point, command : Nat]
        /\ [pc |-> "while", command |-> 0] \in [pc : Point, command : Nat]
    OBVIOUS
  <2>6. worker' \in [pc : Point, command : Nat] /\ worker'.pc # "pop"
    BY <2>3, <2>5
  <2> QED BY <2>1, <2>2, <2>4, <2>6
<1>7. CASE Wait
  BY <1>7 DEF Wait
<1>8. CASE RequestStop
  BY <1>8 DEF RequestStop
<1>9. CASE Join
  BY <1>9 DEF Join
<1>10. CASE Arrive
  BY <1>10, TailFacts, AppendFacts DEF Arrive
<1>11. CASE Break
  BY <1>11 DEF Break
<1>12. CASE UNCHANGED vars
  BY <1>12 DEF vars
<1> QED
  BY <1>1, <1>2, <1>3, <1>4, <1>5, <1>6, <1>7, <1>8, <1>9, <1>10, <1>11, <1>12
  DEF Next, Worker, Owner, Network

\* Every variable of Publisher keeps its type, whatever the threads and the network do.
THEOREM TypeCorrect == Spec => []TypeOK
<1>1. Typed => TypeOK
  BY DEF Typed
<1> QED BY InitTyped, NextTyped, <1>1, PTL DEF Spec

-----------------------------------------------------------------------------
(***************************************************************************)
(* Order.                                                                  *)
(***************************************************************************)
LEMMA InitChain == Init => Chain
<1> SUFFICES ASSUME Init PROVE Chain
  OBVIOUS
<1>1. queue = <<>> /\ wire = <<>> /\ received = <<>> /\ ~At("send")
  BY DEF Init, At
<1>2. /\ Increasing(<<>>) /\ Before(<<>>, <<>>)
      /\ \A n : AtMost(<<>>, n) /\ Above(<<>>, n)
  BY DEF Increasing, Before, AtMost, Above
<1> QED BY <1>1, <1>2 DEF Chain

\* Nothing moves, or the worker leaves the place where it holds a command.
LEMMA ChainKept ==
  ASSUME Chain, UNCHANGED <<published, queue, wire, received>>,
         worker' = worker \/ worker'.pc # "send"
  PROVE  Chain'
BY DEF Chain, At

LEMMA NextChain == Typed /\ Chain /\ [Next]_vars => Chain'
<1> SUFFICES ASSUME Typed, Chain, [Next]_vars PROVE Chain'
  OBVIOUS
<1>t. /\ queue \in Seq(Nat) /\ wire \in Seq(Nat) /\ received \in Seq(Nat)
      /\ published \in Nat /\ worker.command \in Nat
  BY DEF Typed, TypeOK
<1>1. CASE Publish
  <2>1. /\ published' = published + 1 /\ queue' = Append(queue, published + 1)
        /\ published + 1 \in Nat
        /\ UNCHANGED <<worker, wire, received>>
    BY <1>1, <1>t DEF Publish
  <2>2. /\ Below(queue, published + 1) /\ Below(wire, published + 1) /\ Below(received, published + 1)
        /\ AtMost(queue, published + 1) /\ AtMost(wire, published + 1)
        /\ AtMost(received, published + 1)
    BY <1>t, NextNumber DEF Chain
  <2>3. Increasing(queue') /\ Before(received, queue') /\ Before(wire, queue')
    BY <1>t, <2>1, <2>2, AppendOrder, AppendBefore DEF Chain
  <2>4. AtMost(queue', published + 1) /\ Above(queue', 0)
    BY <1>t, <2>1, <2>2, AppendBound DEF Chain
  <2>5. At("send") => Above(queue', worker.command) /\ worker.command <= published + 1
    BY <1>t, <2>1, AppendBound DEF Chain
  <2> QED BY <2>1, <2>2, <2>3, <2>4, <2>5 DEF Chain, At
<1>2. CASE Start \/ While \/ Look \/ Wait
  BY <1>2, ChainKept DEF Start, While, Look, Wait, GoTo
<1>3. CASE Pop
  <2>1. /\ queue # <<>>
        /\ worker' = [pc |-> "send", command |-> Head(queue)]
        /\ queue' = Tail(queue)
        /\ UNCHANGED <<published, wire, received>>
    BY <1>3 DEF Pop, Typed
  <2>2. /\ Increasing(Tail(queue)) /\ Above(Tail(queue), Head(queue))
        /\ Before(received, Tail(queue)) /\ Below(received, Head(queue))
        /\ Before(wire, Tail(queue)) /\ Below(wire, Head(queue))
        /\ AtMost(Tail(queue), published) /\ Head(queue) <= published
        /\ Above(Tail(queue), 0) /\ 0 < Head(queue)
    BY <1>t, <2>1, TailOrder, TailBefore, TailBound DEF Chain
  <2>3. worker'.command = Head(queue)
    BY <2>1
  <2> QED BY <2>1, <2>2, <2>3 DEF Chain, At
<1>4. CASE Send
  <2>1. CASE link = "up"
    <3>1. /\ At("send") /\ wire' = Append(wire, worker.command)
          /\ worker'.pc # "send"
          /\ UNCHANGED <<published, queue, received>>
      BY <1>4, <2>1 DEF Send, GoTo
    <3>2. Increasing(wire') /\ Before(received, wire') /\ Before(wire', queue)
      BY <1>t, <3>1, AppendOrder, AppendBefore DEF Chain
    <3>3. AtMost(wire', published) /\ Above(wire', 0)
      BY <1>t, <3>1, AppendBound DEF Chain
    <3> QED BY <3>1, <3>2, <3>3 DEF Chain, At
  <2>2. CASE link # "up"
    BY <1>4, <2>2, ChainKept DEF Send, GoTo
  <2> QED BY <2>1, <2>2
<1>5. CASE RequestStop \/ Join
  BY <1>5, ChainKept DEF RequestStop, Join
<1>6. CASE Arrive
  <2>1. /\ wire # <<>>
        /\ received' = Append(received, Head(wire)) /\ wire' = Tail(wire)
        /\ UNCHANGED <<published, queue, worker>>
    BY <1>6 DEF Arrive
  <2>2. Head(wire) \in Nat /\ Tail(wire) \in Seq(Nat)
    BY <1>t, <2>1, TailFacts
  <2>3. /\ Increasing(Tail(wire)) /\ Above(Tail(wire), Head(wire))
        /\ Before(Tail(wire), queue) /\ Above(queue, Head(wire))
        /\ Before(received, Tail(wire)) /\ Below(received, Head(wire))
        /\ AtMost(Tail(wire), published) /\ Head(wire) <= published
        /\ Above(Tail(wire), 0)
    BY <1>t, <2>1, TailOrder, TailBefore, TailBound DEF Chain
  <2>4. /\ Increasing(received') /\ Before(received', wire') /\ Before(received', queue)
        /\ AtMost(received', published)
    BY <1>t, <2>1, <2>2, <2>3, AppendOrder, AppendBefore, AppendBound DEF Chain
  <2>5. At("send") => Below(Tail(wire), worker.command) /\ Head(wire) < worker.command
    BY <1>t, <2>1, TailFacts DEF Chain, Below
  <2>6. At("send") => Below(received', worker.command)
    BY <1>t, <2>1, <2>2, <2>5, AppendBound DEF Chain
  <2> QED BY <2>1, <2>3, <2>4, <2>5, <2>6 DEF Chain, At
<1>7. CASE Break
  <2>1. wire' = <<>> /\ UNCHANGED <<published, queue, worker, received>>
    BY <1>7 DEF Break
  <2>2. /\ Increasing(<<>>) /\ Before(received, <<>>) /\ Before(<<>>, queue)
        /\ AtMost(<<>>, published) /\ Below(<<>>, worker.command) /\ Above(<<>>, 0)
    BY DEF Increasing, Before, AtMost, Below, Above
  <2> QED BY <2>1, <2>2 DEF Chain, At
<1>8. CASE UNCHANGED vars
  BY <1>8, ChainKept DEF vars
<1> QED
  BY <1>1, <1>2, <1>3, <1>4, <1>5, <1>6, <1>7, <1>8 DEF Next, Worker, Owner, Network

-----------------------------------------------------------------------------
(***************************************************************************)
(* Loss.                                                                   *)
(***************************************************************************)
LEMMA InitCounted == Init => Counted
<1> SUFFICES ASSUME Init PROVE Counted
  OBVIOUS
<1>1. /\ queue = <<>> /\ wire = <<>> /\ received = <<>>
      /\ published = 0 /\ ~At("send")
  BY DEF Init, At
<1>2. Len(<<>>) = 0
  OBVIOUS
<1>3. Len(queue) = 0 /\ Len(wire) = 0 /\ Len(received) = 0
  BY <1>1, <1>2
<1> QED BY <1>1, <1>3 DEF Counted, Held

\* Nothing moves, and the worker neither takes a command nor lets one go.
LEMMA CountedKept ==
  ASSUME Counted, UNCHANGED <<published, queue, wire, received, link>>,
         worker' = worker \/ (worker'.pc # "send" /\ worker.pc # "send")
  PROVE  Counted'
BY DEF Counted, Held, At

LEMMA NextCounted == Typed /\ Counted /\ [Next]_vars => Counted'
<1> SUFFICES ASSUME Typed, Counted, [Next]_vars PROVE Counted'
  OBVIOUS
<1>t. /\ queue \in Seq(Nat) /\ wire \in Seq(Nat) /\ received \in Seq(Nat)
      /\ published \in Nat /\ worker.command \in Nat
  BY DEF Typed, TypeOK
<1>n. Len(queue) \in Nat /\ Len(wire) \in Nat /\ Len(received) \in Nat
  BY <1>t
<1>1. CASE Publish
  <2>1. /\ published' = published + 1 /\ queue' = Append(queue, published + 1)
        /\ UNCHANGED <<worker, wire, received, link>>
    BY <1>1 DEF Publish
  <2>2. Len(queue') = Len(queue) + 1
    BY <1>t, <2>1, AppendFacts
  <2>3. Held' = Held /\ Held \in Nat
    BY <2>1 DEF Held, At
  <2>4. published' = published + 1 /\ Len(wire') = Len(wire) /\ Len(received') = Len(received) /\ link' = link
    BY <2>1
  <2> SUFFICES ASSUME link' = "up"
               PROVE  Len(received') + Len(wire') + Len(queue') + Held' = published'
    BY DEF Counted
  <2>5. Len(received) + Len(wire) + Len(queue) + Held = published
    BY <2>4 DEF Counted
  <2> QED BY <1>n, <2>2, <2>3, <2>4, <2>5
<1>2. CASE Start \/ While \/ Look \/ Wait
  BY <1>2, CountedKept DEF Start, While, Look, Wait, GoTo, At
<1>3. CASE Pop
  <2>1. /\ queue # <<>> /\ ~At("send")
        /\ worker' = [pc |-> "send", command |-> Head(queue)]
        /\ queue' = Tail(queue)
        /\ UNCHANGED <<published, wire, received, link>>
    BY <1>3 DEF Pop, Typed, At
  <2>2. Len(queue') = Len(queue) - 1
    BY <1>t, <2>1, TailFacts
  <2> QED BY <1>n, <2>1, <2>2 DEF Counted, Held, At
<1>4. CASE Send
  <2>1. CASE link = "up"
    <3>1. /\ At("send") /\ wire' = Append(wire, worker.command)
          /\ worker'.pc # "send"
          /\ UNCHANGED <<published, queue, received, link>>
      BY <1>4, <2>1 DEF Send, GoTo
    <3>2. Len(wire') = Len(wire) + 1
      BY <1>t, <3>1, AppendFacts
    <3> QED BY <1>n, <3>1, <3>2 DEF Counted, Held, At
  <2>2. CASE link # "up"
    BY <1>4, <2>2 DEF Send, Counted
  <2> QED BY <2>1, <2>2
<1>5. CASE RequestStop \/ Join
  BY <1>5, CountedKept DEF RequestStop, Join
<1>6. CASE Arrive
  <2>1. /\ wire # <<>>
        /\ received' = Append(received, Head(wire)) /\ wire' = Tail(wire)
        /\ UNCHANGED <<published, queue, worker, link>>
    BY <1>6 DEF Arrive
  <2>2. Len(wire') = Len(wire) - 1 /\ Len(received') = Len(received) + 1
    BY <1>t, <2>1, TailFacts, AppendFacts
  <2>3. Held' = Held /\ Held \in Nat
    BY <2>1 DEF Held, At
  <2>4. published' = published /\ Len(queue') = Len(queue) /\ link' = link
    BY <2>1
  <2> SUFFICES ASSUME link' = "up"
               PROVE  Len(received') + Len(wire') + Len(queue') + Held' = published'
    BY DEF Counted
  <2>5. Len(received) + Len(wire) + Len(queue) + Held = published
    BY <2>4 DEF Counted
  <2> QED BY <1>n, <2>2, <2>3, <2>4, <2>5
<1>7. CASE Break
  BY <1>7 DEF Break, Counted
<1>8. CASE UNCHANGED vars
  BY <1>8, CountedKept DEF vars
<1> QED
  BY <1>1, <1>2, <1>3, <1>4, <1>5, <1>6, <1>7, <1>8 DEF Next, Worker, Owner, Network

-----------------------------------------------------------------------------
(***************************************************************************)
(* The theorems.                                                           *)
(***************************************************************************)
LEMMA Invariance == Spec => []PublisherInv
<1>1. Init => PublisherInv
  BY InitTyped, InitChain, InitCounted DEF PublisherInv
<1>2. PublisherInv /\ [Next]_vars => PublisherInv'
  BY NextTyped, NextChain, NextCounted DEF PublisherInv
<1> QED BY <1>1, <1>2, PTL DEF Spec

\* The pieces of the pipeline in order make the pipeline in order.
LEMMA ChainOrders == Typed /\ Chain => InOrder
<1> SUFFICES ASSUME Typed, Chain PROVE InOrder
  OBVIOUS
<1>t. /\ queue \in Seq(Nat) /\ wire \in Seq(Nat) /\ received \in Seq(Nat)
      /\ worker.command \in Nat
  BY DEF Typed, TypeOK
<1>p. /\ Popped \in Seq(Nat) /\ Increasing(Popped) /\ Before(Popped, queue)
      /\ Before(received, Popped) /\ Before(wire, Popped)
  <2>1. CASE At("send")
    <3>1. /\ Popped = <<worker.command>> /\ Len(Popped) = 1 /\ Popped[1] = worker.command
          /\ Popped \in Seq(Nat)
      BY <1>t, <2>1 DEF Popped
    <3>2. Below(received, worker.command) /\ Below(wire, worker.command) /\ Above(queue, worker.command)
      BY <2>1 DEF Chain
    <3> QED BY <3>1, <3>2 DEF Increasing, Before, Below, Above
  <2>2. CASE ~At("send")
    <3>1. Popped = <<>>
      BY <2>2 DEF Popped
    <3>2. <<>> \in Seq(Nat) /\ Len(<<>>) = 0
      OBVIOUS
    <3> QED BY <3>1, <3>2 DEF Increasing, Before
  <2> QED BY <2>1, <2>2
<1>1. /\ received \o wire \in Seq(Nat) /\ Increasing(received \o wire)
      /\ Before(received \o wire, Popped) /\ Before(received \o wire, queue)
  BY <1>t, <1>p, ConcatIncreasing, ConcatBefore DEF Chain
<1>2. /\ (received \o wire) \o Popped \in Seq(Nat) /\ Increasing((received \o wire) \o Popped)
      /\ Before((received \o wire) \o Popped, queue)
  BY <1>t, <1>p, <1>1, ConcatIncreasing, ConcatBefore
<1>3. Increasing(((received \o wire) \o Popped) \o queue)
  BY <1>t, <1>2, ConcatIncreasing DEF Chain
<1> QED BY <1>3 DEF InOrder, Increasing, Pipeline

\* Commands reach the broker in the order of the calls of publish(), each at most once,
\* for any number of commands, timeouts and breaks.
THEOREM OrderKept == Spec => []InOrder
<1>1. PublisherInv => InOrder
  BY ChainOrders DEF PublisherInv
<1> QED BY Invariance, <1>1, PTL

\* No command is lost while the connection stands: each is with the broker, on the wire,
\* in the hand of the worker, or in the queue.
THEOREM NothingLost == Spec => []LossNeedsBreak
<1>1. PublisherInv => LossNeedsBreak
  <2> SUFFICES ASSUME Typed, Counted, link = "up" PROVE Len(Pipeline) = published
    BY DEF PublisherInv, LossNeedsBreak
  <2>1. /\ queue \in Seq(Nat) /\ wire \in Seq(Nat) /\ received \in Seq(Nat)
        /\ worker.command \in Nat
    BY DEF Typed, TypeOK
  <2>2. Popped \in Seq(Nat) /\ Len(Popped) = IF At("send") THEN 1 ELSE 0
    <3>1. CASE At("send")
      BY <2>1, <3>1 DEF Popped
    <3>2. CASE ~At("send")
      BY <3>2 DEF Popped
    <3> QED BY <3>1, <3>2
  <2>3. Len(Pipeline) = Len(received) + Len(wire) + Len(Popped) + Len(queue)
    <3>1. \A s, t \in Seq(Nat) : s \o t \in Seq(Nat) /\ Len(s \o t) = Len(s) + Len(t)
      OBVIOUS
    <3>2. /\ received \o wire \in Seq(Nat)
          /\ Len(received \o wire) = Len(received) + Len(wire)
      BY <2>1, <3>1
    <3>3. /\ (received \o wire) \o Popped \in Seq(Nat)
          /\ Len((received \o wire) \o Popped) = Len(received) + Len(wire) + Len(Popped)
      BY <2>2, <3>1, <3>2
    <3>4. Len(((received \o wire) \o Popped) \o queue)
            = Len(received) + Len(wire) + Len(Popped) + Len(queue)
      BY <2>1, <3>1, <3>3
    <3> QED BY <3>4 DEF Pipeline
  <2>4. Len(queue) \in Nat /\ Len(wire) \in Nat /\ Len(received) \in Nat
    BY <2>1
  <2> QED BY <2>2, <2>3, <2>4 DEF Counted, Held
<1> QED BY Invariance, <1>1, PTL

\* Once the destructor has joined the worker, nothing is sent any more.
THEOREM Silence == Spec => SilentOnceGone
<1>1. PublisherInv /\ [Next]_vars => [owner = "gone" => Len(wire') <= Len(wire)]_vars
  <2> SUFFICES ASSUME Typed, Next, owner = "gone" PROVE Len(wire') <= Len(wire)
    BY DEF PublisherInv
  <2>1. At("ended") /\ wire \in Seq(Nat) /\ Len(wire) \in Nat
    BY DEF Typed, TypeOK
  <2>2. ~Worker /\ ~Publish /\ ~Owner
    BY <2>1 DEF Worker, Start, While, Look, Pop, Send, Wait, At, Publish, Owner, RequestStop, Join
  <2>3. CASE Arrive
    <3>1. wire # <<>> /\ wire' = Tail(wire)
      BY <2>3 DEF Arrive
    <3>2. Len(Tail(wire)) = Len(wire) - 1
      BY <2>1, <3>1, TailFacts
    <3> QED BY <2>1, <3>1, <3>2
  <2>4. CASE Break
    <3>1. wire' = <<>> /\ Len(<<>>) = 0
      BY <2>4 DEF Break
    <3> QED BY <2>1, <3>1
  <2> QED BY <2>2, <2>3, <2>4 DEF Next, Network
<1> QED BY Invariance, <1>1, PTL DEF Spec, SilentOnceGone

\* How many steps the worker is from its end at most, once it has been asked to stop.
StepsLeft ==
  [ended |-> 0, while |-> 1, wait |-> 2, send |-> 3, pop |-> 4, look |-> 5, start |-> 6][worker.pc]

\* A stop request is never withdrawn after the worker's first step, and each step of the worker
\* brings it nearer to its end, whatever is published meanwhile and however long the queue is
\* (publishWorker, the destructor): what a fair scheduler needs for StopIsHeard.
StopComesNearer ==
  [][owner # "alive" /\ stop /\ ~At("start") =>
       stop' /\ ~At("start")' /\ (worker' = worker \/ StepsLeft' < StepsLeft)]_vars

\* A worker that has been asked to stop ends within five steps of its own and sends at most one
\* command on the way.
THEOREM StopIsNear == Spec => StopComesNearer
<1>1. PublisherInv /\ [Next]_vars =>
        [owner # "alive" /\ stop /\ ~At("start") =>
           stop' /\ ~At("start")' /\ (worker' = worker \/ StepsLeft' < StepsLeft)]_vars
  <2> SUFFICES ASSUME Typed, Next, owner # "alive", stop, ~At("start")
               PROVE  stop' /\ ~At("start")' /\ (worker' = worker \/ StepsLeft' < StepsLeft)
    BY DEF PublisherInv
  <2>1. CASE Worker
    <3>1. stop \in BOOLEAN /\ UNCHANGED stop
      BY <2>1 DEF Worker, Start, While, Look, Pop, Send, Wait, Typed, TypeOK
    <3>2. \/ At("while") /\ worker'.pc = "ended"
          \/ At("look") /\ worker'.pc \in {"while", "pop"}
          \/ At("pop") /\ worker'.pc = "send"
          \/ At("send") /\ worker'.pc \in {"wait", "while"}
          \/ At("wait") /\ worker'.pc = "while"
      <4>1. CASE While
        BY <3>1, <4>1 DEF While, GoTo
      <4>2. CASE Look
        BY <4>2 DEF Look, GoTo
      <4>3. CASE Pop
        BY <4>3 DEF Pop
      <4>4. CASE Send
        BY <4>4 DEF Send, GoTo
      <4>5. CASE Wait
        BY <4>5 DEF Wait, GoTo
      <4> QED BY <2>1, <4>1, <4>2, <4>3, <4>4, <4>5 DEF Worker, Start
    <3>3. ~At("start")' /\ StepsLeft' < StepsLeft
      BY <3>2 DEF At, StepsLeft
    <3> QED BY <3>1, <3>3
  <2>2. CASE Publish \/ Owner \/ Network
    BY <2>2 DEF Publish, Owner, RequestStop, Join, Network, Arrive, Break, At
  <2> QED BY <2>1, <2>2 DEF Next
<1> QED BY Invariance, <1>1, PTL DEF Spec, StopComesNearer

\* The publisher implements OrderedDelivery: a call of publish() is Accept, the arrival of
\* a command at the broker is Deliver, all other steps change nothing the callers were
\* promised.
THEOREM Implements == Spec => DeliversInOrder
<1>1. Init => Promise!Init
  BY DEF Init, Promise!Init
<1>2. PublisherInv /\ [Next]_vars => [Promise!Next]_(Promise!vars)
  <2> SUFFICES ASSUME Typed, Chain, [Next]_vars PROVE [Promise!Next]_(Promise!vars)
    BY DEF PublisherInv
  <2>t. /\ wire \in Seq(Nat) /\ received \in Seq(Nat) /\ published \in Nat
        /\ Len(received) \in Nat
    BY DEF Typed, TypeOK
  <2>1. CASE Publish
    BY <2>1 DEF Publish, Promise!Next, Promise!Accept
  <2>2. CASE Arrive
    <3>1. /\ wire # <<>> /\ received' = Append(received, Head(wire))
          /\ UNCHANGED published
      BY <2>2 DEF Arrive
    <3>2. Head(wire) \in Nat /\ Head(wire) <= published /\ 0 < Head(wire)
      BY <2>t, <3>1, TailFacts, TailBound DEF Chain
    <3>3. Below(received, Head(wire))
      BY <2>t, <3>1, TailBefore DEF Chain
    <3>4. Promise!Newest < Head(wire)
      <4>1. CASE received = <<>>
        BY <3>2, <4>1 DEF Promise!Newest
      <4>2. CASE received # <<>>
        <5>1. Len(received) \in 1..Len(received)
          BY <2>t, <4>2
        <5> QED BY <3>3, <4>2, <5>1 DEF Promise!Newest, Below
      <4> QED BY <4>1, <4>2
    <3>5. Head(wire) \in 1..published /\ Promise!Deliver(Head(wire))
      BY <2>t, <3>1, <3>2, <3>4 DEF Promise!Deliver, Promise!Newest
    <3> QED BY <3>5 DEF Promise!Next
  <2>3. CASE Worker \/ Owner \/ Break \/ UNCHANGED vars
    BY <2>3 DEF Worker, Start, While, Look, Pop, Send, Wait, Owner, RequestStop, Join, Break,
                vars, Promise!vars
  <2> QED BY <2>1, <2>2, <2>3 DEF Next, Network
<1> QED BY Invariance, <1>1, <1>2, PTL DEF Spec, DeliversInOrder, Promise!Spec

=============================================================================
