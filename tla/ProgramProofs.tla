------------------------------ MODULE ProgramProofs ------------------------------
(***************************************************************************)
(* Theorems about the main thread, Watcher, for any tree of scripts, any   *)
(* edits and any queue of the kernel, and about the MQTT clients of        *)
(* scripts, ScriptClients, for any scripts, methods, topics and numbers of *)
(* calls: types, that no script is overlooked, that only what provokes it  *)
(* kills the program, and that the clients that are connected are the ones *)
(* that scripts asked for.                                                 *)
(***************************************************************************)
EXTENDS Watcher, ScriptClients, FiniteSetTheorems, SequenceTheorems, WellFoundedInduction, TLAPS

-----------------------------------------------------------------------------
(***************************************************************************)
(* The main thread and the file watcher.                                   *)
(***************************************************************************)

\* What read() returns one of.
Event ==
  [wd : Nat, mask : {"create", "modify", "delete", "ignored", "overflow"}, name : Path]

\* An event of a directory is not one of a file.
Sensible(e) ==
  /\ e.mask \in {"create", "modify"} => e.name \in File \cup Dir
  /\ e.mask \in {"delete", "ignored"} => e.name \in Dir
  /\ e.mask = "overflow" => e = Overflow

\* A queue of the kernel: one event too many has been replaced by the mark.
Queue(q) ==
  /\ q \in Seq(Event)
  /\ Len(q) <= KernelQueue + 1
  /\ Lost(q) <=> Len(q) = KernelQueue + 1

\* The queue r is q with the events E after it, unless some did not fit.
Grown(q, r, E) ==
  /\ Queue(r)
  /\ ToSet(q) \subseteq ToSet(r) /\ ToSet(r) \subseteq ToSet(q) \cup E \cup {Overflow}
  /\ Lost(r) \/ ToSet(r) \subseteq ToSet(q) \cup E
  /\ E \subseteq ToSet(r) \/ Overflow \in ToSet(r)

Pc == {"options", "wait", "construct", "scan", "opendir", "arm", "loop", "read", "process", "add",
       "attach", "done", "dead", "stuck"}

MainState == [pc : Pc, in : {"constructor", "scan", "events"}, on : Path]

\* Types: what there is on the disk and what is known of it,
FilesTyped ==
  /\ inode \in [Dir -> Nat] /\ content \in [File -> {"none", "plain"} \cup Script]
  /\ loaded \in [File -> {"none", "plain"} \cup Script]
  /\ changes \in 0..MaxChanges /\ blind \subseteq File /\ excuse \in BOOLEAN

\* the watches and the queues of events,
WatchesTyped ==
  /\ watch \in Seq(Nat)
  /\ DOMAIN directory \subseteq DOMAIN watch /\ Range(directory) \subseteq Dir \cup {Root}

QueuesTyped ==
  /\ Queue(events) /\ buffer \in Seq(Event)
  /\ \A e \in Unread : Sensible(e)

\* and what the main thread has in its hands.
MainTyped ==
  /\ main \in MainState
  /\ main.pc \in {"opendir", "add"} => main.on \in Dir
  /\ main.pc = "attach" => main.on \in File
  /\ todo \subseteq File \cup Dir
  /\ running \in BOOLEAN /\ watching \in BOOLEAN /\ heard \in BOOLEAN

WatcherTyped == FilesTyped /\ WatchesTyped /\ QueuesTyped /\ MainTyped

\* Unless somebody has provoked it, the program knows every watch that an event may come from, no
\* directory that was deleted is back before that is read, and what it is about to open is there.
Calm ==
  /\ DOMAIN directory = DOMAIN watch
  /\ \A e \in Unread : e.wd \in DOMAIN watch /\ (e.mask = "delete" => inode[e.name] = 0)
  /\ main.pc \in {"opendir", "add"} => inode[main.on] # 0
  /\ main.in = "constructor" => \A d \in todo \cap Dir : inode[d] # 0
  /\ main.pc = "attach" => content[main.on] # "none"
  /\ main.pc # "dead"

\* Where the main thread is.
InPlace ==
  /\ main.pc \in {"options", "wait", "construct"} => main.in = "constructor"
  /\ main.pc \in {"loop", "read", "process"} => main.in = "events"
  /\ main.pc = "opendir" => main.in # "events"
  /\ main.in = "events" => todo = {} /\ main.pc # "scan"
  /\ main.in # "events" \/ main.pc \in {"loop", "read"} => buffer = <<>>

\* No file is in a directory that is not there.
Housed == \A f \in File : content[f] # "none" /\ Place[f] \in Dir => inode[Place[f]] # 0

\* An event still to be read makes the program load f, or die.
Announced(f) ==
  \E e \in Unread : (e.mask \in {"create", "modify"} /\ e.name = f) \/ e = Overflow

\* A script that is not loaded as it is,
Due(f) == f \notin blind /\ content[f] \in Script /\ loaded[f] # content[f]

\* will be seen by the scan or is announced.
Coming ==
  ~Over => \A f \in File : Due(f) => Ahead(f) \/ Announced(f)

WatcherInv == WatcherTyped /\ (~excuse => Calm)

SeenInv == WatcherTyped /\ InPlace /\ Housed /\ Coming

\* An element of a sequence is one of its set.
LEMMA SetOfSeq ==
  ASSUME NEW S, NEW q \in Seq(S)
  PROVE  /\ ToSet(q) \subseteq S /\ DOMAIN q = 1..Len(q) /\ Len(q) \in Nat
         /\ q # <<>> => Last(q) \in ToSet(q) /\ Len(q) # 0
         /\ q = <<>> => ToSet(q) = {} /\ Len(q) = 0
<1>1. Len(q) \in Nat /\ DOMAIN q = 1..Len(q) /\ \A i \in 1..Len(q) : q[i] \in S
  BY LenProperties
<1>2. (q = <<>> => Len(q) = 0) /\ (q # <<>> => Len(q) # 0)
  BY EmptySeq
<1>3. q # <<>> => Len(q) \in DOMAIN q
  BY <1>1, <1>2
<1>4. QED
  BY <1>1, <1>2, <1>3 DEF ToSet, Last

\* What Append does to the set and to the last element.
LEMMA SetOfAppend ==
  ASSUME NEW S, NEW q \in Seq(S), NEW e \in S
  PROVE  /\ Append(q, e) \in Seq(S) /\ Append(q, e) # <<>> /\ Len(Append(q, e)) = Len(q) + 1
         /\ ToSet(Append(q, e)) = ToSet(q) \cup {e} /\ Last(Append(q, e)) = e
<1> DEFINE r == Append(q, e)
<1>1. /\ r \in Seq(S) /\ r # <<>> /\ Len(r) = Len(q) + 1 /\ r[Len(q) + 1] = e
      /\ \A i \in 1..Len(q) : r[i] = q[i]
  BY AppendProperties
<1>2. DOMAIN q = 1..Len(q) /\ Len(q) \in Nat /\ DOMAIN r = 1..(Len(q) + 1)
  BY <1>1, LenProperties
<1> HIDE DEF r
<1>3. ASSUME NEW x \in ToSet(r) PROVE x \in ToSet(q) \cup {e}
  <2>1. PICK i \in DOMAIN r : x = r[i]
    BY DEF ToSet
  <2>2. i \in DOMAIN q \/ i = Len(q) + 1
    BY <1>2, <2>1
  <2>3. QED
    BY <1>1, <1>2, <2>1, <2>2 DEF ToSet
<1>4. ASSUME NEW x \in ToSet(q) PROVE x \in ToSet(r)
  <2>1. PICK i \in DOMAIN q : x = q[i]
    BY DEF ToSet
  <2>2. i \in DOMAIN r /\ r[i] = x
    BY <1>1, <1>2, <2>1
  <2>3. QED
    BY <2>2 DEF ToSet
<1>5. e \in ToSet(r)
  BY <1>1, <1>2 DEF ToSet
<1>6. Last(r) = e
  BY <1>1 DEF Last
<1>7. QED
  BY <1>1, <1>3, <1>4, <1>5, <1>6 DEF r

\* The set of a sequence is its head and the set of its tail.
LEMMA SetOfTail ==
  ASSUME NEW S, NEW q \in Seq(S), q # <<>>
  PROVE  /\ Head(q) \in S /\ Tail(q) \in Seq(S)
         /\ ToSet(q) = {Head(q)} \cup ToSet(Tail(q))
<1> DEFINE r == Tail(q)
<1>1. /\ Head(q) \in S /\ r \in Seq(S) /\ Len(r) = Len(q) - 1
      /\ \A i \in 1..Len(r) : r[i] = q[i + 1]
  BY HeadTailProperties
<1>2. DOMAIN q = 1..Len(q) /\ Len(q) \in Nat \ {0} /\ DOMAIN r = 1..(Len(q) - 1) /\ Head(q) = q[1]
  BY <1>1, LenProperties, EmptySeq
<1> HIDE DEF r
<1>3. ASSUME NEW x \in ToSet(q) PROVE x = Head(q) \/ x \in ToSet(r)
  <2>1. PICK i \in DOMAIN q : x = q[i]
    BY DEF ToSet
  <2>2. CASE i = 1
    BY <1>2, <2>1, <2>2
  <2>3. CASE i # 1
    <3>1. i - 1 \in DOMAIN r /\ r[i - 1] = x
      BY <1>1, <1>2, <2>1, <2>3
    <3>2. QED
      BY <3>1 DEF ToSet
  <2>4. QED
    BY <2>2, <2>3
<1>4. Head(q) \in ToSet(q)
  BY <1>2 DEF ToSet
<1>5. ASSUME NEW x \in ToSet(r) PROVE x \in ToSet(q)
  <2>1. PICK i \in DOMAIN r : x = r[i]
    BY DEF ToSet
  <2>2. i + 1 \in DOMAIN q /\ q[i + 1] = x
    BY <1>1, <1>2, <2>1
  <2>3. QED
    BY <2>2 DEF ToSet
<1>6. QED
  BY <1>1, <1>3, <1>4, <1>5 DEF r

\* The mark is an event too.
LEMMA OverflowIsEvent == Overflow \in Event
BY DEF Overflow, Event, Path

\* An event is queued, or the mark is.
LEMMA QueuedGrows ==
  ASSUME NEW q, Queue(q), NEW e \in Event, e # Overflow
  PROVE  Grown(q, Queued(q, e), {e})
<1> DEFINE r == Queued(q, e)
<1>1. /\ q \in Seq(Event) /\ Len(q) \in Nat /\ Len(q) <= KernelQueue + 1
      /\ KernelQueue \in Nat \ {0}
      /\ q # <<>> => Last(q) \in ToSet(q) /\ Len(q) # 0
      /\ q = <<>> => Len(q) = 0
      /\ Lost(q) <=> Len(q) = KernelQueue + 1
  BY WatcherAssumption, SetOfSeq DEF Queue
<1>2. CASE q # <<>> /\ Last(q) = e
  <2>1. r = q
    BY <1>2 DEF Queued
  <2>2. ~Lost(q)
    BY <1>2 DEF Lost
  <2>3. QED
    BY <1>1, <1>2, <2>1, <2>2 DEF Grown, Queue
<1>3. CASE ~(q # <<>> /\ Last(q) = e) /\ Len(q) < KernelQueue
  <2>1. r = Append(q, e)
    BY <1>3 DEF Queued
  <2>2. /\ r \in Seq(Event) /\ r # <<>> /\ Len(r) = Len(q) + 1
        /\ ToSet(r) = ToSet(q) \cup {e} /\ Last(r) = e
    BY <1>1, <2>1, SetOfAppend
  <2>3. ~Lost(r) /\ Queue(r)
    BY <1>1, <1>3, <2>2 DEF Lost, Queue
  <2>4. QED
    BY <2>2, <2>3 DEF Grown
<1>4. CASE ~(q # <<>> /\ Last(q) = e) /\ ~(Len(q) < KernelQueue) /\ Last(q) = Overflow
  <2>1. r = q
    BY <1>4 DEF Queued
  <2>2. q # <<>>
    BY <1>1, <1>4
  <2>3. Lost(q) /\ Overflow \in ToSet(q)
    BY <1>1, <1>4, <2>2 DEF Lost
  <2>4. QED
    BY <1>1, <2>1, <2>3 DEF Grown, Queue
<1>5. CASE ~(q # <<>> /\ Last(q) = e) /\ ~(Len(q) < KernelQueue) /\ Last(q) # Overflow
  <2>1. r = Append(q, Overflow)
    BY <1>5 DEF Queued
  <2>2. /\ r \in Seq(Event) /\ r # <<>> /\ Len(r) = Len(q) + 1
        /\ ToSet(r) = ToSet(q) \cup {Overflow} /\ Last(r) = Overflow
    BY <1>1, <2>1, SetOfAppend, OverflowIsEvent
  <2>3. Len(q) = KernelQueue
    BY <1>1, <1>5 DEF Lost
  <2>4. Lost(r) /\ Queue(r)
    BY <1>1, <2>2, <2>3 DEF Lost, Queue
  <2>5. QED
    BY <2>2, <2>4 DEF Grown
<1>6. QED
  BY <1>2, <1>3, <1>4, <1>5

\* A full queue takes no more.
LEMMA FullStays ==
  ASSUME NEW q, Queue(q), Lost(q), NEW e
  PROVE  Queued(q, e) = q
BY WatcherAssumption, SetOfSeq DEF Queue, Lost, Queued

\* Two events.
LEMMA GrownTwice ==
  ASSUME NEW q, NEW r, NEW E, Grown(q, r, E), NEW e \in Event, e # Overflow
  PROVE  Grown(q, Queued(r, e), E \cup {e})
<1>1. Queue(r)
  BY DEF Grown
<1>2. CASE Lost(r)
  <2>1. Queued(r, e) = r
    BY <1>1, <1>2, FullStays
  <2>2. Overflow \in ToSet(r)
    BY <1>1, <1>2, SetOfSeq DEF Lost, Queue
  <2>3. QED
    BY <1>2, <2>1, <2>2 DEF Grown
<1>3. CASE ~Lost(r)
  <2>1. Grown(r, Queued(r, e), {e})
    BY <1>1, QueuedGrows
  <2>2. QED
    BY <1>3, <2>1 DEF Grown
<1>4. QED
  BY <1>2, <1>3

\* Nothing happens.
LEMMA GrownNot ==
  ASSUME NEW q, Queue(q)
  PROVE  Grown(q, q, {})
BY DEF Grown

\* A set of numbers has a least one.
LEMMA MinFacts ==
  ASSUME NEW S, S \subseteq Nat, S # {}
  PROVE  Min(S) \in S
<1> DEFINE R == {ss \in Nat \X Nat : ss[1] < ss[2]}
<1>1. IsWellFoundedOn(R, Nat)
  BY NatLessThanWellFounded DEF OpToRel
<1> HIDE DEF R
<1>2. PICK n \in S : \A k \in S : ~(<<k, n>> \in R)
  BY <1>1, WFMin
<1>3. ASSUME NEW k \in S, k < n
      PROVE  FALSE
  <2>1. <<k, n>> \in Nat \X Nat /\ <<k, n>>[1] < <<k, n>>[2]
    BY <1>3
  <2>2. <<k, n>> \in R
    BY <2>1, Zenon DEF R
  <2>3. QED
    BY <1>2, <2>2
<1>4. \A k \in S : n <= k
  BY <1>3
<1>5. QED
  BY <1>4 DEF Min

\* The numbers of the directories.
LEMMA NumberFacts ==
  Number \in [Dir -> 2..(Cardinality(Dir) + 1)] /\ Cardinality(Dir) \in Nat
<1> DEFINE n == Cardinality(Dir)
<1>1. n \in Nat /\ ExistsBijection(1..n, Dir)
  BY WatcherAssumption, FS_CardinalityType
<1> HIDE DEF n
<1>2. PICK f : f \in Bijection(1..n, Dir)
  BY <1>1 DEF ExistsBijection
<1>3. /\ f \in [1..n -> Dir]
      /\ \A a, b \in 1..n : f[a] = f[b] => a = b
      /\ \A d \in Dir : \E i \in 1..n : f[i] = d
  BY <1>2 DEF Bijection, Injection, Surjection, IsInjective
<1> DEFINE place == [d \in Dir |-> CHOOSE i \in 1..n : f[i] = d]
<1>4. \A d \in Dir : place[d] \in 1..n /\ f[place[d]] = d
  BY <1>3
<1> HIDE DEF place
<1> DEFINE g == [d \in Dir |-> place[d] + 1]
<1>5. g \in [Dir -> 2..(n + 1)]
  BY <1>1, <1>4
<1>6. ASSUME NEW a \in Dir, NEW b \in Dir, g[a] = g[b] PROVE a = b
  <2>1. place[a] = place[b]
    BY <1>1, <1>4, <1>6
  <2>2. QED
    BY <1>4, <2>1
<1>7. IsInjective(g)
  BY <1>5, <1>6 DEF IsInjective
<1>8. QED
  BY <1>1, <1>5, <1>7 DEF Number, n

\* The main thread goes on, with the same path or another one in its hands.
LEMMA Going ==
  ASSUME NEW m \in MainState, NEW pc \in Pc, NEW p \in Path
  PROVE  /\ [m EXCEPT !.pc = pc] \in MainState
         /\ [m EXCEPT !.pc = pc].pc = pc
         /\ [m EXCEPT !.pc = pc].in = m.in
         /\ [m EXCEPT !.pc = pc].on = m.on
         /\ [m EXCEPT !.pc = pc, !.on = p] \in MainState
         /\ [m EXCEPT !.pc = pc, !.on = p].pc = pc
         /\ [m EXCEPT !.pc = pc, !.on = p].in = m.in
         /\ [m EXCEPT !.pc = pc, !.on = p].on = p
BY DEF MainState

\* The watches are numbered.
LEMMA WatchFacts ==
  ASSUME WatchesTyped
  PROVE  /\ DOMAIN watch = 1..Len(watch) /\ Len(watch) \in Nat
         /\ \A i \in DOMAIN watch : watch[i] \in Nat
BY LenProperties DEF WatchesTyped

\* Constants.
LEMMA Constants ==
  /\ Root \notin Dir /\ Root \notin File /\ File \cap Dir = {}
  /\ \A f \in File : Place[f] \in Dir \cup {Root}
  /\ "none" \notin Script /\ "plain" \notin Script
  /\ MaxChanges \in Nat /\ KernelQueue \in Nat \ {0}
  /\ Cardinality(Dir) \in Nat
  /\ File \subseteq Path /\ Dir \subseteq Path /\ Root \in Path
BY WatcherAssumption, NumberFacts DEF Path

\* What an event that is noticed does to the queue.
LEMMA NoticedGrows ==
  ASSUME WatcherTyped, NEW p, NEW mask \in Mask, NEW name \in Path
  PROVE  \E E : /\ Grown(events, Noticed(p, mask, name), E)
                /\ Watching(p) # {} => E # {}
                /\ \A e \in E : /\ e \in Event /\ e # Overflow
                               /\ e.wd \in DOMAIN watch /\ e.mask = mask /\ e.name = name
<1>1. Queue(events) /\ DOMAIN watch \subseteq Nat
  BY WatchFacts DEF WatcherTyped, QueuesTyped
<1>2. CASE Watching(p) = {}
  <2>1. Noticed(p, mask, name) = events
    BY <1>2 DEF Noticed
  <2>2. QED
    BY <1>1, <1>2, <2>1, GrownNot
<1>3. CASE Watching(p) # {}
  <2> DEFINE e == [wd |-> WatchOf(p), mask |-> mask, name |-> name]
  <2>1. WatchOf(p) \in DOMAIN watch
    BY <1>3 DEF WatchOf, Watching
  <2>2. e \in Event /\ e.wd = WatchOf(p) /\ e.mask = mask /\ e.name = name
    BY <1>1, <2>1 DEF Event, Mask
  <2>3. e # Overflow
    BY <2>2 DEF Overflow, Mask
  <2>4. Noticed(p, mask, name) = Queued(events, e)
    BY <1>3 DEF Noticed
  <2> HIDE DEF e
  <2>5. Grown(events, Noticed(p, mask, name), {e})
    BY <1>1, <2>2, <2>3, <2>4, QueuedGrows
  <2>6. QED
    BY <2>1, <2>2, <2>3, <2>5
<1>4. QED
  BY <1>2, <1>3

\* A queue that grows by sensible events stays sensible.
LEMMA GrownTyped ==
  ASSUME WatcherTyped, NEW E, Grown(events, events', E), \A e \in E : Sensible(e), buffer' = buffer
  PROVE  Queue(events') /\ \A e \in Unread' : Sensible(e)
<1>1. Sensible(Overflow)
  BY DEF Sensible, Overflow
<1>2. \A e \in Unread : Sensible(e)
  BY DEF WatcherTyped, QueuesTyped
<1>3. Unread' \subseteq Unread \cup E \cup {Overflow}
  BY DEF Grown, Unread
<1>4. QED
  BY <1>1, <1>2, <1>3 DEF Grown

-----------------------------------------------------------------------------
\* The events of the edits.
LEMMA WriteEvents ==
  ASSUME WatcherTyped, NEW f \in File, NEW c, Write(f, c)
  PROVE  \E E : /\ Grown(events, events', E)
                /\ Watching(Place[f]) # {} => E # {}
                /\ \A e \in E : /\ e \in Event /\ Sensible(e) /\ e.wd \in DOMAIN watch
                               /\ e.mask \in {"create", "modify"} /\ e.name = f
<1>1. (IF Exists(f) THEN "modify" ELSE "create") \in Mask /\ f \in Path
  BY Constants DEF Mask
<1>2. PICK E : /\ Grown(events, events', E)
               /\ Watching(Place[f]) # {} => E # {}
               /\ \A e \in E : /\ e \in Event /\ e # Overflow
                              /\ e.wd \in DOMAIN watch
                              /\ (e.mask \in {"create", "modify"}) /\ e.name = f
  BY <1>1, NoticedGrows DEF Write
<1>3. \A e \in E : Sensible(e)
  BY <1>2 DEF Sensible
<1>4. QED
  BY <1>2, <1>3

\* What the root is told of a directory.
LEMMA RootIsTold ==
  ASSUME WatcherTyped, NEW d \in Dir, NEW mask \in Mask
  PROVE  \E E : /\ Grown(events, Noticed(Root, mask, d), E)
                /\ \A e \in E : /\ e \in Event /\ e # Overflow
                               /\ e.wd \in DOMAIN watch
                               /\ e.mask = mask /\ e.name = d
<1>1. d \in Path
  BY Constants
<1>2. PICK E : /\ Grown(events, Noticed(Root, mask, d), E)
               /\ Watching(Root) # {} => E # {}
               /\ \A e \in E : /\ e \in Event /\ e # Overflow
                              /\ e.wd \in DOMAIN watch
                              /\ e.mask = mask /\ e.name = d
  BY <1>1, NoticedGrows
<1>3. QED
  BY <1>2

\* A directory that is made is told to the root, one that is moved in is not.
LEMMA MakeDirEvents ==
  ASSUME WatcherTyped, NEW d \in Dir, NEW quiet, MakeDir(d, quiet)
  PROVE  \E E : /\ Grown(events, events', E)
                /\ \A e \in E : /\ e \in Event /\ Sensible(e) /\ e.wd \in DOMAIN watch
                               /\ e.mask = "create" /\ e.name = d
<1>1. CASE quiet
  BY <1>1, GrownNot DEF MakeDir, WatcherTyped, QueuesTyped
<1>2. CASE ~quiet
  <2>0. "create" \in Mask
    BY DEF Mask
  <2> DEFINE New(mask, E) == /\ Grown(events, Noticed(Root, mask, d), E)
                             /\ \A e \in E : /\ e \in Event /\ e # Overflow
                                            /\ e.wd \in DOMAIN watch
                                            /\ e.mask = mask /\ e.name = d
  <2>a. \A mask \in Mask : \E E : New(mask, E)
    BY RootIsTold
  <2>b. \E E : New("create", E)
    BY <2>0, <2>a, Zenon
  <2>2. PICK E : /\ Grown(events, events', E)
                 /\ \A e \in E : /\ e \in Event /\ e # Overflow
                                /\ e.wd \in DOMAIN watch
                                /\ e.mask = "create" /\ e.name = d
    BY <1>2, <2>b DEF MakeDir
  <2>3. \A e \in E : Sensible(e)
    BY <2>2 DEF Sensible
  <2>4. QED
    BY <2>2, <2>3
<1>3. QED
  BY <1>1, <1>2

\* A directory that is removed is told to the root and to its own watch.
LEMMA RemoveDirEvents ==
  ASSUME WatcherTyped, NEW d \in Dir, RemoveDir(d)
  PROVE  \E E : /\ Grown(events, events', E)
                /\ \A e \in E : /\ e \in Event /\ Sensible(e) /\ e.wd \in DOMAIN watch
                               /\ e.mask \in {"delete", "ignored"} /\ e.name = d
<1>0. "delete" \in Mask
  BY DEF Mask
<1>1. d \in Path
  BY Constants
<1> DEFINE New(mask, E) == /\ Grown(events, Noticed(Root, mask, d), E)
                           /\ \A e \in E : /\ e \in Event /\ e # Overflow
                                          /\ e.wd \in DOMAIN watch
                                          /\ e.mask = mask /\ e.name = d
<1>a. \A mask \in Mask : \E E : New(mask, E)
  BY RootIsTold
<1>b. \E E : New("delete", E)
  BY <1>0, <1>a, Zenon
<1>2. PICK E : /\ Grown(events, Noticed(Root, "delete", d), E)
               /\ \A e \in E : /\ e \in Event /\ e # Overflow
                              /\ e.wd \in DOMAIN watch
                              /\ e.mask = "delete" /\ e.name = d
  BY <1>b
<1>3. \A e \in E : Sensible(e)
  BY <1>2 DEF Sensible
<1>4. CASE Watching(d) = {}
  BY <1>2, <1>3, <1>4 DEF RemoveDir
<1>5. CASE Watching(d) # {}
  <2> DEFINE e == [wd |-> WatchOf(d), mask |-> "ignored", name |-> d]
  <2>1. WatchOf(d) \in DOMAIN watch /\ WatchOf(d) \in Nat
    BY <1>5, WatchFacts DEF WatchOf, Watching, WatcherTyped
  <2>2. e \in Event /\ e.wd \in DOMAIN watch /\ e.mask = "ignored" /\ e.name = d
    BY <1>1, <2>1 DEF Event
  <2>3. e # Overflow /\ Sensible(e)
    BY <2>2 DEF Overflow, Sensible
  <2>4. events' = Queued(Noticed(Root, "delete", d), e)
    BY <1>5 DEF RemoveDir
  <2> HIDE DEF e
  <2>5. Grown(events, events', E \cup {e})
    BY <1>2, <2>2, <2>3, <2>4, GrownTwice
  <2>6. QED
    BY <1>2, <1>3, <2>2, <2>3, <2>5
<1>6. QED
  BY <1>4, <1>5

\* Edits keep the types: a file is written.
LEMMA WriteTyped ==
  ASSUME WatcherTyped, NEW f \in File, NEW c \in {"plain"} \cup Script, Write(f, c)
  PROVE  WatcherTyped'
<1>1. FilesTyped'
  <2>1. content' \in [File -> {"none", "plain"} \cup Script]
    BY DEF WatcherTyped, FilesTyped, Write
  <2>2. changes' \in 0..MaxChanges
    BY Constants DEF WatcherTyped, FilesTyped, Write, Mayhem
  <2>3. blind' \subseteq File
    BY DEF WatcherTyped, FilesTyped, Write
  <2>4. excuse' \in BOOLEAN
    BY DEF WatcherTyped, FilesTyped, Write
  <2>5. QED
    BY <2>1, <2>2, <2>3, <2>4 DEF WatcherTyped, FilesTyped, Write, mainVars
<1>2. WatchesTyped' /\ MainTyped'
  BY DEF WatcherTyped, WatchesTyped, MainTyped, Write, mainVars
<1>3. QueuesTyped'
  BY WriteEvents, GrownTyped DEF WatcherTyped, QueuesTyped, Write, mainVars
<1>4. QED
  BY <1>1, <1>2, <1>3 DEF WatcherTyped

\* A rename queues nothing.
LEMMA RenameTyped ==
  ASSUME WatcherTyped, NEW f \in File, NEW c \in {"plain"} \cup Script, Rename(f, c)
  PROVE  WatcherTyped'
<1>1. FilesTyped'
  <2>1. content' \in [File -> {"none", "plain"} \cup Script]
    BY DEF WatcherTyped, FilesTyped, Rename
  <2>2. changes' \in 0..MaxChanges
    BY Constants DEF WatcherTyped, FilesTyped, Rename, Mayhem
  <2>3. blind' \subseteq File
    BY DEF WatcherTyped, FilesTyped, Rename
  <2>4. QED
    BY <2>1, <2>2, <2>3 DEF WatcherTyped, FilesTyped, Rename, mainVars
<1>2. WatchesTyped' /\ MainTyped' /\ QueuesTyped'
  BY DEF WatcherTyped, WatchesTyped, MainTyped, QueuesTyped, Unread, Rename, mainVars
<1>3. QED
  BY <1>1, <1>2 DEF WatcherTyped

\* Nor does, as far as it matters, the end of a file.
LEMMA RemoveFileTyped ==
  ASSUME WatcherTyped, NEW f \in File, RemoveFile(f)
  PROVE  WatcherTyped'
<1>1. FilesTyped'
  <2>1. content' \in [File -> {"none", "plain"} \cup Script]
    BY DEF WatcherTyped, FilesTyped, RemoveFile
  <2>2. changes' \in 0..MaxChanges
    BY Constants DEF WatcherTyped, FilesTyped, RemoveFile, Mayhem
  <2>3. excuse' \in BOOLEAN
    BY DEF WatcherTyped, FilesTyped, RemoveFile
  <2>4. QED
    BY <2>1, <2>2, <2>3 DEF WatcherTyped, FilesTyped, RemoveFile, mainVars
<1>2. WatchesTyped' /\ MainTyped' /\ QueuesTyped'
  BY DEF WatcherTyped, WatchesTyped, MainTyped, QueuesTyped, Unread, RemoveFile, mainVars
<1>3. QED
  BY <1>1, <1>2 DEF WatcherTyped

\* A new directory gets a number of its own.
LEMMA MakeDirTyped ==
  ASSUME WatcherTyped, NEW d \in Dir, NEW quiet, MakeDir(d, quiet)
  PROVE  WatcherTyped'
<1>1. FilesTyped'
  <2>1. inode' \in [Dir -> Nat]
    <3>1. NewInode \in Nat
      BY Constants DEF NewInode, WatcherTyped, FilesTyped
    <3>2. QED
      BY <3>1 DEF WatcherTyped, FilesTyped, MakeDir
  <2>2. changes' \in 0..MaxChanges
    BY Constants DEF WatcherTyped, FilesTyped, MakeDir, Mayhem
  <2>3. excuse' \in BOOLEAN
    BY DEF WatcherTyped, FilesTyped, MakeDir
  <2>4. QED
    BY <2>1, <2>2, <2>3 DEF WatcherTyped, FilesTyped, MakeDir, mainVars
<1>2. WatchesTyped' /\ MainTyped'
  BY DEF WatcherTyped, WatchesTyped, MainTyped, MakeDir, mainVars
<1>3. QueuesTyped'
  BY MakeDirEvents, GrownTyped DEF WatcherTyped, QueuesTyped, MakeDir, mainVars
<1>4. QED
  BY <1>1, <1>2, <1>3 DEF WatcherTyped

\* The kernel drops the watch of a directory but not its number.
LEMMA RemoveDirTyped ==
  ASSUME WatcherTyped, NEW d \in Dir, RemoveDir(d)
  PROVE  WatcherTyped' /\ DOMAIN watch' = DOMAIN watch
<1>1. FilesTyped'
  <2>1. inode' \in [Dir -> Nat]
    BY DEF WatcherTyped, FilesTyped, RemoveDir
  <2>2. changes' \in 0..MaxChanges
    BY Constants DEF WatcherTyped, FilesTyped, RemoveDir, Mayhem
  <2>3. excuse' \in BOOLEAN
    BY DEF WatcherTyped, FilesTyped, RemoveDir
  <2>4. QED
    BY <2>1, <2>2, <2>3 DEF WatcherTyped, FilesTyped, RemoveDir, mainVars
<1>2. watch' \in Seq(Nat) /\ DOMAIN watch' = DOMAIN watch
  <2>1. watch' = [wd \in 1..Len(watch) |-> IF wd \in Watching(d) THEN 0 ELSE watch[wd]]
    BY WatchFacts DEF WatcherTyped, RemoveDir
  <2>2. \A wd \in 1..Len(watch) : (IF wd \in Watching(d) THEN 0 ELSE watch[wd]) \in Nat
    BY WatchFacts DEF WatcherTyped
  <2>3. watch' \in [1..Len(watch) -> Nat] /\ Len(watch) \in Nat
    BY <2>1, <2>2, WatchFacts DEF WatcherTyped
  <2>4. QED
    BY <2>1, <2>3, SeqDef, WatchFacts DEF WatcherTyped
<1>3. WatchesTyped'
  BY <1>2 DEF WatcherTyped, WatchesTyped, RemoveDir, mainVars
<1>4. MainTyped'
  BY DEF WatcherTyped, MainTyped, RemoveDir, mainVars
<1>5. QueuesTyped'
  BY RemoveDirEvents, GrownTyped DEF WatcherTyped, QueuesTyped, RemoveDir, mainVars
<1>6. QED
  BY <1>1, <1>2, <1>3, <1>4, <1>5 DEF WatcherTyped

-----------------------------------------------------------------------------
\* A signal stops the program or kills it.
LEMMA SignalTyped ==
  ASSUME WatcherTyped, Signal
  PROVE  WatcherTyped'
<1>1. MainTyped' /\ excuse' \in BOOLEAN
  <2>1. CASE main.in = "constructor" /\ main.pc # "wait"
    <3>1. main' = [main EXCEPT !.pc = "dead"] /\ excuse' = TRUE /\ heard' = heard
      BY <2>1 DEF Signal, Goto
    <3>2. main' \in MainState /\ main'.pc = "dead"
      BY <3>1 DEF WatcherTyped, MainTyped, MainState, Pc
    <3>3. QED
      BY <3>1, <3>2 DEF Signal, WatcherTyped, MainTyped
  <2>2. CASE ~(main.in = "constructor" /\ main.pc # "wait")
    <3>1. heard' \in BOOLEAN
      BY <2>2 DEF Signal, WatcherTyped, MainTyped
    <3>2. excuse' = excuse
      BY <2>2 DEF Signal
    <3>3. main' = main \/ main' = [main EXCEPT !.pc = "stuck"]
      BY <2>2 DEF Signal, Goto
    <3>4. /\ main' \in MainState
          /\ main'.pc \in {"opendir", "add", "attach"} => main' = main
      BY <3>3 DEF WatcherTyped, MainTyped, MainState, Pc
    <3>5. QED
      BY <3>1, <3>2, <3>4 DEF Signal, WatcherTyped, MainTyped, FilesTyped
  <2>3. QED
    BY <2>1, <2>2
<1>2. FilesTyped' /\ WatchesTyped' /\ QueuesTyped'
  BY <1>1 DEF WatcherTyped, FilesTyped, WatchesTyped, QueuesTyped, Unread, Signal
<1>3. QED
  BY <1>1, <1>2 DEF WatcherTyped

\* Steps that leave the disk, the watches and the queues alone.
LEMMA StillTyped ==
  ASSUME WatcherTyped, UNCHANGED <<worldVars, directory, buffer>>
  PROVE  /\ WatchesTyped' /\ QueuesTyped'
         /\ loaded' \in [File -> {"none", "plain"} \cup Script] => FilesTyped'
BY DEF worldVars, WatcherTyped, FilesTyped, WatchesTyped, QueuesTyped, Unread

\* The configuration cannot be used.
LEMMA RefuseTyped ==
  ASSUME WatcherTyped, NEW args, RefuseConfig(args)
  PROVE  /\ WatcherTyped' /\ main'.pc = "dead" /\ main'.in = main.in /\ excuse'
         /\ UNCHANGED <<todo, buffer, heard>>
<1>1. main' \in MainState /\ main'.pc = "dead" /\ main'.in = main.in
  BY DEF WatcherTyped, MainTyped, MainState, Pc, RefuseConfig, Goto
<1>2. MainTyped'
  BY <1>1 DEF WatcherTyped, MainTyped, RefuseConfig
<1>3. FilesTyped' /\ WatchesTyped' /\ QueuesTyped'
  BY DEF WatcherTyped, FilesTyped, WatchesTyped, QueuesTyped, Unread, RefuseConfig
<1>4. QED
  BY <1>1, <1>2, <1>3 DEF WatcherTyped, RefuseConfig

\* The main thread hangs.
LEMMA HangTyped ==
  ASSUME WatcherTyped, Hang
  PROVE  /\ WatcherTyped' /\ main'.pc = "stuck" /\ main'.in = main.in /\ main.pc = "attach"
         /\ UNCHANGED <<worldVars, directory, buffer, todo, watching, loaded>>
<1>1. main' \in MainState /\ main'.pc = "stuck" /\ main'.in = main.in
  BY DEF WatcherTyped, MainTyped, MainState, Pc, Hang, Goto
<1>2. MainTyped'
  BY <1>1 DEF WatcherTyped, MainTyped, Hang, worldVars
<1>3. QED
  BY <1>1, <1>2, StillTyped DEF Hang, Reloading, WatcherTyped, FilesTyped

\* The options are read and HOMEd is waited for.
LEMMA StartTyped ==
  ASSUME WatcherTyped, (\E args \in Arguments : PrepareOptions(args)) \/ Initialize
  PROVE  WatcherTyped' /\ main'.pc \in {"wait", "construct", "done"} /\ main'.in = main.in
<1>1. main' \in MainState /\ main'.pc \in {"wait", "construct", "done"} /\ main'.in = main.in
  BY DEF WatcherTyped, MainTyped, MainState, Pc, PrepareOptions, Initialize, Goto
<1>2. UNCHANGED <<worldVars, directory, buffer, todo, watching, loaded>>
  BY DEF PrepareOptions, Initialize
<1>3. MainTyped'
  BY <1>1, <1>2 DEF worldVars, WatcherTyped, MainTyped
<1>4. QED
  BY <1>1, <1>2, <1>3, StillTyped DEF WatcherTyped, FilesTyped

\* What addWatch does to the watches.
LEMMA AddWatchFacts ==
  ASSUME WatcherTyped, NEW p \in Dir \cup {Root}, AddWatch(p)
  PROVE  /\ WatchesTyped'
         /\ DOMAIN watch \subseteq DOMAIN watch'
         /\ DOMAIN directory = DOMAIN watch => DOMAIN directory' = DOMAIN watch'
<1> DEFINE wd == IF Watching(p) = {} THEN Len(watch) + 1 ELSE WatchOf(p)
<1>1. /\ watch' = IF Watching(p) = {} THEN Append(watch, InodeOf(p)) ELSE watch
      /\ directory' = [w \in DOMAIN directory \cup {wd} |-> IF w = wd THEN p ELSE directory[w]]
  BY DEF AddWatch
<1>2. /\ watch' \in Seq(Nat)
      /\ DOMAIN watch' = DOMAIN watch \cup {wd}
  <2>1. CASE Watching(p) = {}
    <3>1. InodeOf(p) \in Nat
      BY DEF InodeOf, WatcherTyped, FilesTyped
    <3>2. watch' \in Seq(Nat) /\ Len(watch') = Len(watch) + 1
      BY <1>1, <2>1, <3>1, AppendProperties DEF WatcherTyped, WatchesTyped
    <3>3. DOMAIN watch' = 1..(Len(watch) + 1)
      BY <3>2, LenProperties
    <3>4. DOMAIN watch = 1..Len(watch) /\ Len(watch) \in Nat
      BY WatchFacts DEF WatcherTyped
    <3>5. 1..(Len(watch) + 1) = 1..Len(watch) \cup {Len(watch) + 1}
      BY <3>4
    <3>6. QED
      BY <2>1, <3>2, <3>3, <3>4, <3>5
  <2>2. CASE Watching(p) # {}
    <3>1. WatchOf(p) \in DOMAIN watch
      BY <2>2 DEF WatchOf, Watching
    <3>2. QED
      BY <1>1, <2>2, <3>1 DEF WatcherTyped, WatchesTyped
  <2>3. QED
    BY <2>1, <2>2
<1> HIDE DEF wd
<1>3. DOMAIN directory' = DOMAIN directory \cup {wd}
  BY <1>1
<1>4. Range(directory') \subseteq Dir \cup {Root}
  BY <1>1, <1>3 DEF Range, WatcherTyped, WatchesTyped
<1>5. QED
  BY <1>2, <1>3, <1>4 DEF WatcherTyped, WatchesTyped

\* The root is watched.
LEMMA ConstructTyped ==
  ASSUME WatcherTyped, Construct
  PROVE  WatcherTyped' /\ main'.pc = "scan" /\ main'.in = main.in
<1>1. WatchesTyped'
  BY AddWatchFacts DEF Construct
<1>2. main' \in MainState /\ main'.pc = "scan" /\ main'.in = main.in
  BY DEF WatcherTyped, MainTyped, MainState, Pc, Construct, Goto
<1>3. MainTyped'
  BY <1>2 DEF WatcherTyped, MainTyped, Construct
<1>4. FilesTyped' /\ QueuesTyped'
  BY DEF WatcherTyped, FilesTyped, QueuesTyped, Unread, Construct
<1>5. QED
  BY <1>1, <1>2, <1>3, <1>4 DEF WatcherTyped

\* The entry is a directory that the main thread goes on with.
Enters(p) ==
  p \in Dir /\ (main.in = "constructor" \/ (main.in = "scan" /\ Exists(p)))

\* Where the next entry leads: a directory is entered or watched, a script is attached.
LEMMA VisitFacts ==
  ASSUME WatcherTyped, NEW p \in Dir \cup File, Visit(p)
  PROVE  /\ UNCHANGED <<worldVars, directory, buffer, watching, loaded>>
         /\ p \in todo /\ todo' = todo \ {p} /\ main.pc = "scan"
         /\ main' \in MainState /\ main'.in = main.in
         /\ \/ Enters(p) /\ main'.on = p /\ main'.pc = IF main.in = "scan" THEN "opendir" ELSE "add"
            \/ p \in File /\ content[p] \in Script /\ main'.on = p /\ main'.pc = "attach"
            \/ ~Enters(p) /\ ~(p \in File /\ content[p] \in Script) /\ main' = main
<1>1. main \in MainState /\ p \in Path
  BY Constants DEF WatcherTyped, MainTyped
<1>2. CASE Enters(p)
  <2>1. p \notin File
    BY <1>2, Constants DEF Enters
  <2>2. main' = [main EXCEPT !.pc = IF main.in = "scan" THEN "opendir" ELSE "add", !.on = p]
    BY <1>2, <2>1 DEF Visit, GotoOn, Enters
  <2>3. /\ main' \in MainState /\ main'.in = main.in /\ main'.on = p
        /\ main'.pc = IF main.in = "scan" THEN "opendir" ELSE "add"
    BY <1>1, <2>2 DEF MainState, Pc
  <2>4. QED
    BY <1>2, <2>3 DEF Visit
<1>3. CASE p \in File /\ content[p] \in Script
  <2>1. p \notin Dir
    BY <1>3, Constants
  <2>2. main' = [main EXCEPT !.pc = "attach", !.on = p]
    BY <1>3, <2>1 DEF Visit, GotoOn
  <2>3. main' \in MainState /\ main'.in = main.in /\ main'.on = p /\ main'.pc = "attach"
    BY <1>1, <2>2 DEF MainState, Pc
  <2>4. QED
    BY <1>3, <2>3 DEF Visit
<1>4. CASE ~Enters(p) /\ ~(p \in File /\ content[p] \in Script)
  <2>1. main' = main
    BY <1>4 DEF Visit, Enters
  <2>2. QED
    BY <1>1, <1>4, <2>1 DEF Visit
<1>5. QED
  BY <1>2, <1>3, <1>4

\* An entry of the iterator.
LEMMA VisitTyped ==
  ASSUME WatcherTyped, NEW p \in Dir \cup File, Visit(p)
  PROVE  WatcherTyped'
<1>1. MainTyped'
  BY VisitFacts, Constants DEF worldVars, WatcherTyped, MainTyped, Enters
<1>2. QED
  BY <1>1, VisitFacts, StillTyped DEF WatcherTyped, FilesTyped

\* The scan begins.
LEMMA StartScanTyped ==
  ASSUME WatcherTyped, StartScan
  PROVE  WatcherTyped' /\ main'.pc = "scan" /\ main'.in = "scan"
<1>1. main' \in MainState /\ main'.pc = "scan" /\ main'.in = "scan"
  BY DEF WatcherTyped, MainTyped, MainState, StartScan
<1>2. MainTyped'
  BY <1>1 DEF WatcherTyped, MainTyped, StartScan, worldVars
<1>3. QED
  BY <1>1, <1>2, StillTyped DEF StartScan, WatcherTyped, FilesTyped

\* A directory is scanned.
LEMMA OpenDirTyped ==
  ASSUME WatcherTyped, OpenDir
  PROVE  /\ WatcherTyped' /\ main'.pc = IF Exists(main.on) THEN "scan" ELSE "dead"
         /\ main'.in = main.in
<1>1. /\ main' \in MainState /\ main'.pc = IF Exists(main.on) THEN "scan" ELSE "dead"
      /\ main'.in = main.in
  BY DEF WatcherTyped, MainTyped, MainState, Pc, OpenDir, Goto
<1>2. MainTyped'
  BY <1>1 DEF WatcherTyped, MainTyped, OpenDir, worldVars
<1>3. QED
  BY <1>1, <1>2, StillTyped DEF OpenDir, WatcherTyped, FilesTyped

\* The loop begins.
LEMMA ArmTyped ==
  ASSUME WatcherTyped, Arm
  PROVE  WatcherTyped' /\ main'.pc = "loop" /\ main'.in = "events"
<1>1. main' \in MainState /\ main'.pc = "loop" /\ main'.in = "events"
  BY DEF WatcherTyped, MainTyped, MainState, Pc, Arm
<1>2. MainTyped'
  BY <1>1 DEF WatcherTyped, MainTyped, Arm, worldVars
<1>3. QED
  BY <1>1, <1>2, StillTyped DEF Arm, WatcherTyped, FilesTyped

\* The loop goes on or ends.
LEMMA WhileTyped ==
  ASSUME WatcherTyped, While
  PROVE  WatcherTyped' /\ main'.pc \in {"read", "done"} /\ main'.in = main.in
<1>1. main' \in MainState /\ main'.pc \in {"read", "done"} /\ main'.in = main.in
  BY DEF WatcherTyped, MainTyped, MainState, Pc, While, Goto
<1>2. MainTyped'
  BY <1>1 DEF WatcherTyped, MainTyped, While, worldVars
<1>3. QED
  BY <1>1, <1>2, StillTyped DEF While, WatcherTyped, FilesTyped

\* What is read is no longer in the kernel.
LEMMA ReadTyped ==
  ASSUME WatcherTyped, Read
  PROVE  /\ WatcherTyped' /\ main'.in = main.in
         /\ main'.pc = IF events = <<>> THEN "loop" ELSE "process"
<1>1. /\ main' \in MainState /\ main'.in = main.in
      /\ main'.pc = IF events = <<>> THEN "loop" ELSE "process"
  BY DEF WatcherTyped, MainTyped, MainState, Pc, Read, Goto
<1>2. MainTyped'
  BY <1>1 DEF WatcherTyped, MainTyped, Read
<1>3. QueuesTyped'
  <2>1. events' = <<>> /\ buffer' = events
    BY DEF Read
  <2>2. Queue(<<>>)
    <3>1. <<>> \in Seq(Event) /\ Len(<<>>) = 0
      OBVIOUS
    <3>2. QED
      BY <3>1, Constants DEF Queue, Lost
  <2>3. buffer' \in Seq(Event)
    BY <2>1 DEF WatcherTyped, QueuesTyped, Queue
  <2>4. ToSet(events') = {}
    BY <2>1 DEF ToSet
  <2>5. Unread' \subseteq Unread
    BY <2>1, <2>4 DEF Unread
  <2>6. QED
    BY <2>1, <2>2, <2>3, <2>5 DEF WatcherTyped, QueuesTyped
<1>4. FilesTyped' /\ WatchesTyped'
  BY DEF WatcherTyped, FilesTyped, WatchesTyped, Read
<1>5. QED
  BY <1>1, <1>2, <1>3, <1>4 DEF WatcherTyped

\* The next event.
LEMMA NextEvent ==
  ASSUME WatcherTyped, ProcessEvent, buffer # <<>>
  PROVE  /\ Head(buffer) \in Event /\ Sensible(Head(buffer)) /\ Head(buffer) \in Unread
         /\ buffer' = Tail(buffer) /\ buffer' \in Seq(Event)
         /\ ToSet(buffer) = {Head(buffer)} \cup ToSet(buffer')
<1>1. buffer \in Seq(Event)
  BY DEF WatcherTyped, QueuesTyped
<1>2. buffer' = Tail(buffer)
  BY DEF ProcessEvent
<1>3. /\ Head(buffer) \in Event /\ Tail(buffer) \in Seq(Event)
      /\ ToSet(buffer) = {Head(buffer)} \cup ToSet(Tail(buffer))
  BY <1>1, SetOfTail
<1>4. Head(buffer) \in Unread
  BY <1>3 DEF Unread
<1>5. QED
  BY <1>2, <1>3, <1>4 DEF WatcherTyped, QueuesTyped

\* What becomes of the watches: none goes unless the event is a reason to.
LEMMA ProcessWatches ==
  ASSUME WatcherTyped, ProcessEvent, buffer # <<>>
  PROVE  /\ WatchesTyped' /\ DOMAIN watch' = DOMAIN watch
         /\ ~Forget(Head(buffer)) => UNCHANGED <<directory, watch, events>>
         /\ \E E : /\ Grown(events, events', E)
                   /\ \A x \in E : /\ x \in Event /\ Sensible(x) /\ x.wd \in DOMAIN watch
                                  /\ x.mask = "ignored"
<1> DEFINE e == Head(buffer)
<1>1. CASE Forget(e) /\ e.wd \in DOMAIN directory
  <2> DEFINE wd == Min({w \in DOMAIN directory : directory[w] = e.name})
             x == [wd |-> wd, mask |-> "ignored", name |-> e.name]
  <2>1. RemoveWatch(e.name)
    BY <1>1 DEF ProcessEvent
  <2>2. wd \in DOMAIN directory
    <3>1. {w \in DOMAIN directory : directory[w] = e.name} # {}
      BY <1>1 DEF Forget
    <3>2. DOMAIN directory \subseteq Nat
      BY WatchFacts DEF WatcherTyped, WatchesTyped
    <3>3. {w \in DOMAIN directory : directory[w] = e.name} \subseteq Nat
      BY <3>2
    <3>4. wd \in {w \in DOMAIN directory : directory[w] = e.name}
      BY <3>1, <3>3, MinFacts
    <3>5. QED
      BY <3>4
  <2>3. /\ directory' = [w \in DOMAIN directory \ {wd} |-> directory[w]]
        /\ watch' = [watch EXCEPT ![wd] = 0]
        /\ events' = IF watch[wd] = 0 THEN events ELSE Queued(events, x)
    BY <2>1 DEF RemoveWatch
  <2> HIDE DEF wd
  <2>4. watch' \in Seq(Nat) /\ DOMAIN watch' = DOMAIN watch
    <3>1. wd \in 1..Len(watch) /\ watch \in Seq(Nat) /\ 0 \in Nat
      BY <2>2, WatchFacts DEF WatcherTyped, WatchesTyped
    <3>2. QED
      BY <2>3, <3>1, ExceptSeq
  <2>5. DOMAIN directory' \subseteq DOMAIN directory /\ Range(directory') \subseteq Range(directory)
    BY <2>3 DEF Range
  <2>6. WatchesTyped'
    BY <2>4, <2>5 DEF WatcherTyped, WatchesTyped
  <2>7. wd \in DOMAIN watch /\ wd \in Nat
    BY <2>2, WatchFacts DEF WatcherTyped, WatchesTyped
  <2>8. e.name \in Dir /\ e.name \in Path
    BY <1>1, Constants DEF Forget
  <2>9. x \in Event /\ x.wd \in DOMAIN watch /\ x.mask = "ignored" /\ x.name \in Dir
    BY <2>7, <2>8 DEF Event
  <2>10. x # Overflow /\ Sensible(x)
    BY <2>9 DEF Overflow, Sensible
  <2>11. events' = events \/ events' = Queued(events, x)
    BY <2>3
  <2> HIDE DEF x
  <2>12. Grown(events, events', {}) \/ Grown(events, events', {x})
    BY <2>9, <2>10, <2>11, QueuedGrows, GrownNot DEF WatcherTyped, QueuesTyped
  <2>13. QED
    BY <1>1, <2>4, <2>6, <2>9, <2>10, <2>12
<1>2. CASE ~(Forget(e) /\ e.wd \in DOMAIN directory)
  <2>1. UNCHANGED <<directory, watch, events>>
    BY <1>2 DEF ProcessEvent
  <2>2. Grown(events, events', {})
    BY <2>1, GrownNot DEF WatcherTyped, QueuesTyped
  <2>3. QED
    BY <2>1, <2>2 DEF WatcherTyped, WatchesTyped
<1>3. QED
  BY <1>1, <1>2

\* Where an event leads.
LEMMA ProcessMain ==
  ASSUME WatcherTyped, ProcessEvent, buffer # <<>>
  PROVE  LET e == Head(buffer)
         IN  /\ main' \in MainState /\ main'.in = main.in
             /\ \/ e.wd \notin DOMAIN directory /\ main'.pc = "dead"
                \/ /\ e.wd \in DOMAIN directory
                   /\ e.mask \in {"create", "modify"} /\ e.name \in File
                   /\ content[e.name] \in Script /\ main'.pc = "attach" /\ main'.on = e.name
                \/ /\ e.wd \in DOMAIN directory
                   /\ e.name \in Dir /\ Exists(e.name) /\ main'.pc = "add" /\ main'.on = e.name
                \/ /\ e.wd \in DOMAIN directory
                   /\ ~(e.mask \in {"create", "modify"} /\ e.name \in File
                        /\ content[e.name] \in Script)
                   /\ main' = main
<1> DEFINE e == Head(buffer)
<1>1. main \in MainState /\ e.name \in Path /\ Sensible(e)
  BY NextEvent DEF WatcherTyped, MainTyped, Event
<1>2. CASE e.wd \notin DOMAIN directory
  <2>1. main' = [main EXCEPT !.pc = "dead"]
    BY <1>2 DEF ProcessEvent, Goto
  <2>2. main' \in MainState /\ main'.in = main.in /\ main'.pc = "dead"
    BY <1>1, <2>1 DEF MainState, Pc
  <2>3. QED
    BY <1>2, <2>2
<1>3. CASE e.wd \in DOMAIN directory /\ e.mask \notin {"create", "modify"}
  <2>1. main' = main
    BY <1>3 DEF ProcessEvent
  <2>2. QED
    BY <1>1, <1>3, <2>1
<1>4. CASE e.wd \in DOMAIN directory /\ e.mask \in {"create", "modify"} /\ e.name \in File
  <2>1. CASE content[e.name] \in Script
    <3>1. main' = [main EXCEPT !.pc = "attach", !.on = e.name]
      BY <1>4, <2>1 DEF ProcessEvent, GotoOn
    <3>2. main' \in MainState /\ main'.in = main.in /\ main'.pc = "attach" /\ main'.on = e.name
      BY <1>1, <3>1 DEF MainState, Pc
    <3>3. QED
      BY <1>4, <2>1, <3>2
  <2>2. CASE content[e.name] \notin Script
    <3>1. main' = main
      BY <1>4, <2>2 DEF ProcessEvent
    <3>2. QED
      BY <1>1, <1>4, <2>2, <3>1
  <2>3. QED
    BY <2>1, <2>2
<1>5. CASE e.wd \in DOMAIN directory /\ e.mask \in {"create", "modify"} /\ e.name \notin File
  <2>1. e.name \in Dir
    BY <1>1, <1>5 DEF Sensible
  <2>2. CASE Exists(e.name)
    <3>1. main' = [main EXCEPT !.pc = "add", !.on = e.name]
      BY <1>5, <2>2 DEF ProcessEvent, GotoOn
    <3>2. main' \in MainState /\ main'.in = main.in /\ main'.pc = "add" /\ main'.on = e.name
      BY <1>1, <3>1 DEF MainState, Pc
    <3>3. QED
      BY <1>5, <2>1, <2>2, <3>2
  <2>3. CASE ~Exists(e.name)
    <3>1. main' = main
      BY <1>5, <2>3 DEF ProcessEvent
    <3>2. QED
      BY <1>1, <1>5, <3>1
  <2>4. QED
    BY <2>2, <2>3
<1>6. QED
  BY <1>2, <1>3, <1>4, <1>5

\* When the buffer is empty the loop goes on.
LEMMA EmptyBuffer ==
  ASSUME WatcherTyped, ProcessEvent, buffer = <<>>
  PROVE  /\ main' \in MainState /\ main'.pc = "loop" /\ main'.in = main.in
         /\ UNCHANGED <<inode, content, watch, events, directory, buffer, todo, running, watching,
                        loaded, changes, blind, heard>>
BY DEF WatcherTyped, MainTyped, MainState, Pc, ProcessEvent, Goto

\* An event is processed.
LEMMA ProcessTyped ==
  ASSUME WatcherTyped, ProcessEvent
  PROVE  WatcherTyped'
<1>1. FilesTyped'
  BY DEF WatcherTyped, FilesTyped, ProcessEvent
<1>2. CASE buffer = <<>>
  <2>1. MainTyped'
    BY <1>2, EmptyBuffer DEF WatcherTyped, MainTyped
  <2>2. WatchesTyped' /\ QueuesTyped'
    BY <1>2, EmptyBuffer DEF WatcherTyped, WatchesTyped, QueuesTyped, Unread
  <2>3. QED
    BY <1>1, <2>1, <2>2 DEF WatcherTyped
<1>3. CASE buffer # <<>>
  <2> DEFINE e == Head(buffer)
  <2>1. main' \in MainState
    BY <1>3, ProcessMain
  <2>2. main'.pc \in {"opendir", "add"} => main'.on \in Dir
    BY <1>3, ProcessMain DEF WatcherTyped, MainTyped
  <2>3. main'.pc = "attach" => main'.on \in File
    BY <1>3, ProcessMain DEF WatcherTyped, MainTyped
  <2>4. MainTyped'
    BY <2>1, <2>2, <2>3 DEF WatcherTyped, MainTyped, ProcessEvent
  <2>5. QueuesTyped'
    <3>1. PICK E : Grown(events, events', E) /\ \A x \in E : Sensible(x)
      BY <1>3, ProcessWatches
    <3>2. Unread' \subseteq Unread \cup E \cup {Overflow}
      BY <1>3, <3>1, NextEvent DEF Unread, Grown
    <3>3. Sensible(Overflow)
      BY DEF Sensible, Overflow
    <3>4. \A x \in Unread' : Sensible(x)
      BY <3>1, <3>2, <3>3 DEF WatcherTyped, QueuesTyped
    <3>5. QED
      BY <1>3, <3>1, <3>4, NextEvent DEF QueuesTyped, Grown
  <2>6. QED
    BY <1>1, <1>3, <2>4, <2>5, ProcessWatches DEF WatcherTyped
<1>4. QED
  BY <1>2, <1>3

\* From a directory or a script the main thread goes back to where it came from.
Back == IF main.in = "events" THEN "process" ELSE "scan"

LEMMA BackFacts == Back \in {"process", "scan"} /\ (main.in = "events" <=> Back = "process")
BY DEF Back

\* Where a directory that is watched leads.
Further == IF main.in = "events" THEN "process" ELSE "opendir"

\* A directory is watched.
LEMMA AddTyped ==
  ASSUME WatcherTyped, Add
  PROVE  /\ WatcherTyped' /\ main'.in = main.in
         /\ main'.pc = IF Exists(main.on) THEN Further ELSE "dead"
<1>1. /\ main' \in MainState /\ main'.in = main.in
      /\ main'.pc = IF Exists(main.on) THEN Further ELSE "dead"
  BY DEF WatcherTyped, MainTyped, MainState, Pc, Add, Goto, Further
<1>2. MainTyped'
  <2>1. main.on \in Dir /\ main'.on = main.on
    BY DEF WatcherTyped, MainTyped, MainState, Add, Goto
  <2>2. UNCHANGED <<todo, heard, running, watching>>
    BY DEF Add
  <2>3. QED
    BY <1>1, <2>1, <2>2 DEF WatcherTyped, MainTyped, Further
<1>3. WatchesTyped'
  <2>1. main.on \in Dir
    BY DEF WatcherTyped, MainTyped, Add
  <2>2. QED
    BY <2>1, AddWatchFacts DEF Add, WatcherTyped, WatchesTyped
<1>4. FilesTyped' /\ QueuesTyped'
  BY DEF WatcherTyped, FilesTyped, QueuesTyped, Unread, Add
<1>5. QED
  BY <1>1, <1>2, <1>3, <1>4 DEF WatcherTyped

\* A script is loaded.
LEMMA AttachTyped ==
  ASSUME WatcherTyped, Attach
  PROVE  /\ WatcherTyped' /\ main'.in = main.in
         /\ main'.pc = IF Exists(main.on) THEN Back ELSE "dead"
<1>1. /\ main' \in MainState /\ main'.in = main.in
      /\ main'.pc = IF Exists(main.on) THEN Back ELSE "dead"
  BY BackFacts DEF WatcherTyped, MainTyped, MainState, Pc, Attach, Goto, Back
<1>2. MainTyped'
  BY <1>1, BackFacts DEF WatcherTyped, MainTyped, Attach, worldVars
<1>3. loaded' \in [File -> {"none", "plain"} \cup Script]
  BY DEF WatcherTyped, MainTyped, FilesTyped, Attach
<1>4. QED
  BY <1>1, <1>2, <1>3, StillTyped DEF WatcherTyped, Attach

\* The types hold at the start.
LEMMA InitTyped ==
  ASSUME WatcherInit
  PROVE  WatcherTyped
<1>1. inode \in [Dir -> Nat]
  BY NumberFacts DEF WatcherInit
<1>2. FilesTyped
  <2>1. content \in [File -> {"none", "plain"} \cup Script]
    BY DEF WatcherInit
  <2>2. loaded \in [File -> {"none", "plain"} \cup Script]
    <3>1. loaded = [f \in File |-> "none"]
      BY DEF WatcherInit
    <3>2. QED
      BY <3>1
  <2>3. changes \in 0..MaxChanges /\ blind \subseteq File /\ excuse \in BOOLEAN
    <3>1. changes = 0 /\ blind = {} /\ excuse = FALSE
      BY Zenon DEF WatcherInit
    <3>2. MaxChanges \in Nat
      BY Constants
    <3>3. changes \in 0..MaxChanges /\ blind \subseteq File
      BY <3>1, <3>2
    <3>4. excuse \in BOOLEAN
      BY <3>1, Zenon
    <3>5. QED
      BY <3>3, <3>4
  <2>4. QED
    BY <1>1, <2>1, <2>2, <2>3 DEF FilesTyped
<1>3. WatchesTyped
  BY DEF WatcherInit, WatchesTyped, Range
<1>4. QueuesTyped
  <2>1. <<>> \in Seq(Event) /\ Len(<<>>) = 0 /\ ToSet(<<>>) = {}
    BY DEF ToSet
  <2>2. Queue(<<>>)
    BY <2>1, Constants DEF Queue, Lost
  <2>3. QED
    BY <2>1, <2>2 DEF WatcherInit, QueuesTyped, Unread
<1>5. MainTyped
  BY Constants DEF WatcherInit, MainTyped, MainState, Pc
<1>6. QED
  BY <1>2, <1>3, <1>4, <1>5 DEF WatcherTyped

\* Every step keeps the types.
LEMMA NextTyped ==
  ASSUME WatcherTyped, [WatcherNext]_watcherVars
  PROVE  WatcherTyped'
<1>1. CASE UNCHANGED watcherVars
  BY <1>1 DEF watcherVars, WatcherTyped, FilesTyped, WatchesTyped, QueuesTyped, Unread, MainTyped
<1>2. CASE MainThread
  BY <1>2, StartTyped, VisitTyped, ConstructTyped, StartScanTyped, OpenDirTyped, ArmTyped,
     WhileTyped, ReadTyped, ProcessTyped, AddTyped, AttachTyped, RefuseTyped, HangTyped
     DEF MainThread
<1>3. CASE Edit
  BY <1>3, WriteTyped, RenameTyped, RemoveFileTyped, MakeDirTyped, RemoveDirTyped DEF Edit
<1>4. QED
  BY <1>1, <1>2, <1>3, SignalTyped DEF WatcherNext

\* All that the main thread, the kernel and the editor keep is of its type; in particular no queue
\* is longer than the kernel lets it be, with the mark that something was lost (CFileWatcher).
THEOREM WatcherTypeCorrect == WatcherSpec => []WatcherTypeOK
<1>1. WatcherTyped => WatcherTypeOK
  <2> SUFFICES ASSUME WatcherTyped PROVE WatcherTypeOK
    OBVIOUS
  <2>1. /\ events \in Seq(Event) /\ buffer \in Seq(Event)
        /\ Len(events) <= KernelQueue + 1
    BY DEF WatcherTyped, QueuesTyped, Queue
  <2>2. \A q \in {events, buffer} :
          q \in Seq([wd : Nat, mask : {"create", "modify", "delete", "ignored", "overflow"},
                     name : Path])
    BY <2>1 DEF Event
  <2>3. main \in [pc : {"options", "wait", "construct", "scan", "opendir", "arm", "loop", "read",
                       "process", "add", "attach", "done", "dead", "stuck"},
                  in : {"constructor", "scan", "events"}, on : Path]
    BY DEF WatcherTyped, MainTyped, MainState, Pc
  <2>4. QED
    BY <2>1, <2>2, <2>3
       DEF WatcherTypeOK, WatcherTyped, FilesTyped, WatchesTyped, MainTyped
<1>2. WatcherInit => WatcherTyped
  BY InitTyped
<1>3. WatcherTyped /\ [WatcherNext]_watcherVars => WatcherTyped'
  BY NextTyped
<1>4. QED
  BY <1>1, <1>2, <1>3, PTL DEF WatcherSpec

-----------------------------------------------------------------------------
\* What is there.
LEMMA ExistsFacts ==
  /\ \A d \in Dir : Exists(d) <=> inode[d] # 0
  /\ \A f \in File : Exists(f) <=> content[f] # "none"
  /\ Exists(Root)
BY Constants DEF Exists, InodeOf

\* What main is about to open is a directory or a file.
LEMMA InHand ==
  ASSUME WatcherTyped
  PROVE  /\ inode \in [Dir -> Nat] /\ content \in [File -> {"none", "plain"} \cup Script]
         /\ main.pc \in {"opendir", "add"} => main.on \in Dir
         /\ main.pc = "attach" => main.on \in File
         /\ \A e \in Unread : e.mask = "delete" => e.name \in Dir
BY DEF WatcherTyped, FilesTyped, MainTyped, QueuesTyped, Sensible

\* Unless the queue is full there is nothing new to read but the new events.
LEMMA UnreadGrows ==
  ASSUME NEW E, Grown(events, events', E), ~Lost(events'), buffer' = buffer
  PROVE  Unread' \subseteq Unread \cup E
BY DEF Grown, Unread

\* As long as nobody provokes it the program stays as it should be.
LEMMA WriteCalm ==
  ASSUME WatcherTyped, Calm, NEW f \in File, NEW c \in {"plain"} \cup Script, Write(f, c), ~excuse'
  PROVE  Calm'
<1>1. PICK E : /\ Grown(events, events', E)
               /\ \A e \in E : /\ e.wd \in DOMAIN watch
                              /\ (e.mask \in {"create", "modify"})
  BY WriteEvents
<1>2. Unread' \subseteq Unread \cup E
  BY <1>1, UnreadGrows DEF Write, mainVars
<1>3. UNCHANGED <<directory, watch, main, inode, todo>>
  BY DEF Write, mainVars
<1>4. \A g \in File : content[g] # "none" => content'[g] # "none"
  <2>1. content' = [content EXCEPT ![f] = c] /\ c # "none"
    BY Constants DEF Write
  <2>2. QED
    BY <2>1, InHand
<1>5. ASSUME NEW e \in Unread'
      PROVE  e.wd \in DOMAIN watch' /\ (e.mask = "delete" => inode'[e.name] = 0)
  <2>1. CASE e \in Unread
    BY <1>3, <2>1 DEF Calm
  <2>2. CASE e \in E
    BY <1>1, <1>3, <2>2
  <2>3. QED
    BY <1>2, <2>1, <2>2
<1>6. main'.pc = "attach" => content'[main'.on] # "none"
  BY <1>3, <1>4, InHand DEF Calm
<1>7. QED
  BY <1>3, <1>5, <1>6 DEF Calm

\* A rename leaves a file where it was.
LEMMA RenameCalm ==
  ASSUME WatcherTyped, Calm, NEW f \in File, NEW c \in {"plain"} \cup Script, Rename(f, c)
  PROVE  Calm'
<1>1. \A g \in File : content[g] # "none" => content'[g] # "none"
  <2>1. content' = [content EXCEPT ![f] = c] /\ c # "none"
    BY Constants DEF Rename
  <2>2. QED
    BY <2>1, InHand
<1>2. UNCHANGED <<directory, watch, main, events, buffer, inode, todo>> /\ Unread' = Unread
  BY DEF Rename, mainVars, Unread
<1>3. main'.pc = "attach" => content'[main'.on] # "none"
  BY <1>1, <1>2, InHand DEF Calm
<1>4. QED
  BY <1>2, <1>3 DEF Calm

\* A file may go, but not while it is about to be attached.
LEMMA RemoveFileCalm ==
  ASSUME WatcherTyped, Calm, NEW f \in File, RemoveFile(f), ~excuse'
  PROVE  Calm'
<1>1. \A g \in File : g # f => content'[g] = content[g]
  BY InHand DEF RemoveFile
<1>2. UNCHANGED <<directory, watch, main, events, buffer, inode, todo>> /\ Unread' = Unread
  BY DEF RemoveFile, mainVars, Unread
<1>3. ~(main.pc = "attach" /\ main.on = f)
  BY DEF RemoveFile, At
<1>4. main'.pc = "attach" => content'[main'.on] # "none"
  BY <1>1, <1>2, <1>3, InHand DEF Calm
<1>5. QED
  BY <1>2, <1>4 DEF Calm

\* A directory may come, but not while its end is still to be read.
LEMMA MakeDirCalm ==
  ASSUME WatcherTyped, Calm, NEW d \in Dir, NEW quiet, MakeDir(d, quiet), ~excuse'
  PROVE  Calm'
<1>1. PICK E : /\ Grown(events, events', E)
               /\ \A e \in E : e.wd \in DOMAIN watch /\ e.mask = "create"
  BY MakeDirEvents
<1>2. Unread' \subseteq Unread \cup E
  BY <1>1, UnreadGrows DEF MakeDir, mainVars
<1>3. \A p \in Dir : p # d => inode'[p] = inode[p]
  BY InHand DEF MakeDir
<1>4. inode[d] = 0
  BY ExistsFacts DEF MakeDir
<1>5. UNCHANGED <<directory, watch, main, content, todo>>
  BY DEF MakeDir, mainVars
<1>6. \A e \in Unread : ~(e.name = d /\ e.mask = "delete")
  BY DEF MakeDir
<1>7. ASSUME NEW e \in Unread'
      PROVE  e.wd \in DOMAIN watch' /\ (e.mask = "delete" => inode'[e.name] = 0)
  <2>1. CASE e \in Unread
    BY <1>3, <1>5, <1>6, <2>1, InHand DEF Calm
  <2>2. CASE e \in E
    BY <1>1, <1>5, <2>2
  <2>3. QED
    BY <1>2, <2>1, <2>2
<1>8. main'.pc \in {"opendir", "add"} => inode'[main'.on] # 0
  BY <1>3, <1>4, <1>5, InHand DEF Calm
<1>9. main'.in = "constructor" => \A p \in todo' \cap Dir : inode'[p] # 0
  BY <1>3, <1>4, <1>5 DEF Calm
<1>10. QED
  BY <1>5, <1>7, <1>8, <1>9 DEF Calm

\* A directory may go, but not while it is about to be opened or watched.
LEMMA RemoveDirCalm ==
  ASSUME WatcherTyped, Calm, NEW d \in Dir, RemoveDir(d), ~excuse'
  PROVE  Calm'
<1>1. PICK E : /\ Grown(events, events', E)
               /\ \A e \in E : e.wd \in DOMAIN watch /\ e.name = d
  BY RemoveDirEvents
<1>2. Unread' \subseteq Unread \cup E
  BY <1>1, UnreadGrows DEF RemoveDir, mainVars
<1>3. inode'[d] = 0 /\ \A p \in Dir : p # d => inode'[p] = inode[p]
  BY InHand DEF RemoveDir
<1>4. UNCHANGED <<directory, main, content, todo>> /\ DOMAIN watch' = DOMAIN watch
  BY RemoveDirTyped DEF RemoveDir, mainVars
<1>5. ~(main.pc \in {"opendir", "add"} /\ main.on = d)
  BY DEF RemoveDir, At
<1>6. ASSUME NEW e \in Unread'
      PROVE  e.wd \in DOMAIN watch' /\ (e.mask = "delete" => inode'[e.name] = 0)
  <2>1. CASE e \in Unread
    BY <1>3, <1>4, <2>1, InHand DEF Calm
  <2>2. CASE e \in E
    BY <1>1, <1>3, <1>4, <2>2
  <2>3. QED
    BY <1>2, <2>1, <2>2
<1>7. main'.pc \in {"opendir", "add"} => inode'[main'.on] # 0
  BY <1>3, <1>4, <1>5, InHand DEF Calm
<1>8. main'.in = "constructor" => \A p \in todo' \cap Dir : inode'[p] # 0
  <2>1. ~(main.in = "constructor" /\ d \in todo)
    BY DEF RemoveDir
  <2>2. QED
    BY <1>3, <1>4, <2>1 DEF Calm
<1>9. QED
  BY <1>4, <1>6, <1>7, <1>8 DEF Calm

\* A signal in the constructor is a provocation, any other changes nothing here, unless the main
\* thread hangs from then on.
LEMMA SignalCalm ==
  ASSUME WatcherTyped, Calm, Signal, ~excuse'
  PROVE  Calm'
<1>1. UNCHANGED <<todo, directory, watch, events, buffer, inode, content>>
  BY DEF Signal
<1>2. main' = main \/ (main'.pc = "stuck" /\ main'.in = main.in)
  BY DEF WatcherTyped, MainTyped, MainState, Signal, Goto
<1>3. Unread' = Unread
  BY <1>1 DEF Unread
<1>4. QED
  BY <1>1, <1>2, <1>3 DEF Calm

\* Steps of the main thread that change neither disk nor watches.
LEMMA StillCalm ==
  ASSUME Calm, UNCHANGED <<worldVars, directory, buffer>>,
         main'.pc \in {"opendir", "add"} => inode[main'.on] # 0,
         main'.pc = "attach" => content[main'.on] # "none",
         main'.in = "constructor" => main.in = "constructor" /\ todo' \cap Dir \subseteq todo,
         main'.pc # "dead"
  PROVE  Calm'
BY DEF Calm, Unread, worldVars

\* The scan takes up what is there.
LEMMA VisitCalm ==
  ASSUME WatcherTyped, Calm, NEW p \in Dir \cup File, Visit(p)
  PROVE  Calm'
<1>1. /\ main.pc = "scan" /\ UNCHANGED <<worldVars, directory, buffer>>
      /\ p \in todo /\ todo' \subseteq todo /\ main'.in = main.in
  BY VisitFacts
<1>2. CASE /\ Enters(p) /\ main'.on = p
           /\ main'.pc = IF main.in = "scan" THEN "opendir" ELSE "add"
  <2>1. inode[main'.on] # 0
    BY <1>1, <1>2, ExistsFacts DEF Enters, Calm
  <2>2. main'.pc \in {"opendir", "add"} /\ main'.pc # "attach" /\ main'.pc # "dead"
    BY <1>2
  <2>3. QED
    BY <1>1, <2>1, <2>2, StillCalm
<1>3. CASE p \in File /\ content[p] \in Script /\ main'.on = p /\ main'.pc = "attach"
  <2>1. content[main'.on] # "none"
    BY <1>3, Constants
  <2>2. main'.pc \notin {"opendir", "add"} /\ main'.pc # "dead"
    BY <1>3
  <2>3. QED
    BY <1>1, <2>1, <2>2, StillCalm
<1>4. CASE main' = main
  <2>1. /\ main'.pc \in {"opendir", "add"} => inode[main'.on] # 0
        /\ main'.pc = "attach" => content[main'.on] # "none"
        /\ main'.pc # "dead"
    BY <1>4 DEF Calm
  <2>2. QED
    BY <1>1, <2>1, StillCalm
<1>5. QED
  BY <1>2, <1>3, <1>4, VisitFacts

\* The watch of the root is known.
LEMMA ConstructCalm ==
  ASSUME WatcherTyped, Calm, Construct
  PROVE  Calm'
<1>1. DOMAIN directory' = DOMAIN watch' /\ DOMAIN watch \subseteq DOMAIN watch'
  BY AddWatchFacts DEF Construct, Calm
<1>2. UNCHANGED <<inode, content, events, buffer>> /\ Unread' = Unread
  BY DEF Construct, Unread
<1>3. main'.pc = "scan"
  BY ConstructTyped
<1>4. \A d \in todo' \cap Dir : inode'[d] # 0
  BY <1>2, ExistsFacts DEF Construct
<1>5. QED
  BY <1>1, <1>2, <1>3, <1>4 DEF Calm

\* The watch of a directory is known.
LEMMA AddCalm ==
  ASSUME WatcherTyped, Calm, Add
  PROVE  Calm'
<1>1. main.on \in Dir /\ Exists(main.on)
  BY InHand, ExistsFacts DEF Add, Calm
<1>2. AddWatch(main.on)
  BY <1>1 DEF Add
<1>3. DOMAIN directory' = DOMAIN watch' /\ DOMAIN watch \subseteq DOMAIN watch'
  BY <1>1, <1>2, AddWatchFacts DEF Calm
<1>4. UNCHANGED <<inode, content, events, buffer>> /\ Unread' = Unread
  BY DEF Add, Unread
<1>5. main'.pc \in {"process", "opendir"} /\ main'.in = main.in
  BY <1>1, AddTyped DEF Further
<1>6. main'.on = main.on /\ todo' = todo /\ inode[main.on] # 0
  BY <1>1, ExistsFacts DEF Add, Goto, WatcherTyped, MainTyped, MainState
<1>7. QED
  BY <1>3, <1>4, <1>5, <1>6 DEF Calm

\* A script that is attached is there.
LEMMA AttachCalm ==
  ASSUME WatcherTyped, Calm, Attach
  PROVE  Calm'
<1>1. Exists(main.on)
  BY InHand, ExistsFacts DEF Attach, Calm
<1>2. main'.pc \in {"process", "scan"} /\ main'.in = main.in
  BY <1>1, AttachTyped, BackFacts
<1>3. UNCHANGED <<worldVars, directory, buffer, todo>>
  BY DEF Attach
<1>4. QED
  BY <1>2, <1>3, StillCalm

\* A directory that is opened is there.
LEMMA OpenDirCalm ==
  ASSUME WatcherTyped, Calm, OpenDir
  PROVE  Calm'
<1>1. Exists(main.on)
  BY InHand, ExistsFacts DEF OpenDir, Calm
<1>2. main'.pc = "scan" /\ main'.in = main.in
  BY <1>1, OpenDirTyped
<1>3. UNCHANGED <<worldVars, directory, buffer>>
  BY DEF OpenDir
<1>4. main.in = "constructor" => todo' = todo
  BY DEF OpenDir
<1>5. QED
  BY <1>2, <1>3, <1>4, StillCalm

\* Reading moves the events and adds none.
LEMMA ReadCalm ==
  ASSUME WatcherTyped, Calm, Read
  PROVE  Calm'
<1>1. main'.pc \in {"loop", "process"} /\ main'.in = main.in
  BY ReadTyped DEF Read, Goto, WatcherTyped, MainTyped, MainState
<1>2. ToSet(events') = {} /\ buffer' = events
  BY DEF Read, ToSet
<1>3. Unread' \subseteq Unread
  BY <1>2 DEF Unread
<1>4. UNCHANGED <<inode, content, watch, directory, todo>>
  BY DEF Read
<1>5. QED
  BY <1>1, <1>3, <1>4 DEF Calm

\* To process an event does not bring the main thread into another part of the program.
LEMMA ProcessIn ==
  ASSUME WatcherTyped, ProcessEvent
  PROVE  main'.in = main.in
<1>1. CASE buffer = <<>>
  BY <1>1 DEF WatcherTyped, MainTyped, MainState, ProcessEvent, Goto
<1>2. CASE buffer # <<>>
  BY <1>2, ProcessMain
<1>3. QED
  BY <1>1, <1>2

\* No event is of a watch that is not known, and none makes the program forget one.
LEMMA ProcessCalm ==
  ASSUME WatcherTyped, Calm, ProcessEvent
  PROVE  Calm'
<1>1. UNCHANGED <<inode, content, todo>> /\ main'.in = main.in
  BY ProcessIn DEF ProcessEvent
<1>2. CASE buffer = <<>>
  <2>1. main'.pc = "loop" /\ UNCHANGED <<directory, watch, events, buffer>>
    BY <1>2, EmptyBuffer
  <2>2. QED
    BY <1>1, <2>1 DEF Calm, Unread
<1>3. CASE buffer # <<>>
  <2> DEFINE e == Head(buffer)
  <2>1. e \in Unread /\ Unread = {e} \cup ToSet(buffer') \cup ToSet(events)
    BY <1>3, NextEvent DEF Unread
  <2>2. e.wd \in DOMAIN directory
    BY <2>1 DEF Calm
  <2>3. ~Forget(e)
    BY <2>1, InHand, ExistsFacts DEF Calm, Forget
  <2>4. UNCHANGED <<directory, watch, events>>
    BY <1>3, <2>3, ProcessWatches
  <2>5. Unread' \subseteq Unread
    BY <2>1, <2>4 DEF Unread
  <2>6. DOMAIN directory' = DOMAIN watch'
        /\ \A x \in Unread' : x.wd \in DOMAIN watch' /\ (x.mask = "delete" => inode'[x.name] = 0)
    BY <1>1, <2>4, <2>5 DEF Calm
  <2>7. CASE /\ e.mask \in {"create", "modify"} /\ e.name \in File
             /\ content[e.name] \in Script /\ main'.pc = "attach" /\ main'.on = e.name
    <3>1. content'[main'.on] # "none"
      BY <1>1, <2>7, Constants
    <3>2. main'.pc \notin {"opendir", "add"} /\ main'.pc # "dead"
      BY <2>7
    <3>3. QED
      BY <1>1, <2>6, <3>1, <3>2 DEF Calm
  <2>8. CASE e.name \in Dir /\ Exists(e.name) /\ main'.pc = "add" /\ main'.on = e.name
    <3>1. inode'[main'.on] # 0
      BY <1>1, <2>8, ExistsFacts
    <3>2. main'.pc # "attach" /\ main'.pc # "dead"
      BY <2>8
    <3>3. QED
      BY <1>1, <2>6, <3>1, <3>2 DEF Calm
  <2>9. CASE main' = main
    BY <1>1, <2>6, <2>9 DEF Calm
  <2>10. QED
    BY <1>3, <2>2, <2>7, <2>8, <2>9, ProcessMain
<1>4. QED
  BY <1>2, <1>3

\* The remaining steps of the main thread only move it.
LEMMA OtherCalm ==
  ASSUME WatcherTyped, Calm,
         \/ \E args \in Arguments : PrepareOptions(args)
         \/ Initialize \/ StartScan \/ Arm \/ While \/ Hang
  PROVE  Calm'
<1>1. UNCHANGED <<worldVars, directory, buffer>>
  BY DEF PrepareOptions, Initialize, StartScan, Arm, While, Hang
<1>2. main'.pc \in {"wait", "construct", "scan", "loop", "read", "done", "stuck"}
  BY StartTyped, StartScanTyped, ArmTyped, WhileTyped, HangTyped
<1>3. main'.in = "constructor" => main.in = "constructor" /\ todo' = todo
  BY StartTyped, StartScanTyped, ArmTyped, WhileTyped, HangTyped
     DEF PrepareOptions, Initialize, While
<1>4. QED
  BY <1>1, <1>2, <1>3, StillCalm

\* The program dies only if a file or directory vanishes between its test and its use, a directory
\* is deleted and made again before the events of it are read, too many events come at once, a
\* signal interrupts the constructor, or the configuration cannot be used (processEvent, addWatch,
\* attachScript, initializeWatchers, CConfiguration::load).
THEOREM OnlyProvokedItDies == WatcherSpec => []DiesOnlyIfProvoked
<1>1. WatcherInit => WatcherInv
  <2> SUFFICES ASSUME WatcherInit PROVE WatcherInv
    OBVIOUS
  <2>1. watch = <<>> /\ events = <<>> /\ buffer = <<>> /\ directory = <<>> /\ todo = {}
    BY DEF WatcherInit
  <2>2. Unread = {}
    BY <2>1 DEF Unread, ToSet
  <2>3. main.pc = "options"
    BY DEF WatcherInit
  <2>4. Calm
    BY <2>1, <2>2, <2>3 DEF Calm
  <2>5. QED
    BY <2>4, InitTyped DEF WatcherInv
<1>2. WatcherInv /\ [WatcherNext]_watcherVars => WatcherInv'
  <2> SUFFICES ASSUME WatcherInv, [WatcherNext]_watcherVars PROVE WatcherInv'
    OBVIOUS
  <2>1. WatcherTyped /\ WatcherTyped'
    BY NextTyped DEF WatcherInv
  <2>2. ASSUME ~excuse' PROVE Calm'
    <3>1. ~excuse
      BY <2>2 DEF WatcherNext, MainThread, Edit, Write, Rename, RemoveFile, MakeDir, RemoveDir,
                  Signal, PrepareOptions, RefuseConfig, Initialize, Construct, Visit, StartScan,
                  OpenDir, Arm, While, Read, ProcessEvent, Add, Attach, Hang, worldVars, mainVars,
                  watcherVars
    <3>2. Calm
      BY <3>1 DEF WatcherInv
    <3>3. CASE UNCHANGED watcherVars
      BY <3>2, <3>3 DEF watcherVars, Calm, Unread
    <3>4. CASE MainThread
      BY <2>1, <2>2, <3>2, <3>4, OtherCalm, VisitCalm, ConstructCalm, OpenDirCalm, ReadCalm,
         ProcessCalm, AddCalm, AttachCalm, RefuseTyped DEF MainThread
    <3>5. CASE Edit
      BY <2>1, <2>2, <3>2, <3>5, WriteCalm, RenameCalm, RemoveFileCalm, MakeDirCalm, RemoveDirCalm
         DEF Edit
    <3>6. CASE Signal
      BY <2>1, <2>2, <3>2, <3>6, SignalCalm
    <3>7. QED
      BY <3>3, <3>4, <3>5, <3>6 DEF WatcherNext
  <2>3. QED
    BY <2>1, <2>2 DEF WatcherInv
<1>3. WatcherInv => DiesOnlyIfProvoked
  BY DEF WatcherInv, Calm, DiesOnlyIfProvoked
<1>4. QED
  BY <1>1, <1>2, <1>3, PTL DEF WatcherSpec

-----------------------------------------------------------------------------
\* Where the main thread is: every step keeps it.
LEMMA EditInPlace ==
  ASSUME InPlace, UNCHANGED <<main, todo, buffer>>
  PROVE  InPlace'
BY DEF InPlace

\* Edits happen beside a main thread that still runs.
LEMMA EditLeavesMain ==
  ASSUME Edit
  PROVE  UNCHANGED mainVars /\ ~Over
BY DEF Edit, Write, Rename, RemoveFile, MakeDir, RemoveDir, Mayhem, Over

\* A signal moves the main thread nowhere but to its end.
LEMMA SignalInPlace ==
  ASSUME WatcherTyped, InPlace, Signal
  PROVE  InPlace'
<1>1. main \in MainState /\ UNCHANGED <<todo, buffer>>
  BY DEF WatcherTyped, MainTyped, Signal
<1>2. main' = main \/ (main'.pc \in {"dead", "stuck"} /\ main'.in = main.in)
  BY <1>1 DEF Signal, MainState, Goto
<1>3. QED
  BY <1>1, <1>2 DEF InPlace

\* The constructor, the scan and the loop follow each other.
LEMMA MainInPlace ==
  ASSUME WatcherTyped, InPlace, MainThread
  PROVE  InPlace'
<1>1. CASE (\E args \in Arguments : PrepareOptions(args)) \/ Initialize
  <2>1. main'.in = main.in /\ main'.pc \in {"wait", "construct", "done"}
    BY <1>1, StartTyped
  <2>2. main.in = "constructor" /\ UNCHANGED <<todo, buffer>>
    BY <1>1 DEF InPlace, PrepareOptions, Initialize
  <2>3. QED
    BY <2>1, <2>2 DEF InPlace
<1>2. CASE Construct
  <2>1. main.in = "constructor" /\ buffer' = buffer
    BY <1>2 DEF InPlace, Construct
  <2>2. QED
    BY <1>2, <2>1, ConstructTyped DEF InPlace
<1>3. ASSUME NEW p \in Dir \cup File, Visit(p) PROVE InPlace'
  <2>1. main.pc = "scan" /\ main.in # "events" /\ main'.in = main.in /\ buffer' = buffer
    BY <1>3, VisitFacts DEF InPlace
  <2>2. \/ main'.pc = (IF main.in = "scan" THEN "opendir" ELSE "add")
        \/ main'.pc = "attach" \/ main'.pc = "scan"
    BY <1>3, <2>1, VisitFacts
  <2>3. QED
    BY <2>1, <2>2 DEF InPlace
<1>4. CASE StartScan
  BY <1>4, StartScanTyped DEF InPlace, StartScan
<1>5. CASE OpenDir
  BY <1>5, OpenDirTyped DEF InPlace, OpenDir
<1>6. CASE Arm
  BY <1>6, ArmTyped DEF InPlace, Arm
<1>7. CASE While
  BY <1>7, WhileTyped DEF InPlace, While
<1>8. CASE Read
  BY <1>8, ReadTyped DEF InPlace, Read
<1>9. CASE ProcessEvent
  <2>1. main.in = "events" /\ main.pc = "process" /\ todo' = todo
    BY <1>9 DEF InPlace, ProcessEvent
  <2>2. CASE buffer = <<>>
    BY <1>9, <2>1, <2>2, EmptyBuffer DEF InPlace
  <2>3. CASE buffer # <<>>
    <3>1. main'.in = "events" /\ main'.pc \in {"dead", "attach", "add", "process"}
      BY <1>9, <2>1, <2>3, ProcessMain
    <3>2. QED
      BY <2>1, <3>1 DEF InPlace
  <2>4. QED
    BY <2>2, <2>3
<1>10. CASE Add
  BY <1>10, AddTyped DEF InPlace, Add, Further
<1>11. CASE Attach
  BY <1>11, AttachTyped, BackFacts DEF InPlace, Attach
<1>12. CASE Hang \/ \E args \in Arguments : RefuseConfig(args)
  <2>1. main'.in = main.in /\ main'.pc \in {"stuck", "dead"}
    BY <1>12, HangTyped, RefuseTyped
  <2>2. UNCHANGED <<todo, buffer>> /\ main.pc # "scan"
    BY <1>12 DEF Hang, Reloading, RefuseConfig
  <2>3. QED
    BY <2>1, <2>2 DEF InPlace
<1>13. QED
  BY <1>1, <1>2, <1>3, <1>4, <1>5, <1>6, <1>7, <1>8, <1>9, <1>10, <1>11, <1>12 DEF MainThread

\* No directory is removed while a file is in it, and no file made where there is no directory.
LEMMA NextHoused ==
  ASSUME WatcherTyped, Housed, [WatcherNext]_watcherVars
  PROVE  Housed'
<1>1. CASE UNCHANGED <<inode, content>>
  BY <1>1 DEF Housed
<1>2. ASSUME NEW f \in File, NEW c, Write(f, c) \/ Rename(f, c) PROVE Housed'
  <2>1. UNCHANGED inode /\ content' = [content EXCEPT ![f] = c] /\ Exists(Place[f])
    BY <1>2 DEF Write, Rename
  <2>2. QED
    BY <2>1, InHand, ExistsFacts DEF Housed
<1>3. ASSUME NEW f \in File, RemoveFile(f) PROVE Housed'
  BY <1>3, InHand DEF RemoveFile, Housed
<1>4. ASSUME NEW d \in Dir, NEW quiet, MakeDir(d, quiet) PROVE Housed'
  <2>1. inode' = [inode EXCEPT ![d] = NewInode] /\ content' = content /\ inode[d] = 0
    BY <1>4, ExistsFacts DEF MakeDir
  <2>2. QED
    BY <2>1, InHand DEF Housed
<1>5. ASSUME NEW d \in Dir, RemoveDir(d) PROVE Housed'
  <2>1. /\ inode' = [inode EXCEPT ![d] = 0] /\ content' = content
        /\ \A f \in File : Place[f] = d => content[f] = "none"
    BY <1>5, ExistsFacts DEF RemoveDir
  <2>2. QED
    BY <2>1, InHand DEF Housed
<1>6. CASE MainThread \/ Signal \/ UNCHANGED watcherVars
  BY <1>1, <1>6 DEF MainThread, Signal, PrepareOptions, RefuseConfig, Initialize, Construct, Visit,
     StartScan, OpenDir, Arm, While, Read, ProcessEvent, Add, Attach, Hang, worldVars, watcherVars
<1>7. QED
  BY <1>2, <1>3, <1>4, <1>5, <1>6 DEF WatcherNext, Edit

-----------------------------------------------------------------------------
\* A script that is due and of which nothing but the queues changes stays ahead or announced.
LEMMA StaysComing ==
  ASSUME Coming, ~Over, NEW f \in File, Due(f),
         UNCHANGED <<main, todo>>, Unread \subseteq Unread'
  PROVE  Ahead(f)' \/ Announced(f)'
BY DEF Coming, Ahead, At, Announced

\* The same for a script whose announcement only has to stay.
LEMMA StaysAnnounced ==
  ASSUME NEW f, Announced(f), Unread \subseteq Unread'
  PROVE  Announced(f)'
BY DEF Announced

\* A written file is ahead of the scan, or announced, or nobody could see it.
LEMMA WriteComing ==
  ASSUME WatcherTyped, Coming, NEW f \in File, NEW c \in {"plain"} \cup Script, Write(f, c)
  PROVE  Coming'
<1>1. PICK E : /\ Grown(events, events', E)
               /\ Watching(Place[f]) # {} => E # {}
               /\ \A e \in E : /\ (e.mask \in {"create", "modify"}) /\ e.name = f
  BY WriteEvents
<1>2. ~Over /\ UNCHANGED <<main, todo, buffer, loaded>>
  BY DEF Write, Mayhem, mainVars
<1>3. Unread \subseteq Unread'
  BY <1>1, <1>2 DEF Unread, Grown
<1>4. ASSUME NEW g \in File, Due(g)', g # f PROVE Ahead(g)' \/ Announced(g)'
  <2>1. Due(g)
    BY <1>2, <1>4, InHand DEF Due, Write
  <2>2. QED
    BY <1>2, <1>3, <2>1, StaysComing
<1>5. ASSUME Due(f)' PROVE Ahead(f)' \/ Announced(f)'
  <2>1. Ahead(f) \/ Watching(Place[f]) # {}
    BY <1>5 DEF Due, Write
  <2>2. CASE Ahead(f)
    BY <1>2, <2>2 DEF Ahead, At
  <2>3. CASE Watching(Place[f]) # {}
    <3>1. PICK e \in E : (e.mask \in {"create", "modify"}) /\ e.name = f
      BY <1>1, <2>3
    <3>2. e \in Unread' \/ Overflow \in Unread'
      BY <1>1 DEF Grown, Unread
    <3>3. QED
      BY <3>1, <3>2 DEF Announced
  <2>4. QED
    BY <2>1, <2>2, <2>3
<1>6. QED
  BY <1>4, <1>5 DEF Coming

\* A renamed file is seen only if the scan or an earlier event leads to it.
LEMMA RenameComing ==
  ASSUME WatcherTyped, Coming, NEW f \in File, NEW c \in {"plain"} \cup Script, Rename(f, c)
  PROVE  Coming'
<1>1. /\ ~Over /\ UNCHANGED <<main, todo, buffer, loaded, events>>
      /\ Unread' = Unread
  BY DEF Rename, Mayhem, mainVars, Unread
<1>2. ASSUME NEW g \in File, Due(g)', g # f PROVE Ahead(g)' \/ Announced(g)'
  <2>1. Due(g)
    BY <1>1, <1>2, InHand DEF Due, Rename
  <2>2. QED
    BY <1>1, <2>1, StaysComing
<1>3. ASSUME Due(f)' PROVE Ahead(f)' \/ Announced(f)'
  <2>1. Ahead(f) \/ \E e \in Unread : e.name = f
    BY <1>3 DEF Due, Rename
  <2>2. CASE Ahead(f)
    BY <1>1, <2>2 DEF Ahead, At
  <2>3. ASSUME NEW e \in Unread, e.name = f PROVE Announced(f)'
    <3>1. Sensible(e) /\ e.mask \in {"create", "modify", "delete", "ignored", "overflow"}
      <4>1. e \in Event
        BY SetOfSeq DEF WatcherTyped, QueuesTyped, Queue, Unread
      <4>2. QED
        BY <4>1 DEF WatcherTyped, QueuesTyped, Event
    <3>2. e.mask \notin {"delete", "ignored"}
      BY <2>3, <3>1, Constants DEF Sensible
    <3>3. QED
      BY <1>1, <2>3, <3>1, <3>2 DEF Sensible, Announced
  <2>4. QED
    BY <2>1, <2>2, <2>3
<1>4. QED
  BY <1>2, <1>3 DEF Coming

\* The other edits make no script due.
LEMMA OtherEditComing ==
  ASSUME WatcherTyped, Coming,
         \/ \E f \in File : RemoveFile(f)
         \/ \E d \in Dir, quiet \in BOOLEAN : MakeDir(d, quiet)
         \/ \E d \in Dir : RemoveDir(d)
  PROVE  Coming'
<1>1. ~Over /\ UNCHANGED <<main, todo, buffer, loaded, blind>>
  BY DEF RemoveFile, MakeDir, RemoveDir, Mayhem, mainVars
<1>2. Unread \subseteq Unread'
  <2>1. ASSUME NEW f \in File, RemoveFile(f) PROVE Unread' = Unread
    BY <1>1, <2>1 DEF RemoveFile, Unread
  <2>2. ASSUME NEW d \in Dir, NEW quiet \in BOOLEAN, MakeDir(d, quiet)
        PROVE  Unread \subseteq Unread'
    BY <1>1, <2>2, MakeDirEvents DEF Unread, Grown
  <2>3. ASSUME NEW d \in Dir, RemoveDir(d) PROVE Unread \subseteq Unread'
    BY <1>1, <2>3, RemoveDirEvents DEF Unread, Grown
  <2>4. QED
    BY <2>1, <2>2, <2>3
<1>3. ASSUME NEW g \in File, content'[g] \in Script PROVE content'[g] = content[g]
  <2>1. ASSUME NEW f \in File, RemoveFile(f) PROVE content'[g] = content[g]
    BY <1>3, <2>1, Constants, InHand DEF RemoveFile
  <2>2. QED
    BY <2>1 DEF MakeDir, RemoveDir
<1>4. ASSUME NEW g \in File, Due(g)' PROVE Ahead(g)' \/ Announced(g)'
  <2>1. Due(g)
    BY <1>1, <1>3, <1>4 DEF Due
  <2>2. QED
    BY <1>1, <1>2, <2>1, StaysComing
<1>5. QED
  BY <1>4 DEF Coming

\* A signal makes no script due.
LEMMA SignalComing ==
  ASSUME WatcherTyped, Coming, Signal
  PROVE  Coming'
<1>1. UNCHANGED <<todo, buffer, events, loaded, content, blind>> /\ Unread' = Unread
  BY DEF Signal, Unread
<1>2. main' = main \/ main'.pc \in {"dead", "stuck"}
  BY DEF Signal, WatcherTyped, MainTyped, MainState, Goto
<1>3. CASE main' = main
  <2>1. ASSUME NEW g \in File, Due(g)' PROVE Ahead(g)' \/ Announced(g)'
    <3>1. Due(g)
      BY <1>1, <2>1 DEF Due
    <3>2. ~Over
      BY DEF Signal
    <3>3. QED
      BY <1>1, <1>3, <3>1, <3>2, StaysComing
  <2>2. QED
    BY <2>1 DEF Coming
<1>4. QED
  BY <1>2, <1>3 DEF Coming, Over

\* The scan in the constructor has all still before it.
LEMMA ConstructorComing ==
  ASSUME main'.in = "constructor"
  PROVE  Coming'
BY DEF Coming, Ahead

\* The scan passes by no script that is due.
LEMMA VisitComing ==
  ASSUME WatcherTyped, InPlace, Housed, Coming, NEW p \in Dir \cup File, Visit(p)
  PROVE  Coming'
<1>1. /\ UNCHANGED <<content, loaded, blind, events, buffer>> /\ Unread' = Unread
      /\ main.pc = "scan" /\ main.in # "events" /\ main'.in = main.in /\ todo' = todo \ {p}
  BY VisitFacts DEF worldVars, InPlace, Unread
<1>2. CASE main.in = "constructor"
  BY <1>1, <1>2, ConstructorComing
<1>3. ASSUME main.in # "constructor", NEW f \in File, Due(f)' PROVE Ahead(f)' \/ Announced(f)'
  <2>1. Due(f) /\ (Ahead(f) \/ Announced(f))
    BY <1>1, <1>3 DEF Due, Coming, Over
  <2>2. main.in = "scan"
    BY <1>1, <1>3 DEF WatcherTyped, MainTyped, MainState
  <2>3. content[f] \in Script /\ content[f] # "none"
    BY <2>1, Constants DEF Due
  <2>4. CASE Announced(f)
    BY <1>1, <2>4, StaysAnnounced
  <2>5. CASE {f, Place[f]} \cap todo # {} /\ p \notin {f, Place[f]}
    BY <1>1, <2>5 DEF Ahead
  <2>6. CASE p = f
    <3>1. p \in File /\ p \notin Dir /\ content[p] \in Script
      BY <2>3, <2>6, Constants
    <3>2. main'.on = f /\ main'.pc = "attach"
      BY <2>6, <3>1, VisitFacts DEF Enters
    <3>3. QED
      BY <3>2 DEF Ahead, At
  <2>7. CASE p = Place[f] /\ p # f
    <3>1. p \in Dir /\ p \notin File
      BY <2>7, Constants
    <3>2. Exists(p)
      BY <2>3, <2>7, <3>1, ExistsFacts DEF Housed
    <3>3. Enters(p) /\ main'.on = Place[f] /\ main'.pc = "opendir"
      BY <2>2, <2>7, <3>1, <3>2, VisitFacts DEF Enters
    <3>4. QED
      BY <3>3 DEF Ahead, At
  <2>8. Ahead(f) => {f, Place[f]} \cap todo # {}
    BY <1>1, <1>3 DEF Ahead, At
  <2>9. QED
    BY <2>1, <2>4, <2>5, <2>6, <2>7, <2>8
<1>4. QED
  BY <1>2, <1>3 DEF Coming

\* At its start the scan has every script before it.
LEMMA StartScanComing ==
  ASSUME WatcherTyped, Housed, StartScan
  PROVE  Coming'
<1>1. UNCHANGED <<content, inode>>
  BY DEF StartScan, worldVars
<1>2. ASSUME NEW f \in File, Due(f)' PROVE Ahead(f)'
  <2>1. content[f] # "none" /\ Exists(f)
    BY <1>1, <1>2, Constants, ExistsFacts DEF Due
  <2>2. CASE Place[f] = Root
    <3>1. f \in todo'
      BY <2>1, <2>2 DEF StartScan
    <3>2. QED
      BY <3>1 DEF Ahead
  <2>3. CASE Place[f] # Root
    <3>1. Place[f] \in Dir /\ Exists(Place[f])
      BY <2>1, <2>3, Constants, ExistsFacts DEF Housed
    <3>2. Place[f] \in todo'
      BY <3>1 DEF StartScan
    <3>3. QED
      BY <3>2 DEF Ahead
  <2>4. QED
    BY <2>2, <2>3
<1>3. QED
  BY <1>2 DEF Coming

\* The files of a directory come into the scan when it is opened.
LEMMA OpenDirComing ==
  ASSUME WatcherTyped, InPlace, Coming, OpenDir
  PROVE  Coming'
<1>1. /\ UNCHANGED <<content, loaded, blind, events, buffer>> /\ Unread' = Unread
      /\ main.pc = "opendir" /\ main.in \in {"constructor", "scan"} /\ main'.in = main.in
  BY OpenDirTyped DEF OpenDir, worldVars, Unread, InPlace, WatcherTyped, MainTyped, MainState
<1>2. CASE main.in = "constructor"
  BY <1>1, <1>2, ConstructorComing
<1>3. main.in # "constructor" => todo' = todo \cup {f \in File : Place[f] = main.on /\ Exists(f)}
  BY DEF OpenDir
<1>4. ASSUME main.in # "constructor", NEW f \in File, Due(f)' PROVE Ahead(f)' \/ Announced(f)'
  <2>1. Due(f) /\ (Ahead(f) \/ Announced(f))
    BY <1>1, <1>4 DEF Due, Coming, Over
  <2>2. CASE Announced(f)
    BY <1>1, <2>2, StaysAnnounced
  <2>3. CASE {f, Place[f]} \cap todo # {}
    BY <1>3, <1>4, <2>3 DEF Ahead
  <2>4. CASE Place[f] = main.on
    <3>1. Exists(f)
      BY <2>1, Constants, ExistsFacts DEF Due
    <3>2. f \in todo'
      BY <1>3, <1>4, <2>4, <3>1
    <3>3. QED
      BY <3>2 DEF Ahead
  <2>5. QED
    BY <1>1, <1>4, <2>1, <2>2, <2>3, <2>4 DEF Ahead, At
<1>5. QED
  BY <1>2, <1>4 DEF Coming

\* When the scan is through, and between events, only announced scripts are due.
LEMMA AnnouncedComing ==
  ASSUME Coming, ~Over, main.in # "constructor", todo = {},
         main.pc \notin {"opendir", "attach"}, UNCHANGED <<content, loaded, blind>>,
         Unread \subseteq Unread'
  PROVE  Coming'
<1>1. ASSUME NEW f \in File, Due(f)' PROVE Announced(f)'
  <2>1. Due(f) /\ ~Ahead(f)
    BY <1>1 DEF Due, Ahead, At
  <2>2. QED
    BY <2>1 DEF Coming, Announced
<1>2. QED
  BY <1>1 DEF Coming

\* Between the scan and the events, and between events, nothing is lost.
LEMMA LoopComing ==
  ASSUME InPlace, Coming, Arm \/ While \/ Read
  PROVE  Coming'
<1>1. /\ main.pc \in {"scan", "loop", "read"} /\ main.in # "constructor" /\ todo = {}
      /\ UNCHANGED <<content, loaded, blind>>
  BY DEF Arm, While, Read, InPlace, worldVars
<1>2. Unread \subseteq Unread'
  <2>1. CASE Arm \/ While
    BY <2>1 DEF Arm, While, worldVars, Unread
  <2>2. CASE Read
    BY <2>2 DEF Read, InPlace, Unread, ToSet
  <2>3. QED
    BY <2>1, <2>2
<1>3. QED
  BY <1>1, <1>2, AnnouncedComing DEF Over

\* An event that announces a script makes the program attach it, or kills it.
LEMMA ProcessComing ==
  ASSUME WatcherTyped, InPlace, Coming, ProcessEvent
  PROVE  Coming'
<1>1. /\ main.pc = "process" /\ main.in = "events" /\ todo = {}
      /\ UNCHANGED <<content, loaded, blind>>
  BY DEF ProcessEvent, InPlace
<1>2. CASE buffer = <<>>
  <2>1. Unread' = Unread
    BY <1>2, EmptyBuffer DEF Unread
  <2>2. QED
    BY <1>1, <2>1, AnnouncedComing DEF Over
<1>3. CASE buffer # <<>>
  <2> DEFINE e == Head(buffer)
  <2>1. Unread \subseteq {e} \cup Unread'
    <3>1. ToSet(buffer) = {e} \cup ToSet(buffer')
      BY <1>3, NextEvent
    <3>2. ToSet(events) \subseteq ToSet(events')
      BY <1>3, ProcessWatches DEF Grown
    <3>3. QED
      BY <3>1, <3>2 DEF Unread
  <2>2. ASSUME NEW f \in File, Due(f)', main'.pc # "dead" PROVE Ahead(f)' \/ Announced(f)'
    <3>1. Due(f) /\ ~Ahead(f)
      BY <1>1, <2>2 DEF Due, Ahead, At
    <3>2. PICK x \in Unread : (x.mask \in {"create", "modify"} /\ x.name = f) \/ x = Overflow
      BY <1>1, <3>1 DEF Coming, Announced, Over
    <3>3. CASE x \in Unread'
      BY <3>2, <3>3 DEF Announced
    <3>4. CASE x = e
      <4>1. e.wd \in DOMAIN directory
        BY <1>3, <2>2, ProcessMain
      <4>2. e.wd # 0
        BY <4>1, WatchFacts DEF WatcherTyped, WatchesTyped
      <4>3. e.mask \in {"create", "modify"} /\ e.name = f
        BY <3>2, <3>4, <4>2 DEF Overflow
      <4>4. content[f] \in Script /\ f \notin Dir
        BY <3>1, Constants DEF Due
      <4>5. main'.pc = "attach" /\ main'.on = f
        BY <1>3, <4>1, <4>3, <4>4, <2>2, ProcessMain
      <4>6. QED
        BY <4>5 DEF Ahead, At
    <3>5. QED
      BY <2>1, <3>2, <3>3, <3>4
  <2>3. QED
    BY <2>2 DEF Coming, Over
<1>4. QED
  BY <1>2, <1>3

\* A directory that is watched costs no announcement.
LEMMA AddComing ==
  ASSUME WatcherTyped, Coming, Add
  PROVE  Coming'
<1>1. /\ UNCHANGED <<content, loaded, blind, events, buffer, todo>> /\ Unread' = Unread
      /\ main.pc = "add" /\ main'.in = main.in
  BY AddTyped DEF Add, Unread
<1>2. ASSUME NEW f \in File, Due(f)' PROVE Ahead(f)' \/ Announced(f)'
  <2>1. Due(f) /\ (Ahead(f) \/ Announced(f))
    BY <1>1, <1>2 DEF Due, Coming, Over
  <2>2. Ahead(f) => Ahead(f)'
    BY <1>1 DEF Ahead, At
  <2>3. QED
    BY <1>1, <2>1, <2>2, StaysAnnounced
<1>3. QED
  BY <1>2 DEF Coming

\* A script that is attached is no longer due.
LEMMA AttachComing ==
  ASSUME WatcherTyped, Coming, Attach
  PROVE  Coming'
<1>1. /\ UNCHANGED <<content, blind, events, buffer, todo>> /\ Unread' = Unread
      /\ main.pc = "attach" /\ main'.in = main.in /\ main.on \in File
      /\ main'.pc = IF Exists(main.on) THEN Back ELSE "dead"
  BY AttachTyped, InHand DEF Attach, worldVars, Unread
<1>2. ASSUME main'.pc # "dead", NEW f \in File, Due(f)' PROVE Ahead(f)' \/ Announced(f)'
  <2>1. loaded' = [loaded EXCEPT ![main.on] = content[main.on]]
    BY <1>1, <1>2 DEF Attach
  <2>2. loaded \in [File -> {"none", "plain"} \cup Script]
    BY DEF WatcherTyped, FilesTyped
  <2>3. f # main.on
    BY <1>1, <1>2, <2>1, <2>2 DEF Due
  <2>4. Due(f)
    BY <1>1, <1>2, <2>1, <2>2, <2>3 DEF Due
  <2>5. Ahead(f) \/ Announced(f)
    BY <1>1, <2>4 DEF Coming, Over
  <2>6. Ahead(f) => Ahead(f)'
    BY <1>1, <2>3 DEF Ahead, At
  <2>7. QED
    BY <1>1, <2>5, <2>6, StaysAnnounced
<1>3. QED
  BY <1>2 DEF Coming, Over

\* Nothing matters any more to a main thread that has ended or waits for ever.
LEMMA EndComing ==
  ASSUME WatcherTyped, Hang \/ \E args \in Arguments : RefuseConfig(args)
  PROVE  Coming'
BY HangTyped, RefuseTyped DEF Coming, Over

\* Before the scan all is ahead of it.
LEMMA StartComing ==
  ASSUME WatcherTyped, InPlace,
         (\E args \in Arguments : PrepareOptions(args)) \/ Initialize \/ Construct
  PROVE  Coming'
<1>1. main.in = "constructor"
  BY DEF InPlace, PrepareOptions, Initialize, Construct
<1>2. main'.in = main.in
  BY StartTyped, ConstructTyped
<1>3. QED
  BY <1>1, <1>2, ConstructorComing

\* When the watcher rests, every script file is loaded as it is, except one that was last changed
\* by a rename or in a directory before it was watched: the watches are set before the scan, the
\* scan reads what was there before, and no event is lost without a mark that kills the program
\* (CFileWatcher, its constructor, watch, processEvent).
THEOREM EveryScriptIsSeen == WatcherSpec => []NothingMissed
<1>1. WatcherInit => SeenInv
  <2> SUFFICES ASSUME WatcherInit PROVE SeenInv
    OBVIOUS
  <2>1. main.pc = "options" /\ main.in = "constructor" /\ buffer = <<>>
    BY DEF WatcherInit
  <2>2. InPlace
    BY <2>1 DEF InPlace
  <2>3. Housed
    BY InitTyped, ExistsFacts, Constants DEF WatcherInit, Housed
  <2>4. Coming
    BY <2>1 DEF Coming, Ahead
  <2>5. QED
    BY <2>2, <2>3, <2>4, InitTyped DEF SeenInv
<1>2. SeenInv /\ [WatcherNext]_watcherVars => SeenInv'
  <2> SUFFICES ASSUME SeenInv, [WatcherNext]_watcherVars PROVE SeenInv'
    OBVIOUS
  <2>1. WatcherTyped /\ InPlace /\ Housed /\ Coming /\ WatcherTyped' /\ Housed'
    BY NextTyped, NextHoused DEF SeenInv
  <2>2. CASE UNCHANGED watcherVars
    BY <2>1, <2>2
       DEF watcherVars, SeenInv, InPlace, Coming, Over, Due, Ahead, At, Announced, Unread
  <2>3. CASE MainThread
    BY <2>1, <2>3, MainInPlace, StartComing, VisitComing, StartScanComing, OpenDirComing,
       LoopComing, ProcessComing, AddComing, AttachComing, EndComing DEF MainThread, SeenInv
  <2>4. CASE Edit
    <3>1. InPlace'
      BY <2>1, <2>4, EditLeavesMain, EditInPlace DEF mainVars
    <3>2. Coming'
      BY <2>1, <2>4, WriteComing, RenameComing, OtherEditComing DEF Edit
    <3>3. QED
      BY <2>1, <3>1, <3>2 DEF SeenInv
  <2>5. CASE Signal
    BY <2>1, <2>5, SignalInPlace, SignalComing DEF SeenInv
  <2>6. QED
    BY <2>2, <2>3, <2>4, <2>5 DEF WatcherNext
<1>3. SeenInv => NothingMissed
  <2> SUFFICES ASSUME SeenInv, main.pc = "loop", events = <<>>, NEW f \in File \ blind,
                      content[f] \in Script
               PROVE  loaded[f] = content[f]
    BY DEF NothingMissed
  <2>1. main.in = "events" /\ todo = {} /\ buffer = <<>>
    BY DEF SeenInv, InPlace
  <2>2. ~Ahead(f)
    BY <2>1 DEF Ahead, At
  <2>3. ~Announced(f)
    BY <2>1 DEF Announced, Unread, ToSet
  <2>4. ~Over
    BY DEF Over
  <2>5. QED
    BY <2>2, <2>3, <2>4 DEF SeenInv, Coming, Due
<1>4. QED
  BY <1>1, <1>2, <1>3, PTL DEF WatcherSpec

-----------------------------------------------------------------------------
\* Steps of the main thread until it has ended, once a signal has come: what is in the buffer is
\* still processed, and one more read may fill it.
Distance ==
  CASE main.pc = "loop" -> 1
    [] main.pc = "process" -> 2 * Len(buffer) + 2
    [] main.pc \in {"add", "attach"} -> 2 * Len(buffer) + 3
    [] main.pc = "read" -> 2 * KernelQueue + 5
    [] OTHER -> 0

\* A signal that came in the loop is never forgotten, and whatever somebody edits meanwhile, each
\* step of the main thread brings it nearer to its end, or it hangs: after at most
\* 2 * KernelQueue + 5 of them it has none left (CFileWatcher::stop, watch).
StopComesNearer ==
  [][heard => heard' /\ (UNCHANGED <<main, buffer>> \/ Distance' < Distance)]_watcherVars

\* A signal that came in the loop has told the watcher to stop.
Told == heard => main.in = "events" /\ ~watching

StopInv == WatcherTyped /\ InPlace /\ Told

\* Every step keeps the main thread in its place.
LEMMA NextInPlace ==
  ASSUME WatcherTyped, InPlace, [WatcherNext]_watcherVars
  PROVE  InPlace'
<1>1. CASE UNCHANGED watcherVars
  BY <1>1 DEF watcherVars, InPlace
<1>2. CASE Edit
  BY <1>2, EditLeavesMain, EditInPlace DEF mainVars
<1>3. QED
  BY <1>1, <1>2, MainInPlace, SignalInPlace DEF WatcherNext

\* Only the end of the scan arms the watcher, and then no signal has come in the loop.
LEMMA NextTold ==
  ASSUME StopInv, [WatcherNext]_watcherVars
  PROVE  Told'
<1>1. CASE UNCHANGED watcherVars
  BY <1>1 DEF watcherVars, StopInv, Told
<1>2. CASE Edit
  BY <1>2, EditLeavesMain DEF mainVars, StopInv, Told
<1>3. CASE Signal
  <2>1. main.in # "constructor" \/ main.pc = "wait" \/ heard' = heard
    BY <1>3 DEF Signal
  <2>2. main'.in = main.in
    BY <1>3 DEF Signal, Goto, StopInv, WatcherTyped, MainTyped, MainState
  <2>3. heard' => heard \/ main.in = "events"
    BY <1>3 DEF Signal
  <2>4. QED
    BY <1>3, <2>2, <2>3 DEF Signal, StopInv, Told
<1>4. CASE Arm
  <2>1. main.in = "scan" /\ heard' = heard
    BY <1>4 DEF Arm, worldVars
  <2>2. QED
    BY <2>1 DEF StopInv, Told
<1>5. CASE StartScan
  <2>1. main.in = "constructor" /\ heard' = heard
    BY <1>5 DEF StartScan, worldVars
  <2>2. QED
    BY <2>1 DEF StopInv, Told
<1>6. ASSUME NEW p \in Dir \cup File, Visit(p) PROVE Told'
  BY <1>6, VisitFacts DEF worldVars, StopInv, Told
<1>7. CASE (\E args \in Arguments : PrepareOptions(args)) \/ Initialize
  <2>1. UNCHANGED <<heard, watching>>
    BY <1>7 DEF PrepareOptions, Initialize, worldVars
  <2>2. main'.in = main.in
    BY <1>7, StartTyped DEF StopInv
  <2>3. QED
    BY <2>1, <2>2 DEF StopInv, Told
<1>8. CASE Construct
  BY <1>8, ConstructTyped DEF Construct, StopInv, Told
<1>9. CASE OpenDir
  BY <1>9, OpenDirTyped DEF OpenDir, worldVars, StopInv, Told
<1>10. CASE While
  BY <1>10, WhileTyped DEF While, worldVars, StopInv, Told
<1>11. CASE Read
  BY <1>11, ReadTyped DEF Read, StopInv, Told
<1>12. CASE ProcessEvent
  <2>1. main'.in = main.in
    BY <1>12, EmptyBuffer, ProcessMain DEF StopInv
  <2>2. QED
    BY <1>12, <2>1 DEF ProcessEvent, StopInv, Told
<1>13. CASE Add
  BY <1>13, AddTyped DEF Add, StopInv, Told
<1>14. CASE Attach
  BY <1>14, AttachTyped DEF Attach, worldVars, StopInv, Told
<1>15. CASE Hang \/ \E args \in Arguments : RefuseConfig(args)
  <2>1. UNCHANGED <<heard, watching>>
    BY <1>15 DEF Hang, RefuseConfig, worldVars
  <2>2. main'.in = main.in
    BY <1>15, HangTyped, RefuseTyped DEF StopInv
  <2>3. QED
    BY <2>1, <2>2 DEF StopInv, Told
<1>16. QED
  BY <1>1, <1>2, <1>3, <1>4, <1>5, <1>6, <1>7, <1>8, <1>9, <1>10, <1>11, <1>12, <1>13, <1>14, <1>15
     DEF WatcherNext, MainThread

\* The head of the buffer is taken from it.
LEMMA BufferShrinks ==
  ASSUME StopInv, ProcessEvent, buffer # <<>>
  PROVE  Len(buffer) \in Nat /\ Len(buffer') \in Nat /\ Len(buffer') = Len(buffer) - 1
<1>1. buffer \in Seq(Event) /\ buffer' = Tail(buffer)
  BY NextEvent DEF StopInv, WatcherTyped, QueuesTyped
<1>2. QED
  BY <1>1

\* A step of the main thread after a signal in the loop.
LEMMA MainComesNearer ==
  ASSUME StopInv, heard, MainThread
  PROVE  heard' /\ Distance' < Distance
<1>1. /\ main.in = "events" /\ ~watching /\ WatcherTyped
      /\ Len(buffer) \in Nat /\ KernelQueue \in Nat
  BY WatcherAssumption DEF StopInv, Told, WatcherTyped, QueuesTyped
<1>2. main.pc \notin {"options", "wait", "construct", "scan", "opendir"}
  BY <1>1 DEF StopInv, InPlace
<1>3. While \/ Read \/ ProcessEvent \/ Add \/ Attach \/ Hang
  BY <1>1, <1>2 DEF MainThread, PrepareOptions, RefuseConfig, Visit, Initialize, Construct,
                    StartScan, OpenDir, Arm
<1>4. CASE While
  <2>1. main.pc = "loop" /\ heard' = heard /\ main' = [main EXCEPT !.pc = "done"]
    BY <1>1, <1>4 DEF While, Goto, worldVars
  <2>2. main'.pc = "done"
    BY <1>1, <2>1 DEF WatcherTyped, MainTyped, MainState
  <2>3. QED
    BY <2>1, <2>2 DEF Distance
<1>5. CASE Read
  <2>1. /\ main.pc = "read" /\ heard' = heard /\ buffer' = events
        /\ main'.pc = IF events = <<>> THEN "loop" ELSE "process"
    BY <1>1, <1>5, ReadTyped DEF Read
  <2>2. Len(buffer') \in Nat /\ Len(buffer') <= KernelQueue + 1
    BY <1>1, <2>1 DEF WatcherTyped, QueuesTyped, Queue
  <2>3. Distance = 2 * KernelQueue + 5
    BY <2>1 DEF Distance
  <2>4. Distance' = 1 \/ Distance' = 2 * Len(buffer') + 2
    BY <2>1 DEF Distance
  <2>5. QED
    BY <1>1, <2>1, <2>2, <2>3, <2>4
<1>6. CASE ProcessEvent
  <2>1. main.pc = "process" /\ heard' = heard
    BY <1>6 DEF ProcessEvent
  <2>2. Distance = 2 * Len(buffer) + 2
    BY <2>1 DEF Distance
  <2>3. CASE buffer = <<>>
    <3>1. main'.pc = "loop"
      BY <1>1, <1>6, <2>3, EmptyBuffer
    <3>2. Distance' = 1
      BY <3>1 DEF Distance
    <3>3. QED
      BY <1>1, <2>1, <2>2, <3>2
  <2>4. CASE buffer # <<>>
    <3>1. main'.pc \in {"dead", "attach", "add", "process"}
      BY <1>1, <1>6, <2>1, <2>4, ProcessMain
    <3>2. Len(buffer') \in Nat /\ Len(buffer') = Len(buffer) - 1
      BY <1>6, <2>4, BufferShrinks
    <3>3. Distance' \in {0, 2 * Len(buffer') + 2, 2 * Len(buffer') + 3}
      BY <3>1 DEF Distance
    <3>4. QED
      BY <1>1, <2>1, <2>2, <3>2, <3>3
  <2>5. QED
    BY <2>3, <2>4
<1>7. CASE Add \/ Attach
  <2>1. main.pc \in {"add", "attach"} /\ heard' = heard /\ buffer' = buffer
    BY <1>7 DEF Add, Attach, worldVars
  <2>2. main'.pc \in {"process", "dead"}
    BY <1>1, <1>7, AddTyped, AttachTyped, BackFacts DEF Further
  <2>3. Distance = 2 * Len(buffer) + 3
    BY <2>1 DEF Distance
  <2>4. Distance' \in {0, 2 * Len(buffer) + 2}
    BY <2>1, <2>2 DEF Distance
  <2>5. QED
    BY <1>1, <2>1, <2>3, <2>4
<1>8. CASE Hang
  <2>1. main.pc = "attach" /\ main'.pc = "stuck" /\ heard' = heard
    BY <1>1, <1>8, HangTyped DEF worldVars
  <2>2. Distance = 2 * Len(buffer) + 3 /\ Distance' = 0
    BY <2>1 DEF Distance
  <2>3. QED
    BY <1>1, <2>1, <2>2
<1>9. QED
  BY <1>3, <1>4, <1>5, <1>6, <1>7, <1>8

\* A signal that came in the loop is never forgotten, and whatever somebody edits meanwhile, each
\* step of the main thread brings it nearer to its end, or it hangs in the destructor of a script:
\* what is left of StopIsTaken is that the main thread is run (CFileWatcher::stop, watch).
THEOREM StopIsNear == WatcherSpec => StopComesNearer
<1>1. WatcherInit => StopInv
  <2> SUFFICES ASSUME WatcherInit PROVE StopInv
    OBVIOUS
  <2>1. main.pc = "options" /\ main.in = "constructor" /\ buffer = <<>> /\ ~heard
    BY DEF WatcherInit
  <2>2. QED
    BY <2>1, InitTyped DEF StopInv, InPlace, Told
<1>2. StopInv /\ [WatcherNext]_watcherVars => StopInv'
  BY NextTyped, NextInPlace, NextTold DEF StopInv
<1>3. StopInv /\ [WatcherNext]_watcherVars
        => [heard => heard' /\ (UNCHANGED <<main, buffer>> \/ Distance' < Distance)]_watcherVars
  <2> SUFFICES ASSUME StopInv, WatcherNext, heard
               PROVE  heard' /\ (UNCHANGED <<main, buffer>> \/ Distance' < Distance)
    OBVIOUS
  <2>1. CASE Edit
    BY <2>1, EditLeavesMain DEF mainVars
  <2>2. CASE Signal
    <3>1. main.in = "events"
      BY DEF StopInv, Told
    <3>2. UNCHANGED buffer /\ heard'
      BY <2>2, <3>1 DEF Signal
    <3>3. main' = main \/ (main.pc = "attach" /\ main'.pc = "stuck")
      BY <2>2, <3>1 DEF Signal, Reloading, Goto, StopInv, WatcherTyped, MainTyped, MainState
    <3>4. CASE main.pc = "attach" /\ main'.pc = "stuck"
      <4>1. Len(buffer) \in Nat
        BY DEF StopInv, WatcherTyped, QueuesTyped
      <4>2. Distance = 2 * Len(buffer) + 3 /\ Distance' = 0
        BY <3>4 DEF Distance
      <4>3. QED
        BY <3>2, <4>1, <4>2
    <3>5. QED
      BY <3>2, <3>3, <3>4
  <2>3. QED
    BY <2>1, <2>2, MainComesNearer DEF WatcherNext
<1>4. QED
  BY <1>1, <1>2, <1>3, PTL DEF WatcherSpec, StopComesNearer

-----------------------------------------------------------------------------
(***************************************************************************)
(* The MQTT clients of scripts.                                            *)
(***************************************************************************)

\* The places of a call at which it has a client.
Holding == {"unsubscribe", "subscribe", "insert", "inserting"}

\* The closer has taken a client off the list and has it in its hands.
Taken == closer.pc \in {"callback", "disconnect"}

\* The clients of this script are being closed.
Closing(s) == closer.pc # "idle" /\ closer.on = s

\* The thread of the script is in a call for this method.
Serving(k) == caller[k[1]].pc # "idle" /\ caller[k[1]].key = k

\* A call, and the closer, when n clients have been made.
CallState(n) ==
  [pc : {"idle", "unsubscribe", "connect", "subscribe", "insert", "inserting"},
   key : Key, topic : Topic, with : 0..n, new : BOOLEAN]

CloserState(n) ==
  [pc : {"idle", "next", "callback", "disconnect"}, on : ScriptName, with : 0..n]

\* Numbers stand for clients that have been made, and for the one that was meant.
Named ==
  /\ \A k \in Key : listed[k] # 0 => client[listed[k]].key = k
  /\ \A s \in ScriptName :
       /\ caller[s].key[1] = s
       /\ caller[s].pc \in Holding =>
            caller[s].with # 0 /\ client[caller[s].with].key = caller[s].key
  /\ Taken => closer.with # 0 /\ client[closer.with].key[1] = closer.on

ClientsTyped ==
  /\ client \in Seq(Client)
  /\ listed \in [Key -> 0..Len(client)]
  /\ caller \in [ScriptName -> CallState(Len(client))]
  /\ closer \in CloserState(Len(client))
  /\ present \subseteq ScriptName
  /\ wanted \in [Key -> Topic \cup {"none"}]
  /\ calls \in Nat /\ cub \in BOOLEAN /\ ccalm \in BOOLEAN
  /\ Named

-----------------------------------------------------------------------------
\* Who is in the list is there for its script, with the topic of its last call unless a call is
\* under way.
Listed(k) ==
  /\ listed[k] # 0 => /\ client[listed[k]].connected /\ client[listed[k]].callback
                      /\ k[1] \in present
  /\ listed[k] # 0 /\ ~Serving(k) =>
       client[listed[k]].topic = wanted[k] /\ client[listed[k]].heard = {wanted[k]}
  /\ listed[k] = 0 /\ ~Serving(k) /\ ~Closing(k[1]) => wanted[k] = "none"

\* A call under way.
Called(s) ==
  LET c == client[caller[s].with]
      k == caller[s].key
  IN  /\ s \in present /\ ~Closing(s)
      /\ wanted[k] = caller[s].topic
      /\ caller[s].new => listed[k] = 0
      /\ ~caller[s].new => listed[k] # 0 /\ caller[s].with = listed[k]
      /\ caller[s].pc \in {"connect", "insert", "inserting"} => caller[s].new
      /\ caller[s].pc \in Holding => c.connected /\ c.callback
      /\ caller[s].pc = "unsubscribe" =>
           ~caller[s].new /\ c.heard = {c.topic} /\ c.topic # caller[s].topic
      /\ caller[s].pc \in {"subscribe", "insert", "inserting"} => c.topic = caller[s].topic
      /\ caller[s].pc = "subscribe" => c.heard = {}
      /\ caller[s].pc \in {"insert", "inserting"} => c.heard = {c.topic}

\* A client that is connected is in the list or in somebody's hands.
Kept(c) ==
  LET s == client[c].key[1]
  IN  client[c].connected =>
        \/ listed[client[c].key] = c
        \/ caller[s].pc \in Holding /\ caller[s].with = c
        \/ Taken /\ closer.with = c

Closed ==
  /\ closer.pc # "idle" => closer.on \in present
  /\ Taken => listed[client[closer.with].key] = 0 /\ client[closer.with].connected
  /\ closer.pc = "callback" => client[closer.with].callback

OneInserts ==
  \A s, t \in ScriptName : caller[s].pc = "inserting" /\ caller[t].pc = "inserting" => s = t

AllListed == \A k \in Key : Listed(k)

AllCalled == \A s \in ScriptName : caller[s].pc # "idle" => Called(s)

AllKept == \A c \in 1..Len(client) : Kept(c)

CalmParts == ~cub /\ OneInserts /\ AllListed /\ AllCalled /\ AllKept /\ Closed

ClientsCalm == ccalm => CalmParts

-----------------------------------------------------------------------------
(***************************************************************************)
(* The data.                                                               *)
(***************************************************************************)

\* Clients are numbered from 1 on.
LEMMA ClientFacts ==
  ASSUME ClientsTyped
  PROVE  /\ Len(client) \in Nat /\ DOMAIN client = 1..Len(client)
         /\ \A c \in 1..Len(client) : client[c] \in Client
BY DEF ClientsTyped

\* One more client.
LEMMA ClientAdded ==
  ASSUME ClientsTyped, NEW r \in Client, client' = Append(client, r)
  PROVE  /\ client' \in Seq(Client) /\ Len(client') = Len(client) + 1
         /\ client'[Len(client) + 1] = r
         /\ \A c \in 1..Len(client) : client'[c] = client[c]
BY DEF ClientsTyped

\* One client changes.
LEMMA ClientChanged ==
  ASSUME ClientsTyped, NEW c \in 1..Len(client), NEW r \in Client,
         client' = [client EXCEPT ![c] = r]
  PROVE  /\ client' \in Seq(Client) /\ Len(client') = Len(client)
         /\ client'[c] = r
         /\ \A d \in 1..Len(client) : d # c => client'[d] = client[d]
BY DEF ClientsTyped

\* One script's call changes.
LEMMA CallerChanged ==
  ASSUME ClientsTyped, NEW s \in ScriptName, NEW r, caller' = [caller EXCEPT ![s] = r]
  PROVE  /\ caller'[s] = r
         /\ \A t \in ScriptName : t # s => caller'[t] = caller[t]
         /\ r \in CallState(Len(client)) => caller' \in [ScriptName -> CallState(Len(client))]
BY DEF ClientsTyped

\* A script goes on in its call.
LEMMA StepsFacts ==
  ASSUME ClientsTyped, NEW s \in ScriptName,
         NEW pc \in {"idle", "unsubscribe", "connect", "subscribe", "insert", "inserting"},
         Steps(s, pc)
  PROVE  /\ caller' \in [ScriptName -> CallState(Len(client))]
         /\ caller'[s] = [caller[s] EXCEPT !.pc = pc]
         /\ caller'[s].pc = pc
         /\ caller'[s].key = caller[s].key /\ caller'[s].topic = caller[s].topic
         /\ caller'[s].with = caller[s].with /\ caller'[s].new = caller[s].new
         /\ \A t \in ScriptName : t # s => caller'[t] = caller[t]
<1>1. caller[s] \in CallState(Len(client))
  BY DEF ClientsTyped
<1>2. [caller[s] EXCEPT !.pc = pc] \in CallState(Len(client))
  BY <1>1 DEF CallState
<1>3. caller' = [caller EXCEPT ![s] = [caller[s] EXCEPT !.pc = pc]]
  BY DEF Steps, ClientsTyped
<1>4. QED
  BY <1>1, <1>2, <1>3, CallerChanged DEF CallState

\* The other changes of clients: their types, and what they leave alone.
LEMMA RetargetFacts ==
  ASSUME ClientsTyped, NEW c \in 1..Len(client), NEW t \in Topic, client' = Retarget(c, t)
  PROVE  /\ client' \in Seq(Client) /\ Len(client') = Len(client)
         /\ client'[c].heard = client[c].heard \ {client[c].topic}
         /\ client'[c].topic = t /\ client'[c].key = client[c].key
         /\ client'[c].connected = client[c].connected
         /\ client'[c].callback = client[c].callback
         /\ \A d \in 1..Len(client) : d # c => client'[d] = client[d]
<1> DEFINE r == [client[c] EXCEPT !.heard = client[c].heard \ {client[c].topic}, !.topic = t]
<1>1. client[c] \in Client
  BY ClientFacts
<1>2. r \in Client
  BY <1>1 DEF Client
<1>3. client' = [client EXCEPT ![c] = r]
  BY ClientFacts DEF Retarget
<1>4. r.heard = client[c].heard \ {client[c].topic} /\ r.topic = t /\ r.key = client[c].key
      /\ r.connected = client[c].connected /\ r.callback = client[c].callback
  BY <1>1 DEF Client
<1> HIDE DEF r
<1>5. QED
  BY <1>2, <1>3, <1>4, ClientChanged

\* A client whose subscription is acknowledged.
LEMMA AcknowledgedFacts ==
  ASSUME ClientsTyped, NEW c \in 1..Len(client), NEW t \in Topic,
         client' = [client EXCEPT ![c].heard = @ \cup {t}]
  PROVE  /\ client' \in Seq(Client) /\ Len(client') = Len(client)
         /\ client'[c].heard = client[c].heard \cup {t}
         /\ client'[c].topic = client[c].topic /\ client'[c].key = client[c].key
         /\ client'[c].connected = client[c].connected
         /\ client'[c].callback = client[c].callback
         /\ \A d \in 1..Len(client) : d # c => client'[d] = client[d]
<1> DEFINE r == [client[c] EXCEPT !.heard = client[c].heard \cup {t}]
<1>1. client[c] \in Client
  BY ClientFacts
<1>2. r \in Client
  BY <1>1 DEF Client
<1>3. client' = [client EXCEPT ![c] = r]
  BY ClientFacts
<1>4. r.heard = client[c].heard \cup {t} /\ r.topic = client[c].topic
      /\ r.key = client[c].key /\ r.connected = client[c].connected
      /\ r.callback = client[c].callback
  BY <1>1 DEF Client
<1> HIDE DEF r
<1>5. QED
  BY <1>2, <1>3, <1>4, ClientChanged

\* A client whose callback is deleted.
LEMMA DeleteFacts ==
  ASSUME ClientsTyped, NEW c \in 1..Len(client),
         client' = [client EXCEPT ![c].callback = FALSE]
  PROVE  /\ client' \in Seq(Client) /\ Len(client') = Len(client)
         /\ client'[c].heard = client[c].heard
         /\ client'[c].topic = client[c].topic /\ client'[c].key = client[c].key
         /\ client'[c].connected = client[c].connected
         /\ \A d \in 1..Len(client) : d # c => client'[d] = client[d]
<1> DEFINE r == [client[c] EXCEPT !.callback = FALSE]
<1>1. client[c] \in Client
  BY ClientFacts
<1>2. r \in Client
  BY <1>1 DEF Client
<1>3. client' = [client EXCEPT ![c] = r]
  BY ClientFacts
<1>4. r.heard = client[c].heard /\ r.topic = client[c].topic /\ r.key = client[c].key
      /\ r.connected = client[c].connected
  BY <1>1 DEF Client
<1> HIDE DEF r
<1>5. QED
  BY <1>2, <1>3, <1>4, ClientChanged

\* A client that disconnects.
LEMMA DisconnectFacts ==
  ASSUME ClientsTyped, NEW c \in 1..Len(client),
         client' = [client EXCEPT ![c].connected = FALSE, ![c].heard = {}]
  PROVE  /\ client' \in Seq(Client) /\ Len(client') = Len(client)
         /\ client'[c].key = client[c].key /\ ~client'[c].connected
         /\ \A d \in 1..Len(client) : d # c => client'[d] = client[d]
<1> DEFINE r == [client[c] EXCEPT !.connected = FALSE, !.heard = {}]
<1>1. client[c] \in Client
  BY ClientFacts
<1>2. r \in Client
  BY <1>1 DEF Client
<1>3. client' = [client EXCEPT ![c] = r]
  BY ClientFacts
<1>4. r.key = client[c].key /\ ~r.connected
  BY <1>1 DEF Client
<1> HIDE DEF r
<1>5. QED
  BY <1>2, <1>3, <1>4, ClientChanged

-----------------------------------------------------------------------------
(***************************************************************************)
(* Types.                                                                  *)
(***************************************************************************)
LEMMA InitClientsTyped == ClientsInit => ClientsTyped
<1> SUFFICES ASSUME ClientsInit PROVE ClientsTyped
  OBVIOUS
<1>1. PICK m \in Method : m = CHOOSE x \in Method : TRUE
  BY ScriptClientsAssumption
<1>2. PICK t \in Topic : t = CHOOSE x \in Topic : TRUE
  BY ScriptClientsAssumption
<1>3. PICK o \in ScriptName : o = CHOOSE x \in ScriptName : TRUE
  BY ScriptClientsAssumption
<1>4. client = <<>> /\ client \in Seq(Client) /\ Len(client) = 0
  BY DEF ClientsInit
<1>5. \A s \in ScriptName :
        caller[s] = [pc |-> "idle", key |-> <<s, m>>, topic |-> t, with |-> 0, new |-> FALSE]
  BY <1>1, <1>2 DEF ClientsInit
<1>6. \A s \in ScriptName : <<s, m>> \in Key /\ <<s, m>>[1] = s
  BY DEF Key
<1>7. ASSUME NEW s \in ScriptName
      PROVE  caller[s] \in CallState(Len(client)) /\ caller[s].pc = "idle" /\ caller[s].key[1] = s
  <2>1. PICK k \in Key : k = <<s, m>> /\ k[1] = s
    BY <1>6
  <2>2. caller[s] = [pc |-> "idle", key |-> k, topic |-> t, with |-> 0, new |-> FALSE]
    BY <1>5, <2>1
  <2>3. QED
    BY <1>4, <2>1, <2>2 DEF CallState
<1>8. caller \in [ScriptName -> CallState(Len(client))]
  BY <1>7 DEF ClientsInit
<1>9. closer = [pc |-> "idle", on |-> o, with |-> 0]
  BY <1>3 DEF ClientsInit
<1>10. closer \in CloserState(Len(client))
  BY <1>4, <1>9 DEF CloserState
<1>11. listed \in [Key -> 0..Len(client)] /\ wanted \in [Key -> Topic \cup {"none"}]
       /\ \A k \in Key : listed[k] = 0
  BY <1>4 DEF ClientsInit
<1>12. Named
  BY <1>7, <1>9, <1>11 DEF Named, Taken, Holding
<1>13. present \subseteq ScriptName /\ calls \in Nat /\ cub \in BOOLEAN /\ ccalm \in BOOLEAN
  BY DEF ClientsInit
<1>14. QED
  BY <1>4, <1>8, <1>10, <1>11, <1>12, <1>13 DEF ClientsTyped

\* What a script begins its call with.
LEMMA SubscribeFacts ==
  ASSUME ClientsTyped, NEW s \in ScriptName, NEW m \in Method, NEW t \in Topic, Subscribe(s, m, t)
  PROVE  LET k == <<s, m>>
         IN  /\ k \in Key /\ k[1] = s /\ s \in present /\ caller[s].pc = "idle"
             /\ caller'[s].key = k /\ caller'[s].topic = t
             /\ caller'[s].with = listed[k] /\ (caller'[s].new <=> listed[k] = 0)
             /\ listed[k] = 0 => caller'[s].pc = "connect"
             /\ listed[k] # 0 /\ client[listed[k]].topic # t => caller'[s].pc = "unsubscribe"
             /\ listed[k] # 0 /\ client[listed[k]].topic = t => caller'[s].pc = "idle"
             /\ caller'[s] \in CallState(Len(client))
             /\ caller' \in [ScriptName -> CallState(Len(client))]
             /\ \A o \in ScriptName : o # s => caller'[o] = caller[o]
<1> DEFINE k == <<s, m>>
<1>1. k \in Key /\ k[1] = s
  BY DEF Key
<1>2. listed[k] \in 0..Len(client)
  BY <1>1 DEF ClientsTyped
<1> DEFINE pc == IF listed[k] = 0 THEN "connect"
                 ELSE IF client[listed[k]].topic # t THEN "unsubscribe" ELSE "idle"
           r == [pc |-> pc, key |-> k, topic |-> t, with |-> listed[k], new |-> listed[k] = 0]
<1>3. caller' = [caller EXCEPT ![s] = r]
  BY DEF Subscribe
<1>4. pc \in {"connect", "unsubscribe", "idle"}
  OBVIOUS
<1>5. (listed[k] = 0) \in BOOLEAN
  OBVIOUS
<1>6. r \in CallState(Len(client))
  <2> HIDE DEF k, pc
  <2>1. QED
    BY <1>1, <1>2, <1>4, <1>5 DEF CallState
<1>7. /\ r.key = k /\ r.topic = t /\ r.with = listed[k] /\ (r.new <=> listed[k] = 0)
      /\ r.pc = pc
  OBVIOUS
<1>8. s \in present /\ caller[s].pc = "idle"
  BY DEF Subscribe
<1> HIDE DEF r
<1>9. caller'[s] = r /\ caller' \in [ScriptName -> CallState(Len(client))]
      /\ \A o \in ScriptName : o # s => caller'[o] = caller[o]
  BY <1>3, <1>6, CallerChanged
<1>10. QED
  BY <1>1, <1>6, <1>7, <1>8, <1>9

\* The new client, and the call that has made it.
LEMMA ConnectFacts ==
  ASSUME ClientsTyped, NEW s \in ScriptName, Connect(s)
  PROVE  LET c == Len(client) + 1
         IN  /\ caller[s].pc = "connect"
             /\ client' \in Seq(Client) /\ Len(client') = c
             /\ client'[c].key = caller[s].key /\ client'[c].topic = caller[s].topic
             /\ client'[c].heard = {} /\ client'[c].callback /\ client'[c].connected
             /\ \A d \in 1..Len(client) : client'[d] = client[d]
             /\ caller'[s].pc = "subscribe" /\ caller'[s].with = c
             /\ caller'[s].key = caller[s].key /\ caller'[s].topic = caller[s].topic
             /\ caller'[s].new = caller[s].new
             /\ caller' \in [ScriptName -> CallState(Len(client'))]
             /\ \A o \in ScriptName : o # s => caller'[o] = caller[o]
<1> DEFINE c == Len(client) + 1
           n == [key |-> caller[s].key, topic |-> caller[s].topic, heard |-> {},
                 callback |-> TRUE, connected |-> TRUE]
           r == [caller[s] EXCEPT !.pc = "subscribe", !.with = c]
<1>1. caller[s] \in CallState(Len(client)) /\ Len(client) \in Nat
  BY ClientFacts DEF ClientsTyped
<1>2. n \in Client
  BY <1>1 DEF CallState, Client
<1>3. client' = Append(client, n)
  BY DEF Connect
<1>4. /\ n.key = caller[s].key /\ n.topic = caller[s].topic /\ n.heard = {} /\ n.callback
      /\ n.connected
  OBVIOUS
<1>5. /\ client' \in Seq(Client) /\ Len(client') = c /\ client'[c] = n
      /\ \A d \in 1..Len(client) : client'[d] = client[d]
  <2> HIDE DEF n
  <2>1. QED
    BY <1>2, <1>3, ClientAdded
<1>6. /\ r.pc = "subscribe" /\ r.with = c /\ r.key = caller[s].key /\ r.topic = caller[s].topic
      /\ r.new = caller[s].new
  BY <1>1 DEF CallState
<1>7. r \in CallState(Len(client'))
  <2>1. c \in 0..Len(client')
    BY <1>1, <1>5
  <2>2. caller[s] \in CallState(Len(client'))
    BY <1>1, <1>5 DEF CallState
  <2>3. PICK q \in CallState(Len(client')) : q = [caller[s] EXCEPT !.pc = "subscribe"]
    BY <2>2 DEF CallState
  <2>4. r = [q EXCEPT !.with = c]
    BY <2>3
  <2> HIDE DEF r, c
  <2>5. QED
    BY <2>1, <2>4 DEF CallState
<1>8. caller' = [caller EXCEPT ![s] = r]
  BY <1>1 DEF Connect, ClientsTyped
<1> HIDE DEF r, n
<1>9. caller'[s] = r /\ \A o \in ScriptName : o # s => caller'[o] = caller[o]
  BY <1>8, CallerChanged
<1>10. \A o \in ScriptName : caller[o] \in CallState(Len(client'))
  BY <1>1, <1>5 DEF ClientsTyped, CallState
<1>11. caller' \in [ScriptName -> CallState(Len(client'))]
  BY <1>7, <1>8, <1>9, <1>10 DEF ClientsTyped
<1>12. caller[s].pc = "connect"
  BY DEF Connect
<1>13. QED
  BY <1>4, <1>5, <1>6, <1>9, <1>11, <1>12

\* The main thread goes on.
LEMMA CloserChanged ==
  ASSUME ClientsTyped
  PROVE  /\ closer \in CloserState(Len(client))
         /\ \A pc \in {"idle", "next", "callback", "disconnect"} :
              LET n == [closer EXCEPT !.pc = pc]
              IN  /\ n \in CloserState(Len(client)) /\ n.pc = pc /\ n.on = closer.on
                  /\ n.with = closer.with
BY DEF ClientsTyped, CloserState

\* The main thread takes a client out of the list.
LEMMA UnlistFacts ==
  ASSUME ClientsTyped, NEW m \in Method, Unlist(m)
  PROVE  LET k == <<closer.on, m>>
         IN  /\ k \in Key /\ k[1] = closer.on
             /\ listed[k] # 0 /\ listed[k] \in 1..Len(client) /\ closer.pc = "next"
             /\ closer' \in CloserState(Len(client))
             /\ closer'.pc = "callback" /\ closer'.on = closer.on /\ closer'.with = listed[k]
             /\ listed' \in [Key -> 0..Len(client)] /\ listed'[k] = 0
             /\ \A j \in Key : j # k => listed'[j] = listed[j]
<1>1. closer \in CloserState(Len(client)) /\ Len(client) \in Nat
  BY ClientFacts DEF ClientsTyped
<1>2. PICK k \in Key : k = <<closer.on, m>> /\ k[1] = closer.on
  <2>1. PICK o \in ScriptName : o = closer.on
    BY <1>1 DEF CloserState
  <2>2. <<o, m>> \in Key /\ <<o, m>>[1] = o
    BY DEF Key
  <2>3. QED
    BY <2>1, <2>2
<1>3. listed[k] # 0 /\ listed[k] \in 1..Len(client) /\ closer.pc = "next"
  BY <1>1, <1>2 DEF Unlist, ClientsTyped
<1>4. PICK q \in CloserState(Len(client)) :
        q = [closer EXCEPT !.pc = "callback"] /\ q.on = closer.on /\ q.pc = "callback"
  BY <1>1, CloserChanged
<1>5. closer' = [q EXCEPT !.with = listed[k]]
  BY <1>2, <1>4 DEF Unlist
<1>6. /\ closer' \in CloserState(Len(client))
      /\ closer'.pc = "callback" /\ closer'.on = closer.on /\ closer'.with = listed[k]
  <2>1. PICK w \in 0..Len(client) : w = listed[k]
    BY <1>1, <1>3
  <2>2. /\ [q EXCEPT !.with = w] \in CloserState(Len(client))
        /\ [q EXCEPT !.with = w].pc = q.pc /\ [q EXCEPT !.with = w].on = q.on
        /\ [q EXCEPT !.with = w].with = w
    BY DEF CloserState
  <2>3. QED
    BY <1>4, <1>5, <2>1, <2>2
<1>7. listed' = [listed EXCEPT ![k] = 0]
  BY <1>2 DEF Unlist
<1>8. /\ listed' \in [Key -> 0..Len(client)] /\ listed'[k] = 0
      /\ \A j \in Key : j # k => listed'[j] = listed[j]
  BY <1>1, <1>2, <1>7 DEF ClientsTyped
<1>9. QED
  BY <1>2, <1>3, <1>6, <1>8

\* Each step keeps the types, but for the number of clients, and the names.
LEMMA StepClientsTyped == ClientsTyped /\ [ClientsNext]_clientVars => ClientsTyped'
<1> SUFFICES ASSUME ClientsTyped, [ClientsNext]_clientVars PROVE ClientsTyped'
  OBVIOUS
<1> USE ClientFacts
<1>a. \A s \in ScriptName : caller[s] \in CallState(Len(client))
  BY DEF ClientsTyped
<1>b. Named
  BY DEF ClientsTyped
<1>n. /\ \A k \in Key : listed[k] \in 0..Len(client)
      /\ \A s \in ScriptName : caller[s].with \in 0..Len(client)
      /\ closer.with \in 0..Len(client)
  BY <1>a DEF ClientsTyped, CallState, CloserState
<1>1. ASSUME NEW s \in ScriptName, NEW m \in Method, NEW t \in Topic, Subscribe(s, m, t)
      PROVE  ClientsTyped'
  <2>1. UNCHANGED <<listed, client, closer, present, ccalm>> /\ calls' = calls + 1
        /\ cub' \in BOOLEAN /\ wanted' = [wanted EXCEPT ![<<s, m>>] = t]
    BY <1>1 DEF Subscribe, InMap
  <2>2. wanted' \in [Key -> Topic \cup {"none"}]
    BY <2>1 DEF ClientsTyped
  <2>3. Named'
    BY <1>1, <1>b, <2>1, SubscribeFacts DEF Named, Taken, Holding
  <2>4. QED
    BY <1>1, <2>1, <2>2, <2>3, SubscribeFacts DEF ClientsTyped
<1>2. ASSUME NEW s \in ScriptName, Connect(s)
      PROVE  ClientsTyped'
  <2>1. UNCHANGED <<listed, closer, present, wanted, calls, cub, ccalm>>
    BY <1>2 DEF Connect
  <2>2. closer \in CloserState(Len(client)) /\ closer.with \in 0..Len(client)
    BY DEF ClientsTyped, CloserState
  <2>3. Named'
    <3>1. \A k \in Key : listed[k] \in 0..Len(client)
      BY DEF ClientsTyped
    <3>2. \A o \in ScriptName : caller[o].with \in 0..Len(client)
      BY <1>a DEF CallState
    <3>3. QED
      BY <1>2, <1>b, <2>1, <2>2, <3>1, <3>2, ConnectFacts DEF Named, Taken, Holding
  <2>4. closer' \in CloserState(Len(client'))
    BY <1>2, <2>1, <2>2, ConnectFacts DEF CloserState
  <2>5. listed' \in [Key -> 0..Len(client')]
    BY <1>2, <2>1, ConnectFacts DEF ClientsTyped
  <2>6. QED
    BY <1>2, <2>1, <2>3, <2>4, <2>5, ConnectFacts DEF ClientsTyped
<1>3. ASSUME NEW s \in ScriptName, Unsubscribe(s)
      PROVE  ClientsTyped'
  <2>1. UNCHANGED <<listed, closer, present, wanted, calls, ccalm>>
        /\ Steps(s, "subscribe") /\ caller[s].pc = "unsubscribe" /\ cub' \in BOOLEAN
    BY <1>3 DEF Unsubscribe, ClientsTyped
  <2>2. caller[s].with \in 1..Len(client) /\ caller[s].topic \in Topic
    BY <1>a, <1>b, <2>1 DEF Named, CallState, Holding
  <2>3. client' = client \/ client' = Retarget(caller[s].with, caller[s].topic)
    BY <1>3 DEF Unsubscribe
  <2>4. /\ client' \in Seq(Client) /\ Len(client') = Len(client)
        /\ \A c \in 1..Len(client) : client'[c].key = client[c].key
    BY <2>2, <2>3, RetargetFacts DEF ClientsTyped
  <2>s. /\ caller' \in [ScriptName -> CallState(Len(client))]
        /\ caller'[s].pc \in {"subscribe"} /\ caller'[s].key = caller[s].key
        /\ caller'[s].with = caller[s].with
        /\ \A t \in ScriptName : t # s => caller'[t] = caller[t]
    BY <2>1, StepsFacts
  <2>5. Named'
    BY <1>n, <1>b, <2>1, <2>4, <2>s DEF Named, Taken, Holding
  <2>6. QED
    BY <2>1, <2>4, <2>5, <2>s DEF ClientsTyped
<1>4. ASSUME NEW s \in ScriptName, Acknowledged(s)
      PROVE  ClientsTyped'
  <2>1. UNCHANGED <<listed, closer, present, wanted, calls, ccalm>>
        /\ (Steps(s, "insert") \/ Steps(s, "idle"))
        /\ caller[s].pc = "subscribe" /\ cub' \in BOOLEAN
    BY <1>4 DEF Acknowledged, ClientsTyped
  <2>2. caller[s].with \in 1..Len(client) /\ caller[s].topic \in Topic
    BY <1>a, <1>b, <2>1 DEF Named, CallState, Holding
  <2>3. \/ client' = client
        \/ client' = [client EXCEPT ![caller[s].with].heard = @ \cup {caller[s].topic}]
    BY <1>4 DEF Acknowledged
  <2>4. /\ client' \in Seq(Client) /\ Len(client') = Len(client)
        /\ \A c \in 1..Len(client) : client'[c].key = client[c].key
    BY <2>2, <2>3, AcknowledgedFacts DEF ClientsTyped
  <2>s. /\ caller' \in [ScriptName -> CallState(Len(client))]
        /\ caller'[s].pc \in {"insert", "idle"} /\ caller'[s].key = caller[s].key
        /\ caller'[s].with = caller[s].with
        /\ \A t \in ScriptName : t # s => caller'[t] = caller[t]
    BY <2>1, StepsFacts
  <2>5. Named'
    BY <1>n, <1>b, <2>1, <2>4, <2>s DEF Named, Taken, Holding
  <2>6. QED
    BY <2>1, <2>4, <2>5, <2>s DEF ClientsTyped
<1>5. ASSUME NEW s \in ScriptName, StartInsert(s)
      PROVE  ClientsTyped'
  <2>1. UNCHANGED <<listed, client, closer, present, wanted, calls, ccalm>>
        /\ Steps(s, "inserting") /\ caller[s].pc = "insert" /\ cub' \in BOOLEAN
    BY <1>5 DEF StartInsert, InMap
  <2>s. /\ caller' \in [ScriptName -> CallState(Len(client))]
        /\ caller'[s].pc \in {"inserting"} /\ caller'[s].key = caller[s].key
        /\ caller'[s].with = caller[s].with
        /\ \A t \in ScriptName : t # s => caller'[t] = caller[t]
    BY <2>1, StepsFacts
  <2>2. Named'
    BY <1>b, <2>1, <2>s DEF Named, Taken, Holding
  <2>3. QED
    BY <2>1, <2>2, <2>s DEF ClientsTyped
<1>6. ASSUME NEW s \in ScriptName, Insert(s)
      PROVE  ClientsTyped'
  <2>1. UNCHANGED <<client, closer, present, wanted, calls, cub, ccalm>>
        /\ Steps(s, "idle") /\ caller[s].pc = "inserting"
        /\ listed' = [listed EXCEPT ![caller[s].key] = caller[s].with]
    BY <1>6 DEF Insert
  <2>2. caller[s].key \in Key /\ caller[s].with \in 0..Len(client)
    BY <1>a DEF CallState
  <2>3. listed' \in [Key -> 0..Len(client)]
    BY <2>1, <2>2 DEF ClientsTyped
  <2>s. /\ caller' \in [ScriptName -> CallState(Len(client))]
        /\ caller'[s].pc \in {"idle"} /\ caller'[s].key = caller[s].key
        /\ caller'[s].with = caller[s].with
        /\ \A t \in ScriptName : t # s => caller'[t] = caller[t]
    BY <2>1, StepsFacts
  <2>4. Named'
    <3>1. \A k \in Key : listed'[k] = IF k = caller[s].key THEN caller[s].with ELSE listed[k]
      BY <2>1 DEF ClientsTyped
    <3>2. caller[s].with # 0 /\ client[caller[s].with].key = caller[s].key
      BY <1>b, <2>1 DEF Named, Holding
    <3>3. QED
      BY <1>b, <2>1, <2>s, <3>1, <3>2 DEF Named, Taken, Holding
  <2>5. QED
    BY <2>1, <2>3, <2>4, <2>s DEF ClientsTyped
<1>7. ASSUME NEW s \in ScriptName, Leave(s)
      PROVE  ClientsTyped'
  <2>1. PICK q \in CloserState(Len(client)) :
          q = [closer EXCEPT !.pc = "next"] /\ q.pc = "next" /\ q.with = closer.with
    BY CloserChanged
  <2>2. closer' = [q EXCEPT !.on = s]
    BY <1>7, <2>1 DEF Leave
  <2>3. closer' \in CloserState(Len(client)) /\ closer'.pc = "next"
    BY <2>1, <2>2 DEF CloserState
  <2>4. UNCHANGED <<listed, client, caller, present, wanted, calls, cub, ccalm>>
    BY <1>7 DEF Leave
  <2>5. Named'
    BY <1>b, <2>3, <2>4 DEF Named, Taken
  <2>6. QED
    BY <2>3, <2>4, <2>5 DEF ClientsTyped
<1>8. ASSUME NEW s \in ScriptName, Gone(s)
      PROVE  ClientsTyped'
  <2>1. UNCHANGED <<listed, client, caller, calls, cub, ccalm>>
        /\ closer' = [closer EXCEPT !.pc = "idle"] /\ present' \subseteq ScriptName
        /\ wanted' = [k \in Key |-> IF k[1] = s THEN "none" ELSE wanted[k]]
    BY <1>8 DEF Gone, ClientsTyped
  <2>2. closer' \in CloserState(Len(client)) /\ closer'.pc = "idle"
    BY <2>1, CloserChanged
  <2>3. wanted' \in [Key -> Topic \cup {"none"}]
    BY <2>1 DEF ClientsTyped
  <2>4. Named'
    BY <1>b, <2>1, <2>2 DEF Named, Taken
  <2>5. QED
    BY <2>1, <2>2, <2>3, <2>4 DEF ClientsTyped
<1>9. ASSUME NEW s \in ScriptName, Return(s)
      PROVE  ClientsTyped'
  BY <1>9, <1>b DEF Return, ClientsTyped, Named, Taken
<1>9a. CASE PushBack
  BY <1>9a, <1>b DEF PushBack, ClientsTyped, Named, Taken
<1>10. ASSUME NEW m \in Method, Unlist(m)
       PROVE  ClientsTyped'
  <2>1. UNCHANGED <<client, caller, present, wanted, calls, ccalm>> /\ cub' \in BOOLEAN
    BY <1>10 DEF Unlist, InMap
  <2>2. PICK k \in Key :
          /\ k[1] = closer.on /\ listed[k] # 0
          /\ closer' \in CloserState(Len(client))
          /\ closer'.on = closer.on /\ closer'.with = listed[k]
          /\ listed' \in [Key -> 0..Len(client)] /\ listed'[k] = 0
          /\ \A j \in Key : j # k => listed'[j] = listed[j]
    BY <1>10, UnlistFacts
  <2>3. Named'
    BY <1>b, <2>1, <2>2 DEF Named, Taken
  <2>4. QED
    BY <2>1, <2>2, <2>3 DEF ClientsTyped
<1>11. CASE DeleteCallback
  <2>1. UNCHANGED <<listed, caller, present, wanted, calls, cub, ccalm>>
        /\ closer' = [closer EXCEPT !.pc = "disconnect"] /\ closer.pc = "callback"
        /\ client' = [client EXCEPT ![closer.with].callback = FALSE]
    BY <1>11 DEF DeleteCallback
  <2>2. closer.with \in 1..Len(client)
    BY <1>b, <2>1, CloserChanged DEF CloserState, Named, Taken
  <2>3. /\ client' \in Seq(Client) /\ Len(client') = Len(client)
        /\ \A c \in 1..Len(client) : client'[c].key = client[c].key
    BY <2>1, <2>2, DeleteFacts
  <2>4. closer' \in CloserState(Len(client)) /\ closer'.with = closer.with /\ closer'.on = closer.on
    BY <2>1, CloserChanged
  <2>5. Named'
    BY <1>a, <1>b, <2>1, <2>2, <2>3, <2>4
       DEF Named, Taken, Holding, ClientsTyped, CallState, CloserState
  <2>6. QED
    BY <2>1, <2>3, <2>4, <2>5 DEF ClientsTyped
<1>12. CASE Disconnect
  <2>1. UNCHANGED <<listed, caller, present, wanted, calls, cub, ccalm>>
        /\ closer' = [closer EXCEPT !.pc = "next"] /\ closer.pc = "disconnect"
        /\ client' = [client EXCEPT ![closer.with].connected = FALSE, ![closer.with].heard = {}]
    BY <1>12 DEF Disconnect
  <2>2. closer.with \in 1..Len(client)
    BY <1>b, <2>1, CloserChanged DEF CloserState, Named, Taken
  <2>3. /\ client' \in Seq(Client) /\ Len(client') = Len(client)
        /\ \A c \in 1..Len(client) : client'[c].key = client[c].key
    BY <2>1, <2>2, DisconnectFacts
  <2>4. closer' \in CloserState(Len(client)) /\ closer'.pc = "next"
    BY <2>1, CloserChanged
  <2>5. Named'
    BY <1>a, <1>b, <2>1, <2>2, <2>3, <2>4
       DEF Named, Taken, Holding, ClientsTyped, CallState
  <2>6. QED
    BY <2>1, <2>3, <2>4, <2>5 DEF ClientsTyped
<1>13. ASSUME NEW c \in DOMAIN client, Deliver(c)
       PROVE  ClientsTyped'
  BY <1>13, <1>b DEF Deliver, ClientsTyped, Named, Taken
<1>14. CASE UNCHANGED clientVars
  BY <1>14, <1>b DEF clientVars, ClientsTyped, Named, Taken
<1>15. QED
  BY <1>1, <1>2, <1>3, <1>4, <1>5, <1>6, <1>7, <1>8, <1>9, <1>9a, <1>10, <1>11, <1>12, <1>13, <1>14
     DEF ClientsNext

\* Only a script that has an object is in the manager's list.
FoundHere == found \subseteq present

\* Every step keeps it so.
LEMMA StepFound == FoundHere /\ [ClientsNext]_clientVars => FoundHere'
BY DEF FoundHere, ClientsNext, Subscribe, Connect, Unsubscribe, Acknowledged, StartInsert, Insert, Leave,
       Unlist, DeleteCallback, Disconnect, Gone, Return, PushBack, Deliver, clientVars

-----------------------------------------------------------------------------
(***************************************************************************)
(* The numbers of the clients stay within the calls.                       *)
(***************************************************************************)
Connecting == {s \in ScriptName : caller[s].pc = "connect"}

\* Every client, and every one about to be made, has a call of its own.
ClientsCounted ==
  /\ IsFiniteSet(Connecting)
  /\ Len(client) + Cardinality(Connecting) <= calls
  /\ calls <= MaxCalls

\* The threads that connect, and the clients, at the next step.
LEMMA StepConnecting ==
  ASSUME ClientsTyped, ClientsNext
  PROVE  \/ /\ \E s \in ScriptName : Connecting' \subseteq Connecting \cup {s}
            /\ Len(client') = Len(client) /\ calls' = calls + 1 /\ calls < MaxCalls
         \/ /\ \E s \in Connecting : Connecting' = Connecting \ {s}
            /\ Len(client') = Len(client) + 1 /\ calls' = calls
         \/ /\ Connecting' = Connecting
            /\ Len(client') = Len(client) /\ calls' = calls
<1> USE ClientFacts
<1>1. ASSUME NEW s \in ScriptName, NEW m \in Method, NEW t \in Topic, Subscribe(s, m, t)
      PROVE  /\ Connecting' \subseteq Connecting \cup {s}
             /\ Len(client') = Len(client) /\ calls' = calls + 1 /\ calls < MaxCalls
  <2>1. UNCHANGED client /\ calls' = calls + 1 /\ calls < MaxCalls
    BY <1>1 DEF Subscribe
  <2>2. \A o \in ScriptName : o # s => caller'[o] = caller[o]
    BY <1>1, SubscribeFacts
  <2>3. QED
    BY <2>1, <2>2 DEF Connecting
<1>2. ASSUME NEW s \in ScriptName, Connect(s)
      PROVE  /\ s \in Connecting /\ Connecting' = Connecting \ {s}
             /\ Len(client') = Len(client) + 1 /\ calls' = calls
  <2>1. caller[s].pc = "connect" /\ calls' = calls
    BY <1>2 DEF Connect
  <2>2. /\ caller'[s].pc = "subscribe" /\ Len(client') = Len(client) + 1
        /\ \A o \in ScriptName : o # s => caller'[o] = caller[o]
    BY <1>2, ConnectFacts
  <2>3. QED
    BY <2>1, <2>2 DEF Connecting
<1> DEFINE Same == Connecting' = Connecting /\ Len(client') = Len(client) /\ calls' = calls
<1>3. ASSUME NEW s \in ScriptName, NEW pc \in {"idle", "subscribe", "insert", "inserting"},
             Steps(s, pc), caller[s].pc # "connect"
      PROVE  Connecting' = Connecting
  BY <1>3, StepsFacts DEF Connecting
<1>4. ASSUME NEW s \in ScriptName, Unsubscribe(s)
      PROVE  Same
  <2>1. caller[s].pc = "unsubscribe" /\ Steps(s, "subscribe") /\ calls' = calls
    BY <1>4 DEF Unsubscribe
  <2>2. Len(client') = Len(client)
    BY <1>4 DEF Unsubscribe, Retarget, ClientsTyped
  <2>3. QED
    BY <1>3, <2>1, <2>2
<1>5. ASSUME NEW s \in ScriptName, Acknowledged(s)
      PROVE  Same
  <2>1. caller[s].pc = "subscribe" /\ calls' = calls
        /\ Steps(s, IF caller[s].new THEN "insert" ELSE "idle")
    BY <1>5 DEF Acknowledged
  <2>2. Len(client') = Len(client)
    BY <1>5 DEF Acknowledged, ClientsTyped
  <2>3. QED
    BY <1>3, <2>1, <2>2
<1>6. ASSUME NEW s \in ScriptName, StartInsert(s) \/ Insert(s)
      PROVE  Same
  <2>1. UNCHANGED <<client, calls>> /\ caller[s].pc \in {"insert", "inserting"}
        /\ (Steps(s, "inserting") \/ Steps(s, "idle"))
    BY <1>6 DEF StartInsert, Insert
  <2>2. QED
    BY <1>3, <2>1
<1>7. ASSUME NEW s \in ScriptName, Leave(s) \/ Gone(s) \/ Return(s)
      PROVE  Same
  BY <1>7 DEF Leave, Gone, Return, Connecting
<1>8. ASSUME NEW m \in Method, Unlist(m)
      PROVE  Same
  BY <1>8 DEF Unlist, Connecting
<1>9. ASSUME DeleteCallback \/ Disconnect \/ PushBack
      PROVE  Same
  <2>1. UNCHANGED <<caller, calls>> /\ Len(client') = Len(client)
    BY <1>9 DEF DeleteCallback, Disconnect, PushBack, ClientsTyped
  <2>2. QED
    BY <2>1 DEF Connecting
<1>10. ASSUME NEW c \in DOMAIN client, Deliver(c)
       PROVE  Same
  BY <1>10 DEF Deliver, Connecting
<1>11. QED
  BY <1>1, <1>2, <1>4, <1>5, <1>6, <1>7, <1>8, <1>9, <1>10 DEF ClientsNext

\* Each client took a call, and so does each that is being connected.
LEMMA StepClientsCounted ==
  ClientsTyped /\ ClientsCounted /\ [ClientsNext]_clientVars => ClientsCounted'
<1> SUFFICES ASSUME ClientsTyped, ClientsCounted, [ClientsNext]_clientVars
             PROVE  ClientsCounted'
  OBVIOUS
<1>1. /\ IsFiniteSet(Connecting) /\ Cardinality(Connecting) \in Nat
      /\ Len(client) \in Nat /\ calls \in Nat /\ MaxCalls \in Nat
      /\ Len(client) + Cardinality(Connecting) <= calls /\ calls <= MaxCalls
  BY FS_CardinalityType, ClientFacts, ScriptClientsAssumption DEF ClientsTyped, ClientsCounted
<1>2. CASE UNCHANGED clientVars
  BY <1>2 DEF clientVars, ClientsCounted, Connecting
<1>3. ASSUME NEW s \in ScriptName, Connecting' \subseteq Connecting \cup {s},
             Len(client') = Len(client), calls' = calls + 1, calls < MaxCalls
      PROVE  ClientsCounted'
  <2>1. /\ IsFiniteSet(Connecting \cup {s})
        /\ Cardinality(Connecting \cup {s}) <= Cardinality(Connecting) + 1
        /\ Cardinality(Connecting \cup {s}) \in Nat
    <3> DEFINE n == Cardinality(Connecting)
               m == Cardinality(Connecting \cup {s})
    <3>1. IsFiniteSet(Connecting \cup {s}) /\ m = IF s \in Connecting THEN n ELSE n + 1
      BY <1>1, FS_AddElement
    <3>2. n \in Nat
      BY <1>1
    <3> HIDE DEF n, m
    <3>3. m \in Nat /\ m <= n + 1
      BY <3>1, <3>2
    <3>4. QED
      BY <3>1, <3>3 DEF n, m
  <2>2. IsFiniteSet(Connecting') /\ Cardinality(Connecting') <= Cardinality(Connecting \cup {s})
    BY <1>3, <2>1, FS_Subset
  <2>3. Cardinality(Connecting') \in Nat
    BY <2>2, FS_CardinalityType
  <2>4. QED
    BY <1>1, <1>3, <2>1, <2>2, <2>3 DEF ClientsCounted
<1>4. ASSUME NEW s \in Connecting, Connecting' = Connecting \ {s},
             Len(client') = Len(client) + 1, calls' = calls
      PROVE  ClientsCounted'
  <2>1. IsFiniteSet(Connecting') /\ Cardinality(Connecting') = Cardinality(Connecting) - 1
    BY <1>1, <1>4, FS_RemoveElement
  <2>2. QED
    BY <1>1, <1>4, <2>1 DEF ClientsCounted
<1>5. CASE Connecting' = Connecting /\ Len(client') = Len(client) /\ calls' = calls
  BY <1>5 DEF ClientsCounted
<1>6. QED
  BY <1>2, <1>3, <1>4, <1>5, StepConnecting

\* No call, and no message, leaves the state with a value it may not have; no list holds the
\* number of a client that was never made (CMqtt::subscribe, unsubscribe).
THEOREM ClientsTypeCorrect == ClientsSpec => []ClientsTypeOK
<1>1. ClientsInit => ClientsCounted
  <2> SUFFICES ASSUME ClientsInit PROVE ClientsCounted
    OBVIOUS
  <2>1. Connecting = {} /\ Len(client) = 0 /\ calls = 0
    BY DEF ClientsInit, Connecting
  <2>2. QED
    BY <2>1, FS_EmptySet, ScriptClientsAssumption DEF ClientsCounted
<1>2. ClientsTyped /\ ClientsCounted /\ FoundHere => ClientsTypeOK
  <2> SUFFICES ASSUME ClientsTyped, ClientsCounted, FoundHere PROVE ClientsTypeOK
    OBVIOUS
  <2>1. Cardinality(Connecting) \in Nat /\ Len(client) \in Nat /\ calls \in Nat /\ MaxCalls \in Nat
    BY FS_CardinalityType, ClientFacts, ScriptClientsAssumption DEF ClientsTyped, ClientsCounted
  <2>2. Len(client) <= MaxCalls /\ calls \in 0..MaxCalls
    BY <2>1 DEF ClientsCounted
  <2>3. 0..Len(client) \subseteq 0..MaxCalls
    BY <2>1, <2>2
  <2>4. CallState(Len(client)) \subseteq CallState(MaxCalls)
        /\ CloserState(Len(client)) \subseteq CloserState(MaxCalls)
    BY <2>1, <2>2 DEF CallState, CloserState
  <2>5. /\ caller \in [ScriptName -> CallState(MaxCalls)]
        /\ closer \in CloserState(MaxCalls)
        /\ listed \in [Key -> 0..MaxCalls]
    BY <2>3, <2>4 DEF ClientsTyped
  <2>6. QED
    BY <2>2, <2>5 DEF FoundHere, ClientsTyped, ClientsTypeOK, CallState, CloserState
<1>3. ClientsInit => FoundHere
  BY DEF ClientsInit, FoundHere
<1>4. QED
  BY <1>1, <1>2, <1>3, InitClientsTyped, StepClientsTyped, StepClientsCounted, StepFound, PTL
     DEF ClientsSpec

-----------------------------------------------------------------------------
(***************************************************************************)
(* The discipline.                                                         *)
(***************************************************************************)

\* What belongs to different scripts is different.
LEMMA Apart ==
  ASSUME ClientsTyped, ClientsCalm, ccalm
  PROVE  /\ \A s \in ScriptName : \A k \in Key :
              caller[s].pc \in Holding /\ listed[k] = caller[s].with => k = caller[s].key
         /\ \A s, t \in ScriptName :
              caller[s].pc \in Holding /\ caller[t].pc \in Holding /\ caller[s].with = caller[t].with
                => s = t
         /\ Taken => /\ \A k \in Key : listed[k] # closer.with
                     /\ \A s \in ScriptName : caller[s].pc \in Holding => caller[s].with # closer.with
<1>1. Named /\ AllCalled /\ Closed
  BY DEF ClientsTyped, ClientsCalm, CalmParts
<1>2. ASSUME NEW s \in ScriptName, NEW k \in Key, caller[s].pc \in Holding,
             listed[k] = caller[s].with
      PROVE  k = caller[s].key
  BY <1>1, <1>2 DEF Named
<1>3. ASSUME NEW s \in ScriptName, NEW t \in ScriptName, caller[s].pc \in Holding,
             caller[t].pc \in Holding, caller[s].with = caller[t].with
      PROVE  s = t
  BY <1>1, <1>3 DEF Named
<1>4. ASSUME Taken, NEW k \in Key
      PROVE  listed[k] # closer.with
  BY <1>1, <1>4 DEF Named, Closed
<1>5. ASSUME Taken, NEW s \in ScriptName, caller[s].pc \in Holding
      PROVE  caller[s].with # closer.with
  <2>1. Called(s)
    BY <1>1, <1>5 DEF AllCalled, Holding
  <2>2. closer.on # s
    BY <1>5, <2>1 DEF Called, Closing, Taken
  <2>3. QED
    BY <1>1, <1>5, <2>2 DEF Named
<1>6. QED
  BY <1>2, <1>3, <1>4, <1>5

\* Nobody else is in the map.
LEMMA AloneInMap ==
  ASSUME ccalm, InMap
  PROVE  ~cub' /\ \A s \in ScriptName : caller[s].pc # "inserting"
BY DEF InMap, Inserting

\* At first nobody has asked.
LEMMA InitClientsCalm == ClientsInit => ClientsCalm
<1> SUFFICES ASSUME ClientsInit PROVE CalmParts
  BY DEF ClientsCalm
<1>1. /\ client = <<>> /\ Len(client) = 0 /\ ~cub
      /\ \A k \in Key : listed[k] = 0 /\ wanted[k] = "none"
      /\ \A s \in ScriptName : caller[s].pc = "idle"
      /\ closer.pc = "idle"
  BY DEF ClientsInit
<1>2. QED
  BY <1>1 DEF CalmParts, OneInserts, AllListed, Listed, AllCalled, AllKept, Closed, Taken

-----------------------------------------------------------------------------
\* A script calls subscribe: its client is the one on the list, if there is one.
LEMMA SubscribeCalm ==
  ASSUME ClientsTyped, ClientsCalm, ccalm,
         NEW s \in ScriptName, NEW m \in Method, NEW t \in Topic, Subscribe(s, m, t)
  PROVE  CalmParts'
<1>1. PICK k \in Key :
        /\ k = <<s, m>> /\ k[1] = s /\ s \in present /\ caller[s].pc = "idle"
        /\ caller'[s].key = k /\ caller'[s].topic = t
        /\ caller'[s].with = listed[k] /\ (caller'[s].new <=> listed[k] = 0)
        /\ listed[k] = 0 => caller'[s].pc = "connect"
        /\ listed[k] # 0 /\ client[listed[k]].topic # t => caller'[s].pc = "unsubscribe"
        /\ listed[k] # 0 /\ client[listed[k]].topic = t => caller'[s].pc = "idle"
        /\ \A o \in ScriptName : o # s => caller'[o] = caller[o]
  <2> DEFINE k == <<s, m>>
  <2>1. /\ k \in Key /\ k[1] = s /\ s \in present /\ caller[s].pc = "idle"
        /\ caller'[s].key = k /\ caller'[s].topic = t
        /\ caller'[s].with = listed[k] /\ (caller'[s].new <=> listed[k] = 0)
        /\ listed[k] = 0 => caller'[s].pc = "connect"
        /\ listed[k] # 0 /\ client[listed[k]].topic # t => caller'[s].pc = "unsubscribe"
        /\ listed[k] # 0 /\ client[listed[k]].topic = t => caller'[s].pc = "idle"
        /\ \A o \in ScriptName : o # s => caller'[o] = caller[o]
    BY SubscribeFacts
  <2>2. k = <<s, m>>
    OBVIOUS
  <2> HIDE DEF k
  <2>3. QED
    BY <2>1, <2>2
<1>2. /\ UNCHANGED <<listed, client, closer, present>>
      /\ wanted' = [wanted EXCEPT ![k] = t] /\ ~cub'
      /\ \A o \in ScriptName : caller[o].pc # "inserting"
      /\ ~Closing(s)
  BY <1>1, AloneInMap DEF Subscribe, Closing
<1>3. wanted'[k] = t /\ \A j \in Key : j # k => wanted'[j] = wanted[j]
  BY <1>2 DEF ClientsTyped
<1>4. AllListed /\ AllCalled /\ AllKept /\ Closed /\ Named
  BY DEF ClientsCalm, CalmParts, ClientsTyped
<1>5. OneInserts'
  BY <1>1, <1>2 DEF OneInserts
<1>6. AllListed'
  <2> SUFFICES ASSUME NEW j \in Key PROVE Listed(j)'
    BY DEF AllListed
  <2>1. Listed(j) /\ j[1] \in ScriptName
    BY <1>4 DEF AllListed, Key
  <2>2. CASE j = k
    BY <1>1, <1>2, <1>3, <2>1, <2>2 DEF Listed, Serving, Closing
  <2>3. CASE j # k
    BY <1>1, <1>2, <1>3, <2>1, <2>3 DEF Listed, Serving, Closing
  <2>4. QED
    BY <2>2, <2>3
<1>7. AllCalled'
  <2> SUFFICES ASSUME NEW o \in ScriptName, caller'[o].pc # "idle" PROVE Called(o)'
    BY DEF AllCalled
  <2>1. CASE o = s
    <3>1. Listed(k) /\ ~Serving(k)
      BY <1>1, <1>4 DEF AllListed, Serving
    <3>2. listed[k] # 0 => client[listed[k]].key = k
      BY <1>4 DEF Named
    <3>3. QED
      BY <1>1, <1>2, <1>3, <2>1, <3>1, <3>2 DEF Called, Listed, Closing, Holding
  <2>2. CASE o # s
    <3>1. Called(o) /\ caller'[o] = caller[o] /\ caller[o].key # k
      BY <1>1, <1>4, <2>2 DEF AllCalled, Named
    <3>2. caller[o].key \in Key
      BY DEF ClientsTyped, CallState
    <3>3. QED
      BY <1>2, <1>3, <3>1, <3>2 DEF Called, Closing
  <2>3. QED
    BY <2>1, <2>2
<1>8. AllKept'
  <2> SUFFICES ASSUME NEW c \in 1..Len(client) PROVE Kept(c)'
    BY <1>2 DEF AllKept
  <2>1. Kept(c) /\ client[c].key[1] \in ScriptName
    BY <1>4, ClientFacts DEF AllKept, Client, Key
  <2>2. caller[s].pc \notin Holding
    BY <1>1 DEF Holding
  <2>3. QED
    BY <1>1, <1>2, <2>1, <2>2 DEF Kept, Taken
<1>9. Closed'
  BY <1>2, <1>4 DEF Closed, Taken
<1>10. QED
  BY <1>2, <1>5, <1>6, <1>7, <1>8, <1>9 DEF CalmParts

\* A client is made and connected.
LEMMA ConnectCalm ==
  ASSUME ClientsTyped, ClientsCalm, ccalm, NEW s \in ScriptName, Connect(s)
  PROVE  CalmParts'
<1> DEFINE c == Len(client) + 1
           k == caller[s].key
<1>1. /\ caller[s].pc = "connect" /\ Len(client') = c
      /\ client'[c].key = k /\ client'[c].topic = caller[s].topic
      /\ client'[c].heard = {} /\ client'[c].callback /\ client'[c].connected
      /\ \A d \in 1..Len(client) : client'[d] = client[d]
      /\ caller'[s].pc = "subscribe" /\ caller'[s].with = c
      /\ caller'[s].key = k /\ caller'[s].topic = caller[s].topic
      /\ caller'[s].new = caller[s].new
      /\ \A o \in ScriptName : o # s => caller'[o] = caller[o]
  BY ConnectFacts
<1>2. UNCHANGED <<listed, closer, present, wanted, cub>>
  BY DEF Connect
<1>3. ~cub /\ OneInserts /\ AllListed /\ AllCalled /\ AllKept /\ Closed /\ Named
  BY DEF ClientsCalm, CalmParts, ClientsTyped
<1>4. /\ \A j \in Key : listed[j] # 0 => listed[j] \in 1..Len(client)
      /\ \A o \in ScriptName : caller[o].pc \in Holding => caller[o].with \in 1..Len(client)
      /\ Taken => closer.with \in 1..Len(client)
      /\ \A o \in ScriptName : caller[o].key \in Key
      /\ k \in Key /\ k[1] = s /\ Len(client) \in Nat
  BY <1>3, ClientFacts DEF ClientsTyped, CallState, CloserState, Named
<1>5. Called(s)
  BY <1>1, <1>3 DEF AllCalled
<1> HIDE DEF c, k
<1>6. OneInserts'
  BY <1>1, <1>3 DEF OneInserts
<1>7. AllListed'
  <2> SUFFICES ASSUME NEW j \in Key PROVE Listed(j)'
    BY DEF AllListed
  <2>1. Listed(j) /\ j[1] \in ScriptName
    BY <1>3 DEF AllListed, Key
  <2>2. Serving(j)' <=> Serving(j)
    BY <1>1, <2>1 DEF Serving, k
  <2>3. QED
    BY <1>1, <1>2, <1>4, <2>1, <2>2 DEF Listed, Closing
<1>8. AllCalled'
  <2> SUFFICES ASSUME NEW o \in ScriptName, caller'[o].pc # "idle" PROVE Called(o)'
    BY DEF AllCalled
  <2>1. CASE o = s
    BY <1>1, <1>2, <1>5, <2>1 DEF Called, Closing, Holding, k
  <2>2. CASE o # s
    <3>1. Called(o) /\ caller'[o] = caller[o]
      BY <1>1, <1>3, <2>2 DEF AllCalled
    <3>2. caller[o].pc \in Holding => client'[caller[o].with] = client[caller[o].with]
      BY <1>1, <1>4
    <3>3. QED
      BY <1>2, <3>1, <3>2 DEF Called, Closing, Holding
  <2>3. QED
    BY <2>1, <2>2
<1>9. AllKept'
  <2> SUFFICES ASSUME NEW d \in 1..Len(client') PROVE Kept(d)'
    BY DEF AllKept
  <2>1. CASE d = c
    BY <1>1, <1>4, <2>1 DEF Kept, Holding
  <2>2. CASE d \in 1..Len(client)
    <3>1. Kept(d) /\ client[d].key[1] \in ScriptName
      BY <1>3, <2>2, ClientFacts DEF AllKept, Client, Key
    <3>2. caller[s].pc \notin Holding
      BY <1>1 DEF Holding
    <3>3. QED
      BY <1>1, <1>2, <2>2, <3>1, <3>2 DEF Kept, Taken
  <2>3. QED
    BY <1>1, <1>4, <2>1, <2>2 DEF c
<1>10. Closed'
  BY <1>1, <1>2, <1>3, <1>4 DEF Closed, Taken
<1>11. QED
  BY <1>2, <1>3, <1>6, <1>7, <1>8, <1>9, <1>10 DEF CalmParts

\* A call takes a step that changes its client and nobody else's.
LEMMA HoldingCalm ==
  ASSUME ClientsTyped, ClientsCalm, ccalm, NEW s \in ScriptName,
         caller[s].pc \in {"unsubscribe", "subscribe"},
         UNCHANGED <<listed, closer, present, wanted>>, ~cub',
         Len(client') = Len(client),
         \A d \in 1..Len(client) : d # caller[s].with => client'[d] = client[d],
         client'[caller[s].with].key = client[caller[s].with].key,
         client'[caller[s].with].connected = client[caller[s].with].connected,
         client'[caller[s].with].callback = client[caller[s].with].callback,
         caller'[s].pc \in {"subscribe", "insert", "idle"},
         caller'[s].key = caller[s].key, caller'[s].with = caller[s].with,
         \A o \in ScriptName : o # s => caller'[o] = caller[o],
         caller'[s].pc # "idle" => Called(s)',
         caller'[s].pc = "idle" => /\ ~caller[s].new
                                   /\ client'[caller[s].with].topic = caller[s].topic
                                   /\ client'[caller[s].with].heard = {caller[s].topic}
  PROVE  CalmParts'
<1> DEFINE c == caller[s].with
           k == caller[s].key
<1>1. OneInserts /\ AllListed /\ AllCalled /\ AllKept /\ Closed /\ Named
  BY DEF ClientsCalm, CalmParts, ClientsTyped
<1>2. Called(s)
  BY <1>1 DEF AllCalled
<1>3. /\ \A j \in Key : listed[j] # 0 => listed[j] \in 1..Len(client)
      /\ \A o \in ScriptName : caller[o].pc \in Holding => caller[o].with \in 1..Len(client)
      /\ Taken => closer.with \in 1..Len(client)
      /\ \A o \in ScriptName : caller[o].key \in Key
      /\ k \in Key /\ k[1] = s /\ c \in 1..Len(client) /\ caller[s].pc \in Holding
  BY <1>1, ClientFacts DEF ClientsTyped, CallState, CloserState, Named, Holding
<1>4. /\ \A j \in Key : j # k => listed[j] # c
      /\ \A o \in ScriptName : o # s /\ caller[o].pc \in Holding => caller[o].with # c
      /\ Taken => closer.with # c
  BY <1>3, Apart
<1>5. OneInserts'
  BY <1>1 DEF OneInserts
<1>6. AllListed'
  <2> SUFFICES ASSUME NEW j \in Key PROVE Listed(j)'
    BY DEF AllListed
  <2>1. Listed(j) /\ j[1] \in ScriptName
    BY <1>1 DEF AllListed, Key
  <2>2. CASE j # k
    <3>1. Serving(j)' <=> Serving(j)
      BY <2>1, <2>2 DEF Serving
    <3>2. listed[j] # 0 => client'[listed[j]] = client[listed[j]]
      BY <1>3, <1>4, <2>2
    <3>3. QED
      BY <2>1, <3>1, <3>2 DEF Listed, Closing
  <2>3. CASE j = k
    <3>1. listed[k] = 0 \/ listed[k] = c
      BY <1>2 DEF Called
    <3>2. CASE caller'[s].pc = "idle"
      <4>1. listed[k] = c /\ listed[k] # 0 /\ wanted[k] = caller[s].topic
        BY <1>2, <3>2 DEF Called
      <4>2. QED
        BY <1>2, <1>3, <2>1, <2>3, <3>2, <4>1 DEF Listed, Called
    <3>3. CASE caller'[s].pc # "idle"
      <4>1. Serving(k)'
        BY <1>3, <3>3 DEF Serving
      <4>2. QED
        BY <1>3, <2>1, <2>3, <3>1, <4>1 DEF Listed
    <3>4. QED
      BY <3>2, <3>3
  <2>4. QED
    BY <2>2, <2>3
<1>7. AllCalled'
  <2> SUFFICES ASSUME NEW o \in ScriptName, caller'[o].pc # "idle", o # s PROVE Called(o)'
    BY DEF AllCalled
  <2>1. Called(o) /\ caller'[o] = caller[o]
    BY <1>1 DEF AllCalled
  <2>2. caller[o].pc \in Holding => client'[caller[o].with] = client[caller[o].with]
    BY <1>3, <1>4
  <2>3. QED
    BY <2>1, <2>2 DEF Called, Closing, Holding
<1>8. AllKept'
  <2> SUFFICES ASSUME NEW d \in 1..Len(client) PROVE Kept(d)'
    BY DEF AllKept
  <2>1. Kept(d) /\ client[d].key[1] \in ScriptName
    BY <1>1, ClientFacts DEF AllKept, Client, Key
  <2>2. client'[d].key = client[d].key /\ client'[d].connected = client[d].connected
    OBVIOUS
  <2>3. CASE d = c
    <3>1. client[d].key = k
      BY <1>1, <1>3, <2>3 DEF Named
    <3>2. CASE caller'[s].pc = "idle"
      <4>1. listed[k] = c
        BY <1>2, <3>2 DEF Called
      <4>2. QED
        BY <2>2, <2>3, <3>1, <4>1 DEF Kept
    <3>3. CASE caller'[s].pc # "idle"
      <4>1. caller'[s].pc \in Holding
        BY <3>3 DEF Holding
      <4>2. QED
        BY <1>3, <2>2, <2>3, <3>1, <4>1 DEF Kept
    <3>4. QED
      BY <3>2, <3>3
  <2>4. CASE d # c
    BY <2>1, <2>2, <2>4 DEF Kept, Taken
  <2>5. QED
    BY <2>3, <2>4
<1>9. Closed'
  BY <1>1, <1>3, <1>4 DEF Closed, Taken
<1>10. QED
  BY <1>5, <1>6, <1>7, <1>8, <1>9 DEF CalmParts

\* The client of the list drops its old topic.
LEMMA UnsubscribeCalm ==
  ASSUME ClientsTyped, ClientsCalm, ccalm, NEW s \in ScriptName, Unsubscribe(s)
  PROVE  CalmParts'
<1> DEFINE c == caller[s].with
<1>1. caller[s].pc = "unsubscribe" /\ UNCHANGED <<listed, closer, present, wanted>>
      /\ Steps(s, "subscribe")
  BY DEF Unsubscribe
<1>2. AllCalled /\ Named /\ ~cub
  BY DEF ClientsCalm, CalmParts, ClientsTyped
<1>3. Called(s)
  BY <1>1, <1>2 DEF AllCalled
<1>4. c \in 1..Len(client) /\ caller[s].topic \in Topic
  BY <1>1, <1>2, ClientFacts DEF ClientsTyped, CallState, Named, Holding
<1>5. ~Freed(c)
  BY <1>1, <1>3 DEF Freed, Called, Holding
<1>6. client' = Retarget(c, caller[s].topic) /\ ~cub'
  BY <1>2, <1>5 DEF Unsubscribe
<1>7. /\ Len(client') = Len(client)
      /\ client'[c].heard = client[c].heard \ {client[c].topic}
      /\ client'[c].topic = caller[s].topic /\ client'[c].key = client[c].key
      /\ client'[c].connected = client[c].connected
      /\ client'[c].callback = client[c].callback
      /\ \A d \in 1..Len(client) : d # c => client'[d] = client[d]
  BY <1>4, <1>6, RetargetFacts
<1>8. /\ caller'[s].pc = "subscribe" /\ caller'[s].key = caller[s].key
      /\ caller'[s].topic = caller[s].topic
      /\ caller'[s].with = c /\ caller'[s].new = caller[s].new
      /\ \A o \in ScriptName : o # s => caller'[o] = caller[o]
  BY <1>1, StepsFacts
<1>9. Called(s)'
  BY <1>1, <1>3, <1>7, <1>8 DEF Called, Closing, Holding
<1>10. QED
  BY <1>1, <1>6, <1>7, <1>8, <1>9, HoldingCalm

\* The client has the topic of the call.
LEMMA AcknowledgedCalm ==
  ASSUME ClientsTyped, ClientsCalm, ccalm, NEW s \in ScriptName, Acknowledged(s)
  PROVE  CalmParts'
<1> DEFINE c == caller[s].with
<1>1. caller[s].pc = "subscribe" /\ UNCHANGED <<listed, closer, present, wanted>>
      /\ Steps(s, IF caller[s].new THEN "insert" ELSE "idle")
  BY DEF Acknowledged
<1>2. AllCalled /\ Named /\ ~cub
  BY DEF ClientsCalm, CalmParts, ClientsTyped
<1>3. Called(s)
  BY <1>1, <1>2 DEF AllCalled
<1>4. c \in 1..Len(client) /\ caller[s].topic \in Topic
  BY <1>1, <1>2, ClientFacts DEF ClientsTyped, CallState, Named, Holding
<1>5. ~Freed(c)
  BY <1>1, <1>3 DEF Freed, Called, Holding
<1>6. client' = [client EXCEPT ![c].heard = @ \cup {caller[s].topic}] /\ ~cub'
  BY <1>2, <1>5 DEF Acknowledged
<1>7. /\ Len(client') = Len(client)
      /\ client'[c].heard = client[c].heard \cup {caller[s].topic}
      /\ client'[c].topic = client[c].topic /\ client'[c].key = client[c].key
      /\ client'[c].connected = client[c].connected
      /\ client'[c].callback = client[c].callback
      /\ \A d \in 1..Len(client) : d # c => client'[d] = client[d]
  BY <1>4, <1>6, AcknowledgedFacts
<1>8. /\ caller[s].new => caller'[s].pc = "insert"
      /\ ~caller[s].new => caller'[s].pc = "idle"
      /\ caller'[s].key = caller[s].key
      /\ caller'[s].topic = caller[s].topic
      /\ caller'[s].with = c /\ caller'[s].new = caller[s].new
      /\ \A o \in ScriptName : o # s => caller'[o] = caller[o]
  BY <1>1, StepsFacts
<1>9. client'[c].topic = caller[s].topic /\ client'[c].heard = {caller[s].topic}
  BY <1>1, <1>3, <1>7 DEF Called
<1>10. caller'[s].pc # "idle" => Called(s)'
  BY <1>1, <1>3, <1>7, <1>8, <1>9 DEF Called, Closing, Holding
<1>11. QED
  BY <1>1, <1>6, <1>7, <1>8, <1>9, <1>10, HoldingCalm

\* A client that is new goes onto the list, where nobody else is under the discipline.
LEMMA StartInsertCalm ==
  ASSUME ClientsTyped, ClientsCalm, ccalm, NEW s \in ScriptName, StartInsert(s)
  PROVE  CalmParts'
<1>1. caller[s].pc = "insert" /\ UNCHANGED <<listed, client, closer, present, wanted>>
      /\ Steps(s, "inserting") /\ ~cub' /\ \A o \in ScriptName : caller[o].pc # "inserting"
  BY AloneInMap DEF StartInsert
<1>2. /\ caller'[s].pc = "inserting" /\ caller'[s].key = caller[s].key
      /\ caller'[s].topic = caller[s].topic
      /\ caller'[s].with = caller[s].with /\ caller'[s].new = caller[s].new
      /\ \A o \in ScriptName : o # s => caller'[o] = caller[o]
  BY <1>1, StepsFacts
<1>3. AllListed /\ AllCalled /\ AllKept /\ Closed /\ Named
  BY DEF ClientsCalm, CalmParts, ClientsTyped
<1>4. OneInserts'
  BY <1>1, <1>2 DEF OneInserts
<1>5. AllListed'
  <2>1. \A j \in Key : j[1] \in ScriptName
    BY DEF Key
  <2>2. \A j \in Key : Serving(j)' <=> Serving(j)
    BY <1>1, <1>2, <2>1 DEF Serving
  <2>3. QED
    BY <1>1, <1>3, <2>2 DEF AllListed, Listed, Closing
<1>6. AllCalled'
  <2>1. \A o \in ScriptName : o # s /\ caller'[o].pc # "idle" => Called(o)'
    BY <1>1, <1>2, <1>3 DEF AllCalled, Called, Closing
  <2>2. Called(s)
    BY <1>1, <1>3 DEF AllCalled
  <2>3. Called(s)'
    BY <1>1, <1>2, <2>2 DEF Called, Closing, Holding
  <2>4. QED
    BY <2>1, <2>3 DEF AllCalled
<1>7. AllKept'
  <2>1. \A c \in 1..Len(client) : client[c].key[1] \in ScriptName
    BY ClientFacts DEF Client, Key
  <2>2. QED
    BY <1>1, <1>2, <1>3, <2>1 DEF AllKept, Kept, Taken, Holding
<1>8. Closed'
  BY <1>1, <1>3 DEF Closed, Taken
<1>9. QED
  BY <1>1, <1>4, <1>5, <1>6, <1>7, <1>8 DEF CalmParts

\* It is on the list, and the call returns.
LEMMA InsertCalm ==
  ASSUME ClientsTyped, ClientsCalm, ccalm, NEW s \in ScriptName, Insert(s)
  PROVE  CalmParts'
<1> DEFINE c == caller[s].with
           k == caller[s].key
<1>1. caller[s].pc = "inserting" /\ UNCHANGED <<client, closer, present, wanted, cub>>
      /\ Steps(s, "idle") /\ listed' = [listed EXCEPT ![k] = c]
  BY DEF Insert
<1>2. /\ caller'[s].pc = "idle" /\ \A o \in ScriptName : o # s => caller'[o] = caller[o]
  BY <1>1, StepsFacts
<1>3. ~cub /\ OneInserts /\ AllListed /\ AllCalled /\ AllKept /\ Closed /\ Named
  BY DEF ClientsCalm, CalmParts, ClientsTyped
<1>4. Called(s)
  BY <1>1, <1>3 DEF AllCalled
<1>5. /\ k \in Key /\ k[1] = s /\ c \in 1..Len(client) /\ client[c].key = k
      /\ \A o \in ScriptName : caller[o].key \in Key
  BY <1>1, <1>3, ClientFacts DEF ClientsTyped, CallState, Named, Holding
<1>6. listed'[k] = c /\ \A j \in Key : j # k => listed'[j] = listed[j]
  BY <1>1, <1>5 DEF ClientsTyped
<1>7. OneInserts'
  BY <1>2, <1>3 DEF OneInserts
<1>8. AllListed'
  <2> SUFFICES ASSUME NEW j \in Key PROVE Listed(j)'
    BY DEF AllListed
  <2>1. Listed(j) /\ j[1] \in ScriptName
    BY <1>3 DEF AllListed, Key
  <2>2. CASE j = k
    <3>1. client[c].connected /\ client[c].callback /\ s \in present /\ c # 0
      BY <1>1, <1>4, <1>5 DEF Called, Holding
    <3>2. client[c].topic = wanted[k] /\ client[c].heard = {wanted[k]}
      BY <1>1, <1>4 DEF Called
    <3>3. QED
      BY <1>1, <1>5, <1>6, <2>2, <3>1, <3>2 DEF Listed
  <2>3. CASE j # k
    <3>1. Serving(j)' <=> Serving(j)
      BY <1>1, <1>2, <2>1, <2>3 DEF Serving
    <3>2. QED
      BY <1>1, <1>6, <2>1, <2>3, <3>1 DEF Listed, Closing
  <2>4. QED
    BY <2>2, <2>3
<1>9. AllCalled'
  <2> SUFFICES ASSUME NEW o \in ScriptName, caller'[o].pc # "idle" PROVE Called(o)'
    BY DEF AllCalled
  <2>1. o # s /\ caller'[o] = caller[o] /\ Called(o)
    BY <1>2, <1>3 DEF AllCalled
  <2>2. caller[o].key # k /\ caller[o].key \in Key
    BY <1>3, <1>5, <2>1 DEF Named
  <2>3. QED
    BY <1>1, <1>6, <2>1, <2>2 DEF Called, Closing
<1>10. AllKept'
  <2> SUFFICES ASSUME NEW d \in 1..Len(client) PROVE Kept(d)'
    BY <1>1 DEF AllKept
  <2>1. Kept(d) /\ client[d].key \in Key /\ client[d].key[1] \in ScriptName
    BY <1>3, ClientFacts DEF AllKept, Client, Key
  <2>2. CASE client[d].key = k
    <3>1. listed[k] = 0
      BY <1>1, <1>4 DEF Called
    <3>2. client[d].connected => d = c \/ (Taken /\ closer.with = d)
      BY <1>5, <2>1, <2>2, <3>1 DEF Kept
    <3>3. QED
      BY <1>1, <1>6, <2>2, <3>2 DEF Kept, Taken
  <2>3. CASE client[d].key # k
    <3>1. d # c
      BY <1>5, <2>3
    <3>2. \/ caller'[client[d].key[1]].pc \in Holding /\ caller'[client[d].key[1]].with = d
          \/ ~(caller[client[d].key[1]].pc \in Holding /\ caller[client[d].key[1]].with = d)
      BY <1>2, <2>1, <3>1
    <3>3. QED
      BY <1>1, <1>6, <2>1, <2>3, <3>2 DEF Kept, Taken
  <2>4. QED
    BY <2>2, <2>3
<1>11. Closed'
  <2>1. Taken => client[closer.with].key \in Key /\ client[closer.with].key # k
    <3> SUFFICES ASSUME Taken
                 PROVE  client[closer.with].key \in Key /\ client[closer.with].key # k
      OBVIOUS
    <3>1. closer.with \in 1..Len(client)
      BY <1>3, ClientFacts DEF Named, ClientsTyped, CloserState
    <3>2. client[closer.with].key[1] = closer.on /\ closer.on # s
      BY <1>3, <1>4 DEF Named, Called, Closing, Taken
    <3>3. QED
      BY <1>5, <3>1, <3>2, ClientFacts DEF Client
  <2>2. QED
    BY <1>1, <1>3, <1>6, <2>1 DEF Closed, Taken
<1>12. QED
  BY <1>1, <1>3, <1>7, <1>8, <1>9, <1>10, <1>11 DEF CalmParts

\* The script goes, and has no call under way.
LEMMA LeaveCalm ==
  ASSUME ClientsTyped, ClientsCalm, ccalm, NEW s \in ScriptName, Leave(s)
  PROVE  CalmParts'
<1>1. UNCHANGED <<listed, client, caller, present, wanted, cub>>
      /\ closer.pc = "idle" /\ s \in present /\ caller[s].pc = "idle"
  BY DEF Leave
<1>2. closer'.pc = "next" /\ closer'.on = s
  BY DEF Leave, ClientsTyped, CloserState
<1>3. ~cub /\ OneInserts /\ AllListed /\ AllCalled /\ AllKept /\ Closed
  BY DEF ClientsCalm, CalmParts
<1>4. AllListed'
  BY <1>1, <1>2, <1>3 DEF AllListed, Listed, Serving, Closing
<1>5. AllCalled'
  BY <1>1, <1>2, <1>3 DEF AllCalled, Called, Closing
<1>6. AllKept'
  BY <1>1, <1>2, <1>3 DEF AllKept, Kept, Taken
<1>7. QED
  BY <1>1, <1>2, <1>3, <1>4, <1>5, <1>6 DEF CalmParts, OneInserts, Closed, Taken

\* No client of the script is left on the list, and none connected.
LEMMA GoneCalm ==
  ASSUME ClientsTyped, ClientsCalm, ccalm, NEW s \in ScriptName, Gone(s)
  PROVE  CalmParts'
<1>1. UNCHANGED <<listed, client, caller, cub>> /\ present' = present \ {s}
      /\ closer.pc = "next" /\ closer.on = s /\ caller[s].pc = "idle"
  BY DEF Gone
<1>4. ASSUME NEW k \in Key
      PROVE  /\ k[1] = s => wanted'[k] = "none" /\ listed[k] = 0
             /\ k[1] # s => wanted'[k] = wanted[k]
  <2>1. wanted' = [j \in Key |-> IF j[1] = s THEN "none" ELSE wanted[j]]
        /\ \A m \in Method : listed[<<s, m>>] = 0
    BY DEF Gone
  <2>2. PICK o \in ScriptName, m \in Method : k = <<o, m>>
    BY DEF Key
  <2>3. wanted'[k] = IF k[1] = s THEN "none" ELSE wanted[k]
    BY <2>1, Zenon
  <2>4. k[1] = s => k = <<s, m>>
    BY <2>2
  <2>5. QED
    BY <2>1, <2>3, <2>4
<1>2. closer'.pc = "idle"
  BY <1>1, CloserChanged DEF Gone
<1>3. ~cub /\ OneInserts /\ AllListed /\ AllCalled /\ AllKept /\ Closed /\ Named
  BY DEF ClientsCalm, CalmParts, ClientsTyped
<1>5. AllListed'
  <2> SUFFICES ASSUME NEW k \in Key PROVE Listed(k)'
    BY DEF AllListed
  <2>1. Listed(k)
    BY <1>3 DEF AllListed
  <2>2. CASE k[1] = s
    <3>1. listed'[k] = 0 /\ wanted'[k] = "none"
      BY <1>1, <1>4, <2>2
    <3>2. QED
      BY <3>1 DEF Listed
  <2>3. CASE k[1] # s
    <3>1. /\ wanted'[k] = wanted[k] /\ listed'[k] = listed[k] /\ ~Closing(k[1])
          /\ k[1] \in present => k[1] \in present'
      BY <1>1, <1>4, <2>3 DEF Closing
    <3>2. Serving(k)' <=> Serving(k)
      BY <1>1 DEF Serving
    <3>3. QED
      BY <1>1, <2>1, <3>1, <3>2 DEF Listed
  <2>4. QED
    BY <2>2, <2>3
<1>6. AllCalled'
  <2> SUFFICES ASSUME NEW o \in ScriptName, caller[o].pc # "idle" PROVE Called(o)'
    BY <1>1 DEF AllCalled
  <2>1. Called(o) /\ o # s
    BY <1>1, <1>3 DEF AllCalled
  <2>2. caller[o].key \in Key /\ caller[o].key[1] = o
    BY <1>3 DEF ClientsTyped, CallState, Named
  <2>3. wanted'[caller[o].key] = wanted[caller[o].key]
    BY <1>4, <2>1, <2>2
  <2>4. ~Closing(o)'
    BY <1>2 DEF Closing
  <2>5. o \in present'
    BY <1>1, <2>1 DEF Called
  <2>6. UNCHANGED <<listed, client, caller>>
    BY <1>1
  <2>7. QED
    BY <2>1, <2>3, <2>4, <2>5, <2>6 DEF Called
<1>7. AllKept'
  BY <1>1, <1>2, <1>3 DEF AllKept, Kept, Taken
<1>8. QED
  BY <1>1, <1>2, <1>3, <1>5, <1>6, <1>7 DEF CalmParts, OneInserts, Closed, Taken

\* The script is loaded again and has asked for nothing.
LEMMA ReturnCalm ==
  ASSUME ClientsTyped, ClientsCalm, ccalm, NEW s \in ScriptName, Return(s)
  PROVE  CalmParts'
<1>1. UNCHANGED <<listed, client, caller, closer, wanted, cub>> /\ present' = present \cup {s}
  BY DEF Return
<1>2. ~cub /\ OneInserts /\ AllListed /\ AllCalled /\ AllKept /\ Closed
  BY DEF ClientsCalm, CalmParts
<1>3. AllListed'
  BY <1>1, <1>2 DEF AllListed, Listed, Serving, Closing
<1>4. AllCalled'
  BY <1>1, <1>2 DEF AllCalled, Called, Closing
<1>5. AllKept'
  BY <1>1, <1>2 DEF AllKept, Kept, Taken
<1>6. QED
  BY <1>1, <1>2, <1>3, <1>4, <1>5 DEF CalmParts, OneInserts, Closed, Taken

\* A client of the script goes off the list first.
LEMMA UnlistCalm ==
  ASSUME ClientsTyped, ClientsCalm, ccalm, NEW m \in Method, Unlist(m)
  PROVE  CalmParts'
<1>1. PICK k \in Key :
          /\ k[1] = closer.on /\ listed[k] # 0 /\ listed[k] \in 1..Len(client)
          /\ closer.pc = "next"
          /\ closer'.pc = "callback" /\ closer'.on = closer.on /\ closer'.with = listed[k]
          /\ listed'[k] = 0
          /\ \A j \in Key : j # k => listed'[j] = listed[j]
  BY UnlistFacts
<1>2. UNCHANGED <<client, caller, present, wanted>> /\ ~cub'
  BY AloneInMap DEF Unlist
<1>3. OneInserts /\ AllListed /\ AllCalled /\ AllKept /\ Closed /\ Named
  BY DEF ClientsCalm, CalmParts, ClientsTyped
<1>4. Listed(k) /\ client[listed[k]].key = k
  BY <1>1, <1>3 DEF AllListed, Named
<1>5. AllListed'
  <2> SUFFICES ASSUME NEW j \in Key PROVE Listed(j)'
    BY DEF AllListed
  <2>1. Listed(j)
    BY <1>3 DEF AllListed
  <2>2. QED
    BY <1>1, <1>2, <2>1 DEF Listed, Serving, Closing
<1>6. AllCalled'
  <2> SUFFICES ASSUME NEW o \in ScriptName, caller[o].pc # "idle" PROVE Called(o)'
    BY <1>2 DEF AllCalled
  <2>1. Called(o) /\ o # closer.on
    BY <1>1, <1>3 DEF AllCalled, Called, Closing
  <2>2. caller[o].key \in Key /\ caller[o].key[1] = o
    BY <1>3 DEF ClientsTyped, CallState, Named
  <2>3. QED
    BY <1>1, <1>2, <2>1, <2>2 DEF Called, Closing
<1>7. AllKept'
  <2> SUFFICES ASSUME NEW d \in 1..Len(client) PROVE Kept(d)'
    BY <1>2 DEF AllKept
  <2>1. Kept(d) /\ client[d].key \in Key
    BY <1>3, ClientFacts DEF AllKept, Client
  <2>2. QED
    BY <1>1, <1>2, <1>4, <2>1 DEF Kept, Taken
<1>8. Closed'
  BY <1>1, <1>2, <1>3, <1>4 DEF Closed, Taken, Listed
<1>9. QED
  BY <1>2, <1>3, <1>5, <1>6, <1>7, <1>8 DEF CalmParts, OneInserts

\* The main thread changes the client it has taken, which nobody else knows any more.
LEMMA TakenCalm ==
  ASSUME ClientsTyped, ClientsCalm, ccalm, Taken, NEW pc \in {"disconnect", "next"},
         UNCHANGED <<listed, caller, present, wanted, cub>>,
         closer' = [closer EXCEPT !.pc = pc],
         Len(client') = Len(client),
         client'[closer.with].key = client[closer.with].key,
         pc = "next" => ~client'[closer.with].connected,
         pc = "disconnect" => client'[closer.with].connected,
         \A d \in 1..Len(client) : d # closer.with => client'[d] = client[d]
  PROVE  CalmParts'
<1>1. closer'.pc = pc /\ closer'.on = closer.on /\ closer'.with = closer.with
  BY CloserChanged
<1>2. ~cub /\ OneInserts /\ AllListed /\ AllCalled /\ AllKept /\ Closed /\ Named
  BY DEF ClientsCalm, CalmParts, ClientsTyped
<1>3. /\ \A k \in Key : listed[k] # 0 => listed[k] \in 1..Len(client) /\ listed[k] # closer.with
      /\ \A s \in ScriptName : caller[s].pc \in Holding =>
           caller[s].with \in 1..Len(client) /\ caller[s].with # closer.with
      /\ closer.with \in 1..Len(client)
  BY <1>2, Apart, ClientFacts DEF Named, ClientsTyped, CallState, CloserState
<1>4. \A s \in ScriptName : Closing(s)' <=> Closing(s)
  BY <1>1 DEF Closing, Taken
<1>5. \A k \in Key : k[1] \in ScriptName /\ (Serving(k)' <=> Serving(k))
  BY DEF Serving, Key
<1>6. AllListed'
  <2> SUFFICES ASSUME NEW k \in Key PROVE Listed(k)'
    BY DEF AllListed
  <2>1. Listed(k)
    BY <1>2 DEF AllListed
  <2>2. QED
    BY <1>3, <1>4, <1>5, <2>1 DEF Listed
<1>7. AllCalled'
  <2> SUFFICES ASSUME NEW s \in ScriptName, caller[s].pc # "idle" PROVE Called(s)'
    BY DEF AllCalled
  <2>1. Called(s)
    BY <1>2 DEF AllCalled
  <2>2. caller[s].pc \in Holding => client'[caller[s].with] = client[caller[s].with]
    BY <1>3
  <2>3. QED
    BY <1>4, <2>1, <2>2 DEF Called, Holding
<1>8. AllKept'
  <2> SUFFICES ASSUME NEW d \in 1..Len(client) PROVE Kept(d)'
    BY DEF AllKept
  <2>1. Kept(d)
    BY <1>2 DEF AllKept
  <2>2. CASE d = closer.with
    BY <1>1, <2>1, <2>2 DEF Kept, Taken
  <2>3. CASE d # closer.with
    BY <1>1, <2>1, <2>3 DEF Kept, Taken
  <2>4. QED
    BY <2>2, <2>3
<1>9. Closed'
  BY <1>1, <1>2, <1>3 DEF Closed, Taken
<1>10. QED
  BY <1>2, <1>6, <1>7, <1>8, <1>9 DEF CalmParts, OneInserts

\* What the calls and the clients are about stays as it is while the manager takes the script up.
LEMMA PushBackCalm ==
  ASSUME ClientsTyped, ClientsCalm, ccalm, PushBack
  PROVE  CalmParts'
<1>1. UNCHANGED <<listed, client, caller, closer, present, wanted, cub>>
  BY DEF PushBack
<1>2. QED
  BY <1>1 DEF ClientsCalm, CalmParts, OneInserts, AllListed, Listed, Serving, AllCalled, Called,
              Closing, AllKept, Kept, Closed, Taken

\* Under the discipline no message reaches a client whose callback or script has gone.
LEMMA DeliverCalm ==
  ASSUME ClientsTyped, ClientsCalm, ccalm, NEW c \in 1..Len(client)
  PROVE  ~Deliver(c)
<1> SUFFICES ASSUME Deliver(c) PROVE FALSE
  OBVIOUS
<1>1. client[c].connected /\ client[c].callback /\ client[c].key[1] \notin present
  BY DEF Deliver
<1>2. AllListed /\ AllCalled /\ AllKept /\ Closed /\ Named
  BY DEF ClientsCalm, CalmParts, ClientsTyped
<1>3. Kept(c) /\ client[c].key \in Key /\ client[c].key[1] \in ScriptName
  BY <1>2, ClientFacts DEF AllKept, Client, Key
<1>4. CASE listed[client[c].key] = c
  BY <1>1, <1>2, <1>3, <1>4 DEF AllListed, Listed
<1>5. CASE caller[client[c].key[1]].pc \in Holding
  BY <1>1, <1>2, <1>3, <1>5 DEF AllCalled, Called, Holding
<1>6. CASE Taken /\ closer.with = c
  BY <1>1, <1>2, <1>6 DEF Closed, Named, Taken
<1>7. QED
  BY <1>1, <1>3, <1>4, <1>5, <1>6 DEF Kept

\* Each step under the discipline.
LEMMA StepClientsCalm == ClientsTyped /\ ClientsCalm /\ [ClientsNext]_clientVars => ClientsCalm'
<1> SUFFICES ASSUME ClientsTyped, ClientsCalm, [ClientsNext]_clientVars, ccalm' PROVE CalmParts'
  BY DEF ClientsCalm
<1>0. ccalm
  BY DEF ClientsNext, Subscribe, Connect, Unsubscribe, Acknowledged, StartInsert, Insert, Leave,
         Unlist, DeleteCallback, Disconnect, Gone, Return, PushBack, Deliver, clientVars
<1>1. ASSUME NEW s \in ScriptName, NEW m \in Method, NEW t \in Topic, Subscribe(s, m, t)
      PROVE  CalmParts'
  BY <1>0, <1>1, SubscribeCalm
<1>2. ASSUME NEW s \in ScriptName,
             \/ Connect(s) \/ Unsubscribe(s) \/ Acknowledged(s) \/ StartInsert(s) \/ Insert(s)
             \/ Leave(s) \/ Gone(s) \/ Return(s)
      PROVE  CalmParts'
  BY <1>0, <1>2, ConnectCalm, UnsubscribeCalm, AcknowledgedCalm, StartInsertCalm, InsertCalm,
     LeaveCalm, GoneCalm, ReturnCalm
<1>3. ASSUME NEW m \in Method, Unlist(m)
      PROVE  CalmParts'
  BY <1>0, <1>3, UnlistCalm
<1>4. Named /\ Closed
  BY <1>0 DEF ClientsTyped, ClientsCalm, CalmParts
<1>5. CASE DeleteCallback
  <2>1. Taken /\ closer.with \in 1..Len(client) /\ client[closer.with].connected
    BY <1>4, <1>5, ClientFacts
       DEF DeleteCallback, Taken, Named, Closed, ClientsTyped, CloserState
  <2>2. client' = [client EXCEPT ![closer.with].callback = FALSE]
        /\ closer' = [closer EXCEPT !.pc = "disconnect"]
        /\ UNCHANGED <<listed, caller, present, wanted, cub>>
    BY <1>5 DEF DeleteCallback
  <2>3. /\ Len(client') = Len(client)
        /\ client'[closer.with].key = client[closer.with].key
        /\ client'[closer.with].connected = client[closer.with].connected
        /\ \A d \in 1..Len(client) : d # closer.with => client'[d] = client[d]
    BY <2>1, <2>2, DeleteFacts
  <2>4. QED
    BY <1>0, <2>1, <2>2, <2>3, TakenCalm
<1>6. CASE Disconnect
  <2>1. Taken /\ closer.with \in 1..Len(client)
    BY <1>4, <1>6, ClientFacts DEF Disconnect, Taken, Named, ClientsTyped, CloserState
  <2>2. client' = [client EXCEPT ![closer.with].connected = FALSE, ![closer.with].heard = {}]
        /\ closer' = [closer EXCEPT !.pc = "next"]
        /\ UNCHANGED <<listed, caller, present, wanted, cub>>
    BY <1>6 DEF Disconnect
  <2>3. /\ Len(client') = Len(client)
        /\ client'[closer.with].key = client[closer.with].key
        /\ ~client'[closer.with].connected
        /\ \A d \in 1..Len(client) : d # closer.with => client'[d] = client[d]
    BY <2>1, <2>2, DisconnectFacts
  <2>4. QED
    BY <1>0, <2>1, <2>2, <2>3, TakenCalm
<1>7. ASSUME NEW c \in DOMAIN client, Deliver(c)
      PROVE  CalmParts'
  BY <1>0, <1>7, DeliverCalm, ClientFacts
<1>8. CASE UNCHANGED clientVars
  BY <1>0, <1>8 DEF clientVars, ClientsCalm, CalmParts, OneInserts, AllListed, Listed, Serving,
                    AllCalled, Called, Closing, AllKept, Kept, Closed, Taken
<1>9. QED
  BY <1>0, <1>1, <1>2, <1>3, <1>5, <1>6, <1>7, <1>8, PushBackCalm DEF ClientsNext

-----------------------------------------------------------------------------
\* The clients that are connected are those the scripts asked for, for any scripts, methods, topics
\* and number of calls (CMqtt::subscribe, unsubscribe).
THEOREM AskedFor == ClientsSpec => []ClientsAreAskedFor
<1>1. ClientsTyped /\ ClientsCalm => ClientsAreAskedFor
  <2> SUFFICES ASSUME ClientsTyped, ClientsCalm, ccalm
               PROVE  /\ ~cub
                      /\ \A s \in ScriptName : ~Busy(s) => \A m \in Method :
                           LET k == <<s, m>>
                               mine == {c \in ClientsOf(s) : client[c].key = k}
                           IN  IF wanted[k] = "none" THEN mine = {} /\ listed[k] = 0
                               ELSE mine = {listed[k]} /\ client[listed[k]].heard = {wanted[k]}
    BY DEF ClientsAreAskedFor
  <2>1. ~cub /\ AllListed /\ AllKept /\ Named
    BY DEF ClientsTyped, ClientsCalm, CalmParts
  <2>2. ASSUME NEW s \in ScriptName, ~Busy(s), NEW k \in Key, k[1] = s,
               NEW mine, mine = {c \in ClientsOf(s) : client[c].key = k}
        PROVE  IF wanted[k] = "none" THEN mine = {} /\ listed[k] = 0
               ELSE mine = {listed[k]} /\ client[listed[k]].heard = {wanted[k]}
    <3>1. caller[s].pc = "idle" /\ ~Closing(s) /\ ~Serving(k)
      BY <2>2 DEF Busy, Closing, Serving
    <3>2. Listed(k)
      BY <2>1 DEF AllListed
    <3>3. \A c \in mine : c = listed[k] /\ listed[k] # 0
      <4> SUFFICES ASSUME NEW c \in mine PROVE c = listed[k] /\ listed[k] # 0
        OBVIOUS
      <4>1. c \in 1..Len(client) /\ client[c].connected /\ client[c].key = k
        BY <2>2, ClientFacts DEF ClientsOf
      <4>2. Kept(c) /\ caller[s].pc \notin Holding
        BY <2>1, <3>1, <4>1 DEF AllKept, Holding
      <4>3. ~(Taken /\ closer.with = c)
        BY <2>1, <2>2, <3>1, <4>1 DEF Named, Closing, Taken
      <4>4. QED
        BY <2>2, <4>1, <4>2, <4>3, ClientFacts DEF Kept
    <3>4. listed[k] # 0 => listed[k] \in mine
      <4> SUFFICES ASSUME listed[k] # 0 PROVE listed[k] \in mine
        OBVIOUS
      <4>1. listed[k] \in DOMAIN client /\ client[listed[k]].key = k /\ client[listed[k]].connected
        BY <2>1, <3>2, ClientFacts DEF ClientsTyped, Named, Listed
      <4>2. QED
        BY <2>2, <4>1 DEF ClientsOf
    <3>5. listed[k] # 0 => wanted[k] # "none"
      <4> SUFFICES ASSUME listed[k] # 0 PROVE wanted[k] # "none"
        OBVIOUS
      <4>1. listed[k] \in 1..Len(client) /\ client[listed[k]].topic = wanted[k]
        BY <3>1, <3>2, ClientFacts DEF ClientsTyped, Listed
      <4>2. client[listed[k]] \in Client
        BY <4>1, ClientFacts
      <4>3. client[listed[k]].topic \in Topic
        BY <4>2 DEF Client
      <4>4. QED
        BY <4>1, <4>3, ScriptClientsAssumption
    <3>6. /\ listed[k] = 0 => wanted[k] = "none"
          /\ listed[k] # 0 => client[listed[k]].heard = {wanted[k]}
      BY <2>2, <3>1, <3>2 DEF Listed
    <3>7. /\ listed[k] = 0 => mine = {}
          /\ listed[k] # 0 => mine = {listed[k]}
      BY <3>3, <3>4
    <3>8. QED
      BY <3>5, <3>6, <3>7
  <2>3. \A s \in ScriptName, m \in Method : <<s, m>> \in Key /\ <<s, m>>[1] = s
    BY DEF Key
  <2>4. QED
    BY <2>1, <2>2, <2>3, Zenon
<1>2. QED
  BY <1>1, InitClientsTyped, InitClientsCalm, StepClientsTyped, StepClientsCalm, PTL
     DEF ClientsSpec

=============================================================================
