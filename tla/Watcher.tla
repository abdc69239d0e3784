--------------------------------- MODULE Watcher ---------------------------------
(***************************************************************************)
(* The main thread from its first statement to its last: it reads its      *)
(* options, waits until HOMEd is ready, makes the CFileWatcher, which      *)
(* watches the directory of the scripts and what is in it, loads what it   *)
(* finds (scanDirectory), and then takes the events of inotify until a     *)
(* signal stops it.  Meanwhile somebody edits the scripts.                 *)
(*                                                                         *)
(* The tree has one level of directories below the root; the code treats   *)
(* deeper ones the same way.  The root is there for ever.                  *)
(***************************************************************************)
EXTENDS Naturals, SequencesExt, FiniteSetsExt, Functions, Settings

CONSTANTS
  Dir,        \* the directories below the root
  File,       \* the script files
  Place,      \* where each is, in the root or in a directory
  Script,     \* contents with an initialize()
  Arguments,  \* the command lines the program may be started with
  MaxChanges, \* changes of the tree in a behaviour
  KernelQueue \* max_queued_events

Root == "root"

ASSUME WatcherAssumption ==
  /\ Root \notin Dir /\ IsFiniteSet(Dir)
  /\ File \cap (Dir \cup {Root}) = {} /\ Place \in [File -> Dir \cup {Root}]
  /\ "none" \notin Script /\ "plain" \notin Script
  /\ MaxChanges \in Nat /\ KernelQueue \in Nat \ {0}

VARIABLES
  inode,     \* per directory: 0, or the number of the one that is there
  content,   \* per file: "none", "plain" (without an initialize()) or a script
  watch,     \* the kernel's watches: watch[wd] is an inode, 0 once the watch is gone
  events,    \* the kernel's queue
  directory, \* m_wd_to_directory
  buffer,    \* what read() has returned and the loop has not reached
  todo,      \* what scanDirectory (or the constructor's iterator) has still to visit
  main,      \* the main thread: where, and with which path in its hands
  running,   \* the global flag of main.cpp
  watching,  \* m_running of the CFileWatcher
  loaded,    \* per file: what its CScript was made from
  changes,   \* changes so far
  blind,     \* files whose last change could not be seen
  excuse,    \* somebody did what the program cannot stand
  heard      \* a signal came while the loop was running

watcherVars == <<inode, content, watch, events, directory, buffer, todo, main, running,
                 watching, loaded, changes, blind, excuse, heard>>

Number == CHOOSE n \in [Dir -> 2..(Cardinality(Dir) + 1)] : IsInjective(n)

\* The new inode of a change.
NewInode == Cardinality(Dir) + 2 + changes

InodeOf(p) == IF p = Root THEN 1 ELSE inode[p]

Exists(p) == IF p \in File THEN content[p] # "none" ELSE InodeOf(p) # 0

Path == File \cup Dir \cup {Root}

WatcherTypeOK ==
  /\ inode \in [Dir -> Nat] /\ content \in [File -> {"none", "plain"} \cup Script]
  /\ watch \in Seq(Nat)
  /\ \A q \in {events, buffer} :
       q \in Seq([wd : Nat, mask : {"create", "modify", "delete", "ignored", "overflow"},
                  name : Path])
  /\ Len(events) <= KernelQueue + 1
  /\ DOMAIN directory \subseteq DOMAIN watch /\ Range(directory) \subseteq Dir \cup {Root}
  /\ todo \subseteq File \cup Dir
  /\ main \in [pc : {"options", "wait", "construct", "scan", "opendir", "arm", "loop", "read",
                     "process", "add", "attach", "done", "dead", "stuck"},
               in : {"constructor", "scan", "events"}, on : Path]
  /\ running \in BOOLEAN /\ watching \in BOOLEAN
  /\ loaded \in [File -> {"none", "plain"} \cup Script]
  /\ changes \in 0..MaxChanges /\ blind \subseteq File
  /\ excuse \in BOOLEAN /\ heard \in BOOLEAN

WatcherInit ==
  /\ \E there \in SUBSET Dir : inode = [d \in Dir |-> IF d \in there THEN Number[d] ELSE 0]
  /\ content \in [File -> {"none", "plain"} \cup Script]
  /\ \A f \in File : Exists(f) => Exists(Place[f])
  /\ watch = <<>> /\ events = <<>> /\ directory = <<>> /\ buffer = <<>> /\ todo = {}
  /\ main = [pc |-> "options", in |-> "constructor", on |-> Root]
  /\ running = TRUE /\ watching = FALSE
  /\ loaded = [f \in File |-> "none"]
  /\ changes = 0 /\ blind = {} /\ excuse = FALSE /\ heard = FALSE

-----------------------------------------------------------------------------
(***************************************************************************)
(* The kernel: inotify.                                                    *)
(***************************************************************************)
Overflow == [wd |-> 0, mask |-> "overflow", name |-> Root]

\* Mutant: addWatch does not ask for IN_MODIFY.
MaskShort == {"create", "delete"}

\* What addWatch asks for; a rename is none of it.
Mask == {"create", "modify", "delete"}

Watching(p) == {wd \in DOMAIN watch : InodeOf(p) # 0 /\ watch[wd] = InodeOf(p)}

\* The one watch that there is of an inode: AddWatch makes no second one.
WatchOf(p) == CHOOSE wd \in Watching(p) : TRUE

\* An event like the last one is merged with it, one too many is replaced by a mark.
Queued(q, e) ==
  IF q # <<>> /\ Last(q) = e THEN q
  ELSE IF Len(q) < KernelQueue THEN Append(q, e)
  ELSE IF Last(q) = Overflow THEN q ELSE Append(q, Overflow)

\* The queue after something has happened to name in p.
Noticed(p, mask, name) ==
  IF mask \in Mask /\ Watching(p) # {}
  THEN Queued(events, [wd |-> WatchOf(p), mask |-> mask, name |-> name])
  ELSE events

Unread == ToSet(events) \cup ToSet(buffer)

Lost(q) == q # <<>> /\ Last(q) = Overflow

-----------------------------------------------------------------------------
(***************************************************************************)
(* Somebody edits the scripts.                                             *)
(***************************************************************************)
At(pc, p) == main.pc = pc /\ main.on = p

\* The loop has ended, the process has, or the main thread waits for ever for another thread:
\* what happens from then on makes no difference to it.
Over == main.pc \in {"done", "dead", "stuck"}

Mayhem == changes < MaxChanges /\ ~Over /\ changes' = changes + 1

mainVars == <<directory, buffer, todo, main, running, watching, loaded, heard>>

\* The scan has yet to read the file.
Ahead(f) ==
  \/ main.in = "constructor" \/ {f, Place[f]} \cap todo # {}
  \/ At("opendir", Place[f]) \/ At("attach", f)

Write(f, c) ==
  /\ Mayhem /\ Exists(Place[f]) /\ c # content[f]
  /\ content' = [content EXCEPT ![f] = c]
  /\ events' = Noticed(Place[f], IF Exists(f) THEN "modify" ELSE "create", f)
  /\ blind' = IF Ahead(f) \/ Watching(Place[f]) # {} THEN blind \ {f} ELSE blind \cup {f}
  /\ excuse' = (excuse \/ Lost(events'))
  /\ UNCHANGED <<inode, watch, mainVars>>

\* As many editors save: a new file is renamed to the old name.
Rename(f, c) ==
  /\ Mayhem /\ Exists(Place[f]) /\ c # content[f]
  /\ content' = [content EXCEPT ![f] = c]
  /\ blind' = IF Ahead(f) \/ \E e \in Unread : e.name = f THEN blind \ {f} ELSE blind \cup {f}
  /\ UNCHANGED <<inode, watch, events, excuse, mainVars>>

\* (The event of it has no consequence.)
RemoveFile(f) ==
  /\ Mayhem /\ Exists(f)
  /\ content' = [content EXCEPT ![f] = "none"]
  /\ excuse' = (excuse \/ At("attach", f))
  /\ UNCHANGED <<inode, watch, events, blind, mainVars>>

\* quiet: it is moved in.
MakeDir(d, quiet) ==
  /\ Mayhem /\ ~Exists(d)
  /\ inode' = [inode EXCEPT ![d] = NewInode]
  /\ events' = IF quiet THEN events ELSE Noticed(Root, "create", d)
  /\ excuse' = (excuse \/ Lost(events') \/ \E e \in Unread : e.name = d /\ e.mask = "delete")
  /\ UNCHANGED <<content, watch, blind, mainVars>>

RemoveDir(d) ==
  /\ Mayhem /\ Exists(d) /\ \A f \in File : Place[f] = d => ~Exists(f)
  /\ inode' = [inode EXCEPT ![d] = 0]
  /\ watch' = [wd \in DOMAIN watch |-> IF wd \in Watching(d) THEN 0 ELSE watch[wd]]
  /\ events' = IF Watching(d) = {} THEN Noticed(Root, "delete", d)
               ELSE Queued(Noticed(Root, "delete", d),
                           [wd |-> WatchOf(d), mask |-> "ignored", name |-> d])
  /\ excuse' = (excuse \/ Lost(events') \/ At("opendir", d) \/ At("add", d)
                   \/ (main.in = "constructor" /\ d \in todo))
  /\ UNCHANGED <<content, blind, mainVars>>

Edit ==
  \/ \E f \in File, c \in {"plain"} \cup Script : Write(f, c) \/ Rename(f, c)
  \/ \E f \in File : RemoveFile(f)
  \/ \E d \in Dir, quiet \in BOOLEAN : MakeDir(d, quiet)
  \/ \E d \in Dir : RemoveDir(d)

Goto(pc) == main' = [main EXCEPT !.pc = pc]

GotoOn(pc, p) == main' = [main EXCEPT !.pc = pc, !.on = p]

\* attachScript deletes what was made from the file before, and ~CScript joins its thread.
Reloading == main.pc = "attach" /\ loaded[main.on] # "none"

\* handle_signal: it runs on the main thread.  In the constructor of CAngel the handler asks for
\* the very object that is under construction.  The first signal also joins the threads of the
\* sun tracker: if it interrupts ~CScript while that holds CSunTracker::m_mutex, they wait for
\* the mutex and the handler for them.
Signal ==
  /\ main.pc # "options" /\ ~Over
  /\ running \/ watching
  /\ running' = FALSE /\ watching' = FALSE
  /\ IF main.in = "constructor" /\ main.pc # "wait"
     THEN Goto("dead") /\ excuse' = TRUE /\ UNCHANGED heard
     ELSE /\ heard' = (heard \/ main.in = "events")
          /\ UNCHANGED main \/ (running /\ Reloading /\ Goto("stuck"))
          /\ UNCHANGED excuse
  /\ UNCHANGED <<inode, content, watch, events, directory, buffer, todo, loaded, changes, blind>>

-----------------------------------------------------------------------------
(***************************************************************************)
(* The main thread.                                                        *)
(***************************************************************************)
worldVars == <<inode, content, watch, events, running, changes, blind, excuse, heard>>

PrepareOptions(args) ==
  /\ main.pc = "options"
  /\ Goto(IF Outcome(args) = "run" THEN "wait" ELSE "done")
  /\ UNCHANGED <<worldVars, directory, buffer, todo, watching, loaded>>

\* A configuration that cannot be read, parsed or used ends the process.
RefuseConfig(args) ==
  /\ main.pc = "options" /\ Outcome(args) = "run"
  /\ Goto("dead")
  /\ excuse' = TRUE
  /\ UNCHANGED <<inode, content, watch, events, running, changes, blind, heard, directory, buffer,
                 todo, watching, loaded>>

\* initialize() has ended, because HOMEd is ready or because of a signal; start() begins.
Initialize ==
  /\ main.pc = "wait"
  /\ Goto(IF running THEN "construct" ELSE "done")
  /\ UNCHANGED <<worldVars, directory, buffer, todo, watching, loaded>>

\* CFileWatcher::addWatch: the kernel knows a watched directory again.
AddWatch(p) ==
  LET wd == IF Watching(p) = {} THEN Len(watch) + 1 ELSE WatchOf(p)
  IN  /\ watch' = IF Watching(p) = {} THEN Append(watch, InodeOf(p)) ELSE watch
      /\ directory' = [w \in DOMAIN directory \cup {wd} |-> IF w = wd THEN p ELSE directory[w]]

\* initializeWatchers: the root, then the iterator is opened.
Construct ==
  /\ main.pc = "construct"
  /\ AddWatch(Root)
  /\ todo' = {d \in Dir : Exists(d)}
  /\ Goto("scan")
  /\ UNCHANGED <<inode, content, events, running, changes, blind, excuse, heard, buffer, watching,
                 loaded>>

\* The next entry that the iterator finds.  The constructor believes the type that came with the
\* list of the entries, scanDirectory asks the file system.
Visit(p) ==
  /\ main.pc = "scan" /\ p \in todo
  /\ todo' = todo \ {p}
  /\ CASE p \in Dir /\ main.in = "constructor" -> GotoOn("add", p)
       [] p \in Dir /\ main.in = "scan" /\ Exists(p) -> GotoOn("opendir", p)
       [] p \in File /\ content[p] \in Script -> GotoOn("attach", p)
       [] OTHER -> UNCHANGED main
  /\ UNCHANGED <<worldVars, directory, buffer, watching, loaded>>

\* The constructor is through, watch() begins: scanDirectory of the root.
StartScan ==
  /\ main.pc = "scan" /\ main.in = "constructor" /\ todo = {}
  /\ main' = [main EXCEPT !.in = "scan"]
  /\ todo' = {f \in File : Place[f] = Root /\ Exists(f)} \cup {d \in Dir : Exists(d)}
  /\ UNCHANGED <<worldVars, directory, buffer, watching, loaded>>

\* scanDirectory of a directory, or the step of the constructor's iterator into it: it must
\* still be there.  The constructor passes over the files.
OpenDir ==
  /\ main.pc = "opendir"
  /\ Goto(IF Exists(main.on) THEN "scan" ELSE "dead")
  /\ todo' = IF main.in = "constructor" THEN todo
             ELSE todo \cup {f \in File : Place[f] = main.on /\ Exists(f)}
  /\ UNCHANGED <<worldVars, directory, buffer, watching, loaded>>

\* After the scan.
Arm ==
  /\ main.pc = "scan" /\ main.in = "scan" /\ todo = {}
  /\ watching' = TRUE
  /\ main' = [main EXCEPT !.pc = "loop", !.in = "events"]
  /\ UNCHANGED <<worldVars, directory, buffer, todo, loaded>>

\* Mutant: the loop does not look at m_running.
WhileForever ==
  /\ main.pc = "loop"
  /\ Goto("read")
  /\ UNCHANGED <<worldVars, directory, buffer, todo, watching, loaded>>

While ==
  /\ main.pc = "loop"
  /\ Goto(IF watching THEN "read" ELSE "done")
  /\ UNCHANGED <<worldVars, directory, buffer, todo, watching, loaded>>

Read ==
  /\ main.pc = "read"
  /\ buffer' = events /\ events' = <<>>
  /\ Goto(IF events = <<>> THEN "loop" ELSE "process")
  /\ UNCHANGED <<inode, content, watch, running, changes, blind, excuse, heard, directory, todo,
                 watching, loaded>>

\* Mutant: the watch is removed for every directory that is deleted, as removeWatch intends.
ForgetAlways(e) ==
  e.mask = "delete" /\ \E wd \in DOMAIN directory : directory[wd] = e.name

\* The condition of removeWatch: the directory that has been deleted is there.
Forget(e) ==
  e.mask = "delete" /\ e.name \in Dir /\ Exists(e.name)
    /\ \E wd \in DOMAIN directory : directory[wd] = e.name

\* removeWatch of the first watch of the path.  If the kernel still has it, it says good-bye.
RemoveWatch(p) ==
  LET wd == Min({w \in DOMAIN directory : directory[w] = p})
  IN  /\ directory' = [w \in DOMAIN directory \ {wd} |-> directory[w]]
      /\ watch' = [watch EXCEPT ![wd] = 0]
      /\ events' = IF watch[wd] = 0 THEN events
                   ELSE Queued(events, [wd |-> wd, mask |-> "ignored", name |-> p])

\* processEvent for the next event of the buffer.
ProcessEvent ==
  /\ main.pc = "process"
  /\ IF buffer = <<>>
     THEN Goto("loop") /\ UNCHANGED <<directory, watch, events, buffer>>
     ELSE LET e == Head(buffer)
          IN  /\ buffer' = Tail(buffer)
              /\ IF Forget(e) /\ e.wd \in DOMAIN directory
                 THEN RemoveWatch(e.name)
                 ELSE UNCHANGED <<directory, watch, events>>
              /\ CASE e.wd \notin DOMAIN directory -> Goto("dead")
                   [] OTHER ->
                        IF e.mask \notin {"create", "modify"} THEN UNCHANGED main
                        ELSE IF e.name \in File
                        THEN IF content[e.name] \in Script THEN GotoOn("attach", e.name)
                             ELSE UNCHANGED main
                        ELSE IF Exists(e.name) THEN GotoOn("add", e.name) ELSE UNCHANGED main
  /\ excuse' = (excuse \/ Lost(events'))
  /\ UNCHANGED <<inode, content, running, changes, blind, heard, todo, watching, loaded>>

\* addWatch throws for a directory that has gone.
Add ==
  /\ main.pc = "add"
  /\ IF Exists(main.on)
     THEN AddWatch(main.on) /\ Goto(IF main.in = "events" THEN "process" ELSE "opendir")
     ELSE Goto("dead") /\ UNCHANGED <<watch, directory>>
  /\ UNCHANGED <<inode, content, events, running, changes, blind, excuse, heard, buffer, todo,
                 watching, loaded>>

\* CScriptsManager::attachScript aborts for a file that has gone.
Attach ==
  /\ main.pc = "attach"
  /\ IF Exists(main.on)
     THEN /\ loaded' = [loaded EXCEPT ![main.on] = content[main.on]]
          /\ Goto(IF main.in = "events" THEN "process" ELSE "scan")
     ELSE Goto("dead") /\ UNCHANGED loaded
  /\ UNCHANGED <<worldVars, directory, buffer, todo, watching>>

\* To delete the script that was made from the file before may take for ever: join() waits for a
\* thread that does not see that it should end.
Hang ==
  /\ Reloading /\ Exists(main.on)
  /\ Goto("stuck")
  /\ UNCHANGED <<worldVars, directory, buffer, todo, watching, loaded>>

MainThread ==
  \/ \E args \in Arguments : PrepareOptions(args) \/ RefuseConfig(args)
  \/ \E p \in Dir \cup File : Visit(p)
  \/ Initialize \/ Construct \/ StartScan \/ OpenDir \/ Arm
  \/ While \/ Read \/ ProcessEvent \/ Add \/ Attach \/ Hang

WatcherNext == MainThread \/ Edit \/ Signal

\* The main thread is run; nobody has to edit or to send a signal.
WatcherFairness == WF_watcherVars(MainThread)

WatcherSpec == WatcherInit /\ [][WatcherNext]_watcherVars /\ WatcherFairness

-----------------------------------------------------------------------------
(***************************************************************************)
(* Properties.                                                             *)
(***************************************************************************)

\* When the watcher rests, every script file is loaded as it is, except one that was last changed
\* by a rename or in a directory before it was watched: the watches are set before the scan, the
\* scan reads what was there before, and no event is lost in between (CFileWatcher, its
\* constructor, watch, processEvent).
NothingMissed ==
  main.pc = "loop" /\ events = <<>> =>
    \A f \in File \ blind : content[f] \in Script => loaded[f] = content[f]

\* The program dies only if it is provoked within one poll: a file or directory vanishes between
\* its test and its use, a directory is deleted and made again before the events of it are read,
\* too many events come at once, a signal interrupts the constructor, or the configuration cannot
\* be used (processEvent, addWatch, attachScript, initializeWatchers, CConfiguration::load).
DiesOnlyIfProvoked == main.pc = "dead" => excuse

\* The main thread hangs in the destructor of a script that is being reloaded.
Hung == main.pc = "stuck" /\ loaded[main.on] # "none"

\* A signal that comes once the loop has begun ends the loop, which may first have to get
\* through a backlog of events, unless the main thread hangs in the destructor of a script
\* that is being reloaded; nothing else holds it up (handle_signal, CFileWatcher::stop, watch,
\* CScriptsManager::attachScript).
StopIsTaken == heard ~> main.pc \in {"done", "dead"} \/ Hung

=============================================================================
