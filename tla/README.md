# homed-angel: a TLA+ model

homed-angel runs home-automation scripts. It connects to the MQTT broker of a HOMEd
installation, mirrors the devices it hears of as a tree of objects (instance, device,
endpoint, property, value history), loads every `*.as` file of a directory as an AngelScript
script with a thread of its own, and calls script methods when a value arrives, a timer
fires, the sun rises or an MQTT message comes in. Scripts publish commands back.

Almost everything that can go wrong in it lies between threads. There are one thread of the
MQTT library per client, one thread per script, one per timer, one for the sun tracker, one
for the publisher, and the main thread, which watches the script directory and destroys and
makes scripts; few of the structures they share have a lock. The modules here say what the
program guarantees nevertheless, under which discipline it guarantees more, and where it
does not do what its README says.

Paths below are relative to the root of the repository; the program's own code is in
`src/src/` of the tree this directory stands beside (called `src/` in the build files).

## 1. Inventory

| Part | State | Operations | Talks to |
|---|---|---|---|
| value history, observers: `homed/value/cstorage.*`, `cobserver.cpp`, `model/entities/cproperty.cpp` | `m_history` (deque under a shared mutex), `m_observers` (vector, no lock) | `set`, `callObservers`, `last`, `clear`, `subscribe`, `unsubscribe`, `removeObserversForScript` | MQTT thread writes, script threads read and subscribe |
| endpoint: `model/entities/cendpoint.cpp` | container of properties | `updateExpose`, `updateStatus`, `updateFd`, `updateDevice` | called by dispatch, calls the storage |
| instances, devices: `chomed.cpp`, `model/containers`, `cinstance.cpp`, `cdevice.cpp` | unlocked vectors of pointers, `m_updated` | `update`, `ready`, lookups, `setJoin`, `unsubscribeScript` | MQTT thread writes, main and script threads read |
| dispatch: `mqtt/homed` | none | `incomingMessage`, `sendUpdate`, topic parsing | callback of the HOMEd client |
| publisher: `mqtt/base/cmqttpublisher.cpp` | queue under a mutex, stop flag, worker thread | `publish`, `publishWorker`, destructor | all threads push, the worker sends |
| script clients: `mqtt/cmqtt.cpp`, `mqtt/scripting` | map script, function to client, no lock | `subscribe`, `unsubscribe` | script threads, main thread |
| script: `scripting/script/cscript.*`, `callers` | `m_running`, thread, four queues without a lock | constructor, destructor, `run`, `append`, `call` | every notifying thread appends |
| scripts manager: `cscriptsmanager.cpp` | vector of scripts, no lock | `attachScript`, `detachScript`, `script(name)` | main thread writes, notifying threads read |
| file watcher: `scripting/fs` | inotify descriptor, map of watches, `m_running` | `scanDirectory`, `watch`, `processEvent`, `stop` | main thread; the signal handler stops it |
| timers: `datetime/timers` | `m_running`, interval, start time, thread, mutex, condition variable | `start`, `stop`, `reset`, `run` | script thread and timer thread |
| sun tracker: `datetime/astronomical` | event times, subscriptions, circumpolar flag | `update`, `check`, `subscribe`, `unsubscribe` | own thread, script threads |
| dates, intervals, values, colours | none shared | conversions, comparisons | scripts, endpoints |
| serial line, GSM modem: `serial` | descriptor, mutex, time of the last message | `send`, `waitFor`, `sendSms`, queries | script threads |
| start and stop: `main.cpp`, `tools/singletone` | `running`, the singletons | `initialize`, `start`, `stop` | all |
| configuration, options, logging, helpers | read once | | |

What makes each part correct, in one line each:

* history: exactly the newest values; a reference stays good for as long as documented use needs it;
* observers: who asked for every arrival gets every arrival, who asked for changes gets the changes, and no script acts for good on an outdated value;
* endpoint: what is stored is what the device last said;
* publisher: order, nothing twice, nothing lost while connected, an end;
* scripts: one version at a time, loaded after the last change, no event lost to a running one;
* instances: ready once everything needed is known, no value dropped for good;
* timers: a started timer fires, a stopped one does not;
* sun tracker: each event once a day; GSM: one dialogue at a time, no wait for ever.

The hard behaviours are listed with their lines under "hazards" in `PROJECT.json`.

## 2. Modules

| Module | Models | Written as |
|---|---|---|
| `StorageOps` | `CStorage::setValue`, `changed`, `valueChanged`, `CValue::compareValue` | operators on a history, newest first |
| `Observers` | one property: history, observers, queues, callbacks | state machine |
| `ObserversProofs` | theorems about `Observers` | TLAPS |
| `Endpoint` | one endpoint: state messages to values and events | state machine over `StorageOps` |
| `OrderedDelivery` | what `publish` promises | abstract specification |
| `Publisher` | queue, worker, destructor, connection | state machine, implements `OrderedDelivery` |
| `PublisherProofs` | theorems about `Publisher` | TLAPS |
| `Homed` | the start of the program and the tree that grows from HOMEd's messages | state machine |
| `HomedProofs` | theorems about `Homed` | TLAPS |
| `EndpointProofs` | theorems about `Endpoint` | TLAPS |
| `ScriptLife` | one script file: main thread, script threads, MQTT thread | state machine |
| `ScriptLifeProofs` | theorems about `ScriptLife` | TLAPS |
| `Timer` | the timers of one script, their threads, the queue they feed | state machine |
| `SunTracker` | the two threads of the sun tracker, and the clock | state machine |
| `TimeProofs` | theorems about `Timer` and `SunTracker` | TLAPS |
| `Watcher` | the main thread, the directory of scripts, inotify, who edits it | state machine over `Settings` |
| `Settings` | the command line and the options of the configuration | operators |
| `ScriptClients` | `CMqtt`: the MQTT clients that scripts ask for | state machine |
| `ProgramProofs` | theorems about `Watcher` and `ScriptClients` | TLAPS |
| `Bindings` | the order of the registrations with AngelScript, `CConverter` | operators |
| `Strings` | `utils/string.cpp` | operators on sequences of codes |
| `Commands` | a property, its commands, its device and the reports | state machine over `Values` |
| `Values` | `CValue`, `CColor` | operators |
| `Gsm` | the modem, its object, the dialogues of scripts with it | state machine over `Serial` |
| `Serial` | the settings of a serial line | operators |
| `Dates` | `CDateTime`, `CTimeInterval` | operators |
| `CommandsProofs` | theorems about `Commands`, `Gsm`, `Values` and `Dates` | TLAPS |
| `MCObservers`, `MCEndpoint` | symmetry sets for TLC | |
| `MCTime` | `Timer` and `SunTracker` for TLC | constants, assumptions |
| `MCProgram` | `Watcher`, `ScriptClients`, `Bindings`, `Strings` for TLC | constants, assumptions |
| `MCCommands` | `Commands`, `Gsm`, `Dates` for TLC | constants, assumptions |

The last three put two state machines into one run that have no state in common: `part`, chosen in
the initial state, says which of them moves. What has no behaviour over time, conversions
and tables, is stated there as assumptions that TLC evaluates.

### StorageOps and Observers

`history`, `observers` are `m_history` and `m_observers`; an element of the history carries
the number of the `set` that stored it, which stands for the identity of the `CValue`.
`loop` is the MQTT thread between the unlock of `setValue` and its return. It keeps its own
picture `slots` of the memory its range-for walks, because that is what the code does: the
begin and end pointers are taken once. `SeenByLoop` says what a change of the vector does to
that memory: after an `erase` the slots are overwritten in place (CObserver has a destructor
and hence no move), past the new end the old bytes remain; after a reallocation the whole
range is freed memory. A step that looks at such a slot may read the old bytes or may do
anything; the latter is `ub = TRUE`, after which nothing is claimed.

`Visit` is the condition of `CObserver::call`, `Raise` its body, which reads script and method
from the slot again, so that after an erase they belong to another observer. The script's
queue of property notifications is `queue`, and its thread takes one entry (`StartCallback`),
gets a reference from `last()` (`TakeLast`) and uses it (`UseLast`); between the last two the
element may be freed, which again has two outcomes.

`quiet` is chosen in the initial state and never changes: it says whether this behaviour keeps
the discipline "nobody subscribes or unsubscribes during an announcement, and no two threads
do so at once". The code enforces no such thing: `Overlap` is two threads in `emplace_back` or
`erase` of the vector, which has no lock. It is a variable, not a constant, so that one run
explores both.

`due` and `seen` are history variables: who should still hear of the value being announced,
and what each callback last read. A `clear()` leaves `due` as it is: an observer of changes
whose value is cleared before its turn stays owed an event, and `Swallowed` names that case.

### Endpoint

One action per turn of the loops in `findChangedProperties` and `updateFd`/`updateDevice`; the
question `empty()` and the comparison with `last()` are two actions, as they are two locked
calls. `Clear` is a script that empties a history in between. Every property has one observer of
each kind, so that the counters `arrivals` and `alarms` say what the two kinds of observers
hear. Names are numbers: their order is that of `getMemberNames`, which sorts. Values of
different types are abstracted to a set; a colour, a number and a string are compared by the
same `!=` of the contained value.

### Publisher and OrderedDelivery

`worker` is the program counter of `publishWorker` with the command it has popped: the two
critical sections of a turn are the actions `Look` and `Pop`. `wire` is what the asynchronous
client has sent and the broker has not received; `Wait` returns whether or not the token is
complete. `Break` is a connection that is lost; the options ask for no reconnect, so it stays
lost. `OrderedDelivery` is the promise: each command at most once and in the order of the
calls. `Publisher` implements it with `accepted` read as `published`.

### Homed

`main` is the main thread: the construction of the `CHomed` singleton (`Subscribe`, and
`Construct` once the SUBACK has been received), then `CInstances::ready`, called again and
again, with its loop over the vector (`Poll`, `Ask`). `mqtt` is the callback thread: `Take` is
the beginning of `incomingMessage`, `Update` one call of `sendUpdate` down to the property;
a `status` message holds all devices and takes one `Update` for each. A PUBLISH that comes
while the singleton is under construction keeps the thread in the guard of the function-static
object: `Take` is then disabled for everything behind it, the SUBACK included. `Torn` is the
race of `ready()` with the thread that appends to the vectors it reads.

`updated` is what matters of `m_updated`: which of status and expose are in it. `Passes` is the
filter before readiness, `Asks` the one getProperties request. Of each device there is the property
`online`, which a status message creates, and one property with a value, which an expose
message creates; messages for properties that do not exist are passed over, as in `Endpoint`.

A zigbee topic names its instance and a custom topic belongs to the nameless one, so that each
instance has one service. (A zigbee service without an instance name is not modelled:
`parseTopic` would take the name of its device for the instance.)

`speaking` and `order` are chosen in the initial state. `speaking` says whose service is there.
`order` says what the broker can be relied upon for: nothing (MQTT permits a retained message
before the SUBACK), the SUBACK first, or moreover status and expose before everything else.

### ScriptLife

The main thread is a program counter through `attachScript`, `~CScript`, `detachScript`,
`CScript::CScript` and `push_back`. Every `CScript` object has a record with its thread's
program counter, `m_running`, the state of its callers and the length of its property queue.
The MQTT thread looks the script up by name (`LookUp`) and appends (`Append`). Pointers that are
unset, deleted or freed are touched with two outcomes, as above. `calm` is the counterpart of
`quiet`: it says that the others stand still during the short pieces of the constructor and
destructor, and that a script is only destroyed while its thread rests in its loop and nothing
is being announced to it. It is needed to say anything about undefined behaviour at all, and
it shows how much discipline the code asks for without enforcing it. `observers` is the set of
objects that have an observer, and nothing in the discipline is needed to say how many may be
left behind (`OrphansDoNotPileUp`).

### Timer

A timer is a record with its thread's program counter, `m_running`, `m_interval` and, for the two
clock readings of the code, ages: `age` since `m_startTime`, `left` of `wait_for`. Ages do not
grow beyond the interval, so that time needs no bound. The mutex is held from the decision to
trigger to the next wait, as in the code, and over the `join()` in `start()`.

A push to the script's queue is two actions, `Push` and `Write`: two threads may be between them, and
then one of the entries may be overwritten, or worse. `CCaller::call` runs the method before it
pops it: `Call`, `Return`. The condition of `wait_for` is `left = 0` or `~running`;
`reset()` does not wake the thread, which measures again when its wait ends (`Turn`). The bases
of a C++ object are destroyed after its derived part: `Drop` leaves a timer whose
`triggered()` is pure until the thread has ended.

`tcalm` is the discipline of this module: pushes and pops do not overlap, a one-shot timer is
started again only once its thread has ended, a timer is stopped before it is dropped.

### SunTracker

`time` is the entry of `m_eventsTime` for the event that is watched, relative to the begin of the
library's day; `StartUpdate` and `UpdateEvent` are the turns of `update()`, `Look` and `CheckEvent`
those of `check()`. All 26 events write `circumpolar`. Time may pass between any two steps of the
threads: both sleep at least their period, but the sleep may last longer and each of the 26 turns
waits for the mutex that the threads share. `late` is a history variable: today two checks were further
apart than the window is wide, or the time was older than `UpdatePeriod`, or the program was started. libnova is described by facts: the moment of an event is
symmetric around the transit and nearer to it the higher the horizon; on some days the sun does
not cross some horizons.

### Settings and Watcher

`main` goes through `prepareOptions`, `initialize`, the constructor of `CFileWatcher`, the scan and
the loop of `watch()`. The kernel has watches on inodes (`watch`), of which the program knows the
numbers (`directory`), and a queue that merges equal neighbours and overflows; a directory that is
deleted and made again has a new inode; an inode has one watch (`WatchOf`). The events of `read()` are in `buffer`. The signal
handler runs on the main thread, between any two of its steps after the options; the first signal
also joins the threads of the sun tracker, which hangs (`"stuck"`) if it interrupts the destructor
of a script that holds the tracker's mutex (`Reloading`). To delete a script may also hang by
itself (`Hang`), as the fourth finding shows. A configuration may be unusable (`RefuseConfig`). What the code tests and
uses in two calls is two actions (`ProcessEvent`, then `Add` or `Attach`), and the exception of the
second, which nobody catches, is `"dead"`. `Settings` folds the arguments one by one, as
`CCmdLine::parse` does, and follows a path through a tree as `CConfigurationOption::extract` does.

`blind` and `excuse` are history variables. A file is blind if its last change could not be seen: a
rename, which is not in the mask, or a change in a directory before its watch. `excuse`
records that somebody changed what the program was between testing and using, or faster than
it reads.

### ScriptClients

`listed` is the map script, function to client; `caller` is a script's thread in `subscribe()`,
with its three cases (no client, another topic, nothing to do); `closer` is the main thread in
`unsubscribe()`, with the destructors in C++ order: the callback goes before the connection.
A new script's thread runs, and may subscribe, before the manager has it in its list (`Return`, then
`PushBack`). `ccalm`: one thread at a time is in the map, a script does not subscribe while it is
destroyed, no message comes for a client whose callback has gone, nor in the gap before `PushBack`.

### Bindings and Strings

`Registrations` is what `registerEntities` does, in its order: the types that a step adds and those its
declarations name, the latter translated by `Converter` with the dictionary of `CConverter` in its
order. `Strings` has the functions of `utils/string.cpp` on sequences of ASCII codes.

### Values and Commands

A value is a kind and its data, `CompareValue` and the `As...` operators are the conversions.
`Commands` closes the loop that the other modules cut open: `set` or `setIfNotEqual`, the command
on its way, the device that obeys, its report on the way back, the stored value that the next
`setIfNotEqual` compares with. Somebody may also turn a switch at the device. `careful` is the
discipline: `setIfNotEqual` is called only when nothing is under way.

### Serial and Gsm

`Dialogue` lists the steps of each method of `CGsm` with the way each waits. A caller goes through
`Lock`, `Write`, `Read` or `TimeOut` for each step, and `Leave`; the mutex belongs to the
object, of which there may be two: `CSerialDevices::gsm()` makes one whenever it finds none.
(`start()` in `main()` calls `CAngel::start`, which returns when the program stops, before
`CSerialDevices::start`; so scripts are the ones that make the modem.) The modem answers
a command with OK or ERROR and, for queries, data; `rest` is an answer of which a part is
still to come, `network` the reply of the network to a USSD query.

`trouble`, chosen in the initial state, is the one thing that goes wrong in a behaviour: two scripts
ask for the modem at once, a script calls `isReady`, answers come late or in pieces, the device is
pulled, the program is stopped under the scripts.

### Dates

Both classes are milliseconds; arithmetic goes through seconds as in the code, and the
comparisons are as they are written there: `<` is "at most" and `<=` is "less".

## 3. Runs

| Run | Bounds | Result |
|---|---|---|
| `observers` | 2 scripts, 1 method, 2 values, history of 2, 3 values, 2 subscriptions | all properties hold (1.6 million states) |
| `observers_race` | history of 2, 1 value, 3 subscriptions | `NoEventLost` violated: finding |
| `observers_one` | history of 1, 1 script, 2 values | `ChangedOnlyMeansChange` violated: finding |
| `endpoint` | 3 properties, one of them always updated, 2 values, 3 messages, 1 clear each | all properties hold (4.4 million states) |
| `endpoint_arrival` | 2 properties, 2 messages | `EveryArrivalIsAnEvent` violated: finding |
| `publisher` | 5 commands | all properties hold, implements `OrderedDelivery` |
| `homed` | 2 instances of 1 device, 1 packet under way, 1 change of a value | all properties hold (0.6 million states) |
| `scripts` | 3 events for the file, 2 values | all properties hold |
| `script_reload` | 2 events, no value | `ChangedScriptRuns` violated: finding |
| `time` | 2 timers, 1 of them in the hands of the script, interval 1, period 2, no waiting notice; a day of 10 with two events, window of 3 moments, least period 2, three kinds of days | all properties hold (0.28 million states) |
| `program` | 1 directory, 2 files, 2 scripts, 3 changes, kernel queue of 2; 2 scripts with 1 method and 2 topics, 4 calls | all properties hold (0.75 million states) |
| `commands` | 2 values of each kind, 3 calls; 2 scripts, 2 dialogues | all properties hold (0.26 million states) |

What they show:

* `observers`: the history is the newest values and trimmed right (`HistoryIsRecent`); a
  reference survives any burst shorter than the history (`ReferenceLifetime`); if nobody
  subscribes in the middle of an announcement or at the same time as another thread, an observer of
  every value misses none and an observer of changes only one that a `clear()` removed before its
  turn, which does happen (`NoEventLostIfQuiet`), observers of changes hear of changes only
  (`ChangedOnlyMeansChange`), and a script whose queue is empty has seen the current value
  (`SeenIsCurrent`), although callbacks read the value when they run and not when they
  were queued. Two scripts and two subscriptions are enough for an observer to move into the
  slot of another, three values for a full history of two to lose its oldest.
* `endpoint`: what is stored is what was carried last (`StoredIsCarried`), an action is
  announced for each message (`ActionsArrive`), an alarm is a change up to one error per
  `clear` (`AlarmsAreChanges`). Three properties let a message be unchanged, changed and
  always updated at once; three messages are a first one, a change and a repetition.
* `publisher`: order (`InOrder`), no loss while connected (`LossNeedsBreak`), silence after
  the destructor (`SilentOnceGone`), every command arrives (`EveryCommandArrives`), the
  destructor ends if it finds the worker past its first statement (`StopIsHeard`). Five
  commands fill queue, worker and wire at once.
* `homed`: scripts are loaded only when every instance that was there when `ready()` began is
  ready (`StartedIsReady`); if status and expose come first, the tree ends up with the values
  the devices have although messages before readiness are dropped and a device is asked once
  (`NothingForgotten`); if the SUBACK comes first, the constructor ends (`ConstructorEnds`), and
  if all services speak, the scripts are loaded (`ScriptsStart`). None of the conditions can be
  dropped: with `order` = `"any"` the constructor and the callback thread wait for each other for
  ever, and with `"acked"` the answer to the one request, or an availability, may be dropped.
  Two instances let one be ready while the other is unknown; one packet under way is
  enough, as the broker chooses the order of what it sends.
* `scripts`: two versions never run at the same time (`OneVersionRuns`), a notification
  in the queue of a running script is taken (`NoticesAreTaken`); with the discipline a
  reload touches no freed memory (`CalmIsSafe`) and ends (`CalmReloadEnds`). Without it a script
  whose thread subscribes after the destructor has removed its observers leaves one behind, which
  calls the next version twice; but only the version destroyed last has left any, because the
  next destructor removes by name (`OrphansDoNotPileUp`). Three events are a first load, a reload
  and a reload of the reloaded.
* `time`: no timer fires early, whenever a reset falls into its wait, and a cron timer not twice for
  one instant (`FiresInTime`); `start` and `stop` return although `start` joins under the mutex
  (`CallsReturn`): a thread that has left its loop needs the mutex no more. A timer that is started
  fires, and what it queues is called, under the discipline `tcalm` (`StartedIsCalled`); without
  it a start may meet a one-shot timer about to end and be lost, and pushes may overwrite
  each other. One timer in the hands of the script and one that fires by itself are all the
  pairs of threads there are; a period longer than the interval separates cron from the others.
  An event of the sun is reported at most twice on its day, because the window is exactly as wide as
  the least period of the polls and two of them may hit its ends; and at least once on a day on which
  everything rises and no thread of the tracker was late (`EventIsNoticed`). Nothing in the code
  keeps them from being late, and then the event may be missed. The tracker falls silent for good exactly after an
  update without astronomical night (`SilentForGood`): from then on no event is reported although
  the sun rises every day. `PhasesAreOrdered` says which phases end after they start, and that the
  sunset does not.
* `program`: the newest contents of every script file that can be seen are loaded
  (`NothingMissed`); what the process dies of (`DiesOnlyIfProvoked`); a signal ends the loop
  (`StopIsTaken`), if it comes after the scan (before, `m_running = true` overwrites it) and the main
  thread does not hang in the destructor of a script that is being reloaded. The
  connected clients are those the scripts asked for (`ClientsAreAskedFor`). Three changes are a
  directory that is deleted with its file and made again; four calls are a subscription of each
  script, a change of topic and a new version. The assumptions: a path belongs to the
  option before it (`PathsBelongToOptions`); an option missing from its object of the configuration
  throws instead of giving its default (`MissingOptionThrows`); all types are registered before
  they are used (`EverythingRegisters`); `size_t` alone has another width for scripts
  (`OnlySizeIsConfused`); `natural_compare` is a strict weak order
  (`NaturalOrderIsWeakOrder`).
* `commands`: a device ends up as the last command or the last hand wanted it, and so does the
  property (`WantedInTheEnd`), for each kind of value; without `careful`, `setIfNotEqual` may swallow
  a command because the answer to an earlier one is still under way. A message for which `sendSms`
  returned true was accepted (`SentIsAccepted`), and every dialogue ends if the modem refuses nothing
  (`DialogsEnd`). Each trouble but the device being pulled breaks `SentIsAccepted`: an OK does not
  say what it is for. Two calls are two dialogues at once, or one after another's rest.
  The assumptions say what survives which conversion (`ColoursSurvive`, `ValuesSurvive`), that the
  text of an interval adds up to its seconds (`PartsAddUp`), and that settings and ends of commands
  are distinguishable (`SettingsAreKept`, `EndingsDiffer`).

Four runs end in a counterexample on purpose; each contradicts a sentence of `README.md` and is
listed under "findings":

1. `observers_race`: a script unsubscribes while a value is announced; the observers behind it
   move down and the one that lands in the visited slot is skipped.
2. `observers_one`: with `values_history_count` 1 every repeated value counts as a change.
3. `endpoint_arrival`: a message in which one property changed drops the arrival of the others.
4. `script_reload`: two events in a row. The second destroys the object the first one made
   before its thread has set `m_running`; the thread's `m_running = true` overwrites the
   destructor's `false`, and `join()` never returns. Nothing is loaded any more.

No run checks for deadlock: the bounds on messages, subscriptions and events end every
behaviour, and undefined behaviour does. (A wait that should end is a liveness property.)

### Fairness

`Publisher`, `Homed`, `ScriptLife`, `Watcher` and `Gsm` assume weak fairness only: the
operating system runs a thread that can step, a `join()` returns once the thread has ended, a
callback returns, the broker takes what has been sent and delivers what it retains, a
service answers, the MQTT thread finishes the append it
began. Nobody has to publish, to change a file, to send a value, to break or to keep the
connection, or to stop the program. In `Watcher` the main thread runs, and may take the step that hangs; in `Gsm` the threads
of the scripts, the modem and its network; nobody has to edit, to ask, to unplug or to send a signal.

`Timer` has strong fairness for three actions, which others disable again and again: a thread that wants to
push gets to it although the discipline keeps it apart from other pushes, and the script gets to its
queue (`Call`, `Return`) although each turn of its loop may do something else; a turn has finitely
many calls. Threads that can step, and time, have weak fairness.

`Observers`, `Endpoint`, `SunTracker`, `ScriptClients` and `Commands` have safety properties only.

## 4. Proofs

`ObserversProofs` proves six theorems for all scripts, methods, values, bounds and history
sizes, from the assumptions `HistorySizeAssumption` and `ObserversAssumption`, which TLC
evaluates in the runs.

* `TypeCorrect`. `Typed` is `TypeOK` together with what the program counters say of the
  indices: a loop that is not idle stands at a slot from 1 on, one that raises stands within
  its slots. One step per action; `PushFacts` and `CompactFacts` say what `Push` and the
  erase yield, `SeenByLoopFacts` that the memory the loop sees keeps its length and type.
* `HistoryRecent` and `ReferencesLive`. `HistoryInv` adds that what a callback holds was
  once stored (its number is not above `stores`); the identities in the history are then a gapless
  run down from `stores`, so that a number not among them is old enough or was cleared.
* `EventsArrive` (for `HistorySize > 0`). `EventInv`: in a quiet behaviour the slots of the loop
  are the observers, and everyone in `due` is in a slot the loop has yet to visit or stands in
  the one it is raising, or was swallowed by a `clear()`. The clause for observers of changes needs that
  the loop's `fresh` agrees with what `valueChanged` will answer unless the history has been cleared,
  hence the assumption on the size: with an empty history nothing is ever a change.
* `ChangesOnly` (for `HistorySize > 1`). `FreshInv`: while a value is announced and the history
  has not been cleared, `fresh` is exactly `ValueChanged(history)`. It is the assumption the run
  `observers_one` shows to be needed.
* `SeenStaysCurrent`. `SeenInv`: for each observer, either a callback is pending, or the value
  it read is the newest, or the loop has yet to decide about it, and decides for a call
  whenever the two differ (`TurnDecides`).

The temporal step of each is the same: the initial states satisfy the invariant, each step of
`Next` or a stutter preserves it, it implies the property, PTL.

`PublisherProofs` proves six theorems for any number of commands, from `PublisherAssumption`.

* `TypeCorrect`. `Typed` adds that a worker about to pop finds the queue not empty, although it
  looked under an earlier lock (nobody else pops), and that a publisher that is gone has
  ended its worker.
* `OrderKept`. `InOrder` speaks of one sequence put together from four pieces and is not
  inductive: `Chain` says of each piece that it is in order, before the pieces behind it, and not
  above the number of calls. A step moves one command over one border. The lemmas on
  sequences say what `Append` and `Tail` do to such orders.
* `NothingLost`. `Counted` is its count piece by piece; the connection never comes back, so
  that nothing has to be said once it is down.
* `Silence`. The last step of the destructor is the join, and a worker that ended sends nothing.
* `Implements`. Each step is a step of `OrderedDelivery` or a stutter; that the command received
  is newer than all before it and not above the calls is `Chain`.
* `StopIsNear`. `StepsLeft` counts the statements between the worker's place and its end once the
  flag is up: every step makes it less, although the queue may grow all the time.

`HomedProofs` proves four theorems for any instances, devices and values, from
`HomedAssumption`.

* `TypeCorrect`. `Typed` adds that the loop of `ready()` stands within the vector as it was when the
  loop began, and that a packet with devices left is not the SUBACK. The type includes that the
  vector holds an instance at most once; `AddFacts` is what `ensure` does to it.
* `ReadyAtStart`. `Asked`: the instances the loop has passed are ready. It is kept by the steps of the
  other threads because an instance keeps its place and stays ready (`ReadyStays`).
* `NothingIsForgotten`. A value travels from the device to the tree through what is retained, the
  link, the packet in the hands of the callback thread and, if it is dropped, through a request and
  its answer. `Unforgotten` follows it: `Told` says that an expose or a status that the tree still
  lacks is on its way, before every value of the device (`Ordered`); `Newest` that the last message on
  the way carries the value the device has, or, if there is none, the tree has it or will ask for it
  (`Remembered`). `InPacket` ties the devices that are left to do to their packet, and no value is
  retained (`NoValueRetained`). Without the order of the messages none of this holds, which is why
  the property has `order = "orderly"`.
* `NoStandstillAtStart`. The constructor of the singleton waits for the SUBACK, and the thread that would
  take it could wait for the singleton. `AckInv`: until the SUBACK has been taken nothing is handled, and it
  stays the first of the link.

`CommandsProofs` proves for every argument what `MCCommands` evaluates for a few.

* `ColourFromItsInt`, `IntFromItsColour`: between colours and the integers below 2^24 the two
  conversions are inverse to each other, and any other integer is taken modulo 2^24. `Digits` and
  `FromDigits` are the two directions for three digits to the base 256.
* `LaterAndEarlier`, `TimeOfDayIsNext`: moving a date on and back loses its milliseconds and nothing
  else; a time of the day is the next instant at which the clock shows it.
* `LessIsReflexive`: what the swapped comparisons of the two classes amount to.

`EndpointProofs` proves four theorems for any properties, values, messages and clears, from
`EndpointAssumption` and `HistorySizeAssumption`.

* `TypeCorrect`. `Placed` says where the thread is in a message: each member is still to come
  or has had its turn, the always-update properties that had it are to be stored, and what is
  stored the message carries. That the loop has a first name to take (`FirstFacts`) is the
  well-foundedness of `<` on the naturals.
* `StoredCorrect`. `Sure` are the properties that will be stored, `Compared` the one whose
  comparison is under way; `StoreInv`: all others have what was last carried for them. A clear
  between the two questions of a comparison can only make the code store what it has.
* `ActionsCorrect`. `ArrivalInv`: the events of an always-update property lag behind the
  messages by the one that is to be stored or has been and is not announced yet.
* `AlarmsCorrect` (for `HistorySize > 1`). `AlarmInv` keeps the books of changes against
  events, up to the number of clears: `Ahead` are the changes that have been counted and not
  announced, a history that was emptied owes an event too many.

`ScriptLifeProofs` proves five theorems for any number of file events and notifications, from
`ScriptLifeAssumption`.

* `TypeCorrect`, `OneVersion`. `Typed` needs no discipline: there are enough numbers for the
  objects (`Counted`), `m_scripts` holds the last object made except between `erase()` and
  `push_back()` (`Placed`), only the last object's thread may run, and it has been joined before
  the next object is there (`Lives`), no queue is longer than what was announced (`Queued`).
* `SafeIfCalm`. `CalmInv`: while the MQTT thread has an entry in its hand, the
  main thread rests and the entry is for the last object; only the last object has observers, and
  none from its destruction on; a thread that is being stopped is past its initialisation.
* `OrphansAreFew`. `Subscribed`: who has observers is the last object made or, until the next destructor has unsubscribed, the one before it.
  It needs `Typed` only, no discipline.
* `JoinIsNear`. From the same invariant: the thread that is joined is in its loop with the flag down,
  `TurnsLeft` steps from its end.

`TimeProofs` proves seven theorems about the two clocks, from `TimerAssumption` and `SunAssumption`:
for any timers, intervals and periods, and for any length of the day and any heights of the sun.

* `TimerTypeCorrect`, `NeverEarly`. `Good` says of one timer that its two ages agree, that a thread
  about to push has waited for its interval, and that a cron timer that has not seen an
  instant of its schedule is as far from the next one as its interval says. `reset()` and `start()`
  cannot come between the decision to fire and the push, because the thread holds its mutex
  from there to the end of its turn, and the notice that is being called is still in the queue.
* `SunTypeCorrect`, `Silence`. `SilenceInv`: during an update the season is that of its begin and what
  is written is news of this update only. The last of the 26 events has the lowest
  horizon, so that its word about `circumpolar` is the one that stays.
* `EventsAreNoticed`. `NoticeInv` has one part for each half of the property. `Near` and `Spaced` hold
  whatever the threads do: the time that is kept is that of the day or one that no moment of the day
  is near to, and after a check that has found the event the next one is a period later, so that a third
  cannot fall into a window that is as wide as a period. `Ordered` holds as long as the sun crosses
  every horizon: no update says that one is not (`Bright`), and while nothing is late the time is
  today's before the window begins and no check has stepped over it (`Punctual`).
* `JoinsAreShort`, `EndIsNear`. `JoinInv`: `m_running` is down only when there is no thread or `stop()` waits
  for it, so that `start()`, which joins while it holds the mutex the thread needs, joins only a thread
  that has ended. `Advances` says what a step of the thread does to its timer, `StepsLeft` how far it still is.

`ProgramProofs` proves four theorems about the main thread and two about the clients of scripts.
From `WatcherAssumption`, for any files and directories, any edits and any limit of the kernel's queue:

* `WatcherTypeCorrect`. `WatcherTyped` adds that the mark of an overflow is the one event above the limit
  (`Queue`), that the events of a deletion name a directory (`Sensible`), and what kind of path the main
  thread has in its hand. `Grown` sums up what an edit does to the queue, whether it merges, appends or
  overflows; the edits are reasoned about with `Grown` alone.
* `OnlyProvokedItDies`. The property is not inductive: the exception is thrown long after what
  caused it. `Calm` says, as long as nothing is excused, that the program knows every watch that the kernel
  has and every watch that an unread event names, that a directory whose deletion has
  not been read yet is still away, and that what the main thread is about to open, or the constructor's iterator to step into, is there.
* `EveryScriptIsSeen`. `Coming`: a script that is not loaded as it is will be seen by the
  scan (`Ahead`) or has an event that is not read yet (`Announced`; a mark of overflow counts, because it ends
  the program). The hard case is a file that changes while the scan runs: its directory must be
  watched before the scan has passed it, or the file is blind. `InPlace` says where the main thread
  is and `Housed` that no file is in a directory that is not there.
* `StopIsNear`. `Told`: a signal that came in the loop has put `m_running` down, and only the end of the
  scan puts it up. `Distance` counts the steps to the end; a read may fill the buffer once more, but with
  no more than the kernel's queue holds, and after it the loop looks at the flag. A step that hangs in the
  destructor of a script is an end here, which `StopIsTaken` names.

From `ScriptClientsAssumption`, for any scripts, methods, topics and number of calls:

* `ClientsTypeCorrect`. `ClientsTyped` adds that each number of a client, in the list, in a call
  or in the closer's hands, is that of a client made for this key. That there are no more clients
  than calls counts the ones being connected as well (`ClientsCounted`), with cardinalities.
* `AskedFor`. The property is about scripts that are at rest; `ClientsCalm` says what holds in
  between: who is in the list is connected and has the topic of the last call unless a call is
  under way (`Listed`); what each place of a call says of its client (`Called`); who is connected
  is listed, in a call or in the closer's hands (`Kept`). One thread at a time is in the map, so a list read
  at the begin of a call is the list at its end.

`CommandsProofs` also proves one theorem about commands, for any values and number of calls, from
`CommandsAssumption`, and two about the modem, for any scripts and number of calls, from `GsmAssumption`.

* `TheLastWordCounts`. `WayTyped`: what is under way are items of JSON that the device's type can hold.
  `LastSays`: the last report on its way says what the device is, and if there is none the last
  value does, unless it was cleared. `LastWins`: the last command on its way that the device will
  understand asks for what is wanted, and if there is none the device is that already. The latter
  needs `careful`: a command that `setIfNotEqual` swallows must be one that the device has
  obeyed. The lemma `ProperComesBack` is about the conversions of `Values`: what a device of a type
  reports is stored as the value that it has.

* `SentMeansAccepted`. An OK does not say what it is for, so the invariant `Sound` keeps the books of the
  line: between two dialogues it is clean (`Clean`: nothing written, nothing to be read, the modem not
  waiting for a text, no answer of the network due), and within one it says what is on it at
  each step (`InDialogue`): one command or its answer, except after CMGS, whose prompt nobody waits
  for (`Prompting`), and after a USSD query, whose answer comes on its own (`Networking`). Then an OK that
  is read after the text can only mean the text (`Texting`), although the prompt may be read with it. `OneObject`
  and `Guarded` say why a dialogue is alone: the first to ask makes the object while all others rest,
  and afterwards one mutex guards it. When the device is pulled the books are
  closed, and only what had been read counts (`Truthful`).
* `NoVainWait`. `Served` adds to `Sound` what each wait is owed: a script that waits for an OK has one on the
  line or a command on the wire as long as the modem has not refused anything (`Owed`; an ERROR does not end
  such a wait), and whoever holds the mutex is in a dialogue (`HeldInDialogue`).

Every invariant and every action property that the passing runs check, and the refinement of
`OrderedDelivery`, is stated by a theorem.
Only model-checked: the liveness properties (`EveryCommandArrives`, `StopIsHeard`, `ConstructorEnds`,
`ScriptsStart`, `CalmReloadEnds`, `NoticesAreTaken`, `CallsReturn`, `StartedIsCalled`, `StopIsTaken`,
`DialogsEnd`), because fairness and `ENABLED` are out of the prover's reach. Of the ones about an end, the
half that needs no fairness is proved for every value of the constants: a measure of the thread that is waited
for, which each of its steps makes less and nobody makes greater (`StopIsNear` for `StopIsHeard` and for
`StopIsTaken`, `JoinIsNear` for `CalmReloadEnds`, `EndIsNear` for `CallsReturn`), or that what is waited
for can still come (`NoStandstillAtStart` for `ConstructorEnds`, `NoVainWait` for `DialogsEnd`). What is left
to TLC is that the thread takes its steps. The formulas of these theorems are defined in the proof modules.
What `Settings`, `Strings`, `Bindings` and `Serial` compute is evaluated over bounded inputs.

## 5. Abstractions

* `CStorage::clear` is one step, although it takes the shared lock to write: its overlap with a reader of
  the deque is covered by no property.
* The disciplines `quiet`, `calm`, `tcalm`, `ccalm`, `careful`, `order`, `speaking`, `trouble` and the history
  variables `blind` and `excuse` exclude what the code does not survive or does not promise; each says in
  its comment what that is, and the hazards in `PROJECT.json` that no property covers say so. Behaviours
  without the discipline are explored, but little is claimed of them.
* The signal handler is not restricted to what a handler may call: it logs, joins and deletes. Of that the
  joins are modelled. A signal during the options, before the singletons that it asks for exist, is left out.
* `"done"` in `Watcher` is the end of the loop, of `initialize()` without a start, or of `prepareOptions`. What
  follows, the destructors of the static singletons with their joins, is not modelled.
* The clock of `SunTracker` goes forward by single units; that somebody sets it is not modelled.
* The commands that are in the queue of the publisher when it is destroyed are discarded by the code; the
  model keeps them in `queue`, to tell them from those that were lost.
* Operations of `std::queue` are atomic, except the pushes and pops of the method names in
  `Timer`, where they are not and overlapping ones are undefined. The other callers' queues
  race in the same way; `Observers` and `ScriptLife` show what goes wrong even if they behave.
* In `Homed` a command that is published is received, and the connection holds; `Publisher` says
  what that takes. The stop signal during the start is left out.
* `bool` flags shared by threads are read and written in one step and seen at once.
* The JSON payload is a function from property names to values; conversions that throw are not
  modelled (an exception in a callback ends the process).
* Doubles are counted in halves, and a double of seconds is a whole number; local time has neither
  summer nor leap seconds; of the names of colours there are six.
* A cron schedule is periodic. The half second that the code adds to each interval is one unit.
* The sleep of `sendSms` between two messages has no step: it delays, under the mutex, and ends.
* The bounds `MaxStores`, `MaxSubscribes`, `MaxMessages`, `MaxClears`, `MaxPublished`,
  `MaxEvents`, `MaxNotices`, `MaxLink`, `MaxChanges`, `MaxCalls`, `MaxDialogs` limit what the
  environment does, never what the program does. `KernelQueue` is the kernel's own limit;
  `MaxQueue` says how far behind a script may be before time waits for it.

## 6. Not modelled, and what is left

Not modelled:

* the AngelScript engine, paho MQTT, jsoncpp, libnova, croncpp and iconv: libraries, described by how the
  code uses them;
* logging and debug output, among it the printing of a line's settings; random numbers, names of threads;
* `CSerialWatcher`, a thread that logs what it reads;
* the text of topics and the JSON of payloads, and with them the ranges and types that
  `CEndpoint::updateExpose` reads; the regular expressions that take apart a modem's answers;
* `m_updated` of `CInstance` as a vector that grows with each message and is copied by `ready()`:
  memory is not modelled;
* the destructors of the static singletons after `main()`;
* the vector of several scripts in `CScriptsManager`: `ScriptLife` has one, and a lookup that races with
  a change of the vector has the same outcomes as one that finds a script under destruction.

Left to prove: the same for the properties about a beginning or an arrival (`EveryCommandArrives`,
`ScriptsStart`, `NoticesAreTaken`, `StartedIsCalled`), where the measure is a pair or a time, and lemmas on
what `Strings` and `Settings` compute, as far as that needs no induction over data.
