----------------------------------- MODULE Gsm -----------------------------------
(***************************************************************************)
(* The GSM modem: scripts get it from CSerialDevices, which makes it when  *)
(* it is first asked for, and hold dialogues with it over a serial line    *)
(* (CGsm, CSerialCommunication, CSerial).  A dialogue is guarded by the    *)
(* mutex of the object; each of its steps writes a command and then reads, *)
(* either whatever comes within a time limit or until an OK has come.      *)
(* An answer says OK or ERROR and not which command it is for.             *)
(***************************************************************************)
EXTENDS Serial, SequencesExt

CONSTANTS
  Caller,      \* the threads of the scripts
  GsmBaudrate, \* configured
  MaxDialogs   \* calls in a behaviour

ASSUME GsmAssumption == GsmBaudrate \in Nat /\ MaxDialogs \in Nat /\ "none" \notin Caller

VARIABLES
  thread,   \* per script: its call and how far it is
  current,  \* m_gsm: the number of an object, 0 for nullptr
  made,     \* objects made so far
  holder,   \* per object: the script that holds its m_mutex
  wire,     \* written and not yet taken by the modem
  line,     \* answers that have not been read
  modem,    \* what the modem is in the middle of
  dialogs,  \* calls so far
  sent,     \* messages for which sendSms has returned true
  accepted, \* messages the modem has accepted
  refused,  \* the modem has said ERROR
  plugged,  \* the device is there
  gub,      \* undefined behaviour has happened
  trouble   \* what goes wrong in this behaviour, one thing at most; never changes

gsmVars == <<thread, current, made, holder, wire, line, modem, dialogs, sent, accepted, refused,
             plugged, gub, trouble>>

\* One step of a dialogue.  send() with a needle waits for an OK; send() with a time limit takes
\* what comes and checks that there is an OK in it ("checked") or does not ("once"); with the
\* limit 0 it takes what is there.
Wait(command) == [command |-> command, how |-> "wait"]
Checked(command) == [command |-> command, how |-> "checked"]
Once(command) == [command |-> command, how |-> "once"]
Now(command) == [command |-> command, how |-> "now"]

\* CGsm::sendSms; ussd, whose last step only waits; ready; the queries; and isReady, the one that
\* does not take the mutex.  "open" is the constructor of CSerial.
Dialogue ==
  [sendSms |-> << Wait("CMGF"), Wait("CSMP"), Wait("CSCS"), Now("CMGS"), Wait("text") >>,
   ussd    |-> << Checked("CSCS"), Checked("CUSD"), [command |-> "none", how |-> "cusd"] >>,
   ready   |-> << Checked("AT"), Once("CPAS") >>,
   query   |-> << Once("CSQ") >>,
   isReady |-> << Once("AT") >>,
   open    |-> << Once("CMEE") >>]

\* Nothing; a script asks for the modem while another makes it; a script calls isReady; answers
\* come late or in pieces; the device is pulled; the program is stopped.
Trouble == {"none", "twice", "isReady", "late", "pulled", "stopped"}

Locking == {"sendSms", "ussd", "ready", "query"}

Call == Locking \cup {"isReady"}

Chunk == {"OK", "ERROR", "answer", ">", "+CUSD"}

Command == {"CMGF", "CSMP", "CSCS", "CMGS", "text", "CUSD", "AT", "CPAS", "CSQ", "CMEE"}

GsmTypeOK ==
  /\ made \in 0..(MaxDialogs + 1) /\ current \in 0..made
  /\ thread \in [Caller -> [pc : {"idle", "lock", "write", "read", "leave"},
                            call : Call, step : 1..5, with : 0..made, got : SUBSET Chunk,
                            number : 0..MaxDialogs, ok : BOOLEAN, opening : BOOLEAN]]
  /\ holder \in [1..made -> Caller \cup {"none"}]
  /\ wire \in Seq([command : Command, number : 0..MaxDialogs]) /\ line \in Seq(Chunk)
  /\ modem \in [typing : BOOLEAN, rest : BOOLEAN, network : BOOLEAN]
  /\ dialogs \in 0..MaxDialogs
  /\ sent \subseteq 1..MaxDialogs /\ accepted \subseteq 1..MaxDialogs
  /\ {refused, plugged, gub} \subseteq BOOLEAN /\ trouble \in Trouble

Idle == [pc |-> "idle", call |-> "query", step |-> 1, with |-> 0, got |-> {}, number |-> 0,
         ok |-> FALSE, opening |-> FALSE]

\* The first script that asks for the modem makes it: start() in main() calls CAngel::start, which
\* returns when the program stops, and CSerialDevices::start, which would make it, after that.
GsmInit ==
  /\ trouble \in Trouble
  /\ made = 0 /\ current = 0 /\ holder = <<>>
  /\ thread = [c \in Caller |-> Idle]
  /\ wire = <<>> /\ line = <<>>
  /\ modem = [typing |-> FALSE, rest |-> FALSE, network |-> FALSE]
  /\ dialogs = 0 /\ sent = {} /\ accepted = {}
  /\ refused = FALSE /\ plugged = TRUE /\ gub = FALSE

-----------------------------------------------------------------------------
(***************************************************************************)
(* The threads of the scripts.                                             *)
(***************************************************************************)
Program(c) == IF thread[c].opening THEN Dialogue.open ELSE Dialogue[thread[c].call]

Item(c) == Program(c)[thread[c].step]

\* The methods of the object lock first, isReady does not.
Entry(call) == IF call \in Locking THEN "lock" ELSE "write"

\* Messages are numbered.
MessageNumber(call) == IF call = "sendSms" THEN dialogs + 1 ELSE 0

\* A script may call gsm(), which takes no lock.
Asks(c) ==
  /\ ~gub /\ thread[c].pc = "idle" /\ dialogs < MaxDialogs
  /\ trouble # "twice" => \A d \in Caller : ~thread[d].opening

\* CSerialDevices::gsmAccessible
GsmAccessible == plugged /\ GsmBaudrate \in BaudRates

\* CSerialDevices::gsm finds an object.
Ask(c, call) ==
  /\ Asks(c) /\ current # 0
  /\ call = "isReady" => trouble = "isReady"
  /\ dialogs' = dialogs + 1
  /\ thread' = [thread EXCEPT ![c] =
       [pc |-> Entry(call), call |-> call, step |-> 1, with |-> current, got |-> {},
        number |-> MessageNumber(call), ok |-> FALSE, opening |-> FALSE]]
  /\ UNCHANGED <<current, made, holder, wire, line, modem, sent, accepted, refused, plugged,
                 gub, trouble>>

\* It finds none and makes one; open() flushes the line.  Another script may do so as well.
Make(c, call) ==
  /\ Asks(c) /\ current = 0 /\ GsmAccessible
  /\ call \in Locking
  /\ dialogs' = dialogs + 1
  /\ made' = made + 1 /\ holder' = Append(holder, "none")
  /\ wire' = <<>> /\ line' = <<>>
  /\ thread' = [thread EXCEPT ![c] =
       [pc |-> "write", call |-> call, step |-> 1, with |-> made + 1, got |-> {},
        number |-> MessageNumber(call), ok |-> FALSE, opening |-> TRUE]]
  /\ UNCHANGED <<current, modem, sent, accepted, refused, plugged, gub, trouble>>

\* Mutant: the lock_guard is missing.
LockNothing(c) ==
  /\ ~gub /\ thread[c].pc = "lock"
  /\ thread' = [thread EXCEPT ![c].pc = "write"]
  /\ UNCHANGED <<current, made, holder, wire, line, modem, dialogs, sent, accepted, refused,
                 plugged, gub, trouble>>

\* The lock_guard of the method.
Lock(c) ==
  /\ ~gub /\ thread[c].pc = "lock" /\ holder[thread[c].with] = "none"
  /\ holder' = [holder EXCEPT ![thread[c].with] = c]
  /\ thread' = [thread EXCEPT ![c].pc = "write"]
  /\ UNCHANGED <<current, made, wire, line, modem, dialogs, sent, accepted, refused, plugged,
                 gub, trouble>>

\* The step is over: the next one, or out of the dialogue, or out of the constructor, which
\* sets m_gsm.
Proceed(c, good) ==
  LET over == ~good \/ thread[c].step = Len(Program(c))
  IN  /\ thread' = [thread EXCEPT ![c] =
           IF ~over THEN [@ EXCEPT !.step = thread[c].step + 1, !.pc = "write", !.got = {}]
           ELSE IF thread[c].opening
           THEN [@ EXCEPT !.opening = FALSE, !.step = 1, !.got = {}, !.pc = Entry(thread[c].call)]
           ELSE [@ EXCEPT !.pc = "leave", !.ok = good]]
      /\ current' = IF over /\ thread[c].opening THEN thread[c].with ELSE current

\* CSerial::write.  If it fails, send returns an empty text.
Write(c) ==
  /\ ~gub /\ thread[c].pc = "write"
  /\ IF Item(c).command # "none" /\ ~plugged
     THEN Proceed(c, Item(c).how \in {"once", "now"}) /\ UNCHANGED wire
     ELSE /\ thread' = [thread EXCEPT ![c].pc = "read", ![c].got = {}]
          /\ wire' = IF Item(c).command = "none" THEN wire
                     ELSE Append(wire, [command |-> Item(c).command, number |-> thread[c].number])
          /\ UNCHANGED current
  /\ UNCHANGED <<made, holder, line, modem, dialogs, sent, accepted, refused, plugged, gub,
                 trouble>>

Needle(how) == IF how = "cusd" THEN "+CUSD" ELSE "OK"

\* CSerial::read takes all that has come; waitFor goes on until the needle is in it.
Read(c) ==
  LET how == Item(c).how
      got == thread[c].got \cup ToSet(line)
  IN  /\ ~gub /\ thread[c].pc = "read"
      /\ how # "now" => line # <<>>
      /\ line' = <<>>
      /\ CASE how \in {"once", "now"} -> Proceed(c, TRUE)
           [] how = "checked" -> Proceed(c, "OK" \in got)
           [] how \in {"wait", "cusd"} ->
                IF Needle(how) \in got THEN Proceed(c, TRUE)
                ELSE thread' = [thread EXCEPT ![c].got = got] /\ UNCHANGED current
      /\ UNCHANGED <<made, holder, wire, modem, dialogs, sent, accepted, refused, plugged, gub,
                     trouble>>

\* dataAvailable(): select() gives up; read returns an empty text.
TimeOut(c) ==
  /\ ~gub /\ thread[c].pc = "read" /\ Item(c).how \in {"once", "checked"} /\ line = <<>>
  /\ trouble # "late" => wire = <<>> /\ ~modem.rest
  /\ Proceed(c, Item(c).how = "once")
  /\ UNCHANGED <<made, holder, wire, line, modem, dialogs, sent, accepted, refused, plugged, gub,
                 trouble>>

\* Mutant: the mutex is locked by hand and an early return forgets to unlock it.
LeaveLocked(c) ==
  /\ ~gub /\ thread[c].pc = "leave"
  /\ thread' = [thread EXCEPT ![c] = Idle]
  /\ UNCHANGED <<current, made, holder, wire, line, modem, dialogs, sent, accepted, refused,
                 plugged, gub, trouble>>

\* The method returns and the lock_guard goes.
Leave(c) ==
  /\ ~gub /\ thread[c].pc = "leave"
  /\ thread' = [thread EXCEPT ![c] = Idle]
  /\ holder' = IF thread[c].call \in Locking THEN [holder EXCEPT ![thread[c].with] = "none"]
               ELSE holder
  /\ sent' = IF thread[c].call = "sendSms" /\ thread[c].ok THEN sent \cup {thread[c].number}
             ELSE sent
  /\ UNCHANGED <<current, made, wire, line, modem, dialogs, accepted, refused, plugged, gub,
                 trouble>>

ScriptThread(c) == Lock(c) \/ Write(c) \/ Read(c) \/ TimeOut(c) \/ Leave(c)

-----------------------------------------------------------------------------
(***************************************************************************)
(* The modem, its network, the user's hands and the signal handler.        *)
(***************************************************************************)
Says(chunks) == line' = line \o chunks

Refuses == Says(<<"ERROR">>) /\ refused' = TRUE /\ UNCHANGED <<accepted, modem>>

\* The text of a message is whatever comes after CMGS.
TakeText(item) ==
  \/ /\ Says(<<"OK">>) /\ UNCHANGED refused
     /\ accepted' = IF item.command = "text" THEN accepted \cup {item.number} ELSE accepted
     /\ modem' = [modem EXCEPT !.typing = FALSE]
  \/ /\ Says(<<"ERROR">>) /\ refused' = TRUE /\ UNCHANGED accepted
     /\ modem' = [modem EXCEPT !.typing = FALSE]

\* A query is answered with the data and an OK, which may come later.
TakeCommand(item) ==
  \/ Refuses
  \/ /\ UNCHANGED <<accepted, refused>>
     /\ CASE item.command = "CMGS" -> Says(<<">">>) /\ modem' = [modem EXCEPT !.typing = TRUE]
          [] item.command \in {"CSQ", "CPAS"} ->
               \/ Says(<<"answer", "OK">>) /\ UNCHANGED modem
               \/ /\ trouble = "late" /\ Says(<<"answer">>)
                  /\ modem' = [modem EXCEPT !.rest = TRUE]
          [] item.command = "CUSD" ->
               Says(<<"OK">>) /\ modem' = [modem EXCEPT !.network = TRUE]
          [] item.command \in {"CMGF", "CSMP", "CSCS", "AT", "CMEE"} ->
               Says(<<"OK">>) /\ UNCHANGED modem
          [] OTHER -> FALSE

Answer ==
  /\ ~gub /\ plugged /\ wire # <<>> /\ ~modem.rest
  /\ wire' = Tail(wire)
  /\ IF modem.typing THEN TakeText(Head(wire)) ELSE TakeCommand(Head(wire))
  /\ UNCHANGED <<thread, current, made, holder, dialogs, sent, plugged, gub, trouble>>

RestOfAnswer ==
  /\ ~gub /\ plugged /\ modem.rest
  /\ Says(<<"OK">>)
  /\ modem' = [modem EXCEPT !.rest = FALSE]
  /\ UNCHANGED <<thread, current, made, holder, wire, dialogs, sent, accepted, refused, plugged,
                 gub, trouble>>

\* The answer to a USSD query comes on its own.
Network ==
  /\ ~gub /\ plugged /\ modem.network
  /\ trouble # "late" => line = <<>>
  /\ Says(<<"+CUSD">>)
  /\ modem' = [modem EXCEPT !.network = FALSE]
  /\ UNCHANGED <<thread, current, made, holder, wire, dialogs, sent, accepted, refused, plugged,
                 gub, trouble>>

Unplug ==
  /\ ~gub /\ plugged /\ trouble = "pulled"
  /\ plugged' = FALSE
  /\ UNCHANGED <<thread, current, made, holder, wire, line, modem, dialogs, sent, accepted, refused,
                 gub, trouble>>

\* CSerialDevices::stop deletes the object, whoever uses it.
Stop ==
  /\ ~gub /\ trouble = "stopped" /\ current # 0
  /\ gub' = (\E c \in Caller : thread[c].pc # "idle" /\ thread[c].with = current)
  /\ current' = 0
  /\ UNCHANGED <<thread, made, holder, wire, line, modem, dialogs, sent, accepted, refused, plugged,
                 trouble>>

GsmNext ==
  \/ \E c \in Caller, call \in Call : Ask(c, call) \/ Make(c, call)
  \/ \E c \in Caller : ScriptThread(c)
  \/ Answer \/ RestOfAnswer \/ Network \/ Unplug \/ Stop

\* The threads run and the modem and its network answer; nobody has to ask, to unplug or to stop.
GsmFairness ==
  /\ \A c \in Caller : WF_gsmVars(ScriptThread(c))
  /\ WF_gsmVars(Answer) /\ WF_gsmVars(RestOfAnswer) /\ WF_gsmVars(Network)

GsmSpec == GsmInit /\ [][GsmNext]_gsmVars /\ GsmFairness

-----------------------------------------------------------------------------
(***************************************************************************)
(* Properties.                                                             *)
(***************************************************************************)

\* When sendSms returns true the modem has accepted that message, whatever other scripts ask of
\* it meanwhile.  The discipline: the device stays, it answers as a whole and within the time
\* limits, no script calls isReady, which takes no lock, and none asks for the modem while another
\* makes it (CGsm::sendSms, CSerial::waitFor, CSerialDevices::gsm).
SentIsAccepted == trouble \in {"none", "pulled"} => sent \subseteq accepted

\* Under the same discipline, and as long as the modem refuses nothing, every call returns: the
\* waits for an OK and for the answer of the network end and the mutex is handed on
\* (CGsm::sendSms, CGsm::ussd).
DialogsEnd ==
  \A c \in Caller : thread[c].pc # "idle" ~> (thread[c].pc = "idle" \/ refused \/ trouble # "none")

=============================================================================
