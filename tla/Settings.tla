-------------------------------- MODULE Settings --------------------------------
(***************************************************************************)
(* What the program reads before it does anything: the command line        *)
(* (CCmdLine) and the options of the configuration file                    *)
(* (CConfigurationOption).  How an argument is spelt does not matter, only *)
(* what kind of argument it is.                                            *)
(***************************************************************************)
EXTENDS Naturals, SequencesExt

Flag == {"help", "verbose", "version"}

Parameterised == {"config", "scripts"}

Default == [help |-> FALSE, verbose |-> FALSE, version |-> FALSE,
            config |-> "/etc/homed-angel.json", scripts |-> ""]

Option == DOMAIN Default

Unknown == {"-?", "--?"}          \* options nobody has added, with one dash and with two

Parameter == {"path", ""}         \* everything else; an argument may be empty

Argument == Option \cup Unknown \cup Parameter

\* currentOption is empty.
NoOption == "none"

\* One turn of the loop over the arguments; -h and an error leave it.
Take(s, arg) ==
  IF s.result # "ok" THEN s
  ELSE CASE arg = "-?" -> [s EXCEPT !.result = "error"]
         [] arg = "--?" \/ arg \in Parameterised -> [s EXCEPT !.current = arg]
         [] arg = "help" -> [s EXCEPT !.result = "help"]
         [] arg \in Flag \ {"help"} -> [s EXCEPT !.value[arg] = TRUE, !.current = NoOption]
         [] arg \in Parameter /\ s.current \notin Option -> [s EXCEPT !.result = "error"]
         [] arg \in Parameter /\ s.current \in Option ->
              [s EXCEPT !.value[s.current] = arg, !.current = NoOption]

\* The loop over the options: an empty value is the default, if that is not empty.
Defaulted(value) ==
  [o \in Option |-> IF o \notin Parameterised THEN value[o]
                    ELSE IF value[o] = "" THEN Default[o] ELSE value[o]]

\* An option at the end still waits for its value; it is not missed if it got an empty one.
Missing(s) ==
  s.current \in Option /\ s.value[s.current] = Defaulted(s.value)[s.current]

\* CCmdLine::parse
Parse(args) ==
  LET s == FoldLeft(Take, [result |-> "ok", current |-> NoOption, value |-> Default], args)
  IN  IF s.result # "ok" THEN s
      ELSE [s EXCEPT !.result = IF Missing(s) THEN "error" ELSE "ok",
                     !.value = Defaulted(s.value)]

\* What comes of it: prepareOptions.
Outcome(args) ==
  LET s == Parse(args)
  IN  IF s.result # "ok" THEN s.result
      ELSE IF s.value["version"] THEN "version" ELSE "run"

-----------------------------------------------------------------------------
(***************************************************************************)
(* A configuration is a tree: an object is a function from keys to values. *)
(***************************************************************************)
IsObject(json) == json.kind = "object"

Thrown == [kind |-> "leaf", value |-> "thrown"]

\* isMember and operator[]: a key that is missing leaves the search where it is; a leaf cannot be
\* asked for members.
Descend(json, key) ==
  IF ~IsObject(json) THEN Thrown
  ELSE IF key \in DOMAIN json.member THEN json.member[key]
  ELSE json

\* CConfigurationOption::extract.  An object has no value as a text or a number: as() throws,
\* and nobody catches it.
Extract(json, path) ==
  LET found == FoldLeft(Descend, json, path)
  IN  IF IsObject(found) THEN "thrown" ELSE found.value

\* CConfiguration::scriptingLocation
ScriptingLocation(value, json) ==
  IF value["scripts"] # "" THEN value["scripts"]
  ELSE Extract(json, <<"scripting", "location">>)

=============================================================================
