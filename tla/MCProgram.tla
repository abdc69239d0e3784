-------------------------------- MODULE MCProgram --------------------------------
(***************************************************************************)
(* The main thread and the threads of scripts around their MQTT clients,   *)
(* which share nothing that these properties depend on: a behaviour is one *)
(* or the other.  What is computed once and has no behaviour, the options, *)
(* the registration with AngelScript and the functions on texts, is        *)
(* checked by assumptions over bounded inputs.                             *)
(***************************************************************************)
EXTENDS Watcher, ScriptClients, Bindings, Strings

MCPlace == [f \in {"f", "g"} |-> IF f = "f" THEN "root" ELSE "d"]

MCArguments == {<<>>, <<"version">>}

VARIABLE part   \* never changes

ProgramInit ==
  /\ part \in {"watcher", "clients"}
  /\ WatcherInit /\ ClientsInit
  /\ part = "watcher" => ccalm
  /\ part = "clients" => \A p \in Dir \cup File : ~Exists(p)

ProgramNext ==
  \/ part = "watcher" /\ WatcherNext /\ UNCHANGED <<clientVars, part>>
  \/ part = "clients" /\ ClientsNext /\ UNCHANGED <<watcherVars, part>>

ProgramSpec == ProgramInit /\ [][ProgramNext]_<<watcherVars, clientVars, part>> /\ WatcherFairness

-----------------------------------------------------------------------------
(***************************************************************************)
(* The command line and the configuration.                                 *)
(***************************************************************************)
ArgumentLists == BoundedSeq(Argument, 3)

\* A path is taken only right after an option that wants one, and what an option has in the end
\* is the last path it was given, or its default (CCmdLine::parse).  An option at the end is
\* missed, one in the middle is not: the next option silently takes its place.
ASSUME PathsBelongToOptions ==
  \A args \in ArgumentLists :
    Outcome(args) \in {"run", "version"} =>
      /\ \A i \in DOMAIN args : args[i] \in Parameter => i > 1 /\ args[i - 1] \in Parameterised
      /\ \A o \in Parameterised :
           LET given == {i \in DOMAIN args : args[i] = "path" /\ args[i - 1] = o}
               later == {i \in DOMAIN args : args[i] = "" /\ args[i - 1] = o}
           IN  Parse(args).value[o] =
                 IF given # {} /\ \A i \in later : i < Max(given) THEN "path" ELSE Default[o]

MCObject(members) == [kind |-> "object", member |-> members]
MCLeaf(value) == [kind |-> "leaf", value |-> value]

\* A configuration that leaves an option out of its object does not give the default of the
\* option, it ends the program, and so does one that puts a leaf in the place of the object
\* (CConfigurationOption::extract).
ASSUME MissingOptionThrows ==
  LET full == MCObject([scripting |-> MCObject([location |-> MCLeaf("there")])])
      lacking == MCObject([scripting |-> MCObject([other |-> MCLeaf("there")])])
      leaf == MCObject([scripting |-> MCLeaf("elsewhere")])
  IN  /\ ScriptingLocation(Default, full) = "there"
      /\ ScriptingLocation(Default, lacking) = "thrown"
      /\ ScriptingLocation(Default, leaf) = "thrown"
      /\ ScriptingLocation([Default EXCEPT !.scripts = "path"], lacking) = "path"

-----------------------------------------------------------------------------
(***************************************************************************)
(* The registration with AngelScript.                                      *)
(***************************************************************************)
UsedTypes == UNION {Registrations[i].uses : i \in DOMAIN Registrations}

\* No call of AngelScript is refused, which only an assert would notice: every type is added
\* once, and before the first declaration with it (CScriptEnvironment::registerEntities).
ASSUME EverythingRegisters == RegisterEntities.ok

\* A scalar has as many bytes for AngelScript as for C++, but size_t has eight and becomes a uint
\* with four: at(const size_t &) reads four bytes more than the script has written (CConverter).
ASSUME OnlySizeIsConfused ==
  {t \in UsedTypes : Converter(t)[1] \in DOMAIN Scalar /\ Bytes(t) # Scalar[Converter(t)[1]]}
    = {Size}

\* The order of the dictionary: no operator is replaced in part (CConverter).
ASSUME OperatorsAreOneName ==
  \A op \in {<<"+">>, <<"-">>, <<"<">>, <<"<", "=">>, <<">">>, <<">", "=">>, <<"=", "=">>,
             <<"!", "=">>, <<"=">>, <<"[]">>} :
    Len(Converter(<<"operator">> \o op)) = 1

-----------------------------------------------------------------------------
(***************************************************************************)
(* The functions on texts.                                                 *)
(***************************************************************************)
MCTexts == BoundedSeq({45, 49, 50, 97}, 2) \cup BoundedSeq({49, 50, 97}, 3)

MCLess == [p \in MCTexts \X MCTexts |-> NaturalLess(p[1], p[2])]

\* std::sort needs a strict weak order, and natural_compare is one although it ignores what
\* follows the digits (natural_compare, sort_strings).
ASSUME NaturalOrderIsWeakOrder ==
  \A a, b \in MCTexts :
    /\ ~(MCLess[<<a, b>>] /\ MCLess[<<b, a>>])
    /\ MCLess[<<a, b>>] => \A c \in MCTexts : MCLess[<<a, c>>] \/ MCLess[<<c, b>>]

MCPadded == BoundedSeq({32, 44, 95, 97, 66}, 3)

\* The functions undo what they should and lose nothing else (to_snake_case, to_camel_case, trim,
\* split, replace, sort_strings, unique_strings).
ASSUME TextsAreKept ==
  /\ \A t \in MCPadded :
       /\ (Underscore \notin ToSet(t) /\ t # <<>> /\ ~IsUpper(t[1])) => CamelCase(SnakeCase(t)) = t
       /\ AllDigits(t) <=> t = <<>>
       /\ Lower(Upper(Lower(t))) = Lower(t)
       /\ Trim(Trim(t)) = Trim(t) /\ ContainsText(t, Trim(t))
       /\ FlattenSeq(Split(t, 44)) = Replace(t, <<44>>, <<>>)
       /\ ~ContainsText(Replace(t, <<44>>, <<32>>), <<44>>)
  /\ \A l \in BoundedSeq({<<49>>, <<49, 97>>, <<97>>}, 3) :
       /\ SortStrings(l) # {}
       /\ ToSet(UniqueStrings(l)) = ToSet(l) /\ Len(UniqueStrings(l)) = Cardinality(ToSet(l))

=============================================================================
