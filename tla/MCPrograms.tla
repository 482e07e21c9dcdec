----------------------------- MODULE MCPrograms -----------------------------
(***************************************************************************)
(* The programs around the library, each part on its own: in a behaviour   *)
(* one of them runs and the others stay as they were at first, where none  *)
(* of their fair actions is enabled.                                       *)
(***************************************************************************)
EXTENDS SignalK, Daemon, FieldPut, Stream, Tui, Programs

VARIABLE part

vars == <<signalKVars, daemonVars, putVars, streamVars, tuiVars, programsVars, part>>

(* A part that does not run starts in one state only.                      *)
Init ==
  /\ part \in {"signalk", "daemon", "put", "stream", "tui", "programs"}
  /\ SignalKInit /\ (part # "signalk" => device = CHOOSE m \in Models : TRUE)
  /\ DaemonInit(IF part = "daemon" THEN "load" ELSE "off")
  /\ (part # "daemon" => file = Absent /\ walk.todo = {})
  /\ PutInit /\ (part # "put" => awake)
  /\ StreamInit
  /\ TuiInit
  /\ ProgramsInit
  /\ (part # "programs" => /\ exclusive /\ config = [d \in Directories |-> NoFile]
                           /\ account = [p \in Programs |-> CHOOSE a \in Accounts : TRUE])

Next ==
  \/ /\ part = "signalk" /\ SignalKNext
     /\ UNCHANGED <<daemonVars, putVars, streamVars, tuiVars, programsVars, part>>
  \/ /\ part = "daemon" /\ DaemonNext
     /\ UNCHANGED <<signalKVars, putVars, streamVars, tuiVars, programsVars, part>>
  \/ /\ part = "put" /\ PutNext
     /\ UNCHANGED <<signalKVars, daemonVars, streamVars, tuiVars, programsVars, part>>
  \/ /\ part = "stream" /\ StreamNext
     /\ UNCHANGED <<signalKVars, daemonVars, putVars, tuiVars, programsVars, part>>
  \/ /\ part = "tui" /\ TuiNext
     /\ UNCHANGED <<signalKVars, daemonVars, putVars, streamVars, programsVars, part>>
  \/ /\ part = "programs" /\ ProgramsNext
     /\ UNCHANGED <<signalKVars, daemonVars, putVars, streamVars, tuiVars, part>>

Spec == Init /\ [][Next]_vars /\ DaemonFairness

-----------------------------------------------------------------------------
(* Signal K: some of the cases the tables and the paths tell apart.        *)

F(id, name, unit, group, kind, options) ==
  [id |-> id, name |-> Text(name, name), unit |-> unit, group |-> group, kind |-> kind,
   options |-> options, menu |-> "Monitoring"]
D(word, label, article, fields) ==
  [class |-> [word |-> word, segment |-> "other"], label |-> Text(label, label),
   name |-> Text(label, label), address |-> "05a2f1", article |-> article,
   firmware |-> "1.2", fields |-> fields]

Channels == Text("channels", "channels")
Lit == <<"on", FALSE>>

SomeFloats == {<<0, 1>>, <<20, 1>>, <<-1, 2>>}
SomeTexts == {<<"", FALSE>>, <<"aft", TRUE>>}

SomeModels == {
  D("BAT", "house", "77", {F(1, "battery", "V", NoText, "float", <<>>),
                           F(2, "battery", "V", NoText, "float", <<>>)}),
  D("MSH", "house", "26", {F(1, "battery", "degC", NoText, "float", <<>>),
                           F(3, "state of charge", "%", NoText, "float", <<>>)}),
  D("MAC", "aft", "26", {F(1, "standby", "", NoText, "boolean", <<>>),
                         F(2, "charge state", "", NoText, "enum",
                           <<<<"standby", TRUE>>, Lit, <<"bulk", FALSE>>>>)}),
  D("DSD", "", "76", {F(1, "spare", "", Channels, "boolean", <<>>),
                      F(2, "spare", " ", Channels, "boolean", <<>>)}),
  D("APR", "", "26", {F(3, "stop", "", NoText, "enum", <<<<"", FALSE>>, <<"", FALSE>>>>)}),
  D("APR", "", "99", {F(3, "stop", "", NoText, "enum", <<<<"", FALSE>>>>)}),
  D("EFO", "port", "99", {F(1, "state", "", NoText, "enum", <<<<"off", FALSE>>, <<"on", TRUE>>>>),
                          F(4, "current", "steps", NoText, "float", <<>>)}),
  D("EFO", "star", "44", {F(1, "label", "", NoText, "text", <<>>),
                          F(2, "running", "min", NoText, "time", <<>>)}) }

E(path, invert, truth) == [path |-> path, invert |-> invert, truth |-> truth]
P(category, leaf) == <<"electrical", category, "house", leaf>>

TwoMinds == Lit :> FALSE @@ <<"off", TRUE>> :> TRUE @@ <<"off", FALSE>> :> FALSE

SomeEntries == [k \in {"float", "boolean", "enum", "text", "time"} |->
  CASE k = "float" -> {E(P("batteries", "voltage"), FALSE, NoTruth),
                       E(P("batteries", "x"), FALSE, NoTruth), E(<<"electrical", "">>, FALSE, NoTruth)}
    [] k = "boolean" -> {E(P("chargers", "enabled"), TRUE, NoTruth)}
    [] k = "enum" -> {E(P("switches", "state"), i, t) : i \in BOOLEAN,
                                                        t \in {NoTruth, <<"bulk", TRUE>> :> FALSE}}
                     \cup {E(P("chargers", "mode"), TRUE, t) : t \in {NoTruth, Lit :> TRUE, TwoMinds}}
    [] OTHER -> {E(<<"environment", "note">>, FALSE, NoTruth)}]

SomeSources == {[article |-> "77", instance |-> "house",
                 entries |-> 3 :> E(P("batteries", "voltage"), FALSE, NoTruth)],
                [article |-> "26", instance |-> "house",
                 entries |-> 1 :> E(P("chargers", "enabled"), TRUE, NoTruth)]}

SomeJsons == {Number(<<0, 1>>), Number(<<1, 1>>), Number(<<5863, 20>>), Bool(TRUE), Bool(FALSE),
              Str(Lit), Str(<<"off", TRUE>>), Str(<<"bulk", TRUE>>), Str(<<"", FALSE>>)}

SomeCatalog ==
  "44" :> [any |-> 1 :> Proposal(<<"electrical", "chargers", "{instance}", "deviceMode">>, FALSE),
           firmware |-> "1.2" :> (2 :> Proposal(<<"electrical", "chargers", "{instance}",
                                                  "timeRemaining">>, FALSE))]

(* The daemon: what people save, and what they saved before.               *)
FirstMappings == {{On("mon", "d1")}}
SomeMappings == {{On("mon", "d1")}, {On("cfg", "d1"), On("hid", "d1")}}

(* The terminal interface: what its tabs list.                             *)
SomeTabs == [t \in {"monitoring", "alarm"} |->
               IF t = "monitoring" THEN <<"choice", "text">> ELSE <<>>]
FirstHeard == <<"b1">>
TabsInOrder == <<"summary", "monitoring", "alarm">>
SomeRows == {<<"monitoring", 1>>}
=============================================================================
