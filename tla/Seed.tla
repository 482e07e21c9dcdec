-------------------------------- MODULE Seed --------------------------------
(***************************************************************************)
(* What the tools propose for a field of a device: units.rs and the unit   *)
(* half of signalk.rs, the per-model catalog (database.rs), the class      *)
(* tables and the built paths (seed.rs), and the first mapping             *)
(* (publish.rs).                                                           *)
(*                                                                         *)
(* A path is a sequence of segments.  A text an installer typed is the pair *)
(* of readings the code makes of it: in lower case, and as one camelCase   *)
(* segment ("" when no letter or digit is left).  "degC" is written for the *)
(* unit with the degree sign.                                              *)
(***************************************************************************)
EXTENDS Integers, FiniteSets, Sequences, SequencesExt, TLC

CONSTANT Catalog    \* article -> [any, firmware]: the bundled suggestions

Text(lower, segment) == [lower |-> lower, segment |-> segment]
NoText == Text("", "")

None == "none"

-----------------------------------------------------------------------------
(* units.rs.  A conversion is scale * raw + offset, both ratios.           *)

Conv(p, q) == [scale |-> <<p, q>>, offset |-> <<0, 1>>]
Identity == Conv(1, 1)

Normalize(unit) ==
  CASE unit = " " -> ""
    [] unit = "RPM" -> "rpm"
    [] unit = "C" -> "degC"
    [] OTHER -> unit

Si(unit, p, q) == [unit |-> unit, conv |-> Conv(p, q)]
SiAlready == {"V", "A", "W", "Hz", "s", "K", "ratio"}
SiUnits == SiAlready \cup
  {"degC", "%", "Ah", "rpm", "kWh", "Wh", "kW", "mV", "mA", "min", "h"}

HasSi(unit) == Normalize(unit) \in SiUnits
ToSi(unit) ==
  LET u == Normalize(unit)
  IN CASE u = "degC" -> [unit |-> "K", conv |-> [scale |-> <<1, 1>>, offset |-> <<5463, 20>>]]
       [] u = "%" -> Si("ratio", 1, 100)
       [] u = "Ah" -> Si("C", 3600, 1)
       [] u = "rpm" -> Si("Hz", 1, 60)
       [] u = "kWh" -> Si("J", 3600000, 1)
       [] u = "Wh" -> Si("J", 3600, 1)
       [] u = "kW" -> Si("W", 1000, 1)
       [] u = "mV" -> Si("V", 1, 1000)
       [] u = "mA" -> Si("A", 1, 1000)
       [] u = "min" -> Si("s", 60, 1)
       [] u = "h" -> Si("s", 3600, 1)
       [] OTHER -> Si(u, 1, 1)

(* The leaves the specification gives a unit. *)
LeafUnits ==
  [l \in {"stateOfCharge", "stateOfHealth"} |-> "ratio"] @@
  [l \in {"voltage", "voltageSense", "panelVoltage", "lineNeutralVoltage", "lineLineVoltage"} |-> "V"] @@
  [l \in {"current", "currentLimit", "panelCurrent", "loadCurrent"} |-> "A"] @@
  [l \in {"power", "realPower", "panelPower"} |-> "W"] @@
  [l \in {"frequency", "revolutions"} |-> "Hz"] @@
  [l \in {"yieldToday", "yieldTotal"} |-> "J"] @@
  "timeRemaining" :> "s" @@ "dischargeSinceFull" :> "C" @@ "temperature" :> "K"

LeafUnit(path) == IF Last(path) \in DOMAIN LeafUnits THEN LeafUnits[Last(path)] ELSE None

LeafIsBoolean(path) ==
  \/ Last(path) = "enabled"
  \/ /\ Last(path) = "state" /\ Len(path) > 2
     /\ path[1] = "electrical" /\ path[2] = "switches"

(* Whether a device unit reaches a leaf's unit; an absent one is believed. *)
Reaches(unit, leaf) ==
  \/ leaf = None
  \/ Normalize(unit) = ""
  \/ HasSi(unit) /\ ToSi(unit).unit = leaf

-----------------------------------------------------------------------------
(* Nodes and instances: the sub-tree of a path that belongs to a device.   *)

NodeDepth(path) ==
  CASE path[1] \in {"electrical", "tanks"} -> 3
    [] path[1] \in {"propulsion", "sails"} -> 2
    [] OTHER -> 0

HasNode(path) == NodeDepth(path) \in 1..(Len(path) - 1)
NodeOf(path) == SubSeq(path, 1, NodeDepth(path))
InstanceOf(path) == Last(NodeOf(path))

FirstNamed(candidates) ==
  candidates[SelectInSeq(candidates, LAMBDA s : s # "")]

(* The instance proposed for a device: its name without the class word,    *)
(* else its whole name, else its address.                                  *)
DeviceInstance(d) == FirstNamed(<<d.label.segment, d.name.segment, d.address>>)

-----------------------------------------------------------------------------
(* seed.rs: the class tables, as rows: for a class, fields of these names  *)
(* with one of these units go to this node, at these segments.             *)

Blank == {"", " "}
AnyUnit == SiUnits \cup Blank \cup {"RPM", "C", "degF", "steps"}

Rows(classes, category, rows) ==
  {[classes |-> classes, category |-> category, names |-> r[1], units |-> r[2], at |-> r[3],
    invert |-> Len(r) = 4] : r \in rows}

BatteryRows ==
  Rows({"BAT", "MSH"}, "batteries", {
    <<{"state of charge"}, AnyUnit, <<"capacity", "stateOfCharge">>>>,
    <<{"time remaining", "remaining"}, AnyUnit, <<"capacity", "timeRemaining">>>>,
    <<{"cap. consumed"}, AnyUnit, <<"capacity", "dischargeSinceFull">>>>,
    <<{"battery", "voltage"}, {"V"}, <<"voltage">>>>,
    <<{"battery", "current"}, {"A"}, <<"current">>>>,
    <<{"battery", "temperature"}, {"degC"}, <<"temperature">>>>})

CombiRows ==
  Rows({"CMR"}, "inverters", {
    <<{"battery voltage"}, {"V"}, <<"dc", "voltage">>>>,
    <<{"battery current"}, {"A"}, <<"dc", "current">>>>,
    <<{"battery temp."}, {"degC"}, <<"dc", "temperature">>>>,
    <<{"output voltage"}, {"V"}, <<"ac", "voltage">>>>,
    <<{"output power"}, {"W"}, <<"ac", "power">>>>,
    <<{"output frequency"}, {"Hz"}, <<"ac", "frequency">>>>,
    <<{"inverter"}, AnyUnit, <<"enabled">>>>})
  \cup
  Rows({"CMR"}, "chargers", {
    <<{"input voltage"}, {"V"}, <<"acin", "voltage">>>>,
    <<{"input current"}, {"A"}, <<"acin", "current">>>>,
    <<{"input frequency"}, {"Hz"}, <<"acin", "frequency">>>>,
    <<{"ac in limit"}, {"A"}, <<"acin", "currentLimit">>>>,
    <<{"charger"}, AnyUnit, <<"enabled">>>>})

ConverterRows ==
  Rows({"MAC"}, "chargers", {
    <<{"output voltage"}, {"V"} \cup Blank, <<"voltage">>>>,
    <<{"output current"}, {"A"} \cup Blank, <<"current">>>>,
    <<{"input voltage"}, {"V"} \cup Blank, <<"input", "voltage">>>>,
    <<{"input current"}, {"A"} \cup Blank, <<"input", "current">>>>,
    <<{"bat. volt sense"}, {"V"} \cup Blank, <<"voltageSense">>>>,
    <<{"device"}, {"degC"}, <<"temperature">>>>,
    <<{"battery"}, {"degC"}, <<"battery", "temperature">>>>,
    <<{"device state"}, AnyUnit, <<"deviceMode">>>>,
    <<{"charge state"}, AnyUnit, <<"chargingMode">>>>,
    <<{"standby"}, AnyUnit, <<"enabled">>, "inverted">>,
    <<{"on/standby"}, AnyUnit, <<"enabled">>>>})

RegulatorRows ==
  Rows({"APR"}, "alternators", {
    <<{"alternator volt."}, {"V"}, <<"voltage">>>>,
    <<{"sense voltage"}, {"V"}, <<"voltageSense">>>>,
    <<{"field current"}, {"A"}, <<"field", "current">>>>,
    <<{"alternator temp."}, {"degC"}, <<"temperature">>>>,
    <<{"alternator shaft"}, {"rpm", "RPM"}, <<"revolutions">>>>,
    <<{"engine shaft"}, {"rpm", "RPM"}, <<"engine", "revolutions">>>>,
    <<{"charger state"}, AnyUnit, <<"chargingMode">>>>,
    <<{"state of charge"}, {"%"}, <<"battery", "stateOfCharge">>>>,
    <<{"battery voltage"}, {"V"}, <<"battery", "voltage">>>>,
    <<{"battery current"}, {"A"}, <<"battery", "current">>>>,
    <<{"battery temp."}, {"degC"}, <<"battery", "temperature">>>>})

InterfaceRows ==
  Rows({"INT"}, "switches", {<<{"state"}, AnyUnit, <<"state">>>>})

TransformerRows ==
  Rows({"ISO"}, "ac", {
    <<{"output"}, {"V"}, <<"phase", "single", "lineNeutralVoltage">>>>,
    <<{"output"}, {"A"}, <<"phase", "single", "current">>>>,
    <<{"output"}, {"W", "kW"}, <<"phase", "single", "realPower">>>>,
    <<{"output"}, {"Hz"}, <<"phase", "single", "frequency">>>>})

SuggestionRows ==
  UNION {BatteryRows, CombiRows, ConverterRows, RegulatorRows, InterfaceRows, TransformerRows}

Electrical(category, instance) == <<"electrical", category, instance>>

Proposal(path, invert) == [path |-> path, invert |-> invert]

(* By class and name; the channels of a DSD by their group.  At most one   *)
(* row fits a field.                                                       *)
Suggest(class, instance, f) ==
  {Proposal(Electrical(r.category, instance) \o r.at, r.invert) :
     r \in {r \in SuggestionRows : /\ class.word \in r.classes
                                   /\ f.name.lower \in r.names /\ f.unit \in r.units}}
  \cup
  IF /\ class.word = "DSD" /\ f.group.lower = "channels"
     /\ f.unit \in Blank /\ f.name.segment # ""
    THEN {Proposal(Electrical("switches", instance) \o <<f.name.segment, "state">>, FALSE)}
    ELSE {}

(* database.rs: an entry of the article and this firmware, else of the     *)
(* article alone, with the instance filled in.                             *)
Lookup(article, firmware, id, instance) ==
  LET Of(table) == IF id \in DOMAIN table THEN {table[id]} ELSE {}
      model == Catalog[article]
      exact == IF firmware \in DOMAIN model.firmware THEN Of(model.firmware[firmware]) ELSE {}
      found == IF exact # {} THEN exact ELSE Of(model.any)
  IN IF article \notin DOMAIN Catalog THEN {}
     ELSE {Proposal(ReplaceAll(e.path, "{instance}", instance), e.invert) : e \in found}

(* What is known of a field: the catalog before the names (at most one).   *)
SuggestBest(d, instance, f) ==
  LET known == Lookup(d.article, d.firmware, f.id, instance)
  IN IF known # {} THEN known ELSE Suggest(d.class, instance, f)

-----------------------------------------------------------------------------
(* Built paths, for a human to look at: node, group, name, leaf.           *)

Categories ==
  [c \in {"BAT", "MSH"} |-> "batteries"] @@ [c \in {"CHG", "MAC"} |-> "chargers"] @@
  [c \in {"INV", "CMR", "MCU"} |-> "inverters"] @@ [c \in {"INT", "DSD"} |-> "switches"] @@
  "APR" :> "alternators" @@ "SOL" :> "solar" @@ "ISO" :> "ac"

CategoryOf(class) ==
  IF class.word \in DOMAIN Categories THEN Categories[class.word]
  ELSE FirstNamed(<<class.segment, "devices">>)

UnitLeaves ==
  [u \in {"degC", "degF", "K"} |-> "temperature"] @@ [u \in {"W", "kW"} |-> "power"] @@
  [u \in {"rpm", "RPM"} |-> "revolutions"] @@
  "V" :> "voltage" @@ "A" :> "current" @@ "Hz" :> "frequency"

Built(node, f) ==
  LET Part(s) == IF s = "" THEN <<>> ELSE <<s>>
      leaf == IF f.unit \in DOMAIN UnitLeaves THEN <<UnitLeaves[f.unit]>> ELSE <<>>
      path == node \o Part(f.group.segment) \o Part(f.name.segment) \o leaf
  IN IF (f.name.segment # "" \/ leaf # <<>>) /\ Reaches(f.unit, LeafUnit(path))
       THEN {Proposal(path, FALSE)} ELSE {}

(* The node a device's mapped paths use: the first, in field order, of     *)
(* those most used under its instance, else of the first path with a node. *)
MappedNode(entries, instance) ==
  LET nodes == [i \in {i \in DOMAIN entries : HasNode(entries[i].path)} |-> NodeOf(entries[i].path)]
      mine == {i \in DOMAIN nodes : Last(nodes[i]) = instance}
      Count(i) == Cardinality({j \in DOMAIN nodes : nodes[j] = nodes[i]})
      most == {i \in mine : \A j \in mine : Count(j) <= Count(i)}
      First(S) == CHOOSE i \in S : \A j \in S : i <= j
  IN IF most # {} THEN {nodes[First(most)]}
     ELSE IF DOMAIN nodes # {} THEN {nodes[First(DOMAIN nodes)]} ELSE {}

SuggestOrBuild(d, instance, entries, f) ==
  LET best == SuggestBest(d, instance, f)
      own == MappedNode(entries, instance)
      node == IF own # {} THEN CHOOSE n \in own : TRUE
              ELSE Electrical(CategoryOf(d.class), instance)
  IN IF best # {} THEN best ELSE Built(node, f)

(* For comparison: a proposal taken as it comes. *)
NotUnique(path, id, entries) == path

(* A proposal must not land on the path of another field of the device:    *)
(* the field's id then goes onto the segment before the leaf.              *)
Unique(path, id, entries) ==
  IF \E i \in DOMAIN entries : i # id /\ entries[i].path = path
    THEN [path EXCEPT ![Len(path) - 1] = @ \o "0x" \o ToString(id)]
    ELSE path

-----------------------------------------------------------------------------
(* The first mapping: what is known of the monitoring fields; of fields    *)
(* with the same proposal the one with the lowest id keeps it.             *)

SeedMapping(d) ==
  LET own == {f \in d.fields : f.menu = "Monitoring" /\ SuggestBest(d, DeviceInstance(d), f) # {}}
      For(f) == CHOOSE p \in SuggestBest(d, DeviceInstance(d), f) : TRUE
      first == {f \in own : \A g \in own : For(g).path = For(f).path => g.id >= f.id}
      Of(i) == For(CHOOSE f \in first : f.id = i)
  IN [i \in {f.id : f \in first} |-> Of(i)]
=============================================================================
