------------------------------ MODULE SignalK -------------------------------
(***************************************************************************)
(* From a field to a Signal K path and back (signalk.rs, mapping.rs, and   *)
(* the answers of api.rs): a field of a device is mapped, by the first     *)
(* mapping, by accepting a proposal, by hand or by copying from a device   *)
(* of the same article; its values are published under the plan its entry  *)
(* gives; a PUT on the path is decoded under the same plan and written.    *)
(*                                                                         *)
(* A label is a pair <<word, shouted>>: labels that differ in case only    *)
(* share the word.  Numbers are exact ratios; a device holds them in 32    *)
(* bits, which is not modelled.                                            *)
(***************************************************************************)
EXTENDS Seed, Functions

CONSTANTS Models,       \* devices to start from: identity and fields
          HandEntries,  \* field -> the entries a person may give it
          Sources,      \* mappings of other devices of the same article
          Floats,       \* the values a float may have
          Texts,        \* and a text
          Jsons         \* the values a PUT may carry

VARIABLES device,       \* the device
          entries,      \* its mapped fields: id -> entry
          origin,       \* and who chose each path: "seeded", "named", "built" or "human"
          shown,        \* what each path shows: JSON, or NoJson
          put           \* the last PUT on a mapped field and its answer

signalKVars == <<device, entries, origin, shown, put>>

-----------------------------------------------------------------------------
(* Exact arithmetic. *)

Rationals == Int \X (Nat \ {0})

(* The least denominator p / q can be written with. *)
Denominators(p, q) == {d \in 1..q : (p * d) % q = 0}
Den(p, q) == CHOOSE d \in Denominators(p, q) : \A e \in Denominators(p, q) : d <= e
Ratio(p, q) == <<(p * Den(p, q)) \div q, Den(p, q)>>
IsLowest(x) == x \in Rationals /\ x = Ratio(x[1], x[2])
Times(a, b) == Ratio(a[1] * b[1], a[2] * b[2])
Plus(a, b) == Ratio((a[1] * b[2]) + (b[1] * a[2]), a[2] * b[2])
Minus(a, b) == Plus(a, <<-b[1], b[2]>>)

Apply(conv, raw) == Plus(Times(raw, conv.scale), conv.offset)
Unapply(conv, si) == Times(Minus(si, conv.offset), <<conv.scale[2], conv.scale[1]>>)

-----------------------------------------------------------------------------
(* Values and JSON. *)

NaN == <<0, 0>>
Number(x) == [type |-> "number", is |-> x]
Bool(b) == [type |-> "boolean", is |-> b]
Str(label) == [type |-> "string", is |-> label]
NoJson == [type |-> "nothing", is |-> <<>>]

Labels == STRING \X BOOLEAN
Lower(label) == <<label[1], FALSE>>
Same(a, b) == Lower(a) = Lower(b)
Xor(a, b) == a # b

FieldOf(id) == CHOOSE f \in device.fields : f.id = id
Ids == {f.id : f \in device.fields}

(* The values a field of each kind may have; time is in seconds, -1 for    *)
(* "no value", and an enum's index may be past its options.                *)
ValuesOf(f) ==
  CASE f.kind = "float" -> Floats \cup {NaN}
    [] f.kind = "boolean" -> BOOLEAN
    [] f.kind = "time" -> {-1, 0, 90}
    [] f.kind = "enum" -> 0..Len(f.options)
    [] f.kind = "text" -> Texts
    [] OTHER -> {0}

Unlabeled(options) == options # <<>> /\ \A i \in DOMAIN options : options[i][1] = ""

TruthOf(label) ==
  CASE label[1] \in {"on", "activated", "active", "enabled", "yes", "true", "closed"} -> {TRUE}
    [] label[1] \in {"off", "standby", "disabled", "inactive", "no", "false", "open"} -> {FALSE}
    [] OTHER -> {}

NoTruth == <<>>    \* the empty table

(* The table an entry's own is completed to; what neither covers is told.  *)
Means(truth, label) ==
  IF \E k \in DOMAIN truth : Same(k, label)
    THEN {truth[k] : k \in {k \in DOMAIN truth : Same(k, label)}}
    ELSE TruthOf(label)

TruthDefault(options) ==
  LET known == UNION {TruthOf(l) : l \in ToSet(options)}
  IN IF known = BOOLEAN /\ \A l \in ToSet(options) : TruthOf(l) # {}
       THEN {[l \in ToSet(options) |-> TRUE \in TruthOf(l)]} ELSE {}

Completed(truth, options) ==
  IF truth = NoTruth THEN TruthDefault(options)
  ELSE IF \E l \in ToSet(options) : Means(truth, l) = {} THEN {}
  ELSE {[l \in DOMAIN truth \cup {l \in ToSet(options) : ~\E k \in DOMAIN truth : Same(k, l)}
           |-> IF l \in DOMAIN truth THEN truth[l] ELSE TRUE \in TruthOf(l)]}

-----------------------------------------------------------------------------
(* Plans. *)

Misspelt == {"", "shore power", "a/b"}     \* segments that are none

IsPath(path) ==
  /\ \A i \in DOMAIN path : path[i] \notin Misspelt
  /\ Len(path) >= CASE path[1] \in {"electrical", "tanks"} -> 4
                    [] path[1] \in {"propulsion", "sails"} -> 3
                    [] OTHER -> 2

Refused(why) == [refused |-> why]
PlanIs(conv, unit, truth, invert) ==
  [refused |-> None, conv |-> conv, unit |-> unit, truth |-> truth, invert |-> invert]

Plan(f, e) ==
  LET leaf == LeafUnit(e.path)
      boolean == LeafIsBoolean(e.path)
      asks == boolean /\ f.options # <<>> /\ ~Unlabeled(f.options)
      truths == IF asks THEN Completed(e.truth, f.options) ELSE {e.truth}
      truth == CHOOSE t \in truths : TRUE
      conv == IF HasSi(f.unit) THEN ToSi(f.unit).conv ELSE Identity
      unit == CASE leaf # None -> leaf
                [] leaf = None /\ HasSi(f.unit) -> ToSi(f.unit).unit
                [] OTHER -> None
  IN CASE ~IsPath(e.path) -> Refused("path")
       [] IsPath(e.path) /\ truths = {} -> Refused("truth")
       [] OTHER ->
            IF (boolean /\ HasSi(f.unit)) \/ ~Reaches(f.unit, leaf) THEN Refused("units")
            ELSE PlanIs(conv, IF boolean \/ truth # NoTruth THEN None ELSE unit, truth, e.invert)

(* What a PUT on a field that cannot be published goes by. *)
Unplanned == PlanIs(Identity, None, NoTruth, FALSE)
PlanForPut(f, e) == IF Plan(f, e).refused = None THEN Plan(f, e) ELSE Unplanned

Labelled(f, i) == i + 1 \in DOMAIN f.options
Label(f, i) == f.options[i + 1]

(* Whether a value is shown as true or false. *)
AsSwitch(f, plan) ==
  f.kind = "boolean" \/ (f.kind = "enum" /\ (Unlabeled(f.options) \/ plan.truth # NoTruth))

(* The keys of a table that are a label but for case; of these, encode     *)
(* goes by the first, and capitals sort first, and decode by any.          *)
KeysOf(plan, label) == {k \in DOMAIN plan.truth : Same(k, label)}
FirstKey(plan, label) == {k \in KeysOf(plan, label) : \A l \in KeysOf(plan, label) : l[2] => k[2]}

TruthShown(plan, label) == {plan.truth[k] : k \in FirstKey(plan, label)}
TruthOfLabel(plan, label) == {plan.truth[k] : k \in KeysOf(plan, label)}

Encode(f, v, plan) ==
  CASE f.kind = "float" -> IF v = NaN THEN NoJson ELSE Number(Apply(plan.conv, v))
    [] f.kind = "boolean" -> Bool(Xor(v, plan.invert))
    [] f.kind = "time" -> IF v < 0 THEN NoJson ELSE Number(Apply(plan.conv, <<v, 1>>))
    [] f.kind = "enum" ->
         IF ~Labelled(f, v) THEN NoJson
         ELSE IF Unlabeled(f.options) THEN Bool(Xor(v # 0, plan.invert))
         ELSE IF plan.truth = NoTruth THEN Str(Lower(Label(f, v)))
         ELSE IF TruthShown(plan, Label(f, v)) = {} THEN NoJson
         ELSE Bool(Xor(TRUE \in TruthShown(plan, Label(f, v)), plan.invert))
    [] f.kind = "text" -> IF v[1] = "" THEN NoJson ELSE Str(v)
    [] OTHER -> NoJson

-----------------------------------------------------------------------------
(* PUTs.  A decoded value is a set: empty for one that is refused.         *)

AsBool(json) ==
  CASE json.type = "boolean" -> {json.is}
    [] json.type = "number" -> {json.is[1] # 0}
    [] json.type = "string" /\ json.is[1] \in {"true", "on", "1", "yes"} -> {TRUE}
    [] json.type = "string" /\ json.is[1] \in {"false", "off", "0", "no"} -> {FALSE}
    [] OTHER -> {}

FirstOption(f, labels) ==
  LET at == {i \in DOMAIN f.options : f.options[i] \in labels}
  IN {i - 1 : i \in {i \in at : \A j \in at : i <= j}}

LabelsFor(f, b, plan) == {l \in ToSet(f.options) : b \in TruthOfLabel(plan, l)}

OnOrOff(b) == IF b THEN 1 ELSE 0     \* the options of an enum without labels

(* For comparison: a PUT that is not negated where the value shown is. *)
DecodeSwitchStraight(f, json, plan) ==
  LET want == AsBool(json)
  IN CASE f.kind = "boolean" -> want
       [] f.kind = "enum" /\ Unlabeled(f.options) -> {OnOrOff(b) : b \in want}
       [] OTHER -> UNION {FirstOption(f, LabelsFor(f, b, plan)) : b \in want}

DecodeSwitch(f, json, plan) ==
  LET want == {Xor(b, plan.invert) : b \in AsBool(json)}
  IN CASE f.kind = "boolean" -> want
       [] f.kind = "enum" /\ Unlabeled(f.options) -> {OnOrOff(b) : b \in want}
       [] OTHER -> UNION {FirstOption(f, LabelsFor(f, b, plan)) : b \in want}

Decode(f, json, plan) ==
  CASE AsSwitch(f, plan) -> DecodeSwitch(f, json, plan)
    [] f.kind = "float" /\ json.type = "number" -> {Unapply(plan.conv, json.is)}
    [] f.kind = "enum" /\ ~AsSwitch(f, plan) /\ json.type = "string" ->
         FirstOption(f, {l \in ToSet(f.options) : Same(l, json.is)})
    [] f.kind = "enum" /\ ~AsSwitch(f, plan) /\ json.type = "number" ->
         {i \in 0..Len(f.options) : /\ json.is = <<i, 1>>
                                    /\ i < Len(f.options) \/ (i = 0 /\ f.options = <<>>)}
    [] f.kind = "text" /\ json.type = "string" -> {json.is}
    [] OTHER -> {}

-----------------------------------------------------------------------------

NoPut == [id |-> 0, json |-> NoJson, published |-> NoJson, made |-> FALSE]

(* Options and tables are of labels, and numbers are written one way.      *)
IsEntry(e) ==
  /\ e = [path |-> e.path, invert |-> e.invert, truth |-> e.truth]
  /\ e.invert \in BOOLEAN
  /\ DOMAIN e.truth \subseteq Labels /\ \A l \in DOMAIN e.truth : e.truth[l] \in BOOLEAN
IsJson(j) ==
  \/ j.type = "number" /\ j = Number(j.is) /\ IsLowest(j.is)
  \/ j.type = "boolean" /\ j = Bool(j.is) /\ j.is \in BOOLEAN
  \/ j.type = "string" /\ j = Str(j.is) /\ j.is \in Labels
InvertsAreBoolean(table) == \A id \in DOMAIN table : table[id].invert \in BOOLEAN

ASSUME SignalKAssumption ==
  /\ \A d \in Models : \A f \in d.fields :
       f.options \in Seq(Labels) /\ \A e \in HandEntries[f.kind] : IsEntry(e)
  /\ \A s \in Sources : \A i \in DOMAIN s.entries : IsEntry(s.entries[i])
  /\ \A a \in DOMAIN Catalog :
       /\ InvertsAreBoolean(Catalog[a].any)
       /\ \A w \in DOMAIN Catalog[a].firmware : InvertsAreBoolean(Catalog[a].firmware[w])
  /\ Floats \subseteq Rationals
  /\ \A j \in Jsons : IsJson(j)

SignalKInit ==
  /\ device \in Models
  /\ entries = <<>> /\ origin = <<>>
  /\ shown = [i \in Ids |-> NoJson]
  /\ put = NoPut

Entry(p) == [path |-> p.path, invert |-> p.invert, truth |-> NoTruth]

Over(new, old) ==
  [i \in DOMAIN new \cup DOMAIN old |-> IF i \in DOMAIN new THEN new[i] ELSE old[i]]

(* A field's entry is set: whatever its path showed is another path's now. *)
Map(id, e, by) ==
  /\ entries' = Over([i \in {id} |-> e], entries)
  /\ origin' = Over([i \in {id} |-> by], origin)
  /\ shown' = [shown EXCEPT ![id] = NoJson]
  /\ put' = NoPut
  /\ UNCHANGED device

SeedAll ==
  /\ entries = <<>>
  /\ LET seeds == SeedMapping(device)
     IN /\ DOMAIN seeds # {}
        /\ entries' = [i \in DOMAIN seeds |-> Entry(seeds[i])]
        /\ origin' = [i \in DOMAIN seeds |-> "seeded"]
  /\ UNCHANGED <<device, shown, put>>

Tier(f, instance) == IF SuggestBest(device, instance, f) # {} THEN "named" ELSE "built"

(* The editor's proposal for a field without an entry is accepted as it is. *)
Propose(id) ==
  LET f == FieldOf(id)
      instance == DeviceInstance(device)
  IN /\ id \notin DOMAIN entries
     /\ \E p \in SuggestOrBuild(device, instance, entries, f) :
          Map(id, Entry([p EXCEPT !.path = Unique(p.path, id, entries)]), Tier(f, instance))

TypeEntry(id) == \E e \in HandEntries[FieldOf(id).kind] : Map(id, e, "human")

Unmap(id) ==
  /\ id \in DOMAIN entries
  /\ entries' = Restrict(entries, DOMAIN entries \ {id})
  /\ origin' = Restrict(origin, DOMAIN origin \ {id})
  /\ shown' = [shown EXCEPT ![id] = NoJson]
  /\ put' = NoPut
  /\ UNCHANGED device

Retarget(path, from, to) == [i \in DOMAIN path |-> IF path[i] = from THEN to ELSE path[i]]

(* copy_to_targets: the entries go to this device's instance; one that would stay where  *)
(* it was, or whose field this device lacks, is skipped.                   *)
Copied(source) ==
  LET From(e) == IF HasNode(e.path) THEN InstanceOf(e.path) ELSE source.instance
      At(i) == Retarget(source.entries[i].path, From(source.entries[i]), DeviceInstance(device))
      have == {i \in DOMAIN source.entries : i \in Ids /\ At(i) # source.entries[i].path}
  IN [i \in have |-> [source.entries[i] EXCEPT !.path = At(i)]]

CopyFrom(source) ==
  LET new == Copied(source)
  IN /\ source.article = device.article /\ DOMAIN new # {}
     /\ entries' = Over(new, entries)
     /\ origin' = Over([i \in DOMAIN new |-> "human"], origin)
     /\ shown' = [i \in Ids |-> IF i \in DOMAIN new THEN NoJson ELSE shown[i]]
     /\ put' = NoPut
     /\ UNCHANGED device

(* The device has a new value for a mapped field that can be published. *)
Publish(id) ==
  LET plan == Plan(FieldOf(id), entries[id])
  IN /\ id \in DOMAIN entries /\ plan.refused = None
     /\ \E v \in ValuesOf(FieldOf(id)) :
          /\ Encode(FieldOf(id), v, plan) # NoJson
          /\ shown' = [shown EXCEPT ![id] = Encode(FieldOf(id), v, plan)]
     /\ put' = NoPut
     /\ UNCHANGED <<device, entries, origin>>

(* A PUT that is written: the device holds the decoded value, and that is  *)
(* published.                                                              *)
Put(id) ==
  LET f == FieldOf(id)
      plan == PlanForPut(f, entries[id])
  IN /\ id \in DOMAIN entries
     /\ \E json \in Jsons : \E v \in Decode(f, json, plan) :
          put' = [id |-> id, json |-> json, published |-> Encode(f, v, plan), made |-> TRUE]
     /\ shown' = IF Plan(f, entries[id]).refused = None /\ put'.published # NoJson
                   THEN [shown EXCEPT ![id] = put'.published] ELSE shown
     /\ UNCHANGED <<device, entries, origin>>

SignalKNext ==
  \/ SeedAll
  \/ \E id \in Ids : Propose(id) \/ TypeEntry(id) \/ Unmap(id) \/ Publish(id) \/ Put(id)
  \/ \E source \in Sources : CopyFrom(source)

SignalKSpec == SignalKInit /\ [][SignalKNext]_signalKVars

-----------------------------------------------------------------------------

(* What a PUT asks for, as its path would show it. *)
Asked(f, plan, json) ==
  CASE AsSwitch(f, plan) -> {Bool(b) : b \in AsBool(json)}
    [] f.kind = "enum" /\ ~AsSwitch(f, plan) /\ json.type = "number" ->
         {IF f.options = <<>> THEN NoJson ELSE Str(Lower(f.options[json.is[1] + 1]))}
    [] f.kind = "enum" /\ ~AsSwitch(f, plan) /\ json.type = "string" -> {Str(Lower(json.is))}
    [] f.kind = "text" /\ json.is[1] = "" -> {NoJson}
    [] OTHER -> {json}

(* A table may give labels that differ in case only two truths, and an     *)
(* output without labels may have one option only, which is off.           *)
TwoMinded(plan) ==
  \E k, l \in DOMAIN plan.truth : Same(k, l) /\ plan.truth[k] # plan.truth[l]
NeverOn(f) == f.kind = "enum" /\ Unlabeled(f.options) /\ Len(f.options) = 1

(* Encoding and decoding undo each other under every plan an entry can     *)
(* give, but for those: a PUT that is accepted is then published as what it *)
(* asked for, and what a path shows can be PUT back and shows the same     *)
(* again, through unit conversions, negation, truth tables and labels      *)
(* (signalk.rs encode, decode; times are published but never taken).       *)
PutsReadBack ==
  /\ put.made =>
       LET f == FieldOf(put.id)
           plan == PlanForPut(f, entries[put.id])
       IN \/ TwoMinded(plan) \/ NeverOn(f)
          \/ put.published \in Asked(f, plan, put.json)
  /\ \A id \in DOMAIN entries :
       LET f == FieldOf(id)
           plan == Plan(f, entries[id])
       IN shown[id] # NoJson /\ f.kind # "time" /\ plan.refused = None =>
            \/ TwoMinded(plan)
            \/ \E v \in Decode(f, shown[id], plan) : Encode(f, v, plan) = shown[id]

(* What the program proposes stands: two fields of a device are never      *)
(* proposed one path, and a built path is never one that is refused when   *)
(* it is saved, except as a boolean (seed.rs, publish.rs seed_mapping:     *)
(* two fields on one path coalesce into whichever updates last).           *)
ProposalsStand ==
  /\ \A i, j \in {i \in DOMAIN entries : origin[i] # "human"} :
       entries[i].path = entries[j].path => i = j
  /\ \A i \in DOMAIN entries :
       origin[i] = "built" /\ ~LeafIsBoolean(entries[i].path) =>
         Plan(FieldOf(i), entries[i]).refused = None
=============================================================================
