----------------------------- MODULE Discovery -----------------------------
(***************************************************************************)
(* What runtime/discovery.rs asks a device, and what it makes of the       *)
(* answers: its identity, its string table, a menu group by group and      *)
(* field by field, the flat probe and the list of its outputs.             *)
(*                                                                         *)
(* The device is given by constants.  A string id stands for a device and  *)
(* an id; a text is a sequence of chunks of four characters.  The groups   *)
(* and fields are numbered from 1, in the code from 0.                     *)
(***************************************************************************)
EXTENDS Naturals, Sequences, FiniteSets, SequencesExt

CONSTANTS
    Devices,         \* the devices that are identified together
    Words,           \* Words[d]: its two firmware words
    Properties,      \* Properties[d]: string ids of article, serial, name, revision
    Groups,          \* the device's answers about each group of its tab: name, ids
    Glitchy,         \* groups whose field count may be answered wrongly
    Fields,          \* field indices that fit a byte
    Meta,            \* Meta[f][op]: the answer about a field
    Labels,          \* Labels[f]: string ids of a list's options
    Outputs,         \* the answers about its outputs
    Text,            \* Text[s]: the chunks of string s
    Tables,          \* offline string tables that might be the device's
    Silent,          \* what it never answers
    Eventables,      \* whether the tab's fields may be outputs: Monitoring
    NA,              \* a "not available" answer
    Bogus,           \* a count of more fields than a group can have
    Retries,         \* discovery_retries
    OptionalRetries, \* OPTIONAL_RETRIES
    MissLimit,       \* UNANSWERED_META_LIMIT
    StrLimit,        \* UNANSWERED_STR_LIMIT
    ProbeChunk,      \* PROBE_CHUNK
    MaxGroups,       \* the most groups of a menu
    MaxFields,       \* MAX_GROUP_FIELDS
    MaxOutputs,      \* MAX_EVENTABLES
    MaxTroubles,     \* bound: answers that come late, or not at all
    None, Absent

Ops == <<"NAME", "VIZ", "MAX", "UNIT", "WRITEABLE">>
AllOps == ToSet(Ops) \cup {"EVENTABLE"}
Strings == DOMAIN Text

\* The request table's keys.
FirmwareKey(d, n) == <<"p82", d, n>>
PropertyKey(d, p) == <<"p09", d, p>>
Total == <<"p08">>
OutputCount == <<"p08", 63>>
OutputKey(n) == <<"p08", 64, n>>
NameKey(g) == <<"group28", g>>
CountKey(g) == <<"group07", g>>
IdKey(g, i) == <<"group03", g, i>>
MetaKey(f, op) == <<"prop", f, op>>
OptionKey(f, i) == <<"prop26", f, i>>
ChunkKey(s, n) == <<"str", s, n>>

Ids(g) == Groups[g].ids

IdentityKeys(d) ==
    {FirmwareKey(d, n) : n \in DOMAIN Words[d]} \cup {PropertyKey(d, p) : p \in DOMAIN Properties[d]}
OutputKeys == {Total, OutputCount} \cup {OutputKey(n) : n \in 1 .. MaxOutputs}
GroupKeys(g) == {NameKey(g), CountKey(g)} \cup {IdKey(g, i) : i \in DOMAIN Ids(g)}
FieldKeys(f) ==
    {MetaKey(f, op) : op \in AllOps} \cup {OptionKey(f, i) : i \in DOMAIN Labels[f]}
ChunkKeys(s) == {ChunkKey(s, n) : n \in DOMAIN Text[s]}

Keys ==
    (UNION {IdentityKeys(d) : d \in ToSet(Devices)})
    \cup OutputKeys
    \cup (UNION {GroupKeys(g) : g \in DOMAIN Groups})
    \cup (UNION {FieldKeys(f) : f \in ToSet(Fields)})
    \cup (UNION {ChunkKeys(s) : s \in Strings})

\* What the device may answer.
Replies(k) ==
    IF k[1] = "p82" THEN {Words[k[2]][k[3]]}
    ELSE IF k[1] = "p09" THEN {Properties[k[2]][k[3]]}
    ELSE IF k = Total THEN {Len(Groups)}
    ELSE IF k = OutputCount THEN {IF Outputs = NA THEN NA ELSE Len(Outputs)}
    ELSE IF k[1] = "p08" THEN {IF k[3] \in DOMAIN Outputs THEN Outputs[k[3]] ELSE NA}
    ELSE IF k[1] = "group28" THEN {Groups[k[2]].name}
    ELSE IF k[1] = "group07" THEN {Len(Ids(k[2]))} \cup (IF k[2] \in Glitchy THEN {Bogus} ELSE {})
    ELSE IF k[1] = "group03" THEN {Ids(k[2])[k[3]]}
    ELSE IF k[1] = "prop" THEN {Meta[k[2]][k[3]]}
    ELSE IF k[1] = "prop26" THEN {Labels[k[2]][k[3]]}
    ELSE {Text[k[2]][k[3]]}

\* Lists are lists, strings have an end, tables are checked in strings they
\* have, and "nothing" is no answer.
ASSUME DiscoveryAssumption ==
    /\ {Retries, OptionalRetries, ProbeChunk, StrLimit} \subseteq Nat \ {0}
    /\ {MaxGroups, MaxFields, MaxOutputs, MissLimit, MaxTroubles} \subseteq Nat
    /\ Bogus \in Nat /\ Bogus > MaxFields
    /\ Devices \in Seq(ToSet(Devices)) /\ IsInjective(Devices)
    /\ \A d \in ToSet(Devices) : Properties[d] \in Seq(Strings) /\ {1, 2} \subseteq DOMAIN Words[d]
    /\ Fields \in Seq(ToSet(Fields)) /\ IsInjective(Fields)
    /\ \A f \in ToSet(Fields) : Labels[f] \in Seq(Strings)
    /\ Groups \in Seq(ToSet(Groups))
    /\ \A g \in DOMAIN Groups : Ids(g) \in Seq(ToSet(Ids(g))) /\ Groups[g].name \in Strings
    /\ \A s \in Strings : Text[s] \in Seq(ToSet(Text[s])) \ {<<>>}
    /\ Outputs = NA \/ Outputs \in Seq(ToSet(Outputs))
    /\ Tables \in Seq(ToSet(Tables))
    /\ \A i \in DOMAIN Tables :
          /\ Tables[i].spots \in Seq(Strings)
          /\ ToSet(Tables[i].spots) \subseteq DOMAIN Tables[i].strings
    /\ None # Absent /\ None \notin Strings /\ None \notin ToSet(Fields)
    /\ \A k \in Keys : {None, Absent} \cap Replies(k) = {}

VARIABLES
    slots, flying, ask, got, troubles,  \* see Requests
    pc,          \* what is being asked
    back,        \* where fetching strings returns to
    want,        \* the fetches still to be made, several strings each
    fetches,     \* the strings of the present fetch
    texts,       \* what has been fetched
    known,       \* StrMemo.known
    unanswered,  \* StrMemo.unanswered
    misses,      \* MetaMisses
    catalog,     \* None, or the device's string table
    sids,        \* the property string ids answered
    identities,  \* the identities, once fetched
    left,        \* groups still to be read
    shape,       \* the GroupShape being read
    prev,        \* the one before it
    groups,      \* the menu so far
    complete,    \* whether every group's fields were counted
    todo,        \* fields still to be enumerated
    meta,        \* the metadata of the first of them
    found        \* fields enumerated, of the group or the probe

INSTANCE Requests

\* The elements at these indices, in their order: what SelectSeq gives, but by
\* the indices, of which something can be proved.
Nth(indices, n) == CHOOSE i \in indices : Cardinality({j \in indices : j <= i}) = n
Among(list, indices) == [n \in 1 .. Cardinality(indices) |-> list[Nth(indices, n)]]

requests == <<slots, flying, ask, got, troubles>>
table == <<slots, flying, troubles>>
memo == <<known, unanswered>>
strings == <<back, want, fetches, texts, memo>>
menu == <<left, shape, prev, groups, complete>>
fields == <<todo, meta, found, misses>>
vars == <<requests, pc, strings, catalog, sids, identities, menu, fields>>

NoShape == [name |-> None, text |-> <<>>, ids |-> <<>>, counted |-> FALSE, count |-> 0]
NoMisses == [ops |-> [op \in AllOps |-> 0], silent |-> 0]

Init ==
    /\ RequestsInit
    /\ pc = "idle" /\ back = "idle"
    /\ want = <<>> /\ fetches = <<>> /\ texts = <<>>
    /\ known = [s \in Strings |-> None]
    /\ unanswered = [s \in Strings |-> 0]
    /\ misses = NoMisses
    /\ catalog = None /\ sids = <<>> /\ identities = <<>>
    /\ left = 0 /\ shape = NoShape /\ prev = NoShape
    /\ groups = <<>> /\ complete = FALSE
    /\ todo = <<>> /\ meta = <<>> /\ found = <<>>

-----------------------------------------------------------------------------
(* The questions. *)

Least(m, n) == IF m < n THEN m ELSE n

Answered(k) == got[k] # None

ReqStd(k) == Ask(<<<<k>>>>, Retries, FALSE)

ReqPatient(k) == Ask(<<<<k>>>>, Retries, TRUE)

ReqAll(keys) == Ask(IF keys = <<>> THEN <<>> ELSE <<keys>>, Retries, TRUE)

\* What all devices are asked together, in some order.
WordKeys == SetToSeq(UNION {{FirmwareKey(d, n) : n \in 1 .. 2} : d \in ToSet(Devices)})
PropertyKeys ==
    SetToSeq(UNION {{PropertyKey(d, p) : p \in DOMAIN Properties[d]} : d \in ToSet(Devices)})

\* One try each; those that came late are collected at the end, in place.
OptionLabels(f) ==
    Ask(OneByOne([i \in DOMAIN Labels[f] |-> OptionKey(f, i)]), OptionalRetries, TRUE)

FieldIds(g, n) == Ask(OneByOne([i \in 1 .. n |-> IdKey(g, i)]), Retries, TRUE)

MetaBatch(f, ops) == Ask(<<[i \in DOMAIN ops |-> MetaKey(f, ops[i])]>>, 1, FALSE)

\* The indices of the tab, asked for in chunks of one kind of metadata.
Chunks ==
    [c \in 1 .. (Len(Fields) + ProbeChunk - 1) \div ProbeChunk |->
        [i \in 1 .. Least(ProbeChunk, Len(Fields) - (c - 1) * ProbeChunk) |->
            MetaKey(Fields[(c - 1) * ProbeChunk + i], "VIZ")]]

ProbeExistence == Ask(Chunks, 1, FALSE)

\* Program step: the question before it is over.
At(p) == Over /\ pc = p

-----------------------------------------------------------------------------
(* Strings, four characters at a time, several at once. *)

FetchAll(calls, next) ==
    /\ want' = calls /\ texts' = <<>> /\ fetches' = <<>>
    /\ back' = next
    /\ pc' = IF calls = <<>> THEN next ELSE "fetch"

Served(s) == catalog # None /\ back # "spotted" /\ s \in DOMAIN catalog

\* For comparison: what goes unanswered is asked for wherever it is named.
ToFetchAlways(s) == ~Served(s) /\ known[s] = None

\* Not in the table, not fetched before, and not known to go unanswered.
ToFetch(s) == ~Served(s) /\ known[s] = None /\ unanswered[s] < StrLimit

NextChunk(fetch) == ChunkKey(fetch.id, Len(fetch.s) + 1)

Open(fs) == Among(fs, {i \in DOMAIN fs : ~fs[i].done})

AskChunks(fs) == ReqAll([i \in DOMAIN Open(fs) |-> NextChunk(Open(fs)[i])])

BeginFetch ==
    LET ids == Head(want)
        new == Among(ids, {i \in DOMAIN ids :
                              ToFetch(ids[i]) /\ \A j \in 1 .. i - 1 : ids[j] # ids[i]})
    IN  /\ At("fetch")
        /\ fetches' = [i \in DOMAIN new |-> [id |-> new[i], s |-> <<>>, done |-> FALSE]]
        /\ AskChunks(fetches')
        /\ pc' = "chunks"
        /\ UNCHANGED <<table, back, want, texts, memo, catalog, sids, identities, menu, fields>>

\* For comparison: what came of a string cut off by a lost chunk is kept.
EndsTornToo(fetch) ==
    got[NextChunk(fetch)] = None \/ Len(fetch.s) + 1 = Len(Text[fetch.id])

\* The chunk that came was the string's last: it is short, or has a zero.
Ends(fetch) ==
    /\ got[NextChunk(fetch)] # None
    /\ Len(fetch.s) + 1 = Len(Text[fetch.id])

Longer(fetch) ==
    IF got[NextChunk(fetch)] = None THEN [fetch EXCEPT !.done = TRUE]
    ELSE [fetch EXCEPT !.s = Append(@, got[NextChunk(fetch)]), !.done = Ends(fetch)]

After(fetch) == IF fetch.done THEN fetch ELSE Longer(fetch)

\* A string with no answer at all is counted; one that lost a later chunk not.
TakeChunks ==
    LET open == Open(fetches)
        now == [i \in DOMAIN fetches |-> After(fetches[i])]
        whole == {fetch \in ToSet(open) : Ends(fetch)}
        silent == {fetch \in ToSet(open) : fetch.s = <<>> /\ ~Answered(NextChunk(fetch))}
        Cut(s) == {fetch.s : fetch \in {f \in ToSet(now) : f.id = s}}
        Result(s) ==
            CASE Served(s) -> catalog[s]
              [] ~Served(s) /\ known'[s] # None -> known'[s]
              [] OTHER -> IF Cut(s) = {} THEN <<>> ELSE CHOOSE t \in Cut(s) : TRUE
    IN  /\ At("chunks")
        /\ known' = [s \in Strings |->
                        IF \E fetch \in whole : fetch.id = s
                        THEN (CHOOSE fetch \in {Longer(f) : f \in whole} : fetch.id = s).s
                        ELSE known[s]]
        /\ unanswered' = [s \in Strings |->
                             unanswered[s] + Cardinality({fetch \in silent : fetch.id = s})]
        /\ AskChunks(now)
        /\ IF Open(now) # <<>>
           THEN fetches' = now /\ UNCHANGED <<pc, want, texts>>
           ELSE /\ texts' = texts \o [i \in DOMAIN Head(want) |-> Result(Head(want)[i])]
                /\ want' = Tail(want)
                /\ fetches' = <<>>
                /\ pc' = IF Tail(want) = <<>> THEN back ELSE "fetch"
        /\ UNCHANGED <<table, back, catalog, sids, identities, menu, fields>>

\* with_disc: a discovery begins with nothing remembered.
Begins == At("idle")

-----------------------------------------------------------------------------
(* Identities, of all devices together. *)

Identify ==
    /\ Begins
    /\ identities = <<>>
    /\ ReqAll(WordKeys)
    /\ pc' = "firmware"
    /\ UNCHANGED <<table, strings, catalog, sids, identities, menu, fields>>

\* A word that went unanswered counts for 0.
Firmware(d) ==
    LET Word(n) == IF Answered(FirmwareKey(d, n)) THEN got[FirmwareKey(d, n)] ELSE 0
    IN  Word(1) + Word(2)

AskProperties ==
    /\ At("firmware")
    /\ identities' = [d \in DOMAIN Devices |-> [firmware |-> Firmware(Devices[d]), texts |-> <<>>]]
    /\ ReqAll(PropertyKeys)
    /\ pc' = "properties"
    /\ UNCHANGED <<table, strings, catalog, sids, menu, fields>>

\* Only the strings whose id is known are fetched, in one go.
FetchProperties ==
    LET all == [i \in DOMAIN PropertyKeys |-> got[PropertyKeys[i]]]
        live == Among(all, {i \in DOMAIN all : all[i] # None})
    IN  /\ At("properties")
        /\ sids' = all
        /\ FetchAll(IF live = <<>> THEN <<>> ELSE <<live>>, "identified")
        /\ UNCHANGED <<requests, memo, catalog, identities, menu, fields>>

\* The texts come in the order of the ids; a property without one is empty.
PutIdentities ==
    LET at(d, p) == CHOOSE i \in DOMAIN PropertyKeys : PropertyKeys[i] = PropertyKey(d, p)
        before(i) == Cardinality({j \in 1 .. i : sids[j] # None})
        textAt(i) == IF sids[i] = None THEN <<>> ELSE texts[before(i)]
    IN  /\ At("identified")
        /\ identities' = [d \in DOMAIN Devices |->
               [identities[d] EXCEPT !.texts =
                   [p \in DOMAIN Properties[Devices[d]] |-> textAt(at(Devices[d], p))]]]
        /\ pc' = "done"
        /\ texts' = <<>> /\ sids' = <<>>
        /\ UNCHANGED <<requests, back, want, fetches, memo, catalog, menu, fields>>

-----------------------------------------------------------------------------
(* The offline string table: each candidate is checked against the device. *)

ResolveCatalog ==
    /\ Begins
    /\ identities # <<>> /\ catalog = None /\ Tables # <<>>
    /\ left' = 1 /\ todo' = Tables[1].spots
    /\ pc' = "spot"
    /\ UNCHANGED <<requests, strings, catalog, sids, identities, shape, prev, groups, complete,
                   meta, found, misses>>

\* For comparison: one string that agrees is enough.
EveryOther(spots) == <<>>

\* Every spot is to agree.
Others(spots) == Tail(spots)

\* For comparison: the same candidate again.
SameTable(i) == i

NextTable(i) == i + 1

FetchSpot ==
    /\ At("spot") /\ todo # <<>>
    /\ FetchAll(<<<<Head(todo)>>>>, "spotted")
    /\ UNCHANGED <<requests, memo, catalog, sids, identities, menu, fields>>

\* At the first that does not agree, the next candidate is taken.
TakeSpot ==
    LET agrees == texts[1] = Tables[left].strings[Head(todo)]
        next == IF agrees THEN left ELSE NextTable(left)
    IN  /\ At("spotted")
        /\ texts' = <<>>
        /\ left' = IF next \in DOMAIN Tables THEN next ELSE 0
        /\ todo' = IF agrees THEN Others(todo)
                   ELSE IF next \in DOMAIN Tables THEN Tables[next].spots ELSE <<>>
        /\ pc' = IF next \in DOMAIN Tables THEN "spot" ELSE "done"
        /\ catalog' = IF next \in DOMAIN Tables THEN None ELSE <<>>
        /\ UNCHANGED <<requests, back, want, fetches, memo, sids, identities, shape, prev,
                       groups, complete, meta, found, misses>>

PutCatalog ==
    /\ At("spot") /\ todo = <<>>
    /\ catalog' = Tables[left].strings
    /\ left' = 0 /\ pc' = "done"
    /\ UNCHANGED <<requests, strings, sids, identities, shape, prev, groups, complete, fields>>

-----------------------------------------------------------------------------
(* A menu, group by group. *)

StartMenu ==
    /\ Begins
    /\ identities # <<>> /\ (catalog # None \/ Tables = <<>>)
    /\ ReqStd(Total)
    /\ pc' = "total"
    /\ UNCHANGED <<table, strings, catalog, sids, identities, menu, fields>>

TakeTotal ==
    /\ At("total")
    /\ IF Answered(Total)
       THEN /\ left' = Least(got[Total], MaxGroups)
            /\ complete' = TRUE
            /\ pc' = "group"
       ELSE pc' = "idle" /\ UNCHANGED <<left, complete>>
    /\ UNCHANGED <<requests, strings, catalog, sids, identities, shape, prev, groups, fields>>

Group == Least(Len(Groups), MaxGroups) - left + 1

AskName ==
    /\ At("group") /\ left > 0
    /\ ReqStd(NameKey(Group))
    /\ pc' = "name"
    /\ UNCHANGED <<table, strings, catalog, sids, identities, menu, fields>>

AskCount ==
    /\ At("name")
    /\ shape' = [NoShape EXCEPT !.name = got[NameKey(Group)]]
    /\ ReqPatient(CountKey(Group))
    /\ pc' = "count"
    /\ UNCHANGED <<table, strings, catalog, sids, identities, left, prev, groups, complete,
                   fields>>

TooMany(n) == n > MaxFields

AskIds(n) ==
    /\ shape' = [shape EXCEPT !.count = n, !.counted = (got[CountKey(Group)] # None) \/ shape.counted]
    /\ FieldIds(Group, n)
    /\ pc' = "ids"

SkipGroup ==
    /\ left' = left - 1
    /\ shape' = NoShape
    /\ pc' = "group"
    /\ UNCHANGED <<ask, got>>

\* More fields than a group can have: the device is asked again.
TakeCount ==
    LET count == IF Answered(CountKey(Group)) THEN got[CountKey(Group)] ELSE 0
    IN  /\ At("count")
        /\ IF TooMany(count)
           THEN /\ shape' = [shape EXCEPT !.count = count, !.counted = TRUE]
                /\ ReqPatient(CountKey(Group))
                /\ pc' = "recount"
           ELSE AskIds(count)
        /\ UNCHANGED <<table, strings, catalog, sids, identities, left, prev, groups, complete,
                       fields>>

\* If it sticks the group is skipped; an unanswered retry keeps the first count.
TakeRecount ==
    LET count == IF Answered(CountKey(Group)) THEN got[CountKey(Group)] ELSE shape.count
    IN  /\ At("recount")
        /\ IF TooMany(count) THEN SkipGroup ELSE AskIds(count) /\ UNCHANGED left
        /\ UNCHANGED <<table, strings, catalog, sids, identities, prev, groups, complete, fields>>

\* What was answered, in the order of the list, each field once; an index past
\* 255 is left out.
TakeIds ==
    LET replies == [i \in 1 .. shape.count |-> got[IdKey(Group, i)]]
        firsts == {i \in DOMAIN replies : /\ replies[i] \in ToSet(Fields)
                                          /\ \A j \in 1 .. i - 1 : replies[j] # replies[i]}
    IN  /\ At("ids")
        /\ shape' = [shape EXCEPT !.ids = Among(replies, firsts)]
        /\ FetchAll(IF shape.name = None THEN <<>> ELSE <<<<shape.name>>>>, "shape")
        /\ UNCHANGED <<requests, memo, catalog, sids, identities, left, prev, groups, complete,
                       fields>>

Named == [shape EXCEPT !.text = IF texts = <<>> THEN <<>> ELSE texts[1]]

\* For comparison: its name alone tells a group; or nothing does.
SameName(a, b) == a.text = b.text
NeverSame(a, b) == FALSE

Repeats(a, b) == a.ids # <<>> /\ a.text = b.text /\ a.ids = b.ids

EndAtRepeat ==
    /\ At("shape") /\ groups # <<>> /\ Repeats(Named, prev)
    /\ left' = 0 /\ shape' = NoShape
    /\ pc' = "group"
    /\ texts' = <<>>
    /\ UNCHANGED <<requests, back, want, fetches, memo, catalog, sids, identities, prev,
                   groups, complete, fields>>

\* For comparison: what the last group says of the whole menu.
LastCounted == shape.counted

Counted == complete /\ shape.counted

ListGroup ==
    /\ At("shape") /\ ~(groups # <<>> /\ Repeats(Named, prev))
    /\ complete' = Counted
    /\ groups' = Append(groups, [id |-> Group, text |-> Named.text, ids |-> shape.ids,
                                 counted |-> shape.counted, fields |-> <<>>])
    /\ prev' = Named
    /\ left' = left - 1
    /\ todo' = shape.ids
    /\ shape' = NoShape
    /\ texts' = <<>>
    /\ pc' = "field"
    /\ UNCHANGED <<requests, back, want, fetches, memo, catalog, sids, identities, meta, found,
                   misses>>

EndGroup ==
    /\ At("field") /\ todo = <<>> /\ groups # <<>>
    /\ groups' = [groups EXCEPT ![Len(groups)].fields = found]
    /\ found' = <<>>
    /\ pc' = "group"
    /\ UNCHANGED <<requests, strings, catalog, sids, identities, left, shape, prev, complete,
                   todo, meta, misses>>

EndMenu ==
    /\ At("group") /\ left = 0
    /\ pc' = "done"
    /\ UNCHANGED <<requests, strings, catalog, sids, identities, menu, fields>>

-----------------------------------------------------------------------------
(* A field: its metadata in one batch, what is missing once more, then the *)
(* strings it names.                                                       *)

Field == Head(todo)

\* An output's flag is answered by outputs only, so it is not asked again.
AskMeta ==
    /\ At("field") /\ todo # <<>>
    /\ MetaBatch(Field, IF Eventables /\ groups # <<>> THEN Append(Ops, "EVENTABLE") ELSE Ops)
    /\ pc' = "meta"
    /\ UNCHANGED <<table, strings, catalog, sids, identities, menu, fields>>

Told == [op \in {o \in AllOps : Answered(MetaKey(Field, o))} |-> got[MetaKey(Field, op)]]

Missing ==
    IF Told = <<>> THEN IF misses.silent < MissLimit THEN Ops ELSE <<>>
    ELSE Among(Ops, {i \in DOMAIN Ops :
                        Ops[i] \notin DOMAIN Told /\ misses.ops[Ops[i]] < MissLimit})

TakeMeta ==
    /\ At("meta")
    /\ meta' = Told
    /\ IF Missing = <<>> THEN pc' = "told" /\ UNCHANGED <<ask, got>>
       ELSE MetaBatch(Field, Missing) /\ pc' = "remeta"
    /\ UNCHANGED <<table, strings, catalog, sids, identities, menu, todo, found, misses>>

\* A field silent until now says something of the device; one that has told
\* others, of the ops it left out.
CountMisses ==
    IF meta = <<>>
    THEN [misses EXCEPT !.silent = IF Told = <<>> THEN @ + 1 ELSE 0]
    ELSE [misses EXCEPT !.ops =
             [op \in AllOps |-> IF /\ op \in ToSet(Ops) \ DOMAIN meta
                                  /\ misses.ops[op] < MissLimit
                                  /\ op \notin DOMAIN Told
                               THEN @[op] + 1 ELSE @[op]]]

TakeMoreMeta ==
    /\ At("remeta")
    /\ misses' = CountMisses
    /\ meta' = [op \in DOMAIN Told \cup DOMAIN meta |->
                   IF op \in DOMAIN Told THEN Told[op] ELSE meta[op]]
    /\ pc' = "told"
    /\ UNCHANGED <<requests, strings, catalog, sids, identities, menu, todo, found>>

LeaveOutField ==
    /\ At("told") /\ meta = <<>>
    /\ todo' = Tail(todo)
    /\ pc' = "field"
    /\ UNCHANGED <<requests, strings, catalog, sids, identities, menu, meta, found, misses>>

Value(op) == IF op \in DOMAIN meta THEN meta[op] ELSE NA

IsList == Value("VIZ") = "list" /\ Value("MAX") \notin {0, NA}

\* A list names its options. What was not answered is no list.
AskOptions ==
    /\ At("told") /\ meta # <<>>
    /\ IF IsList THEN OptionLabels(Field)
       ELSE ask' = NoQuestion /\ got' = [k \in Keys |-> None]
    /\ pc' = "options"
    /\ UNCHANGED <<table, strings, catalog, sids, identities, menu, fields>>

\* Each string on its own: the options in their order, the name, the unit. An
\* option, or a name, that was not answered is empty.
Names ==
    LET options == IF IsList THEN [i \in DOMAIN Labels[Field] |-> got[OptionKey(Field, i)]]
                   ELSE <<>>
    IN  options \o <<Value("NAME"), Value("UNIT")>>

FetchNames ==
    LET named == Among(Names, {i \in DOMAIN Names : Names[i] \in Strings})
    IN  /\ At("options")
        /\ sids' = Names
        /\ FetchAll([i \in DOMAIN named |-> <<named[i]>>], "names")
        /\ UNCHANGED <<requests, memo, catalog, identities, menu, fields>>

PutField ==
    LET before(i) == Cardinality({j \in 1 .. i : sids[j] \in Strings})
    IN  /\ At("names")
        /\ found' = Append(found, [index |-> Field, meta |-> meta,
                          texts |-> [i \in DOMAIN sids |->
                              IF sids[i] \in Strings THEN texts[before(i)] ELSE <<>>]])
        /\ todo' = Tail(todo)
        /\ meta' = <<>> /\ sids' = <<>> /\ texts' = <<>>
        /\ pc' = "field"
        /\ UNCHANGED <<requests, back, want, fetches, memo, catalog, identities, menu, misses>>

-----------------------------------------------------------------------------
(* The flat probe, and the outputs. *)

StartProbe ==
    /\ Begins
    /\ identities # <<>> /\ (catalog # None \/ Tables = <<>>)
    /\ ProbeExistence
    /\ pc' = "probe"
    /\ UNCHANGED <<table, strings, catalog, sids, identities, menu, fields>>

TakeProbe ==
    /\ At("probe")
    /\ todo' = Among(Fields, {i \in DOMAIN Fields : Answered(MetaKey(Fields[i], "VIZ"))})
    /\ pc' = "field"
    /\ UNCHANGED <<requests, strings, catalog, sids, identities, menu, meta, found, misses>>

EndProbe ==
    /\ At("field") /\ todo = <<>> /\ groups = <<>>
    /\ pc' = "done"
    /\ UNCHANGED <<requests, strings, catalog, sids, identities, menu, fields>>

StartOutputs ==
    /\ Begins
    /\ identities # <<>>
    /\ ReqStd(OutputCount)
    /\ pc' = "outputs"
    /\ UNCHANGED <<table, strings, catalog, sids, identities, menu, fields>>

\* Refused, there are none; unanswered, there may be any number.
CountOutputs ==
    /\ At("outputs")
    /\ left' = CASE got[OutputCount] = NA -> 0
                 [] got[OutputCount] = None -> MaxOutputs
                 [] OTHER -> Least(got[OutputCount], MaxOutputs)
    /\ pc' = "output"
    /\ UNCHANGED <<requests, strings, catalog, sids, identities, shape, prev, groups, complete,
                   fields>>

AskOutput ==
    /\ At("output") /\ left > 0
    /\ ReqStd(OutputKey(Len(todo) + 1))
    /\ pc' = "listed"
    /\ UNCHANGED <<table, strings, catalog, sids, identities, menu, fields>>

\* The list ends where it is refused or not answered, and at index 255.
TakeOutput ==
    LET f == got[OutputKey(Len(todo) + 1)]
    IN  /\ At("listed")
        /\ IF f \in ToSet(Fields)
           THEN todo' = Append(todo, f) /\ left' = left - 1
           ELSE left' = 0 /\ UNCHANGED todo
        /\ pc' = "output"
        /\ UNCHANGED <<requests, strings, catalog, sids, identities, shape, prev, groups,
                       complete, meta, found, misses>>

EndOutputs ==
    /\ At("output") /\ left = 0
    /\ pc' = "done"
    /\ UNCHANGED <<requests, strings, catalog, sids, identities, menu, fields>>

\* What was found has been handed over; what was remembered is dropped.
Done ==
    /\ At("done")
    /\ pc' = "idle" /\ back' = "idle"
    /\ groups' = <<>> /\ prev' = NoShape /\ complete' = FALSE
    /\ todo' = <<>> /\ found' = <<>>
    /\ known' = [s \in Strings |-> None] /\ unanswered' = [s \in Strings |-> 0]
    /\ misses' = NoMisses
    /\ UNCHANGED <<requests, want, fetches, texts, catalog, sids, identities, left, shape, meta>>

-----------------------------------------------------------------------------
Device ==
    \/ \E reply \in IF flying = <<>> \/ Head(flying) \in Silent THEN {}
                    ELSE Replies(Head(flying)) : AnswerWith(reply)
    \/ NoAnswer(Silent)

Turn == \E s \in Strings : Between(ChunkKey(s, 1))

StringStep == BeginFetch \/ TakeChunks

IdentityStep == Identify \/ AskProperties \/ FetchProperties \/ PutIdentities

CatalogStep == ResolveCatalog \/ FetchSpot \/ TakeSpot \/ PutCatalog

GroupStep ==
    \/ AskName \/ AskCount \/ TakeCount \/ TakeRecount \/ TakeIds
    \/ EndAtRepeat \/ ListGroup \/ EndGroup

MenuStep == StartMenu \/ TakeTotal \/ GroupStep \/ EndMenu

FieldStep ==
    \/ AskMeta \/ TakeMeta \/ TakeMoreMeta \/ LeaveOutField
    \/ AskOptions \/ FetchNames \/ PutField

ProbeStep == StartProbe \/ TakeProbe \/ EndProbe

OutputStep == StartOutputs \/ CountOutputs \/ AskOutput \/ TakeOutput \/ EndOutputs

Program ==
    \/ StringStep \/ IdentityStep \/ CatalogStep
    \/ MenuStep \/ FieldStep \/ ProbeStep \/ OutputStep
    \/ Done

NotAsking == UNCHANGED <<pc, strings, catalog, sids, identities, menu, fields>>

Next ==
    \/ (Device \/ Turn \/ RequestStep) /\ NotAsking
    \/ Program

\* The scheduler's thread runs and its waits end. A wait that may not time out
\* any more, by the bound on troubles, ends with the device's answer.
Fairness ==
    /\ WF_vars((RequestStep /\ NotAsking) \/ (Program /\ pc # "idle"))
    /\ WF_vars(Device /\ NotAsking)

Spec == Init /\ [][Next]_vars /\ Fairness

-----------------------------------------------------------------------------
(* Properties. *)

Stages == {"send", "wait", "late", "over"}

TypeOK ==
    /\ ToSet(flying) \subseteq Keys
    /\ DOMAIN slots = Keys /\ DOMAIN got = Keys
    /\ ask.stage \in Stages /\ ToSet(ask.open \o ask.missed \o ask.late) \subseteq Keys
    /\ pc = "idle" => /\ groups = <<>> /\ todo = <<>> /\ found = <<>> /\ want = <<>>
                       /\ texts = <<>> /\ sids = <<>> /\ left = 0
    /\ \A s \in Strings : unanswered[s] \in 0 .. StrLimit
    /\ \A op \in AllOps : misses.ops[op] \in 0 .. MissLimit
    /\ misses.silent \in 0 .. MissLimit

Before(list, a, b) ==
    \E i, j \in DOMAIN list : i < j /\ list[i] = a /\ list[j] = b

IsTextOf(text, s) ==
    \/ IsPrefix(text, Text[s])
    \/ catalog # None /\ s \in DOMAIN catalog /\ text = catalog[s]

\* Whichever replies were late, and in whatever order they were collected, a
\* group's fields are in the order of the device's list and a list's labels at
\* their options: a reply is never taken for that of its neighbour. A label is
\* the device's as far as it came, or the table's.
InPlace ==
    /\ \A g \in DOMAIN groups :
          LET ids == groups[g].ids
          IN  \A i, j \in DOMAIN ids : i < j => Before(Ids(groups[g].id), ids[i], ids[j])
    /\ \A i \in DOMAIN found :
          LET f == found[i].index
              n == Len(found[i].texts) - 2
          IN  \A o \in 1 .. n : IsTextOf(found[i].texts[o], Labels[f][o])

\* A string that is remembered, to be given for every field that names it, is
\* the whole of the device's, though chunks of it, and of others fetched at the
\* same time, came late, twice, or never.
KnownIsWhole == \A s \in Strings : known[s] \in {None, Text[s]}

\* An offline table is only used if wherever it was to be checked it agrees
\* with what the device told: with the whole string, or with the part before
\* the first chunk that was lost.
TableIsChecked ==
    catalog \notin {None, <<>>} =>
        \E i \in DOMAIN Tables :
            /\ catalog = Tables[i].strings
            /\ \A j \in DOMAIN Tables[i].spots :
                  LET s == Tables[i].spots[j] IN IsPrefix(Tables[i].strings[s], Text[s])

\* What a group has, each field once.
Listable(g) ==
    LET ids == Ids(g)
    IN  Among(ids, {i \in DOMAIN ids : /\ ids[i] \in ToSet(Fields)
                                       /\ \A j \in 1 .. i - 1 : ids[j] # ids[i]})

Tellable(f) == {op \in AllOps : MetaKey(f, op) \notin Silent}

Spelled(s) == IF s \in Strings /\ ChunkKey(s, 1) \notin Silent THEN Text[s] ELSE <<>>

TrueName(f, op) == IF op \in Tellable(f) THEN Spelled(Meta[f][op]) ELSE <<>>

\* What a device says of a field, when all it says is heard.
TrueField(f) ==
    LET list == Meta[f].VIZ = "list" /\ Meta[f].MAX # 0 /\ {"VIZ", "MAX"} \subseteq Tellable(f)
        labels == IF list THEN [i \in DOMAIN Labels[f] |-> Spelled(Labels[f][i])] ELSE <<>>
    IN  labels \o <<TrueName(f, "NAME"), TrueName(f, "UNIT")>>

Anew(g) == g = 1 \/ Ids(g) # Ids(g - 1) \/ Text[Groups[g].name] # Text[Groups[g - 1].name]

\* On a bus where nothing is late or lost a menu is read as the device has it:
\* every group that is not the one before it again, but those whose count the
\* device got wrong; of each every field that tells anything; and of a field
\* every string. What a device never answers costs nothing else.
QuietBusIsReadWhole ==
    troubles = 0 /\ pc = "done" /\ groups # <<>> =>
        /\ {g \in DOMAIN Groups \ Glitchy : Anew(g)} \subseteq {groups[i].id : i \in DOMAIN groups}
        /\ \A i \in DOMAIN groups :
              LET fs == groups[i].fields
              IN  /\ {fs[j].index : j \in DOMAIN fs} =
                         {f \in ToSet(Listable(groups[i].id)) : Tellable(f) # {}}
                  /\ \A j \in DOMAIN fs : fs[j].texts = TrueField(fs[j].index)

NameOf(g) == IF catalog # None /\ Groups[g].name \in DOMAIN catalog THEN catalog[Groups[g].name]
             ELSE Text[Groups[g].name]

ReadWhole(group) == group.text = NameOf(group.id) /\ group.ids = Listable(group.id)

\* A field belongs to one group; only past its last group may a device answer
\* with that group again, as often as it likes.
TellsLastAgain ==
    \A g, h \in DOMAIN Groups :
        g < h /\ ToSet(Listable(g)) \cap ToSet(Listable(h)) # {} =>
            \A k \in g .. h : Groups[k].name = Groups[g].name /\ Listable(k) = Listable(g)

\* A device that answers past its last group with that group again does not
\* list a field twice, unless one of the two or a group between them lost its
\* name or a field id.
ListedOnce ==
    \A i, j \in DOMAIN groups :
        /\ i < j
        /\ ToSet(groups[i].ids) \cap ToSet(groups[j].ids) # {}
        => \E k \in i .. j : ~ReadWhole(groups[k])

\* A discovery ends, whatever the device leaves unanswered.
DiscoveriesEnd == (pc # "idle") ~> (pc = "idle")

\* Reading the menu is what MenuReading says it is.
InMenu ==
    /\ pc # "done"
    /\ \/ groups # <<>>
       \/ pc \in {"group", "name", "count", "recount", "ids"}
       \/ back = "shape" /\ pc \in {"fetch", "chunks", "shape"}

Menu == INSTANCE MenuReading WITH
    busy <- InMenu,
    left <- IF InMenu THEN left ELSE 0,
    some <- groups # <<>>,
    counted <- complete

ReadsMenus == Menu!Spec
=============================================================================
