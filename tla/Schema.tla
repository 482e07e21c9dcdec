------------------------------- MODULE Schema -------------------------------
(***************************************************************************)
(* What the engine knows of one device: its access level, its identity and *)
(* its schema, in memory (runtime/state.rs) and in the cache folder        *)
(* (runtime/discovery.rs), and the scheduler's handlers that fill them     *)
(* (runtime/scheduler.rs).                                                 *)
(*                                                                         *)
(* A device shows other fields, and lets others be written, at each access *)
(* level and in each firmware.  So what matters about anything read from   *)
(* it is what the device was at that moment: its firmware and its level,   *)
(* the origin of what was read.  A menu carries the origins of its parts.  *)
(* The engine knows nothing of them, and no guard looks at them.           *)
(***************************************************************************)
EXTENDS Naturals, Sequences, FiniteSets

CONSTANTS
    Tabs,             \* MENUS, in the order do_discover_all takes them
    Monitoring,       \* the tab that no device lacks groups on
    Configuration,    \* the tab with fields that no group lists
    Levels,           \* access levels
    EndUser,          \* the level a device boots at
    Firmwares,        \* the firmwares the device may come to have
    Versions,         \* what may be taken for its firmware; an unanswered word of it is 0
    IncompleteLimit,  \* INCOMPLETE_READ_LIMIT
    MaxGroups,        \* bound: groups on a tab
    MaxFrames,        \* bound: login frames on the way to the device
    MaxUpsets,        \* bound: how often things go wrong, see upsets
    None              \* Option::None

Menus == {Tabs[i] : i \in DOMAIN Tabs}

\* Login frames: a read, or a level to log in to. EndUser is a logout.
Read == "read"
Requests == Levels \cup {Read}

\* Nobody waits for an answer to a login frame.
Free == "free"

ASSUME SchemaAssumption ==
    /\ Tabs \in Seq(Menus)
    /\ \A i, j \in DOMAIN Tabs : Tabs[i] = Tabs[j] => i = j
    /\ EndUser \in Levels
    /\ Firmwares \subseteq Versions
    /\ IncompleteLimit \in Nat \ {0}
    /\ {MaxGroups, MaxFrames, MaxUpsets} \subseteq Nat
    /\ Menus \cap {"identity", "all_fields", "field"} = {}
    /\ Levels \cap {Read, Free, None} = {}
    /\ Free # None
    /\ None \notin [serial : BOOLEAN, firmware : Versions]

Origins == Firmwares \X Levels

\* from: the origins of its parts; some: whether it has groups; counted:
\* whether every group's field count was answered.
Listing == [from : SUBSET Origins, some : BOOLEAN, counted : BOOLEAN]

NoListing == [from |-> {}, some |-> FALSE, counted |-> FALSE]

\* The names of cache files: firmware, level and menu. The serial number, also
\* in the name, is that of the one device.
Files == Versions \X Levels \X Menus

\* What a command wants to have: a menu, or one of these.
Goals == Menus \cup {"identity", "all_fields", "field"}

VARIABLES
    firmware,      \* the device's firmware
    level,         \* the device's access level
    asked,         \* login frames on the way to the device
    slot,          \* the request table's slot for them: Free, None or a level
    access_level,  \* state: the last-known level
    identity,      \* state: None, or whether the serial is known, and firmware
    menus,         \* state: the menus discovered
    all_fields,    \* state: the origins of the flat enumeration
    extra_fields,  \* state: the origins of fields asked for one at a time
    failed_menus,  \* scheduler: menus whose group count went unanswered
    recent,        \* those of them that failed less than MENU_RETRY ago
    disk,          \* cache files
    marks,         \* .incomplete files
    pc,            \* where the scheduler is
    why,           \* why it waits for a level: "read", "set" or "first"
    todo,          \* what its command still wants
    found,         \* the menu, or the fields, being read
    left,          \* groups still to be read
    tries,         \* history: readings that missed a count since a whole one
    upsets         \* history: how often things went wrong, see below

device == <<firmware, level>>
bus == <<asked, slot>>
memory == <<menus, all_fields, extra_fields>>
known == <<access_level, identity, memory>>
failures == <<failed_menus, recent>>
folder == <<disk, marks, tries>>
reading == <<found, left>>
vars == <<device, bus, known, failures, folder, pc, why, todo, reading, upsets>>

Now == <<firmware, level>>

EmptyMemory ==
    /\ menus' = [m \in Menus |-> NoListing]
    /\ all_fields' = {}
    /\ extra_fields' = {}

Init ==
    /\ firmware \in Firmwares /\ level \in Levels
    /\ asked = <<>> /\ slot = Free
    /\ access_level = None /\ identity = None
    /\ menus = [m \in Menus |-> NoListing]
    /\ all_fields = {} /\ extra_fields = {}
    /\ failed_menus = {} /\ recent = {}
    /\ disk = [k \in Files |-> NoListing]
    /\ marks = [k \in Files |-> 0]
    /\ tries = [k \in Files |-> 0]
    /\ pc = "idle" /\ why = "read" /\ todo = <<>>
    /\ found = NoListing /\ left = 0
    /\ upsets = 0

-----------------------------------------------------------------------------
(* The device, and the other masters on its bus.                           *)
(* An upset is what can make the engine's knowledge of the device false:   *)
(* someone else changes its level, it restarts, or it misses, or answers   *)
(* too late, a question about its level or its identity.                   *)

Upset == upsets < MaxUpsets /\ upsets' = upsets + 1

\* A login with a wrong code leaves the level as it was.
LevelsAfter(r) ==
    CASE r = Read -> {level}
      [] r = EndUser -> {EndUser}
      [] OTHER -> {r, level}

\* What it answers, to anyone, goes to the slot, if there is one.
Told(l) == slot' = IF slot = Free THEN slot ELSE l

Answer ==
    /\ asked # <<>>
    /\ level' \in LevelsAfter(Head(asked))
    /\ asked' = Tail(asked)
    /\ Told(level')
    /\ UNCHANGED <<firmware, known, failures, folder, pc, why, todo, reading, upsets>>

\* The question is lost, or the answer.
LoseFrame ==
    /\ asked # <<>>
    /\ Upset
    /\ level' \in {level} \cup LevelsAfter(Head(asked))
    /\ asked' = Tail(asked)
    /\ UNCHANGED <<firmware, slot, known, failures, folder, pc, why, todo, reading>>

OtherMasterLogsIn(l) ==
    /\ l # level
    /\ Upset
    /\ level' = l
    /\ Told(l)
    /\ UNCHANGED <<firmware, asked, known, failures, folder, pc, why, todo, reading>>

\* Switched off and on, perhaps with new firmware.
DeviceRestarts(f) ==
    /\ Upset
    /\ firmware' = f /\ level' = EndUser
    /\ asked' = <<>>
    /\ UNCHANGED <<slot, known, failures, folder, pc, why, todo, reading>>

-----------------------------------------------------------------------------
(* Commands about the access level.  Read, login and logout share a slot.  *)

AskLevel(r, reason) ==
    /\ Len(asked) < MaxFrames
    /\ slot' = None
    /\ asked' = Append(asked, r)
    /\ pc' = "level" /\ why' = reason
    /\ UNCHANGED <<device, known, failures, folder, todo, reading, upsets>>

ReadLevel == pc = "idle" /\ AskLevel(Read, "read")

SetLevel(l) == pc = "idle" /\ AskLevel(l, "set")

\* For comparison: what is not on a menu is kept.
ForgetMenus ==
    /\ menus' = [m \in Menus |-> NoListing]
    /\ UNCHANGED <<all_fields, extra_fields>>

\* What is in memory was read at the level before.
ForgetSchema == EmptyMemory

TakeLevel ==
    /\ pc = "level" /\ slot \in Levels
    /\ slot' = Free
    /\ access_level' = slot
    /\ IF why = "set" THEN ForgetSchema ELSE UNCHANGED memory
    /\ pc' = "next" /\ why' = "read"
    /\ UNCHANGED <<device, asked, identity, failures, folder, todo, reading, upsets>>

\* The first question settles on the level a device boots at; the others fail.
GiveUpLevel ==
    /\ pc = "level" /\ slot = None
    /\ Upset
    /\ slot' = Free
    /\ access_level' = IF why = "first" THEN EndUser ELSE access_level
    /\ pc' = "next" /\ why' = "read"
    /\ UNCHANGED <<device, asked, identity, memory, failures, folder, todo, reading>>

-----------------------------------------------------------------------------
(* Discovery.  A command, or a read of a field of unknown type, wants some *)
(* of what a device has, and first what that depends on.                   *)

Want(goals) ==
    /\ pc = "idle"
    /\ pc' = "next" /\ todo' = goals
    /\ UNCHANGED <<device, bus, known, failures, folder, why, reading, upsets>>

\* Identify, DiscoverMenu, Discover, DiscoverAllFields, DiscoverField, and the
\* way of viz_of to the flat probe.
Commands ==
    {<<g>> : g \in Goals} \cup {Tabs}
    \cup {<<m, "all_fields">> : m \in Menus \cap {Configuration}}

Command == \E goals \in Commands : Want(goals)

\* Of several menus do_discover_all wants none after one that failed, now or
\* not long ago.
Rest(failed) ==
    IF Head(todo) \in failed /\ Len(todo) > 1 /\ todo[2] \in Menus THEN <<>>
    ELSE Tail(todo)

Pursues(g) == pc = "next" /\ todo # <<>> /\ Head(todo) = g

Had(g) ==
    \/ g \in Menus /\ (menus[g].from # {} \/ g \in recent)
    \/ g = "identity" /\ identity # None
    \/ g = "all_fields" /\ all_fields # {}

Skip(g) ==
    /\ Pursues(g) /\ Had(g)
    /\ todo' = Rest(failed_menus)
    /\ UNCHANGED <<device, bus, known, failures, folder, pc, why, reading, upsets>>

EndCommand ==
    /\ pc = "next" /\ todo = <<>>
    /\ pc' = "idle"
    /\ UNCHANGED <<device, bus, known, failures, folder, why, todo, reading, upsets>>

AskFirstLevel(g) ==
    /\ Pursues(g) /\ ~Had(g)
    /\ access_level = None
    /\ AskLevel(Read, "first")

\* What goes unanswered is left out of the identity, and not asked again.
FetchIdentity(g) ==
    /\ Pursues(g) /\ ~Had(g)
    /\ access_level # None /\ identity = None
    /\ \/ /\ identity' = [serial |-> TRUE, firmware |-> firmware]
          /\ UNCHANGED upsets
       \/ /\ identity' \in [serial : BOOLEAN, firmware : Versions]
          /\ identity' # [serial |-> TRUE, firmware |-> firmware]
          /\ Upset
    /\ UNCHANGED <<device, bus, access_level, memory, failures, folder, pc, why, todo, reading>>

\* A device of known level and identity is asked for goal g.
Discovers(g) == Pursues(g) /\ ~Had(g) /\ access_level # None /\ identity # None

\* A field's metadata; one that answers none is left out.
DiscoverField ==
    /\ Discovers("field")
    /\ \E got \in {{}, {Now}} : extra_fields' = extra_fields \cup got
    /\ todo' = Rest(failed_menus)
    /\ UNCHANGED <<device, bus, access_level, identity, menus, all_fields, failures, folder,
                   pc, why, reading, upsets>>

\* For comparison: a menu that was counted has groups.
BegunNonEmpty == [from |-> {Now}, some |-> TRUE, counted |-> TRUE]

\* Nothing has been found yet, but where a reading begins tells in all of it.
Begun == [from |-> {Now}, some |-> FALSE, counted |-> TRUE]

\* The flat probe takes a while.
ProbeFields ==
    /\ Discovers("all_fields")
    /\ found' = Begun
    /\ pc' = "probe"
    /\ UNCHANGED <<device, bus, known, failures, folder, why, todo, left, upsets>>

PutAllFields ==
    /\ pc = "probe"
    /\ all_fields' = found.from \cup {Now}
    /\ found' = NoListing
    /\ pc' = "next" /\ todo' = Rest(failed_menus)
    /\ UNCHANGED <<device, bus, access_level, identity, menus, extra_fields, failures, folder,
                   why, left, upsets>>

-----------------------------------------------------------------------------
(* A menu: from its cache file, or group by group from the device, and then *)
(* to the file.                                                             *)

\* For comparison: one file for all levels.
FileAtAnyLevel(m) == <<identity.firmware, EndUser, m>>

\* Without a serial number nothing is cached.
File(m) == <<identity.firmware, access_level, m>>

Readable(k) == disk[k].from # {}

\* An empty Monitoring menu is a lost group count, whatever the file says.
Plausible(m, listing) == m # Monitoring \/ listing.some

\* For comparison: a menu cached as read is read again.
CachedWhole(m) ==
    /\ identity.serial /\ Readable(File(m)) /\ Plausible(m, disk[File(m)])
    /\ disk[File(m)].counted

Cached(m) == identity.serial /\ Readable(File(m)) /\ Plausible(m, disk[File(m)])

Keep(m, listing) ==
    /\ menus' = [menus EXCEPT ![m] = listing]
    /\ failed_menus' = failed_menus \ {m}
    /\ recent' = recent \ {m}
    /\ todo' = Rest(failed_menus')

LoadMenu(m) ==
    /\ Discovers(m) /\ Cached(m)
    /\ Keep(m, disk[File(m)])
    /\ UNCHANGED <<device, bus, access_level, identity, all_fields, extra_fields, folder,
                   pc, why, reading, upsets>>

CountGroups(m) ==
    /\ Discovers(m) /\ ~Cached(m)
    /\ left' \in 0 .. MaxGroups
    /\ found' = Begun
    /\ pc' = "groups"
    /\ UNCHANGED <<device, bus, known, failures, folder, why, todo, upsets>>

\* An unanswered count is not a count of zero. The menu is asked for again,
\* but not at once.
MissCount(m) ==
    /\ Discovers(m) /\ ~Cached(m)
    /\ failed_menus' = failed_menus \cup {m}
    /\ recent' = recent \cup {m}
    /\ todo' = Rest(failed_menus')
    /\ UNCHANGED <<device, bus, known, folder, pc, why, reading, upsets>>

\* Without its field count a group is read without fields.
ReadGroup ==
    /\ pc = "groups" /\ left > 0
    /\ left' = left - 1
    /\ \E counted \in BOOLEAN :
          found' = [from |-> found.from \cup {Now}, some |-> TRUE,
                    counted |-> found.counted /\ counted]
    /\ UNCHANGED <<device, bus, known, failures, folder, pc, why, todo, upsets>>

\* A group that claims too many fields is left out; one that repeats the group
\* before it ends the menu.
PassOverGroup ==
    /\ pc = "groups" /\ left > 0
    /\ left' \in {left - 1} \cup {n \in {0} : found.some}
    /\ UNCHANGED <<device, bus, known, failures, folder, pc, why, todo, found, upsets>>

Reading == Head(todo)

\* For comparison: one reading too few.
TooOftenSoon(n) == n + 1 >= IncompleteLimit

\* n readings of a menu have missed a count: it is cached as read.
TooOften(n) == n >= IncompleteLimit

\* The menu is whole, or has been incomplete too often: it is cached.
\* Otherwise the mark that it was incomplete is counted up, unless that fails,
\* which leaves the old mark or an empty one.
EndMenu ==
    LET k == File(Reading)
        n == marks[k] + 1
        uncounted == identity.serial /\ ~found.counted
        cache == identity.serial /\ (found.counted \/ TooOften(n))
    IN  /\ pc = "groups" /\ left = 0
        /\ pc' = IF cache THEN "open" ELSE "keep"
        /\ \E mark \in IF uncounted /\ ~TooOften(n) THEN {n, marks[k], 0} ELSE {marks[k]} :
              marks' = [marks EXCEPT ![k] = mark]
        /\ tries' = IF uncounted /\ tries[k] < IncompleteLimit
                    THEN [tries EXCEPT ![k] = @ + 1] ELSE tries
        /\ UNCHANGED <<device, bus, known, failures, disk, why, todo, reading, upsets>>

\* fs::write empties the file, then fills it. A file cut short is not JSON, and
\* as good as none.
OpenFile ==
    /\ pc = "open"
    /\ disk' = [disk EXCEPT ![File(Reading)] = NoListing]
    /\ pc' = "write"
    /\ UNCHANGED <<device, bus, known, failures, marks, tries, why, todo, reading, upsets>>

WriteFile ==
    /\ pc = "write"
    /\ disk' = [disk EXCEPT ![File(Reading)] = found]
    /\ pc' = "unmark"
    /\ UNCHANGED <<device, bus, known, failures, marks, tries, why, todo, reading, upsets>>

\* The folder cannot be made, the file not opened, or the disk is full.
FailToStore ==
    /\ pc \in {"open", "write"}
    /\ pc' = "unmark"
    /\ UNCHANGED <<device, bus, known, failures, folder, why, todo, reading, upsets>>

\* That a mark can be removed is assumed.
Unmark ==
    /\ pc = "unmark"
    /\ marks' = [marks EXCEPT ![File(Reading)] = 0]
    /\ tries' = IF found.counted THEN [tries EXCEPT ![File(Reading)] = 0] ELSE tries
    /\ pc' = "keep"
    /\ UNCHANGED <<device, bus, known, failures, disk, why, todo, reading, upsets>>

PutMenu ==
    /\ pc = "keep"
    /\ Keep(Reading, found)
    /\ found' = NoListing
    /\ pc' = "next"
    /\ UNCHANGED <<device, bus, access_level, identity, all_fields, extra_fields, folder,
                   why, left, upsets>>

-----------------------------------------------------------------------------
\* MENU_RETRY has gone by.
RetryDue(m) ==
    /\ m \in recent
    /\ recent' = recent \ {m}
    /\ UNCHANGED <<device, bus, known, failed_menus, folder, pc, why, todo, reading, upsets>>

\* The program stops, anywhere, and is started again, some time later: only the
\* cache folder is left of it, and no answer is still on its way.
Restart ==
    /\ firmware' \in Firmwares /\ level' \in Levels
    /\ asked' = <<>> /\ slot' = Free
    /\ access_level' = None /\ identity' = None
    /\ EmptyMemory
    /\ failed_menus' = {} /\ recent' = {}
    /\ pc' = "idle" /\ why' = "read" /\ todo' = <<>>
    /\ found' = NoListing /\ left' = 0
    /\ UNCHANGED <<folder, upsets>>

Device ==
    \/ Answer \/ LoseFrame
    \/ \E l \in Levels : OtherMasterLogsIn(l)
    \/ \E f \in Firmwares : DeviceRestarts(f)

LevelStep ==
    \/ ReadLevel \/ (\E l \in Levels : SetLevel(l))
    \/ TakeLevel \/ GiveUpLevel

Pursue(g) == Skip(g) \/ AskFirstLevel(g) \/ FetchIdentity(g)

MenuStep ==
    \/ \E m \in Menus : LoadMenu(m) \/ CountGroups(m) \/ MissCount(m)
    \/ ReadGroup \/ PassOverGroup \/ EndMenu
    \/ OpenFile \/ WriteFile \/ FailToStore \/ Unmark \/ PutMenu

DiscoveryStep ==
    \/ Command \/ EndCommand
    \/ \E g \in Goals : Pursue(g)
    \/ DiscoverField \/ ProbeFields \/ PutAllFields
    \/ MenuStep

Next ==
    \/ Device
    \/ LevelStep \/ DiscoveryStep
    \/ \E m \in Menus : RetryDue(m)
    \/ Restart

Spec == Init /\ [][Next]_vars

-----------------------------------------------------------------------------
(* Properties. *)

Wait == {"level", "probe", "groups", "open", "write", "unmark", "keep"}

\* Types, with the bound on what counts incomplete readings.
TypeOK ==
    /\ firmware \in Firmwares /\ level \in Levels
    /\ asked \in Seq(Requests)
    /\ slot \in Levels \cup {None, Free}
    /\ access_level \in Levels \cup {None}
    /\ identity \in [serial : BOOLEAN, firmware : Versions] \cup {None}
    /\ menus \in [Menus -> Listing]
    /\ all_fields \subseteq Origins /\ extra_fields \subseteq Origins
    /\ recent \subseteq failed_menus /\ failed_menus \subseteq Menus
    /\ disk \in [Files -> Listing]
    /\ marks \in [Files -> 0 .. IncompleteLimit - 1]
    /\ tries \in [Files -> 0 .. IncompleteLimit]
    /\ pc \in {"idle", "next"} \cup Wait
    /\ why \in {"read", "set", "first"}
    /\ todo \in Seq(Goals)
    /\ found \in Listing /\ left \in 0 .. MaxGroups
    /\ upsets \in 0 .. MaxUpsets

\* A cache file holds what the device of its firmware and at its level said,
\* and nothing else, as long as nothing upset the engine's knowledge of it:
\* through logins, discoveries cut short and begun again, restarts of the
\* engine, and new firmware in between.
FiledUnderItsOwn ==
    upsets = 0 => \A k \in Files : disk[k].from \subseteq {<<k[1], k[2]>>}

\* As long as nothing upset the engine's knowledge, all it would show of the
\* device is what the device would say now, unless it is being logged in:
\* no menu, and no field read on its own, outlives a change of level.
ShownIsCurrent ==
    upsets = 0 /\ pc # "level" =>
        /\ \A m \in Menus : menus[m].from \subseteq {Now}
        /\ (all_fields \cup extra_fields) \subseteq {Now}

\* A menu is only cached with fields missing after that many readings of it
\* missed some, whatever goes wrong and however often the engine is restarted.
IncompleteIsRepeated ==
    \A k \in Files :
        Readable(k) /\ ~disk[k].counted => tries[k] = IncompleteLimit

\* What can be used of the cache folder is never overwritten, not even by the
\* same menu with fields missing.
GoodFilesStay ==
    [][\A k \in Files : Readable(k) /\ Plausible(k[3], disk[k]) => disk'[k] = disk[k]]_vars

\* A menu is read from the device as Discovery reads it: what is kept, and then
\* cached, is what MenuReading says a reading is.
Menu == INSTANCE MenuReading WITH
    busy <- pc = "groups",
    left <- IF pc = "groups" THEN left ELSE 0,
    some <- found.some,
    counted <- found.counted /\ pc # "probe"

ReadsMenus == Menu!Spec

\* "A level change flips per-field WRITEABLE (meta op 0x0B) on many fields; the
\* in-memory schema cached at the prior level is now stale. Drop it"
\* (scheduler.rs:694). Not so when the level is only read.
LevelChangeDropsSchema ==
    [][(access_level # None /\ access_level' # access_level) =>
           \A m \in Menus : menus'[m] = NoListing]_vars
=============================================================================
