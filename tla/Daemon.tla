------------------------------- MODULE Daemon -------------------------------
(***************************************************************************)
(* The Signal K daemon and its mapping (bin/masterbus-signalk.rs, the      *)
(* mapping half of api.rs, publish.rs resolve, mapping.rs load and save):  *)
(* the main loop that publishes, the discovery thread that identifies the  *)
(* devices, a thread per request of the control API, and an editor that is *)
(* another process and edits the same file.                                *)
(*                                                                         *)
(* A mapping is the set of fields it names; what an entry says is in       *)
(* SignalK.  A field <<d, k>> is on the Monitoring tab, on the             *)
(* Configuration tab, or on none at the daemon's access level and then     *)
(* asked for by itself.  The mapping has a file to live in.                *)
(***************************************************************************)
EXTENDS Integers, FiniteSets, Sequences

CONSTANTS Devices,         \* some are on the bus at start, the others may come later
          Mappings,        \* mappings people save
          Saved,           \* those the file may hold at start
          Requests,        \* requests of the control API that change the mapping
          MaxEdits,        \* bound on the edits, through the API or in the file
          MaxBusy          \* bound on what the bus leaves unanswered

(* Mappings name fields of devices, also of devices that never come.       *)
OfDevices == Devices \X {"mon", "cfg", "hid"}

ASSUME DaemonAssumption ==
  IsFiniteSet(Devices) /\ \A m \in Mappings \cup Saved : m \subseteq OfDevices

Dev(f) == f[1]
On(k, d) == <<d, k>>

Absent == [is |-> "absent", mapping |-> {}]
Torn == [is |-> "torn", mapping |-> {}]
Whole(m) == [is |-> "whole", mapping |-> m]
WalkedMessage == [device |-> "walked", mapped |-> TRUE]

VARIABLES
  file, touched,     \* the mapping file, and whether its time is not the main loop's stamp
  edits, editor,     \* how many edits, and what the editor of the file is about to write
  inForce,           \* Shared.mapping
  reload,            \* whether reloads are waiting on the channel
  request,           \* each request's thread
  records, named,    \* the devices with a record, and those that said who they are
  known, menus, asked, \* per device: its fields and menus; fields asked by themselves
  busy,
  walk,              \* the discovery thread
  found,             \* what it tells the main loop
  main,              \* the main loop
  ready, emit,       \* Progress.ready, and the fields that are streamed
  missed             \* history: an edit fell into one of the two gaps told below

fileVars == <<file, touched>>
learned == <<known, menus, asked, busy>>
daemonVars == <<file, touched, edits, editor, inForce, reload, request, records, named,
                known, menus, asked, busy, walk, found, main, ready, emit, missed>>

(* The process starts by loading the file; the control API already serves. *)
DaemonInit(step) ==
  /\ file \in {Absent} \cup {Whole(m) : m \in Saved} /\ touched = FALSE
  /\ edits = 0 /\ editor = Absent
  /\ inForce = {} /\ reload = FALSE
  /\ request = [r \in Requests |-> [step |-> "idle", mapping |-> {}]]
  /\ records = {} /\ named = {}
  /\ known = {} /\ menus = [d \in Devices |-> {}] /\ asked = {} /\ busy = 0
  /\ \E first \in SUBSET Devices :
       walk = [step |-> "off", late |-> FALSE, at |-> {}, todo |-> first, waiting |-> {},
               saw |-> {}]
  /\ found = <<>>
  /\ main = [step |-> step, loaded |-> {}, changed |-> FALSE, ensure |-> FALSE,
             taken |-> {}, then |-> "found", maySeed |-> FALSE,
             checked |-> FALSE]
  /\ ready = {} /\ emit = {} /\ missed = FALSE

Content == file.mapping
Write(f) == file' = f /\ touched' = TRUE
Stamp == touched' = FALSE /\ UNCHANGED file

-----------------------------------------------------------------------------
(* What the mapping needs beyond Monitoring: the tabs of its unknown       *)
(* fields, and then each field that is still unknown by itself, once.  The *)
(* bus may leave any of it unanswered.                                     *)

Unknown(m) == {f \in m : Dev(f) \in records \cap named /\ f \notin known}

EnsureMenus(m) ==
  LET tabs == {Dev(f) : f \in {f \in Unknown(m) : f[2] = "cfg" /\ "cfg" \notin menus[Dev(f)]}}
  IN \E silent \in SUBSET tabs :
       LET heard == {On("cfg", d) : d \in tabs \ silent}
           alone == (Unknown(m) \ heard) \ asked
       IN \E unheard \in SUBSET alone :
            /\ busy + Cardinality(silent) + Cardinality(unheard) <= MaxBusy
            /\ busy' = busy + Cardinality(silent) + Cardinality(unheard)
            /\ menus' = [d \in Devices |-> menus[d] \cup IF d \in tabs \ silent THEN {"cfg"} ELSE {}]
            /\ asked' = asked \cup alone
            /\ known' = known \cup heard \cup (alone \ unheard)

(* What can be streamed: of the devices discovery is done with, the mapped *)
(* fields their records have.                                              *)
Resolve(m) == {f \in m : Dev(f) \in ready \cap records \cap named /\ f \in known}

Seeds == {f \in known : f[2] = "mon" /\ Dev(f) \in records \cap named}

-----------------------------------------------------------------------------
(* The discovery thread.                                                   *)

(* One device: its identity, which it may fail to give, and its fields.    *)
Identify ==
  /\ walk.step = "next"
  /\ \E d \in walk.todo, silent \in BOOLEAN :
       /\ busy' = busy + IF silent THEN 1 ELSE 0
       /\ busy' <= MaxBusy
       /\ named' = IF silent THEN named ELSE named \cup {d}
       /\ walk' = [walk EXCEPT !.at = {d}, !.step = "look", !.todo = @ \ {d}]
  /\ UNCHANGED <<fileVars, edits, editor, inForce, reload, request, records, known, menus, asked,
                 found, main, ready, emit, missed>>

(* The mapping as it is now decides what is done for the device. *)
LookAtMapping ==
  /\ walk.step = "look"
  /\ walk' = [walk EXCEPT !.step = "record", !.saw = inForce]
  /\ UNCHANGED <<fileVars, edits, editor, inForce, reload, request, records, named, learned,
                 found, main, ready, emit, missed>>

IsMapped == \E f \in walk.saw : Dev(f) \in walk.at \cap named

AddRecord ==
  /\ walk.step = "record"
  /\ records' = records \cup walk.at
  /\ known' = known \cup {On("mon", d) : d \in walk.at}
  /\ walk' = [walk EXCEPT !.step = IF IsMapped THEN "ensure" ELSE "tell"]
  /\ UNCHANGED <<fileVars, edits, editor, inForce, reload, request, named, menus, asked, busy,
                 found, main, ready, emit, missed>>

PrepareDevice ==
  /\ walk.step = "ensure"
  /\ EnsureMenus(walk.saw)
  /\ walk' = [walk EXCEPT !.step = "tell"]
  /\ UNCHANGED <<fileVars, edits, editor, inForce, reload, request, records, named,
                 found, main, ready, emit, missed>>

TellFound ==
  /\ walk.step = "tell"
  /\ \E d \in walk.at : found' = Append(found, [device |-> d, mapped |-> IsMapped])
  /\ walk' = [walk EXCEPT !.at = {}, !.saw = {}, !.step = "next"]
  /\ UNCHANGED <<fileVars, edits, editor, inForce, reload, request, records, named, learned,
                 main, ready, emit, missed>>

(* The first pass is over; from now on devices are taken as they appear.   *)
WalkEnds ==
  /\ walk.step = "next" /\ walk.todo = {} /\ ~walk.late
  /\ found' = Append(found, WalkedMessage)
  /\ walk' = [walk EXCEPT !.late = TRUE, !.todo = walk.waiting, !.waiting = {}]
  /\ UNCHANGED <<fileVars, edits, editor, inForce, reload, request, records, named, learned,
                 main, ready, emit, missed>>

DeviceAppears(d) ==
  /\ d \notin records \cup walk.at \cup walk.todo \cup walk.waiting
  /\ walk' = IF walk.late THEN [walk EXCEPT !.todo = @ \cup {d}]
                          ELSE [walk EXCEPT !.waiting = @ \cup {d}]
  /\ UNCHANGED <<fileVars, edits, editor, inForce, reload, request, records, named, learned,
                 found, main, ready, emit, missed>>

Discovers == Identify \/ LookAtMapping \/ AddRecord \/ PrepareDevice \/ TellFound \/ WalkEnds

-----------------------------------------------------------------------------
(* Whoever writes the file truncates it first.                             *)

EditorTruncates(m) ==
  /\ editor = Absent /\ edits < MaxEdits
  /\ edits' = edits + 1 /\ editor' = Whole(m) /\ Write(Torn)
  /\ UNCHANGED <<inForce, reload, request, records, named, learned, walk, found, main, ready,
                 emit, missed>>

EditorWrites ==
  /\ editor # Absent
  /\ editor' = Absent /\ Write(editor)
  /\ UNCHANGED <<edits, inForce, reload, request, records, named, learned, walk, found, main,
                 ready, emit, missed>>

(* A request of the control API: the mapping of another editor, or the one *)
(* in force with a device's fields copied to the others; then adopt.       *)
RequestStep(r, from, to) ==
  /\ request[r].step = from
  /\ request' = [request EXCEPT ![r].step = to]

Copies == {On(f[2], d) : f \in {f \in inForce : Dev(f) \in named}, d \in records \cap named}

Receive(r) ==
  /\ request[r].step = "idle" /\ edits < MaxEdits /\ edits' = edits + 1
  /\ \E m \in Mappings \cup {inForce \cup (Copies \cap known)} :
       request' = [request EXCEPT ![r] = [step |-> "truncate", mapping |-> m]]
  /\ UNCHANGED <<fileVars, editor, inForce, reload, records, named, learned, walk, found,
                 main, ready, emit, missed>>

Truncate(r) ==
  /\ RequestStep(r, "truncate", "persist") /\ Write(Torn)
  /\ UNCHANGED <<edits, editor, inForce, reload, records, named, learned, walk, found, main,
                 ready, emit, missed>>

Persist(r) ==
  /\ RequestStep(r, "persist", "ensure") /\ Write(Whole(request[r].mapping))
  /\ UNCHANGED <<edits, editor, inForce, reload, records, named, learned, walk, found, main,
                 ready, emit, missed>>

Prepare(r) ==
  /\ RequestStep(r, "ensure", "replace") /\ EnsureMenus(request[r].mapping)
  /\ UNCHANGED <<fileVars, edits, editor, inForce, reload, records, named, walk, found, main,
                 ready, emit, missed>>

Replace(r) ==
  /\ RequestStep(r, "replace", "tell") /\ inForce' = request[r].mapping
  /\ UNCHANGED <<fileVars, edits, editor, reload, records, named, learned, walk, found, main,
                 ready, emit, missed>>

TellReload(r) ==
  /\ request[r].step = "tell"
  /\ request' = [request EXCEPT ![r] = [step |-> "idle", mapping |-> {}]]
  /\ reload' = TRUE
  /\ UNCHANGED <<fileVars, edits, editor, inForce, records, named, learned, walk, found, main,
                 ready, emit, missed>>

(* For comparison: adopt sends the reload before it replaces the mapping. *)
AdoptsTellingFirst(r) ==
  \/ Truncate(r) \/ Persist(r) \/ Prepare(r)
  \/ /\ RequestStep(r, "replace", "tell") /\ reload' = TRUE
     /\ UNCHANGED <<fileVars, edits, editor, inForce, records, named, learned, walk, found, main,
                    ready, emit, missed>>
  \/ /\ RequestStep(r, "tell", "idle") /\ inForce' = request[r].mapping
     /\ UNCHANGED <<fileVars, edits, editor, reload, records, named, learned, walk, found, main,
                    ready, emit, missed>>

Adopts(r) == Truncate(r) \/ Persist(r) \/ Prepare(r) \/ Replace(r) \/ TellReload(r)

-----------------------------------------------------------------------------
(* The main loop.                                                          *)

At(step) == main.step = step
Goto(step) == main' = [main EXCEPT !.step = step]

(* The first gap: the file's stamp is taken without reading the file.  If  *)
(* the file is not what is in force, and no request still has its reload   *)
(* to send, it is not read again before it is saved again.                 *)
Settled == \A r \in Requests : request[r].step = "idle"
StampedOver == Settled /\ file # Torn /\ Content # inForce

LoadAtStart ==
  /\ At("load")
  /\ main' = [main EXCEPT !.step = "set", !.loaded = Content]
  /\ UNCHANGED <<fileVars, edits, editor, inForce, reload, request, records, named, learned,
                 walk, found, ready, emit, missed>>

SetAtStart ==
  /\ At("set")
  /\ inForce' = main.loaded
  /\ walk' = [walk EXCEPT !.step = "next"]
  /\ main' = [main EXCEPT !.step = "stamp", !.loaded = {}]
  /\ UNCHANGED <<fileVars, edits, editor, reload, request, records, named, learned, found,
                 ready, emit, missed>>

StampAtStart ==
  /\ At("stamp")
  /\ Stamp
  /\ Goto("found")
  /\ missed' = (missed \/ StampedOver)
  /\ UNCHANGED <<edits, editor, inForce, reload, request, records, named, learned,
                 walk, found, ready, emit>>

(* A first run is one without a mapping file: its mapping is seeded when   *)
(* the walk is over, else from the first device that comes later.          *)
FirstRun == file = Absent
SeedsNow == FirstRun /\ inForce = {}

(* The second gap: the mapping changed after discovery looked at it and    *)
(* before the main loop took the device on, and its reload is over.        *)
LeftBehind(d, mapped) ==
  /\ Settled /\ ~reload
  /\ \E f \in inForce : Dev(f) = d /\ d \in named /\ (~mapped \/ f \notin known)

TakeFound ==
  /\ At("found") /\ found # <<>> /\ Head(found) # WalkedMessage
  /\ LET d == Head(found).device
         mapped == Head(found).mapped
         seeds == main.maySeed /\ SeedsNow /\ Seeds # {}
     IN /\ ready' = ready \cup {d}
        /\ main' = [main EXCEPT !.changed = @ \/ mapped \/ seeds, !.ensure = @ \/ seeds,
                                !.loaded = IF seeds THEN Seeds ELSE @,
                                !.maySeed = @ /\ ~seeds,
                                !.step = IF seeds THEN "seed" ELSE "found"]
        /\ missed' = (missed \/ LeftBehind(d, mapped))
  /\ found' = Tail(found)
  /\ UNCHANGED <<fileVars, edits, editor, inForce, reload, request, records, named, learned,
                 walk, emit>>

TakeWalked ==
  /\ At("found") /\ found # <<>> /\ Head(found) = WalkedMessage
  /\ main' = [main EXCEPT !.changed = TRUE,
                          !.ensure = SeedsNow /\ Seeds # {},
                          !.maySeed = FirstRun /\ ~(SeedsNow /\ Seeds # {}),
                          !.loaded = IF SeedsNow THEN Seeds ELSE @,
                          !.step = IF SeedsNow THEN "seed" ELSE "found"]
  /\ found' = Tail(found)
  /\ UNCHANGED <<fileVars, edits, editor, inForce, reload, request, records, named, learned,
                 walk, ready, emit, missed>>

SeedWrites ==
  /\ At("seed")
  /\ IF main.loaded = {} THEN UNCHANGED fileVars ELSE Write(Whole(main.loaded))
  /\ Goto("seed_set")
  /\ UNCHANGED <<edits, editor, inForce, reload, request, records, named, learned, walk, found,
                 ready, emit, missed>>

SeedSets ==
  /\ At("seed_set") /\ inForce' = main.loaded
  /\ main' = [main EXCEPT !.step = IF main.loaded = {} THEN "found" ELSE "seed_stamp",
                          !.loaded = {}]
  /\ UNCHANGED <<fileVars, edits, editor, reload, request, records, named, learned, walk, found,
                 ready, emit, missed>>

SeedStamps ==
  /\ At("seed_stamp")
  /\ Stamp
  /\ Goto("found")
  /\ missed' = (missed \/ StampedOver)
  /\ UNCHANGED <<edits, editor, inForce, reload, request, records, named, learned,
                 walk, found, ready, emit>>

FoundDone ==
  /\ At("found") /\ found = <<>>
  /\ main' = [main EXCEPT !.step = IF main.changed THEN "activate" ELSE "reload",
                          !.changed = FALSE, !.then = "reload"]
  /\ UNCHANGED <<fileVars, edits, editor, inForce, reload, request, records, named, learned,
                 walk, found, ready, emit, missed>>

(* activate: the mapping is looked at, what it needs is asked of the bus   *)
(* if it has just changed, and then it is resolved and subscribed to.      *)
Activate ==
  /\ At("activate")
  /\ main' = [main EXCEPT !.taken = inForce, !.step = IF main.ensure THEN "ensure" ELSE "resolve",
                          !.ensure = FALSE]
  /\ UNCHANGED <<fileVars, edits, editor, inForce, reload, request, records, named, learned,
                 walk, found, ready, emit, missed>>

ActivateEnsures ==
  /\ At("ensure") /\ EnsureMenus(main.taken) /\ Goto("resolve")
  /\ UNCHANGED <<fileVars, edits, editor, inForce, reload, request, records, named, walk, found,
                 ready, emit, missed>>

(* plan_subs keeps what is subscribed to already and drops the rest.       *)
ActivateStreams ==
  /\ At("resolve")
  /\ emit' = Resolve(main.taken)
  /\ main' = [main EXCEPT !.step = main.then, !.then = "found", !.taken = {}]
  /\ UNCHANGED <<fileVars, edits, editor, inForce, reload, request, records, named, learned,
                 walk, found, ready, missed>>

TakeReload ==
  /\ At("reload") /\ reload
  /\ reload' = FALSE
  /\ Stamp
  /\ main' = [main EXCEPT !.maySeed = FALSE, !.ensure = TRUE, !.then = "file",
                          !.step = "activate"]
  /\ missed' = (missed \/ StampedOver)
  /\ UNCHANGED <<edits, editor, inForce, request, records, named, learned,
                 walk, found, ready, emit>>

NoReload ==
  /\ At("reload") /\ ~reload
  /\ Goto("file")
  /\ UNCHANGED <<fileVars, edits, editor, inForce, reload, request, records, named, learned,
                 walk, found, ready, emit, missed>>

(* The file is looked at every RELOAD_CHECK, here at least every other     *)
(* pass; one that cannot be read leaves the mapping as it is.              *)
SkipFile ==
  /\ At("file") /\ main.checked
  /\ main' = [main EXCEPT !.step = "found", !.checked = FALSE]
  /\ UNCHANGED <<fileVars, edits, editor, inForce, reload, request, records, named, learned,
                 walk, found, ready, emit, missed>>

CheckFile ==
  /\ At("file")
  /\ Stamp
  /\ main' = [main EXCEPT !.checked = TRUE, !.step = IF touched THEN "read" ELSE "found"]
  /\ UNCHANGED <<edits, editor, inForce, reload, request, records, named, learned,
                 walk, found, ready, emit, missed>>

ReadFile ==
  /\ At("read")
  /\ main' = [main EXCEPT !.loaded = Content, !.step = IF file = Torn THEN "found" ELSE "replace"]
  /\ UNCHANGED <<fileVars, edits, editor, inForce, reload, request, records, named, learned,
                 walk, found, ready, emit, missed>>

ReplaceByFile ==
  /\ At("replace")
  /\ inForce' = main.loaded
  /\ main' = [main EXCEPT !.maySeed = FALSE, !.ensure = TRUE, !.then = "found", !.step = "activate",
                          !.loaded = {}]
  /\ UNCHANGED <<fileVars, edits, editor, reload, request, records, named, learned,
                 walk, found, ready, emit, missed>>

MainLoop ==
  \/ LoadAtStart \/ SetAtStart \/ StampAtStart
  \/ TakeFound \/ TakeWalked \/ SeedWrites \/ SeedSets \/ SeedStamps \/ FoundDone
  \/ Activate \/ ActivateEnsures \/ ActivateStreams
  \/ TakeReload \/ NoReload \/ SkipFile \/ CheckFile \/ ReadFile \/ ReplaceByFile

DaemonNext ==
  \/ Discovers \/ MainLoop
  \/ \E d \in Devices : DeviceAppears(d)
  \/ \E m \in Mappings : EditorTruncates(m)
  \/ EditorWrites
  \/ \E r \in Requests : Receive(r) \/ Adopts(r)

DaemonSpec == DaemonInit("load") /\ [][DaemonNext]_daemonVars

DaemonFairness ==
  /\ WF_daemonVars(MainLoop)
  /\ WF_daemonVars(Discovers)
  /\ WF_daemonVars(EditorWrites)
  /\ \A r \in Requests : WF_daemonVars(Adopts(r))

-----------------------------------------------------------------------------

(* What is to be streamed: every mapped field of the devices taken on; one *)
(* beyond Monitoring only if the bus has answered all that was asked.      *)
Streamed ==
  LET mapped == {f \in inForce : Dev(f) \in ready \cap named}
  IN /\ emit \subseteq mapped
     /\ \A f \in mapped : f[2] = "mon" \/ busy = 0 => f \in emit

(* Whoever edits the mapping, in the web editor or in the file, it ends up *)
(* in force and streamed, and the file, the mapping in force and the       *)
(* stream agree once the editing stops; an edit is lost in two gaps only,  *)
(* when the main loop stamps the file without reading it, and when the     *)
(* mapping changes while a device is being identified                      *)
(* (bin/masterbus-signalk.rs:51-53, api.rs adopt).                         *)
EditsLand == <>[](missed \/ (Content = inForce /\ Streamed))

(* Somebody is about to make the file and the mapping in force agree, or   *)
(* to notice that they do not; the main loop is about to activate.         *)
FileIsLookedAt ==
  \/ touched \/ reload \/ ~Settled \/ editor # Absent
  \/ main.step \in {"load", "set", "stamp", "seed_set", "seed_stamp", "read", "replace"}
StreamIsRenewed ==
  \/ reload \/ ~Settled
  \/ main.changed \/ main.step \in {"activate", "ensure", "resolve"}

(* What it is until they land: as long as the file and the mapping in      *)
(* force differ, or the stream and that mapping do, somebody is on the way *)
(* to make them agree (the order of the steps in api.rs adopt, and in the  *)
(* reload, the file check, the seeding and activate of the main loop).     *)
EditsAreUnderWay ==
  missed \/ ((Content = inForce \/ FileIsLookedAt) /\ (Streamed \/ StreamIsRenewed))
=============================================================================
