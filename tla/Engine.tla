------------------------------- MODULE Engine -------------------------------
(***************************************************************************)
(* The engine behind every handle (runtime/mod.rs and the handles of       *)
(* api.rs): connecting, the two threads' loops, the calls that go through  *)
(* the command channel or are answered from the device table, the presence *)
(* events, the wait for the whole bus, and the end of it all when the last *)
(* handle is dropped.                                                      *)
(*                                                                         *)
(* What a command does on the bus is left to ValuePath, SubPoll, Schema    *)
(* and Discovery; here it is a number of questions, each with a slot in    *)
(* the request table, and what the answers add to the device's entry.      *)
(***************************************************************************)
EXTENDS Naturals, Sequences

CONSTANTS Devices,         \* device addresses
          Callers,         \* threads of the program that use the handles
          Calls,           \* the calls they may make (a subset of AllCalls)
          Listed,          \* whether the field asked for is in a group of its menu
          Liveness, ConnectTimeout, Window, Settle, ListMax, HeartbeatInterval, \* 0 when it is no bus master
          Asks,       \* how many questions a command asks, one after the other
          MaxTime,         \* bound: the clock stops there
          MaxCalls         \* bound: calls made in all

(* The menus a device has; the field asked for is a Configuration field. *)
Menus == {"Monitoring", "Configuration"}
NoEntry == [first |-> 0, last |-> 0, identity |-> FALSE, level |-> FALSE,
            menus |-> {}, all |-> FALSE, extra |-> FALSE, known |-> FALSE]
NoJob == [kind |-> "none"]
Nowhere == "nowhere"

VARIABLES
  time,         \* Instant::now()
  phase,        \* of connect and the engine: closed, hearing, up, failed, refused, dropped
  started,      \* Engine.started, and when connect gives up is ConnectTimeout later
  table,        \* State.devices
  shutdown,     \* Engine.shutdown
  reader,       \* off, receiving, looking, ended
  alive,        \* reader_loop's alive
  events,       \* what was sent to the device event channel, by device
  scheduler,    \* off, idle, busy, ended
  commands,     \* the command channel
  job,          \* the command in hand
  slot,         \* its question's slot in the request table
  nextHeartbeat,
  caller,       \* what each caller is doing
  calls,        \* how many calls were made
  subs,         \* the subscriptions the scheduler polls, by their callers
  spoke, asked  \* history: devices that were heard, and that were asked about

engineVars == <<time, phase, started, table, shutdown, reader, alive, events, scheduler,
                commands, job, slot, nextHeartbeat, caller, calls, subs, spoke, asked>>

AllCalls == {"identity", "schema", "tab", "all_fields", "info", "field_info",
             "read", "login", "subscribe", "devices_all"}

ASSUME EngineAssumption == Calls \subseteq AllCalls /\ Asks \in Nat

Free == [call |-> "none", stage |-> "free", device |-> Nowhere]

EngineInit ==
  /\ time = 0 /\ phase = "closed" /\ started = 0
  /\ table = [d \in Devices |-> NoEntry]
  /\ shutdown = FALSE
  /\ reader = "off" /\ alive = {} /\ events = [d \in Devices |-> <<>>]
  /\ scheduler = "off" /\ commands = <<>> /\ job = NoJob /\ slot = "none"
  /\ nextHeartbeat = 0
  /\ caller = [c \in Callers |-> Free] /\ calls = 0 /\ subs = {}
  /\ spoke = {} /\ asked = {}

-----------------------------------------------------------------------------
(* The device table. Whoever writes to it makes the entry it writes to, and *)
(* a fresh entry counts as seen now.                                        *)

Entry(e) == IF e.known THEN e
            ELSE [NoEntry EXCEPT !.known = TRUE, !.first = time, !.last = time]
Touched(e) == [Entry(e) EXCEPT !.last = time]
AliveIds == {d \in Devices : table[d].known /\ time - table[d].last <= Liveness}
AnyDevice == \E d \in Devices : table[d].known
HasIdentity(e) == e.identity \/ e.menus # {}
HasField(e) == ("Configuration" \in e.menus /\ Listed) \/ e.all \/ e.extra
ForgetSchema(e) == [e EXCEPT !.menus = {}, !.all = FALSE, !.extra = FALSE]

(* What a command that was answered (or not) leaves in the entry. *)
Identified(e) == [Entry(e) EXCEPT !.identity = TRUE, !.level = TRUE]
Left(kind, answered, e) ==
  CASE kind = "Identify" -> Identified(e)
    [] kind = "DiscoverMenu" ->
         IF answered THEN [Identified(e) EXCEPT !.menus = @ \cup {"Configuration"}]
         ELSE Identified(e)
    [] kind = "Discover" ->
         IF answered THEN [Identified(e) EXCEPT !.menus = Menus] ELSE Identified(e)
    [] kind = "DiscoverAllFields" -> [Identified(e) EXCEPT !.all = TRUE]
    [] kind = "DiscoverField" ->
         IF answered THEN [Entry(e) EXCEPT !.extra = TRUE, !.level = TRUE]
         ELSE [Entry(e) EXCEPT !.level = TRUE]
    [] kind = "Read" -> IF answered THEN Entry(e) ELSE e
    [] kind = "AccessLevelSet" ->
         IF answered THEN [ForgetSchema(Entry(e)) EXCEPT !.level = TRUE] ELSE e

-----------------------------------------------------------------------------
(* connect: the threads are started first, and it returns once a device was *)
(* heard. One that gives up drops its end of the command channel but does   *)
(* not set the shutdown flag: the scheduler ends, the reader does not.      *)

ConnectRefused ==       \* a BusID of the configuration that is no BusID
  /\ phase = "closed" /\ phase' = "refused"
  /\ UNCHANGED <<time, started, table, shutdown, reader, alive, events, scheduler, commands,
                 job, slot, nextHeartbeat, caller, calls, subs, spoke, asked>>

Connect ==
  /\ phase = "closed" /\ phase' = "hearing"
  /\ started' = time /\ nextHeartbeat' = time
  /\ reader' = "receiving" /\ scheduler' = "idle"
  /\ UNCHANGED <<time, table, shutdown, alive, events, commands, job, slot,
                 caller, calls, subs, spoke, asked>>

Connected ==
  /\ phase = "hearing"
  /\ \/ AnyDevice /\ phase' = "up"
     \/ ~AnyDevice /\ time >= started + ConnectTimeout /\ phase' = "failed"
  /\ UNCHANGED <<time, started, table, shutdown, reader, alive, events, scheduler, commands,
                 job, slot, nextHeartbeat, caller, calls, subs, spoke, asked>>

(* Drop: a handle keeps the engine, so no call is under way. *)
DropEngine ==
  /\ phase = "up" /\ \A c \in Callers : caller[c] = Free
  /\ phase' = "dropped" /\ shutdown' = TRUE
  /\ commands' = Append(commands, [kind |-> "Shutdown", device |-> Nowhere, caller |-> Nowhere])
  /\ UNCHANGED <<time, started, table, reader, alive, events, scheduler, job, slot,
                 nextHeartbeat, caller, calls, subs, spoke, asked>>

-----------------------------------------------------------------------------
(* The reader's loop: one receive, which may bring a frame, nothing or an   *)
(* error, and then one look at who is alive now, against the last look.     *)

Classes == {"device", "master"}   \* who emits a frame of the class; see is_device_originated
IsDeviceOriginated(class) == class = "device"

CancelAll == slot' = IF slot = "none" THEN slot ELSE "cancelled"

ReaderReceives ==
  /\ reader = "receiving" /\ ~shutdown /\ reader' = "looking"
  /\ \/ UNCHANGED <<table, slot, spoke>>                       \* nothing, or an error
     \/ \E d \in Devices, class \in Classes, answer \in BOOLEAN :
          /\ answer => (class = "device" /\ job.kind # "none" /\ job.device = d)
          /\ table' = IF IsDeviceOriginated(class)
                      THEN [table EXCEPT ![d] = Touched(@)] ELSE table
          /\ slot' = IF answer /\ slot # "none" THEN "answered" ELSE slot
          /\ spoke' = IF class = "device" THEN spoke \cup {d} ELSE spoke
  /\ UNCHANGED <<time, phase, started, shutdown, alive, events, scheduler, commands, job,
                 nextHeartbeat, caller, calls, subs, asked>>

(* For comparison: what was alive at the last look is not kept. *)
LookAndForget(d, ev) ==
  IF d \in AliveIds THEN Append(ev, "Alive")
  ELSE IF d \in alive \ AliveIds THEN Append(ev, "Offline") ELSE ev
Look(d, ev) ==
  IF d \in AliveIds \ alive THEN Append(ev, "Alive")
  ELSE IF d \in alive \ AliveIds THEN Append(ev, "Offline") ELSE ev

ReaderLooks ==
  /\ reader = "looking" /\ reader' = "receiving"
  /\ events' = [d \in Devices |-> Look(d, events[d])]
  /\ alive' = AliveIds
  /\ UNCHANGED <<time, phase, started, table, shutdown, scheduler, commands, job, slot,
                 nextHeartbeat, caller, calls, subs, spoke, asked>>

ReaderEnds ==
  /\ reader = "receiving" /\ shutdown /\ reader' = "ended" /\ CancelAll
  /\ UNCHANGED <<time, phase, started, table, shutdown, alive, events, scheduler, commands,
                 job, nextHeartbeat, caller, calls, subs, spoke, asked>>

-----------------------------------------------------------------------------
(* The scheduler's loop. *)

(* For comparison: that every sender is gone goes unnoticed after a failed connect. *)
HungOnDrop == phase = "dropped"
(* No sender is left on the command channel. *)
Hung == phase \in {"failed", "dropped"}

Begun(command) == [kind |-> command.kind, device |-> command.device, caller |-> command.caller,
                   answered |-> TRUE, left |-> Asks]

SchedulerTakes ==
  /\ scheduler = "idle" /\ ~shutdown /\ commands # <<>> /\ commands' = Tail(commands)
  /\ \/ /\ Head(commands).kind \notin {"Subscribe", "Unsubscribe", "Shutdown"}
        /\ scheduler' = "busy"
        /\ job' = Begun(Head(commands))
        /\ asked' = asked \cup {Head(commands).device}
        /\ UNCHANGED subs
     \/ /\ Head(commands).kind = "Subscribe" /\ subs' = subs \cup {Head(commands).caller}
        /\ UNCHANGED <<scheduler, job, asked>>
     \/ /\ Head(commands).kind = "Unsubscribe" /\ subs' = subs \ {Head(commands).caller}
        /\ UNCHANGED <<scheduler, job, asked>>
  /\ UNCHANGED <<time, phase, started, table, shutdown, reader, alive, events, slot,
                 nextHeartbeat, caller, calls, spoke>>

AskDevice ==
  /\ scheduler = "busy" /\ job.left > 0 /\ slot = "none" /\ slot' = "waiting"
  /\ UNCHANGED <<time, phase, started, table, shutdown, reader, alive, events, scheduler,
                 commands, job, nextHeartbeat, caller, calls, subs, spoke, asked>>

(* wait: the answer, or a cancelled slot or the timeout, which are the same *)
(* to the one who asked.                                                    *)
AnswerOrTimeout ==
  /\ scheduler = "busy" /\ slot # "none" /\ slot' = "none"
  /\ job' = [job EXCEPT !.left = @ - 1, !.answered = @ /\ slot = "answered"]
  /\ UNCHANGED <<time, phase, started, table, shutdown, reader, alive, events, scheduler,
                 commands, nextHeartbeat, caller, calls, subs, spoke, asked>>

(* Where the caller is once the command was answered. *)
StageAfter(kind) == IF kind = "DiscoverMenu" THEN "filed" ELSE "asked"

JobDone ==
  /\ scheduler = "busy" /\ job.left = 0 /\ slot = "none"
  /\ table' = [table EXCEPT ![job.device] = Left(job.kind, job.answered, @)]
  /\ caller' = [caller EXCEPT ![job.caller].stage = StageAfter(job.kind)]
  /\ scheduler' = "idle" /\ job' = NoJob
  /\ UNCHANGED <<time, phase, started, shutdown, reader, alive, events, commands, slot,
                 nextHeartbeat, calls, subs, spoke, asked>>

(* The bus-master heartbeat, between two turns of the loop and between the  *)
(* questions of a discovery.                                                *)
MaybeHeartbeat ==
  /\ HeartbeatInterval # 0 /\ time >= nextHeartbeat
  /\ scheduler \in {"idle", "busy"} /\ slot = "none"
  /\ nextHeartbeat' = time + HeartbeatInterval
  /\ UNCHANGED <<time, phase, started, table, shutdown, reader, alive, events, scheduler,
                 commands, job, slot, caller, calls, subs, spoke, asked>>

SchedulerEnds ==
  /\ scheduler = "idle"
  /\ \/ shutdown
     \/ commands # <<>> /\ Head(commands).kind = "Shutdown"
     \/ commands = <<>> /\ Hung
  /\ scheduler' = "ended" /\ CancelAll
  /\ UNCHANGED <<time, phase, started, table, shutdown, reader, alive, events, commands,
                 job, nextHeartbeat, caller, calls, subs, spoke, asked>>

-----------------------------------------------------------------------------
(* The callers. A call is answered from the table when what it needs is     *)
(* there; else a command is sent and waited for, and then the table is      *)
(* looked at again: a login in between may have emptied it (NotReady).      *)

Wanted(call, stage, e) ==
  LET once(kind) == IF stage = "begun" THEN kind ELSE "none"
  IN CASE call = "identity"   -> IF HasIdentity(e) THEN "none" ELSE once("Identify")
       [] call = "schema"     -> IF e.menus = Menus THEN "none" ELSE once("Discover")
       [] call = "tab"        -> IF "Configuration" \in e.menus THEN "none"
                                 ELSE once("DiscoverMenu")
       [] call = "all_fields" -> IF e.all THEN "none" ELSE once("DiscoverAllFields")
       [] call = "field_info" -> IF HasField(e) THEN "none" ELSE once("DiscoverField")
       [] call = "info"       -> IF HasField(e) THEN "none"
                                 ELSE IF "Configuration" \notin e.menus /\ stage = "begun"
                                 THEN "DiscoverMenu"
                                 ELSE IF ~e.all /\ stage # "asked" THEN "DiscoverAllFields"
                                 ELSE "none"
       [] call = "read"       -> once("Read")
       [] call = "login"      -> once("AccessLevelSet")
       [] call = "subscribe"  -> once("Subscribe")

BeginCall(c) ==
  /\ phase = "up" /\ caller[c] = Free /\ calls < MaxCalls /\ calls' = calls + 1
  /\ \E call \in Calls, d \in Devices :
       caller' = [caller EXCEPT ![c] = [call |-> call, stage |-> "begun", device |-> d]]
  /\ UNCHANGED <<time, phase, started, table, shutdown, reader, alive, events, scheduler,
                 commands, job, slot, nextHeartbeat, subs, spoke, asked>>

(* Engine::call, from one of the ensure_ functions or for itself. *)
SendCommand(c) ==
  LET k == caller[c]
      kind == Wanted(k.call, k.stage, table[k.device])
  IN /\ k.stage \in {"begun", "filed", "asked"} /\ k.call # "devices_all" /\ kind # "none"
     /\ commands' = Append(commands, [kind |-> kind, device |-> k.device, caller |-> c])
     /\ caller' = [caller EXCEPT ![c].stage = IF kind = "Subscribe" THEN "held" ELSE "waiting"]
     /\ UNCHANGED <<time, phase, started, table, shutdown, reader, alive, events, scheduler,
                    job, slot, nextHeartbeat, calls, subs, spoke, asked>>

(* The call returns: what the table has by now, or NotReady. *)
EndCall(c) ==
  LET k == caller[c]
  IN /\ k.stage \in {"begun", "filed", "asked"} /\ k.call # "devices_all"
     /\ Wanted(k.call, k.stage, table[k.device]) = "none"
     /\ caller' = [caller EXCEPT ![c] = Free]
     /\ UNCHANGED <<time, phase, started, table, shutdown, reader, alive, events, scheduler,
                    commands, job, slot, nextHeartbeat, calls, subs, spoke, asked>>

(* A Subscription is a handle too: dropping it sends the unsubscription. *)
DropSubscription(c) ==
  /\ caller[c].stage = "held"
  /\ commands' = Append(commands, [kind |-> "Unsubscribe", device |-> caller[c].device,
                                   caller |-> c])
  /\ caller' = [caller EXCEPT ![c] = Free]
  /\ UNCHANGED <<time, phase, started, table, shutdown, reader, alive, events, scheduler,
                 job, slot, nextHeartbeat, calls, subs, spoke, asked>>

(* When devices_all may report the bus: once the window is over and no new  *)
(* device was heard for the settle period, but ListMax after the start.     *)
Latest(a, b) == IF a >= b THEN a ELSE b
Earliest(a, b) == IF a <= b THEN a ELSE b
NewestFirstSeen == LET firsts == {table[d].first : d \in {x \in Devices : table[x].known}}
                   IN CHOOSE t \in firsts : \A u \in firsts : u <= t
DeviceListDeadline ==
  LET earliest == started + Window
      settled == IF Settle # 0 /\ AnyDevice THEN NewestFirstSeen + Settle ELSE earliest
  IN Earliest(Latest(earliest, settled), started + ListMax)

ListAll(c) ==
  /\ caller[c].call = "devices_all" /\ time >= DeviceListDeadline
  /\ caller' = [caller EXCEPT ![c] = Free]
  /\ UNCHANGED <<time, phase, started, table, shutdown, reader, alive, events, scheduler,
                 commands, job, slot, nextHeartbeat, calls, subs, spoke, asked>>

-----------------------------------------------------------------------------
Tick ==
  /\ phase # "closed" /\ time < MaxTime /\ time' = time + 1
  /\ UNCHANGED <<phase, started, table, shutdown, reader, alive, events, scheduler, commands,
                 job, slot, nextHeartbeat, caller, calls, subs, spoke, asked>>

Threads == \/ ReaderReceives \/ ReaderLooks \/ ReaderEnds
           \/ SchedulerTakes \/ AskDevice \/ AnswerOrTimeout \/ JobDone \/ SchedulerEnds
CallerSteps(c) == SendCommand(c) \/ EndCall(c) \/ ListAll(c)

EngineNext ==
  \/ ConnectRefused \/ Connect \/ Connected \/ DropEngine \/ Tick
  \/ Threads \/ MaybeHeartbeat
  \/ \E c \in Callers : BeginCall(c) \/ CallerSteps(c) \/ DropSubscription(c)

(* The operating system runs every thread, and time passes. *)
EngineFairness ==
  /\ WF_engineVars(Tick) /\ WF_engineVars(Connected)
  /\ WF_engineVars(ReaderReceives) /\ WF_engineVars(ReaderLooks) /\ WF_engineVars(ReaderEnds)
  /\ WF_engineVars(SchedulerTakes) /\ WF_engineVars(AskDevice)
  /\ WF_engineVars(AnswerOrTimeout) /\ WF_engineVars(JobDone) /\ WF_engineVars(SchedulerEnds)

EngineSpec == EngineInit /\ [][EngineNext]_engineVars /\ EngineFairness

-----------------------------------------------------------------------------
(* The events of a device alternate, beginning with Alive, and the last one *)
(* says what the reader saw when it last looked: two looks in a row never   *)
(* tell the same, and none is skipped (reader_loop, reader.rs:68-80). And a *)
(* device told alive has spoken, or the program asked about it: a request   *)
(* another master sends it is no sign of life (handle_frame, 93-106).       *)
PresenceAlternates ==
  /\ \A d \in Devices :
       /\ \A i \in 1..Len(events[d]) : events[d][i] = "Alive" <=> i % 2 = 1
       /\ d \in alive <=> Len(events[d]) % 2 = 1
  /\ alive \subseteq spoke \cup asked

(* connect returns, and the threads of an engine end after its last handle  *)
(* was dropped, whatever the scheduler was waiting for; those of a connect  *)
(* that gave up end only on the scheduler's side (mod.rs:274, 539).         *)
EnginesEnd ==
  /\ (phase = "hearing") ~> (phase \in {"up", "failed"})
  /\ (phase = "dropped") ~> (reader = "ended" /\ scheduler = "ended")
  /\ (phase = "failed") ~> (scheduler = "ended")
=============================================================================
