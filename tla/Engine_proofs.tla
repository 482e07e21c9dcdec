---------------------------- MODULE Engine_proofs ----------------------------
(***************************************************************************)
(* Proofs about Engine, for any devices, callers and calls, any times and  *)
(* intervals, any number of questions a command asks and any bounds.       *)
(***************************************************************************)
EXTENDS Engine, SequenceTheorems, TLAPS

-----------------------------------------------------------------------------
(* Types.                                                                  *)

Entries == [first : Nat, last : Nat, identity : BOOLEAN, level : BOOLEAN, menus : SUBSET Menus,
            all : BOOLEAN, extra : BOOLEAN, known : BOOLEAN]

\* What is asked of the bus, and the rest of what goes through the command channel.
BusKinds == {"Identify", "DiscoverMenu", "Discover", "DiscoverAllFields", "DiscoverField",
             "Read", "AccessLevelSet"}
Commands == [kind : BusKinds \cup {"Subscribe", "Unsubscribe"}, device : Devices, caller : Callers]
            \cup [kind : {"Shutdown"}, device : {Nowhere}, caller : {Nowhere}]
Jobs == [kind : BusKinds, device : Devices, caller : Callers, answered : BOOLEAN, left : Int]

\* A call under way; devices_all waits for time to pass only.
Under == [call : AllCalls \ {"devices_all"},
          stage : {"begun", "filed", "asked", "waiting", "held"}, device : Devices]
         \cup [call : {"devices_all"}, stage : {"begun"}, device : Devices]

EngineTypeOK ==
  /\ time \in Nat
  /\ phase \in {"closed", "hearing", "up", "failed", "refused", "dropped"}
  /\ table \in [Devices -> Entries]
  /\ shutdown \in BOOLEAN
  /\ reader \in {"off", "receiving", "looking", "ended"}
  /\ alive \subseteq Devices
  /\ events \in [Devices -> Seq({"Alive", "Offline"})]
  /\ scheduler \in {"off", "idle", "busy", "ended"}
  /\ commands \in Seq(Commands)
  /\ IF scheduler = "busy" THEN job \in Jobs ELSE job = NoJob
  /\ slot \in {"none", "waiting", "answered", "cancelled"}
  /\ caller \in [Callers -> {Free} \cup Under]
  /\ subs \subseteq Callers /\ spoke \subseteq Devices /\ asked \subseteq Devices

\* A caller that waits has exactly one command, in the channel or in hand, and no other caller
\* has one; and the scheduler is there to take it up.
IsBus(i) == i \in DOMAIN commands /\ commands[i].kind \in BusKinds

OneCommandEach ==
  /\ \A i \in DOMAIN commands : IsBus(i) => caller[commands[i].caller].stage = "waiting"
  /\ \A i, j \in DOMAIN commands :
       IsBus(i) /\ IsBus(j) /\ commands[i].caller = commands[j].caller => i = j
  /\ scheduler = "busy" =>
       /\ caller[job.caller].stage = "waiting"
       /\ \A i \in DOMAIN commands : IsBus(i) => commands[i].caller # job.caller
  /\ \A c \in Callers : caller[c].stage = "waiting" =>
       \/ scheduler = "busy" /\ job.caller = c
       \/ \E i \in DOMAIN commands : IsBus(i) /\ commands[i].caller = c

\* Nothing is called before the engine is up or after it was dropped, and the scheduler
\* ends only then.
Phases ==
  /\ \A c \in Callers : caller[c] # Free => phase = "up"
  /\ shutdown = (phase = "dropped")
  /\ \A i \in DOMAIN commands : commands[i].kind = "Shutdown" => phase = "dropped"
  /\ scheduler = "ended" => phase \in {"failed", "dropped"}
  /\ scheduler = "off" <=> phase \in {"closed", "refused"}

CallsInHand == OneCommandEach /\ Phases

\* Making, touching and filling an entry makes an entry, and a known one.
LEMMA EntryType ==
    ASSUME time \in Nat, NEW e \in Entries
    PROVE  /\ Entry(e) \in Entries /\ Entry(e).known
           /\ Touched(e) \in Entries /\ Touched(e).known
  BY DEF Entry, Touched, NoEntry, Entries

LEMMA LeftType ==
    ASSUME time \in Nat, NEW e \in Entries, NEW kind \in BusKinds, NEW answered \in BOOLEAN
    PROVE  Left(kind, answered, e) \in Entries
  <1>1. Entry(e) \in Entries
    BY EntryType
  <1>2. Identified(e) \in Entries
    BY <1>1 DEF Identified, Entries
  <1>3. ForgetSchema(Entry(e)) \in Entries
    BY <1>1 DEF ForgetSchema, Entries
  <1>4. Menus \in SUBSET Menus /\ \A m \in SUBSET Menus : m \cup {"Configuration"} \in SUBSET Menus
    BY DEF Menus
  <1>5. /\ [Identified(e) EXCEPT !.menus = @ \cup {"Configuration"}] \in Entries
        /\ [Identified(e) EXCEPT !.menus = Menus] \in Entries
        /\ [Identified(e) EXCEPT !.all = TRUE] \in Entries
    BY <1>2, <1>4 DEF Entries
  <1>6. /\ [Entry(e) EXCEPT !.extra = TRUE, !.level = TRUE] \in Entries
        /\ [Entry(e) EXCEPT !.level = TRUE] \in Entries
        /\ [ForgetSchema(Entry(e)) EXCEPT !.level = TRUE] \in Entries
    BY <1>1, <1>3 DEF Entries
  <1>7. QED
    BY <1>1, <1>2, <1>5, <1>6 DEF Left, BusKinds

LEMMA WantedKind ==
    ASSUME NEW call \in AllCalls \ {"devices_all"}, NEW stage, NEW e
    PROVE  Wanted(call, stage, e) \in BusKinds \cup {"none", "Subscribe"}
  BY DEF Wanted, AllCalls, BusKinds

LEMMA CommandKind ==
    ASSUME NEW command \in Commands
    PROVE  IF command.kind = "Shutdown" THEN command.device = Nowhere
           ELSE command.device \in Devices /\ command.caller \in Callers
  BY DEF Commands, BusKinds

\* What a caller sends is a command of its own; it waits for the answer unless it subscribes.
LEMMA SentCommand ==
    ASSUME EngineTypeOK, NEW c \in Callers, SendCommand(c)
    PROVE  /\ caller[c] \in Under /\ caller[c].stage \in {"begun", "filed", "asked"}
           /\ \E command \in Commands :
                /\ command.caller = c /\ command.kind \in BusKinds \cup {"Subscribe"}
                /\ commands' = Append(commands, command)
                /\ caller' = [caller EXCEPT ![c].stage =
                                IF command.kind = "Subscribe" THEN "held" ELSE "waiting"]
           /\ commands' \in Seq(Commands)
           /\ caller' \in [Callers -> {Free} \cup Under]
  <1> DEFINE k == caller[c]
             kind == Wanted(k.call, k.stage, table[k.device])
             command == [kind |-> kind, device |-> k.device, caller |-> c]
             stage == IF kind = "Subscribe" THEN "held" ELSE "waiting"
  <1>1. k \in Under /\ k.stage \in {"begun", "filed", "asked"}
    BY DEF EngineTypeOK, SendCommand, Free
  <1>2. k.call \in AllCalls \ {"devices_all"} /\ k.device \in Devices
    BY <1>1 DEF Under, SendCommand
  <1>3. kind \in BusKinds \cup {"Subscribe"}
    <2> HIDE DEF k
    <2>1. kind \in BusKinds \cup {"none", "Subscribe"}
      BY <1>2, WantedKind
    <2>2. kind # "none"
      BY DEF SendCommand, k
    <2>3. QED
      BY <2>1, <2>2
  <1> HIDE DEF kind
  <1>4. command \in Commands /\ command.caller = c /\ command.kind = kind
    BY <1>2, <1>3 DEF Commands
  <1>5. commands' = Append(commands, command) /\ caller' = [caller EXCEPT ![c].stage = stage]
    BY DEF SendCommand, kind
  <1>6. commands' \in Seq(Commands)
    BY <1>4, <1>5, AppendProperties DEF EngineTypeOK
  <1>7. caller' \in [Callers -> {Free} \cup Under]
    <2>1. [caller[c] EXCEPT !.stage = stage] \in Under
      BY <1>1, <1>2 DEF Under
    <2>2. QED
      BY <1>5, <2>1 DEF EngineTypeOK
  <1>8. QED
    BY <1>1, <1>3, <1>4, <1>5, <1>6, <1>7

LEMMA InitType == EngineInit => EngineTypeOK
  <1> SUFFICES ASSUME EngineInit PROVE EngineTypeOK
    OBVIOUS
  <1>1. NoEntry \in Entries
    BY DEF NoEntry, Entries
  <1>2. <<>> \in Seq({"Alive", "Offline"}) /\ <<>> \in Seq(Commands)
    OBVIOUS
  <1>3. table \in [Devices -> Entries] /\ events \in [Devices -> Seq({"Alive", "Offline"})]
    BY <1>1, <1>2 DEF EngineInit
  <1>4. QED
    BY <1>2, <1>3 DEF EngineInit, EngineTypeOK

\* The reader's steps.
LEMMA ReaderType == EngineTypeOK /\ (ReaderReceives \/ ReaderLooks \/ ReaderEnds) => EngineTypeOK'
  <1>1. ASSUME EngineTypeOK, ReaderReceives PROVE EngineTypeOK'
    <2>1. table' \in [Devices -> Entries]
      BY <1>1, EntryType DEF EngineTypeOK, ReaderReceives
    <2>2. slot' \in {"none", "waiting", "answered", "cancelled"} /\ spoke' \subseteq Devices
      BY <1>1 DEF EngineTypeOK, ReaderReceives
    <2>3. QED
      BY <1>1, <2>1, <2>2 DEF EngineTypeOK, ReaderReceives
  <1>2. ASSUME EngineTypeOK, ReaderLooks PROVE EngineTypeOK'
    <2>1. ASSUME NEW d \in Devices PROVE Look(d, events[d]) \in Seq({"Alive", "Offline"})
      <3>1. events[d] \in Seq({"Alive", "Offline"})
        BY <1>2 DEF EngineTypeOK
      <3>2. QED
        BY <3>1, AppendProperties DEF Look
    <2>2. events' \in [Devices -> Seq({"Alive", "Offline"})] /\ alive' \subseteq Devices
      BY <1>2, <2>1 DEF ReaderLooks, AliveIds
    <2>3. QED
      BY <1>2, <2>2 DEF EngineTypeOK, ReaderLooks
  <1>3. ASSUME EngineTypeOK, ReaderEnds PROVE EngineTypeOK'
    BY <1>3 DEF EngineTypeOK, ReaderEnds, CancelAll
  <1>4. QED
    BY <1>1, <1>2, <1>3

\* Taking up a command leaves the rest of the channel, and makes a job of it or
\* changes what is polled.
LEMMA TakenCommand ==
    ASSUME EngineTypeOK, SchedulerTakes
    PROVE  /\ commands # <<>> /\ Head(commands) \in Commands /\ commands' \in Seq(Commands)
           /\ commands' = Tail(commands)
           /\ \/ /\ Head(commands).kind \in BusKinds
                 /\ scheduler' = "busy" /\ job' \in Jobs
                 /\ job'.kind = Head(commands).kind
                 /\ job'.device = Head(commands).device /\ job'.caller = Head(commands).caller
              \/ /\ Head(commands).kind \in {"Subscribe", "Unsubscribe"}
                 /\ scheduler' = "idle" /\ job' = NoJob
  <1> SUFFICES ASSUME EngineTypeOK, SchedulerTakes
               PROVE  /\ commands # <<>> /\ Head(commands) \in Commands
                      /\ commands' \in Seq(Commands) /\ commands' = Tail(commands)
                      /\ \/ /\ Head(commands).kind \in BusKinds
                            /\ scheduler' = "busy" /\ job' \in Jobs
                            /\ job'.kind = Head(commands).kind
                            /\ job'.device = Head(commands).device
                            /\ job'.caller = Head(commands).caller
                         \/ /\ Head(commands).kind \in {"Subscribe", "Unsubscribe"}
                            /\ scheduler' = "idle" /\ job' = NoJob
    OBVIOUS
  <1> DEFINE command == Head(commands)
  <1>1. /\ commands # <<>> /\ command \in Commands /\ commands' \in Seq(Commands)
        /\ commands' = Tail(commands)
    BY HeadTailProperties DEF SchedulerTakes, EngineTypeOK
  <1>2. CASE command.kind \notin {"Subscribe", "Unsubscribe", "Shutdown"}
    <2>1. command \in [kind : BusKinds, device : Devices, caller : Callers]
      BY <1>1, <1>2 DEF Commands
    <2>2. job' = Begun(command) /\ scheduler' = "busy"
      BY <1>2 DEF SchedulerTakes
    <2>3. /\ job' \in Jobs /\ job'.kind = command.kind
          /\ job'.device = command.device /\ job'.caller = command.caller
      BY <2>1, <2>2, EngineAssumption DEF Begun, Jobs
    <2>4. command.kind \in BusKinds
      BY <2>1
    <2>5. QED
      BY <1>1, <2>2, <2>3, <2>4
  <1>3. CASE command.kind \in {"Subscribe", "Unsubscribe"}
    BY <1>1, <1>3 DEF SchedulerTakes, EngineTypeOK
  <1>4. QED
    BY <1>1, <1>2, <1>3 DEF SchedulerTakes

\* The scheduler's steps.
LEMMA SchedulerType ==
    EngineTypeOK /\ CallsInHand /\
    (SchedulerTakes \/ AskDevice \/ AnswerOrTimeout \/ JobDone \/ MaybeHeartbeat
                     \/ SchedulerEnds) => EngineTypeOK'
  <1>1. ASSUME EngineTypeOK, SchedulerTakes PROVE EngineTypeOK'
    <2>1. Head(commands) \in Commands /\ Head(commands).kind # "Shutdown"
      BY <1>1, TakenCommand DEF BusKinds
    <2>2. Head(commands).device \in Devices /\ Head(commands).caller \in Callers
      BY <2>1, CommandKind
    <2>3. asked' \subseteq Devices /\ subs' \subseteq Callers
      BY <1>1, <2>2 DEF SchedulerTakes, EngineTypeOK
    <2>4. IF scheduler' = "busy" THEN job' \in Jobs ELSE job' = NoJob
      BY <1>1, TakenCommand
    <2>5. commands' \in Seq(Commands) /\ scheduler' \in {"busy", "idle"}
      BY <1>1, TakenCommand
    <2>6. QED
      BY <1>1, <2>3, <2>4, <2>5 DEF SchedulerTakes, EngineTypeOK
  <1>2. ASSUME EngineTypeOK, AskDevice PROVE EngineTypeOK'
    BY <1>2 DEF EngineTypeOK, AskDevice
  <1>3. ASSUME EngineTypeOK, AnswerOrTimeout PROVE EngineTypeOK'
    <2>1. job' \in Jobs
      <3>1. job \in Jobs /\ (job.answered /\ slot = "answered") \in BOOLEAN /\ job.left - 1 \in Int
        BY <1>3 DEF EngineTypeOK, AnswerOrTimeout, Jobs
      <3>2. QED
        BY <1>3, <3>1 DEF AnswerOrTimeout, Jobs
    <2>2. QED
      BY <1>3, <2>1 DEF EngineTypeOK, AnswerOrTimeout
  <1>4. ASSUME EngineTypeOK, CallsInHand, JobDone PROVE EngineTypeOK'
    <2>1. job \in Jobs
      BY <1>4 DEF EngineTypeOK, JobDone
    <2>2. job.device \in Devices /\ job.kind \in BusKinds /\ job.answered \in BOOLEAN
      BY <2>1 DEF Jobs
    <2>3. table[job.device] \in Entries /\ time \in Nat
      BY <1>4, <2>2 DEF EngineTypeOK
    <2>4. table' \in [Devices -> Entries]
      BY <1>4, <2>2, <2>3, LeftType DEF EngineTypeOK, JobDone
    <2>5. caller' \in [Callers -> {Free} \cup Under]
      <3>1. job.caller \in Callers /\ caller[job.caller].stage = "waiting"
        BY <1>4, <2>1 DEF CallsInHand, OneCommandEach, JobDone, Jobs
      <3>2. caller[job.caller] \in Under
        BY <1>4, <3>1 DEF EngineTypeOK, Free
      <3>3. StageAfter(job.kind) \in {"filed", "asked"}
        BY DEF StageAfter
      <3>4. [caller[job.caller] EXCEPT !.stage = StageAfter(job.kind)] \in Under
        BY <3>1, <3>2, <3>3 DEF Under
      <3>5. QED
        BY <1>4, <3>1, <3>4 DEF EngineTypeOK, JobDone
    <2>6. QED
      BY <1>4, <2>4, <2>5 DEF EngineTypeOK, JobDone
  <1>5. ASSUME EngineTypeOK, MaybeHeartbeat PROVE EngineTypeOK'
    BY <1>5 DEF EngineTypeOK, MaybeHeartbeat
  <1>6. ASSUME EngineTypeOK, SchedulerEnds PROVE EngineTypeOK'
    BY <1>6 DEF EngineTypeOK, SchedulerEnds, CancelAll
  <1>7. QED
    BY <1>1, <1>2, <1>3, <1>4, <1>5, <1>6

\* The callers' steps, and those of connect, drop and time.
LEMMA OthersType ==
    EngineTypeOK /\ CallsInHand /\
    (ConnectRefused \/ Connect \/ Connected \/ DropEngine \/ Tick
     \/ \E c \in Callers : BeginCall(c) \/ CallerSteps(c) \/ DropSubscription(c))
      => EngineTypeOK'
  <1>1. ASSUME EngineTypeOK, CallsInHand, ConnectRefused \/ Connect \/ Connected \/ Tick PROVE EngineTypeOK'
    <2>1. CASE ConnectRefused
      BY <1>1, <2>1 DEF EngineTypeOK, ConnectRefused
    <2>2. CASE Connect
      BY <1>1, <2>2 DEF EngineTypeOK, Connect, CallsInHand, Phases
    <2>3. CASE Connected
      BY <1>1, <2>3 DEF EngineTypeOK, Connected
    <2>4. CASE Tick
      BY <1>1, <2>4 DEF EngineTypeOK, Tick
    <2>5. QED
      BY <1>1, <2>1, <2>2, <2>3, <2>4
  <1>2. ASSUME EngineTypeOK, DropEngine PROVE EngineTypeOK'
    <2>1. [kind |-> "Shutdown", device |-> Nowhere, caller |-> Nowhere] \in Commands
      BY DEF Commands
    <2>2. commands' \in Seq(Commands)
      BY <1>2, <2>1, AppendProperties DEF EngineTypeOK, DropEngine
    <2>3. QED
      BY <1>2, <2>2 DEF EngineTypeOK, DropEngine
  <1>3. ASSUME EngineTypeOK, NEW c \in Callers, BeginCall(c) PROVE EngineTypeOK'
    <2>1. PICK call \in Calls, d \in Devices :
            caller' = [caller EXCEPT ![c] = [call |-> call, stage |-> "begun", device |-> d]]
      BY <1>3 DEF BeginCall
    <2>2. [call |-> call, stage |-> "begun", device |-> d] \in Under
      BY EngineAssumption DEF Under
    <2>3. caller' \in [Callers -> {Free} \cup Under]
      BY <1>3, <2>1, <2>2 DEF EngineTypeOK
    <2>4. QED
      BY <1>3, <2>3 DEF EngineTypeOK, BeginCall
  <1>4. ASSUME EngineTypeOK, NEW c \in Callers, SendCommand(c) PROVE EngineTypeOK'
    BY <1>4, SentCommand DEF EngineTypeOK, SendCommand
  <1>5. ASSUME EngineTypeOK, NEW c \in Callers, EndCall(c) \/ ListAll(c) PROVE EngineTypeOK'
    <2>1. caller' \in [Callers -> {Free} \cup Under]
      BY <1>5 DEF EngineTypeOK, EndCall, ListAll
    <2>2. QED
      BY <1>5, <2>1 DEF EngineTypeOK, EndCall, ListAll
  <1>6. ASSUME EngineTypeOK, NEW c \in Callers, DropSubscription(c) PROVE EngineTypeOK'
    <2>1. caller[c] \in Under
      BY <1>6 DEF EngineTypeOK, DropSubscription, Free
    <2>2. [kind |-> "Unsubscribe", device |-> caller[c].device, caller |-> c] \in Commands
      BY <2>1 DEF Commands, Under
    <2>3. commands' \in Seq(Commands)
      BY <1>6, <2>2, AppendProperties DEF EngineTypeOK, DropSubscription
    <2>4. caller' \in [Callers -> {Free} \cup Under]
      BY <1>6 DEF EngineTypeOK, DropSubscription
    <2>5. QED
      BY <1>6, <2>3, <2>4 DEF EngineTypeOK, DropSubscription
  <1>7. QED
    BY <1>1, <1>2, <1>3, <1>4, <1>5, <1>6 DEF CallerSteps

LEMMA StepType == EngineTypeOK /\ CallsInHand /\ [EngineNext]_engineVars => EngineTypeOK'
  <1>1. ASSUME EngineTypeOK, UNCHANGED engineVars PROVE EngineTypeOK'
    BY <1>1 DEF EngineTypeOK, engineVars
  <1>2. QED
    BY <1>1, ReaderType, SchedulerType, OthersType DEF EngineNext, Threads

-----------------------------------------------------------------------------
(* The commands and their callers.                                         *)

LEMMA OneMore ==
    ASSUME NEW S, NEW s \in Seq(S), NEW x \in S
    PROVE  /\ DOMAIN Append(s, x) = DOMAIN s \cup {Len(s) + 1} /\ Len(s) + 1 \notin DOMAIN s
           /\ \A i \in DOMAIN s : Append(s, x)[i] = s[i]
           /\ Append(s, x)[Len(s) + 1] = x
  OBVIOUS

LEMMA OneLess ==
    ASSUME NEW S, NEW s \in Seq(S), s # <<>>
    PROVE  /\ 1 \in DOMAIN s /\ Head(s) = s[1]
           /\ \A i \in DOMAIN Tail(s) : i + 1 \in DOMAIN s /\ i # 0 /\ i \in Nat
                                       /\ Tail(s)[i] = s[i + 1]
           /\ \A i \in DOMAIN s : i # 1 => i - 1 \in DOMAIN Tail(s) /\ Tail(s)[i - 1] = s[i]
  <1>1. Len(s) \in Nat /\ Len(s) # 0 /\ DOMAIN s = 1..Len(s)
    BY EmptySeq
  <1>2. /\ Tail(s) \in Seq(S) /\ Len(Tail(s)) = Len(s) - 1 /\ DOMAIN Tail(s) = 1..(Len(s) - 1)
        /\ \A i \in 1..(Len(s) - 1) : Tail(s)[i] = s[i + 1]
    BY HeadTailProperties
  <1>3. QED
    BY <1>1, <1>2

\* What a waiting caller can rely on.
LEMMA WhileWaiting ==
    ASSUME EngineTypeOK, CallsInHand, NEW c \in Callers, caller[c].stage = "waiting"
    PROVE  phase = "up" /\ ~shutdown /\ scheduler \in {"idle", "busy"}
  <1>1. caller[c] # Free
    BY DEF Free
  <1>2. QED
    BY <1>1 DEF CallsInHand, Phases, EngineTypeOK

LEMMA QuietStep ==
    ASSUME EngineTypeOK, CallsInHand,
           UNCHANGED <<phase, shutdown, scheduler, commands, caller>>, job'.caller = job.caller
    PROVE  CallsInHand'
  BY DEF CallsInHand, OneCommandEach, Phases, IsBus

LEMMA TakesInHand ==
    ASSUME EngineTypeOK, CallsInHand, SchedulerTakes
    PROVE  CallsInHand'
  <1>1. /\ commands # <<>> /\ commands \in Seq(Commands) /\ commands' = Tail(commands)
        /\ scheduler = "idle" /\ UNCHANGED <<phase, shutdown, caller>>
    BY DEF EngineTypeOK, SchedulerTakes
  <1>2. /\ 1 \in DOMAIN commands /\ Head(commands) = commands[1]
        /\ \A i \in DOMAIN commands' : i + 1 \in DOMAIN commands /\ i # 0 /\ i \in Nat
                                       /\ commands'[i] = commands[i + 1]
        /\ \A i \in DOMAIN commands : i # 1 => i - 1 \in DOMAIN commands'
                                               /\ commands'[i - 1] = commands[i]
    BY <1>1, OneLess
  <1>3. \A i \in DOMAIN commands' : IsBus(i)' => IsBus(i + 1)
    BY <1>2 DEF IsBus
  <1>4. /\ \A i \in DOMAIN commands' : IsBus(i)' => caller'[commands'[i].caller].stage = "waiting"
        /\ \A i, j \in DOMAIN commands' :
             IsBus(i)' /\ IsBus(j)' /\ commands'[i].caller = commands'[j].caller => i = j
    BY <1>1, <1>2, <1>3 DEF CallsInHand, OneCommandEach
  <1>5. Phases'
    <2>1. scheduler' \in {"idle", "busy"}
      BY <1>1 DEF SchedulerTakes
    <2>2. QED
      BY <1>1, <1>2, <2>1 DEF CallsInHand, Phases
  <1>6. \A i \in DOMAIN commands : IsBus(i) /\ i # 1 => i - 1 \in DOMAIN commands' /\ IsBus(i - 1)'
    BY <1>2 DEF IsBus
  <1>7. CASE Head(commands).kind \in BusKinds
    <2>1. scheduler' = "busy" /\ job'.caller = commands[1].caller
      BY <1>2, <1>7, TakenCommand DEF BusKinds
    <2>2. IsBus(1)
      BY <1>2, <1>7 DEF IsBus
    <2>3. caller'[job'.caller].stage = "waiting"
      BY <1>1, <1>2, <2>1, <2>2 DEF CallsInHand, OneCommandEach
    <2>4. \A i \in DOMAIN commands' : IsBus(i)' => commands'[i].caller # job'.caller
      <3> SUFFICES ASSUME NEW i \in DOMAIN commands', IsBus(i)',
                          commands'[i].caller = job'.caller
                   PROVE  FALSE
        OBVIOUS
      <3>1. i + 1 = 1
        BY <1>2, <1>3, <2>1, <2>2 DEF CallsInHand, OneCommandEach
      <3>2. QED
        BY <3>1, <1>2
    <2>5. ASSUME NEW c \in Callers, caller'[c].stage = "waiting"
          PROVE  \/ scheduler' = "busy" /\ job'.caller = c
                 \/ \E i \in DOMAIN commands' : IsBus(i)' /\ commands'[i].caller = c
      <3>1. PICK i \in DOMAIN commands : IsBus(i) /\ commands[i].caller = c
        BY <1>1, <2>5 DEF CallsInHand, OneCommandEach
      <3>2. QED
        BY <3>1, <2>1, <1>2, <1>6
    <2>6. QED
      BY <1>4, <1>5, <2>3, <2>4, <2>5 DEF CallsInHand, OneCommandEach
  <1>8. CASE Head(commands).kind \in {"Subscribe", "Unsubscribe"}
    <2>1. scheduler' = "idle" /\ ~IsBus(1)
      BY <1>2, <1>8, TakenCommand DEF BusKinds, IsBus
    <2>2. ASSUME NEW c \in Callers, caller'[c].stage = "waiting"
          PROVE  \E i \in DOMAIN commands' : IsBus(i)' /\ commands'[i].caller = c
      <3>1. PICK i \in DOMAIN commands : IsBus(i) /\ commands[i].caller = c
        BY <1>1, <2>2 DEF CallsInHand, OneCommandEach
      <3>2. QED
        BY <3>1, <2>1, <1>2, <1>6
    <2>3. QED
      BY <1>4, <1>5, <2>1, <2>2 DEF CallsInHand, OneCommandEach
  <1>9. QED
    BY <1>7, <1>8, TakenCommand

LEMMA DoneInHand ==
    ASSUME EngineTypeOK, CallsInHand, JobDone
    PROVE  CallsInHand'
  <1>1. /\ scheduler = "busy" /\ scheduler' = "idle" /\ job \in Jobs
        /\ UNCHANGED <<phase, shutdown, commands>>
    BY DEF JobDone, EngineTypeOK
  <1>2. job.caller \in Callers /\ caller[job.caller].stage = "waiting" /\ caller[job.caller] # Free
    BY <1>1 DEF Jobs, CallsInHand, OneCommandEach, Free
  <1>3. /\ \A c \in Callers : c # job.caller => caller'[c] = caller[c]
        /\ caller'[job.caller].stage # "waiting"
    <2>1. caller' = [caller EXCEPT ![job.caller].stage = StageAfter(job.kind)]
      BY DEF JobDone
    <2>2. StageAfter(job.kind) # "waiting"
      BY DEF StageAfter
    <2>3. caller[job.caller] \in Under
      BY <1>2 DEF EngineTypeOK
    <2>4. QED
      BY <1>2, <2>1, <2>2, <2>3 DEF EngineTypeOK, Under
  <1>4. \A i \in DOMAIN commands : IsBus(i) =>
          /\ commands[i].caller \in Callers /\ commands[i].caller # job.caller
    <2> SUFFICES ASSUME NEW i \in DOMAIN commands, IsBus(i)
                 PROVE  commands[i].caller \in Callers /\ commands[i].caller # job.caller
      OBVIOUS
    <2>1. commands[i] \in Commands
      BY ElementOfSeq DEF EngineTypeOK
    <2>2. QED
      BY <1>1, <2>1, CommandKind DEF IsBus, BusKinds, CallsInHand, OneCommandEach
  <1>5. \A i : IsBus(i)' = IsBus(i)
    BY <1>1 DEF IsBus
  <1>6. OneCommandEach'
    BY <1>1, <1>3, <1>4, <1>5 DEF CallsInHand, OneCommandEach
  <1>7. Phases'
    BY <1>1, <1>2, <1>3 DEF CallsInHand, Phases
  <1>8. QED
    BY <1>6, <1>7 DEF CallsInHand

\* Before the engine is up and after it was dropped nobody waits.
LEMMA NobodyCalls ==
    ASSUME EngineTypeOK, CallsInHand, phase # "up"
    PROVE  /\ \A c \in Callers : caller[c] = Free
           /\ \A i \in DOMAIN commands : ~IsBus(i)
           /\ scheduler # "busy"
  <1>1. \A c \in Callers : caller[c] = Free /\ caller[c].stage # "waiting"
    BY DEF CallsInHand, Phases, Free
  <1>2. ASSUME NEW i \in DOMAIN commands, IsBus(i) PROVE FALSE
    <2>1. commands[i] \in Commands
      BY ElementOfSeq DEF EngineTypeOK
    <2>2. commands[i].caller \in Callers
      BY <1>2, <2>1, CommandKind DEF IsBus, BusKinds
    <2>3. QED
      BY <1>1, <1>2, <2>2 DEF CallsInHand, OneCommandEach
  <1>3. scheduler # "busy"
    BY <1>1 DEF EngineTypeOK, Jobs, CallsInHand, OneCommandEach
  <1>4. QED
    BY <1>1, <1>2, <1>3

LEMMA PhaseInHand ==
    ASSUME EngineTypeOK, CallsInHand,
           ConnectRefused \/ Connect \/ Connected \/ DropEngine \/ SchedulerEnds
    PROVE  CallsInHand'
  <1>1. CASE ConnectRefused \/ Connect \/ Connected
    <2>1. phase # "up" /\ phase' # "dropped" /\ phase # "dropped"
          /\ UNCHANGED <<commands, caller, shutdown>>
      BY <1>1 DEF ConnectRefused, Connect, Connected
    <2>2. scheduler' # "busy"
      BY <1>1, <2>1, NobodyCalls DEF ConnectRefused, Connect, Connected
    <2>3. OneCommandEach'
      BY <2>1, <2>2, NobodyCalls DEF OneCommandEach, IsBus, Free
    <2>4. Phases'
      <3>1. \A c \in Callers : caller'[c] = Free
        BY <2>1, NobodyCalls
      <3>2. CASE ConnectRefused \/ Connect
        BY <2>1, <3>1, <3>2 DEF ConnectRefused, Connect, CallsInHand, Phases
      <3>3. CASE Connected
        BY <2>1, <3>1, <3>3 DEF Connected, CallsInHand, Phases
      <3>4. QED
        BY <1>1, <3>2, <3>3
    <2>5. QED
      BY <2>3, <2>4 DEF CallsInHand
  <1>2. CASE DropEngine
    <2> DEFINE end == [kind |-> "Shutdown", device |-> Nowhere, caller |-> Nowhere]
    <2>1. /\ commands' = Append(commands, end) /\ UNCHANGED <<caller, scheduler, job>>
          /\ phase' = "dropped" /\ shutdown' /\ phase = "up"
          /\ \A c \in Callers : caller[c] = Free
      BY <1>2 DEF DropEngine
    <2>2. end \in Commands /\ commands \in Seq(Commands) /\ end.kind \notin BusKinds
      BY DEF Commands, EngineTypeOK, BusKinds
    <2>3. /\ DOMAIN commands' = DOMAIN commands \cup {Len(commands) + 1}
          /\ \A i \in DOMAIN commands : commands'[i] = commands[i]
          /\ commands'[Len(commands) + 1] = end
      BY <2>1, <2>2, OneMore
    <2>4. \A i \in DOMAIN commands' : IsBus(i)' => i \in DOMAIN commands /\ IsBus(i)
      BY <2>2, <2>3 DEF IsBus
    <2>5. \A i \in DOMAIN commands : ~IsBus(i)
      <3>1. \A c \in Callers : caller[c].stage # "waiting"
        BY <2>1 DEF Free
      <3>2. ASSUME NEW i \in DOMAIN commands, IsBus(i) PROVE FALSE
        <4>1. commands[i] \in Commands
          BY ElementOfSeq DEF EngineTypeOK
        <4>2. commands[i].caller \in Callers
          BY <3>2, <4>1, CommandKind DEF IsBus, BusKinds
        <4>3. QED
          BY <3>1, <3>2, <4>2 DEF CallsInHand, OneCommandEach
      <3>3. QED
        BY <3>2
    <2>6. scheduler # "busy"
      BY <2>1 DEF CallsInHand, OneCommandEach, EngineTypeOK, Jobs, Free
    <2>7. OneCommandEach'
      BY <2>1, <2>4, <2>5, <2>6 DEF OneCommandEach, Free
    <2>8. Phases'
      BY <2>1 DEF CallsInHand, Phases
    <2>9. QED
      BY <2>7, <2>8 DEF CallsInHand
  <1>3. CASE SchedulerEnds
    <2>1. /\ scheduler = "idle" /\ scheduler' = "ended"
          /\ UNCHANGED <<phase, shutdown, commands, caller, job>>
      BY <1>3 DEF SchedulerEnds
    <2>2. phase \in {"failed", "dropped"}
      <3>1. CASE shutdown
        BY <3>1 DEF CallsInHand, Phases
      <3>2. CASE commands # <<>> /\ Head(commands).kind = "Shutdown"
        <4>1. 1 \in DOMAIN commands /\ Head(commands) = commands[1]
          BY <3>2, OneLess DEF EngineTypeOK
        <4>2. QED
          BY <3>2, <4>1 DEF CallsInHand, Phases
      <3>3. CASE Hung
        BY <3>3 DEF Hung
      <3>4. QED
        BY <1>3, <3>1, <3>2, <3>3 DEF SchedulerEnds
    <2>3. QED
      BY <2>1, <2>2 DEF CallsInHand, OneCommandEach, Phases, IsBus
  <1>4. QED
    BY <1>1, <1>2, <1>3

\* A caller that does not wait begins or ends a call, or sends what nobody waits for.
LEMMA IdleCallerInHand ==
    ASSUME EngineTypeOK, CallsInHand, NEW c \in Callers, caller[c].stage # "waiting",
           caller'[c].stage # "waiting", \A d \in Callers \ {c} : caller'[d] = caller[d],
           UNCHANGED <<phase, shutdown, scheduler, job>>, phase = "up",
           \/ UNCHANGED commands
           \/ \E x \in Commands : /\ x.kind \in {"Subscribe", "Unsubscribe"}
                                  /\ commands' = Append(commands, x)
    PROVE  CallsInHand'
  <1>1. /\ \A i \in DOMAIN commands : /\ i \in DOMAIN commands' /\ commands'[i] = commands[i]
                                      /\ IsBus(i)' = IsBus(i)
        /\ \A i \in DOMAIN commands' : IsBus(i)' => i \in DOMAIN commands
        /\ \A i \in DOMAIN commands' :
             commands'[i].kind = "Shutdown" => i \in DOMAIN commands
    <2>1. CASE UNCHANGED commands
      BY <2>1 DEF IsBus
    <2>2. ASSUME NEW x \in Commands, x.kind \in {"Subscribe", "Unsubscribe"},
                 commands' = Append(commands, x)
          PROVE  <1>1
      <3>1. commands \in Seq(Commands) /\ x.kind \notin BusKinds /\ x.kind # "Shutdown"
        BY <2>2 DEF EngineTypeOK, BusKinds
      <3>2. /\ DOMAIN commands' = DOMAIN commands \cup {Len(commands) + 1}
            /\ \A i \in DOMAIN commands : commands'[i] = commands[i]
            /\ commands'[Len(commands) + 1] = x
        BY <2>2, <3>1, OneMore
      <3>3. QED
        BY <3>1, <3>2 DEF IsBus
    <2>3. QED
      BY <2>1, <2>2
  <1>2. \A i \in DOMAIN commands : IsBus(i) => caller'[commands[i].caller].stage = "waiting"
    <2> SUFFICES ASSUME NEW i \in DOMAIN commands, IsBus(i)
                 PROVE  caller'[commands[i].caller].stage = "waiting"
      OBVIOUS
    <2>1. commands[i] \in Commands
      BY ElementOfSeq DEF EngineTypeOK
    <2>2. commands[i].caller \in Callers /\ caller[commands[i].caller].stage = "waiting"
      BY <2>1, CommandKind DEF IsBus, BusKinds, CallsInHand, OneCommandEach
    <2>3. QED
      BY <2>2
  <1>3. scheduler = "busy" => caller'[job.caller].stage = "waiting"
    BY DEF EngineTypeOK, Jobs, CallsInHand, OneCommandEach
  <1>4. OneCommandEach'
    <2>1. \A i, j \in DOMAIN commands' :
            IsBus(i)' /\ IsBus(j)' /\ commands'[i].caller = commands'[j].caller => i = j
      BY <1>1 DEF CallsInHand, OneCommandEach
    <2>2. scheduler' = "busy" =>
            \A i \in DOMAIN commands' : IsBus(i)' => commands'[i].caller # job'.caller
      BY <1>1 DEF CallsInHand, OneCommandEach
    <2>3. ASSUME NEW d \in Callers, caller'[d].stage = "waiting"
          PROVE  \/ scheduler' = "busy" /\ job'.caller = d
                 \/ \E i \in DOMAIN commands' : IsBus(i)' /\ commands'[i].caller = d
      <3>1. caller[d].stage = "waiting"
        BY <2>3
      <3>2. QED
        BY <1>1, <3>1 DEF CallsInHand, OneCommandEach
    <2>4. QED
      BY <1>1, <1>2, <1>3, <2>1, <2>2, <2>3 DEF OneCommandEach
  <1>5. Phases'
    BY <1>1 DEF CallsInHand, Phases
  <1>6. QED
    BY <1>4, <1>5 DEF CallsInHand

\* A caller sends a command and waits for it.
LEMMA WaitingCallerInHand ==
    ASSUME EngineTypeOK, CallsInHand, NEW c \in Callers, caller[c].stage # "waiting",
           caller'[c].stage = "waiting", \A d \in Callers \ {c} : caller'[d] = caller[d],
           UNCHANGED <<phase, shutdown, scheduler, job>>, phase = "up",
           NEW x \in Commands, x.caller = c, x.kind \in BusKinds,
           commands' = Append(commands, x)
    PROVE  CallsInHand'
  <1>1. /\ DOMAIN commands' = DOMAIN commands \cup {Len(commands) + 1}
        /\ \A i \in DOMAIN commands : commands'[i] = commands[i]
        /\ Len(commands) + 1 \notin DOMAIN commands
        /\ commands'[Len(commands) + 1] = x
    BY OneMore DEF EngineTypeOK
  <1>2. /\ \A i \in DOMAIN commands : IsBus(i)' = IsBus(i)
        /\ \E n \in DOMAIN commands' : IsBus(n)' /\ commands'[n].caller = c
    BY <1>1 DEF IsBus
  <1>3. \A i \in DOMAIN commands : IsBus(i) =>
          commands[i].caller # c /\ caller'[commands[i].caller].stage = "waiting"
    <2> SUFFICES ASSUME NEW i \in DOMAIN commands, IsBus(i)
                 PROVE  commands[i].caller # c /\ caller'[commands[i].caller].stage = "waiting"
      OBVIOUS
    <2>1. commands[i] \in Commands
      BY ElementOfSeq DEF EngineTypeOK
    <2>2. commands[i].caller \in Callers /\ caller[commands[i].caller].stage = "waiting"
      BY <2>1, CommandKind DEF IsBus, BusKinds, CallsInHand, OneCommandEach
    <2>3. QED
      BY <2>2
  <1>4. scheduler = "busy" => job.caller # c /\ caller'[job.caller].stage = "waiting"
    BY DEF EngineTypeOK, Jobs, CallsInHand, OneCommandEach
  <1>5. OneCommandEach'
    <2>1. \A i \in DOMAIN commands' : IsBus(i)' => caller'[commands'[i].caller].stage = "waiting"
      BY <1>1, <1>2, <1>3
    <2>2. \A i, j \in DOMAIN commands' :
            IsBus(i)' /\ IsBus(j)' /\ commands'[i].caller = commands'[j].caller => i = j
      BY <1>1, <1>2, <1>3 DEF CallsInHand, OneCommandEach
    <2>3. scheduler' = "busy" =>
            \A i \in DOMAIN commands' : IsBus(i)' => commands'[i].caller # job'.caller
      BY <1>1, <1>2, <1>4 DEF CallsInHand, OneCommandEach
    <2>4. ASSUME NEW d \in Callers, caller'[d].stage = "waiting"
          PROVE  \/ scheduler' = "busy" /\ job'.caller = d
                 \/ \E i \in DOMAIN commands' : IsBus(i)' /\ commands'[i].caller = d
      <3>1. CASE d = c
        BY <1>1, <1>2, <3>1
      <3>2. CASE d # c
        <4>1. caller[d].stage = "waiting"
          BY <2>4, <3>2
        <4>2. QED
          BY <1>1, <1>2, <4>1 DEF CallsInHand, OneCommandEach
      <3>3. QED
        BY <3>1, <3>2
    <2>5. QED
      BY <1>4, <2>1, <2>2, <2>3, <2>4 DEF OneCommandEach
  <1>6. Phases'
    <2>1. x.kind # "Shutdown"
      BY DEF BusKinds
    <2>2. QED
      BY <1>1, <2>1 DEF CallsInHand, Phases
  <1>7. QED
    BY <1>5, <1>6 DEF CallsInHand

LEMMA CallerInHand ==
    ASSUME EngineTypeOK, CallsInHand, NEW c \in Callers,
           BeginCall(c) \/ CallerSteps(c) \/ DropSubscription(c)
    PROVE  CallsInHand'
  <1>1. UNCHANGED <<phase, shutdown, scheduler, job>>
    BY DEF BeginCall, CallerSteps, SendCommand, EndCall, ListAll, DropSubscription
  <1>2. caller \in [Callers -> {Free} \cup Under] /\ Free.stage = "free" /\ Free.call = "none"
    BY DEF EngineTypeOK, Free
  <1>3. caller[c] # Free => phase = "up"
    BY DEF CallsInHand, Phases
  <1>4. CASE BeginCall(c)
    <2>1. PICK call \in Calls, d \in Devices :
            caller' = [caller EXCEPT ![c] = [call |-> call, stage |-> "begun", device |-> d]]
      BY <1>4 DEF BeginCall
    <2>2. caller[c] = Free /\ phase = "up" /\ UNCHANGED commands
      BY <1>4 DEF BeginCall
    <2>3. caller'[c].stage # "waiting" /\ \A d_1 \in Callers \ {c} : caller'[d_1] = caller[d_1]
      BY <1>2, <2>1
    <2>4. QED
      BY <1>1, <1>2, <2>2, <2>3, IdleCallerInHand
  <1>5. CASE SendCommand(c)
    <2>1. caller[c] \in Under /\ caller[c].stage \in {"begun", "filed", "asked"}
      BY <1>5, SentCommand
    <2>2. PICK x \in Commands :
            /\ x.caller = c /\ x.kind \in BusKinds \cup {"Subscribe"}
            /\ commands' = Append(commands, x)
            /\ caller' = [caller EXCEPT ![c].stage = IF x.kind = "Subscribe" THEN "held"
                                                     ELSE "waiting"]
      BY <1>5, SentCommand
    <2>3. /\ \A d \in Callers \ {c} : caller'[d] = caller[d]
          /\ caller'[c].stage = IF x.kind = "Subscribe" THEN "held" ELSE "waiting"
      BY <1>2, <2>1, <2>2 DEF Under
    <2>4. phase = "up" /\ caller[c].stage # "waiting"
      BY <1>2, <1>3, <2>1
    <2>5. CASE x.kind = "Subscribe"
      BY <1>1, <2>2, <2>3, <2>4, <2>5, IdleCallerInHand
    <2>6. CASE x.kind \in BusKinds
      <3>1. x.kind # "Subscribe"
        BY <2>6 DEF BusKinds
      <3>2. QED
        BY <1>1, <2>2, <2>3, <2>4, <2>6, <3>1, WaitingCallerInHand
    <2>7. QED
      BY <2>2, <2>5, <2>6
  <1>6. CASE EndCall(c) \/ ListAll(c)
    <2>1. caller' = [caller EXCEPT ![c] = Free] /\ UNCHANGED commands
      BY <1>6 DEF EndCall, ListAll
    <2>2. caller[c] # Free
      BY <1>2, <1>6 DEF EndCall, ListAll
    <2>3. caller[c].stage # "waiting"
      <3>1. CASE EndCall(c)
        BY <3>1 DEF EndCall
      <3>2. CASE ListAll(c)
        BY <1>2, <2>2, <3>2 DEF ListAll, Under
      <3>3. QED
        BY <1>6, <3>1, <3>2
    <2>4. caller'[c].stage # "waiting" /\ \A d \in Callers \ {c} : caller'[d] = caller[d]
      BY <1>2, <2>1
    <2>5. QED
      BY <1>1, <1>3, <2>1, <2>2, <2>3, <2>4, IdleCallerInHand
  <1>7. CASE DropSubscription(c)
    <2> DEFINE x == [kind |-> "Unsubscribe", device |-> caller[c].device, caller |-> c]
    <2>1. /\ caller[c].stage = "held" /\ caller' = [caller EXCEPT ![c] = Free]
          /\ commands' = Append(commands, x)
      BY <1>7 DEF DropSubscription
    <2>2. caller[c] \in Under /\ phase = "up"
      BY <1>2, <1>3, <2>1
    <2>3. x \in Commands /\ x.kind = "Unsubscribe"
      BY <2>2 DEF Commands, Under
    <2>4. caller'[c].stage # "waiting" /\ \A d \in Callers \ {c} : caller'[d] = caller[d]
      BY <1>2, <2>1
    <2> HIDE DEF x
    <2>5. QED
      BY <1>1, <2>1, <2>2, <2>3, <2>4, IdleCallerInHand
  <1>8. QED
    BY <1>4, <1>5, <1>6, <1>7 DEF CallerSteps

LEMMA StepInHand == EngineTypeOK /\ CallsInHand /\ [EngineNext]_engineVars => CallsInHand'
  <1> SUFFICES ASSUME EngineTypeOK, CallsInHand, [EngineNext]_engineVars PROVE CallsInHand'
    OBVIOUS
  <1>1. CASE UNCHANGED engineVars
    BY <1>1, QuietStep DEF engineVars
  <1>2. CASE ReaderReceives \/ ReaderLooks \/ ReaderEnds \/ AskDevice \/ MaybeHeartbeat \/ Tick
    BY <1>2, QuietStep DEF ReaderReceives, ReaderLooks, ReaderEnds, AskDevice, MaybeHeartbeat, Tick
  <1>3. CASE AnswerOrTimeout
    <2>1. job \in Jobs
      BY <1>3 DEF AnswerOrTimeout, EngineTypeOK
    <2>2. job'.caller = job.caller /\ UNCHANGED <<phase, shutdown, scheduler, commands, caller>>
      BY <1>3, <2>1 DEF AnswerOrTimeout, Jobs
    <2>3. QED
      BY <2>2, QuietStep
  <1>4. QED
    BY <1>1, <1>2, <1>3, TakesInHand, DoneInHand, PhaseInHand, CallerInHand
       DEF EngineNext, Threads

-----------------------------------------------------------------------------
(* Presence.                                                               *)

\* The strengthening: an entry of the device table is made when its device
\* is heard, or when a command about it was done.
KnownAreHeard ==
  /\ \A d \in Devices : table[d].known => d \in spoke \cup asked
  /\ scheduler = "busy" => job.device \in asked

Alternate(s) == \A i \in 1..Len(s) : s[i] = "Alive" <=> i % 2 = 1

\* An event that continues an alternation.
LEMMA NextAlternates ==
    ASSUME NEW s \in Seq({"Alive", "Offline"}), Alternate(s), NEW x \in {"Alive", "Offline"},
           x = "Alive" <=> Len(s) % 2 # 1
    PROVE  Alternate(Append(s, x)) /\ (Len(Append(s, x)) % 2 = 1 <=> Len(s) % 2 # 1)
  <1>1. Len(s) \in Nat /\ ((Len(s) + 1) % 2 = 1 <=> Len(s) % 2 # 1)
    OBVIOUS
  <1>2. QED
    BY <1>1 DEF Alternate

\* One look at who is alive: a device is told alive or gone when that has changed.
LEMMA LookAlternates ==
    ASSUME EngineTypeOK, PresenceAlternates, KnownAreHeard, ReaderLooks
    PROVE  PresenceAlternates'
  <1>1. ASSUME NEW d \in Devices
        PROVE  /\ Alternate(events'[d])
               /\ d \in alive' <=> Len(events'[d]) % 2 = 1
    <2>1. /\ events[d] \in Seq({"Alive", "Offline"}) /\ events'[d] = Look(d, events[d])
          /\ alive' = AliveIds
      BY DEF EngineTypeOK, ReaderLooks
    <2>2. Alternate(events[d]) /\ (d \in alive <=> Len(events[d]) % 2 = 1)
      BY DEF PresenceAlternates, Alternate
    <2>3. CASE d \in AliveIds \ alive
      <3>1. Look(d, events[d]) = Append(events[d], "Alive")
        BY <2>3 DEF Look
      <3>2. QED
        BY <2>1, <2>2, <2>3, <3>1, NextAlternates
    <2>4. CASE d \in alive \ AliveIds
      <3>1. Look(d, events[d]) = Append(events[d], "Offline")
        BY <2>4 DEF Look
      <3>2. d \in alive /\ d \notin alive'
        BY <2>1, <2>4
      <3>3. Len(events[d]) % 2 = 1
        BY <2>2, <3>2
      <3>4. Alternate(Append(events[d], "Offline")) /\ Len(Append(events[d], "Offline")) % 2 # 1
        BY <2>1, <2>2, <3>3, NextAlternates
      <3>5. Alternate(events'[d]) /\ Len(events'[d]) % 2 # 1
        BY <2>1, <3>1, <3>4
      <3>6. QED
        BY <3>2, <3>5
    <2>5. CASE d \in alive <=> d \in AliveIds
      <3>1. Look(d, events[d]) = events[d]
        BY <2>5, Zenon DEF Look
      <3>2. d \in alive <=> d \in alive'
        BY <2>1, <2>5
      <3>3. QED
        BY <2>1, <2>2, <3>1, <3>2
    <2>6. QED
      BY <2>3, <2>4, <2>5
  <1>2. alive' \subseteq spoke' \cup asked'
    BY DEF ReaderLooks, AliveIds, KnownAreHeard
  <1>3. QED
    BY <1>1, <1>2 DEF PresenceAlternates, Alternate

LEMMA StepPresence ==
    EngineTypeOK /\ PresenceAlternates /\ KnownAreHeard /\ [EngineNext]_engineVars
      => PresenceAlternates'
  <1> SUFFICES ASSUME EngineTypeOK, PresenceAlternates, KnownAreHeard, [EngineNext]_engineVars
               PROVE  PresenceAlternates'
    OBVIOUS
  <1>1. CASE ReaderLooks
    BY <1>1, LookAlternates
  <1>2. CASE ~ReaderLooks
    <2>1. UNCHANGED <<alive, events>>
      BY <1>2 DEF EngineNext, Threads, CallerSteps, engineVars, ConnectRefused, Connect, Connected,
             DropEngine, Tick, ReaderReceives, ReaderEnds, SchedulerTakes, AskDevice,
             AnswerOrTimeout, JobDone, MaybeHeartbeat, SchedulerEnds, BeginCall, SendCommand,
             EndCall, ListAll, DropSubscription
    <2>2. spoke \subseteq spoke' /\ asked \subseteq asked'
      BY DEF EngineNext, Threads, CallerSteps, engineVars, ConnectRefused, Connect, Connected,
             DropEngine, Tick, ReaderReceives, ReaderLooks, ReaderEnds, SchedulerTakes, AskDevice,
             AnswerOrTimeout, JobDone, MaybeHeartbeat, SchedulerEnds, BeginCall, SendCommand,
             EndCall, ListAll, DropSubscription
    <2>3. QED
      BY <2>1, <2>2 DEF PresenceAlternates
  <1>3. QED
    BY <1>1, <1>2

LEMMA StepHeard == EngineTypeOK /\ KnownAreHeard /\ [EngineNext]_engineVars => KnownAreHeard'
  <1> SUFFICES ASSUME EngineTypeOK, KnownAreHeard, [EngineNext]_engineVars PROVE KnownAreHeard'
    OBVIOUS
  <1>1. CASE ReaderReceives
    <2>1. UNCHANGED <<scheduler, job, asked>> /\ spoke \subseteq spoke'
      BY <1>1 DEF ReaderReceives
    <2>2. ASSUME NEW d \in Devices, table'[d].known, ~table[d].known PROVE d \in spoke'
      BY <1>1, <2>2 DEF ReaderReceives, IsDeviceOriginated, EngineTypeOK
    <2>3. QED
      BY <2>1, <2>2 DEF KnownAreHeard
  <1>2. CASE SchedulerTakes
    <2>1. UNCHANGED <<table, spoke>> /\ asked \subseteq asked'
      BY <1>2 DEF SchedulerTakes
    <2>2. scheduler' = "busy" => job'.device \in asked'
      <3>1. CASE Head(commands).kind \in BusKinds
        BY <1>2, <3>1, TakenCommand DEF SchedulerTakes, BusKinds
      <3>2. CASE Head(commands).kind \in {"Subscribe", "Unsubscribe"}
        BY <1>2, <3>2, TakenCommand DEF BusKinds
      <3>3. QED
        BY <1>2, <3>1, <3>2, TakenCommand
    <2>3. QED
      BY <2>1, <2>2 DEF KnownAreHeard
  <1>3. CASE AnswerOrTimeout
    <2>1. job \in Jobs /\ scheduler = "busy"
      BY <1>3 DEF AnswerOrTimeout, EngineTypeOK
    <2>2. job'.device = job.device /\ UNCHANGED <<table, spoke, asked, scheduler>>
      BY <1>3, <2>1 DEF AnswerOrTimeout, Jobs
    <2>3. QED
      BY <2>2 DEF KnownAreHeard
  <1>4. CASE JobDone
    <2>1. job \in Jobs /\ scheduler = "busy" /\ scheduler' = "idle" /\ UNCHANGED <<spoke, asked>>
      BY <1>4 DEF JobDone, EngineTypeOK
    <2>2. ASSUME NEW d \in Devices, d # job.device PROVE table'[d] = table[d]
      BY <1>4, <2>2 DEF JobDone, EngineTypeOK
    <2>3. QED
      BY <2>1, <2>2 DEF KnownAreHeard
  <1>5. CASE ~(ReaderReceives \/ SchedulerTakes \/ AnswerOrTimeout \/ JobDone)
    <2>1. UNCHANGED <<table, spoke, asked, job>> /\ (scheduler' = "busy" => scheduler = "busy")
      BY <1>5 DEF EngineNext, Threads, CallerSteps, engineVars, ConnectRefused, Connect, Connected,
             DropEngine, Tick, ReaderLooks, ReaderEnds, AskDevice, MaybeHeartbeat, SchedulerEnds,
             BeginCall, SendCommand, EndCall, ListAll, DropSubscription
    <2>2. QED
      BY <2>1 DEF KnownAreHeard
  <1>6. QED
    BY <1>1, <1>2, <1>3, <1>4, <1>5

-----------------------------------------------------------------------------

LEMMA InitialPresence == EngineInit => EngineTypeOK /\ CallsInHand /\ PresenceAlternates /\ KnownAreHeard
  <1> SUFFICES ASSUME EngineInit
               PROVE  CallsInHand /\ PresenceAlternates /\ KnownAreHeard
    BY InitType
  <1>1. DOMAIN commands = {} /\ \A d \in Devices : Len(events[d]) = 0
    BY DEF EngineInit
  <1>2. CallsInHand
    BY <1>1 DEF EngineInit, CallsInHand, OneCommandEach, Phases, Free
  <1>3. PresenceAlternates
    BY <1>1 DEF EngineInit, PresenceAlternates
  <1>4. KnownAreHeard
    BY DEF EngineInit, KnownAreHeard, NoEntry
  <1>5. QED
    BY <1>2, <1>3, <1>4

\* Every variable of the engine keeps its type, for any devices, callers and calls.
THEOREM TypeCorrect == EngineSpec => []EngineTypeOK
  BY InitialPresence, StepType, StepInHand, PTL DEF EngineSpec

\* However the threads interleave, a caller that waits for an answer waits for exactly one
\* command, which is in the channel or in the scheduler's hands, and the scheduler has not
\* ended: nobody waits for a command that nobody will take up (Engine::call, Sched::run).
THEOREM CallersAreServed ==
    EngineSpec =>
      [](\A c \in Callers : caller[c].stage = "waiting" =>
           /\ scheduler \in {"idle", "busy"} /\ ~shutdown
           /\ \/ scheduler = "busy" /\ job.caller = c
              \/ \E i \in DOMAIN commands : IsBus(i) /\ commands[i].caller = c
           /\ \A i, j \in DOMAIN commands :
                IsBus(i) /\ IsBus(j) /\ commands[i].caller = c /\ commands[j].caller = c => i = j
           /\ scheduler = "busy" /\ job.caller = c =>
                \A i \in DOMAIN commands : IsBus(i) => commands[i].caller # c)
  <1> DEFINE Served ==
        \A c \in Callers : caller[c].stage = "waiting" =>
           /\ scheduler \in {"idle", "busy"} /\ ~shutdown
           /\ \/ scheduler = "busy" /\ job.caller = c
              \/ \E i \in DOMAIN commands : IsBus(i) /\ commands[i].caller = c
           /\ \A i, j \in DOMAIN commands :
                IsBus(i) /\ IsBus(j) /\ commands[i].caller = c /\ commands[j].caller = c => i = j
           /\ scheduler = "busy" /\ job.caller = c =>
                \A i \in DOMAIN commands : IsBus(i) => commands[i].caller # c
  <1>1. EngineTypeOK /\ CallsInHand => Served
    BY WhileWaiting DEF CallsInHand, OneCommandEach
  <1> HIDE DEF Served
  <1>2. EngineSpec => []Served
    BY <1>1, InitialPresence, StepType, StepInHand, PTL DEF EngineSpec
  <1>3. QED
    BY <1>2 DEF Served

\* The events of a device alternate and tell what the reader last saw, and no device is told
\* alive that has not spoken and was not asked about (reader_loop, handle_frame).
THEOREM PresenceIsTold == EngineSpec => []PresenceAlternates
  BY InitialPresence, StepType, StepInHand, StepHeard, StepPresence, PTL DEF EngineSpec
=============================================================================
