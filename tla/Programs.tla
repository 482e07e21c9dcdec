------------------------------ MODULE Programs ------------------------------
(***************************************************************************)
(* The programs of one host as they start, share the bus and end: the      *)
(* Signal K daemon, the terminal interface with its mapping editor, and    *)
(* the tools (masterbus-dump, masterbus-set-field); config.ini, the host's *)
(* or an account's own, made by whoever finds none (settings.rs), and      *)
(* relay.json, in which a daemon says where its connection can be joined   *)
(* (core api.rs, relay.rs).  What the relay does with frames is in Links.  *)
(*                                                                         *)
(* Any of them may stop or be killed at every step.                        *)
(***************************************************************************)
EXTENDS Integers, FiniteSets, Sequences

CONSTANTS Daemons, Editors, Tools,   \* the programs, by what they do first
          Accounts,                  \* whom they may run as
          Trusted,                   \* those who may write the host's own directories
          MaxStarts                  \* bound

Programs == Daemons \cup Editors \cup Tools
ASSUME ProgramsAssumption ==
  /\ Daemons \cap (Editors \cup Tools) = {} /\ Editors \cap Tools = {}
  /\ Trusted \subseteq Accounts /\ IsFiniteSet(Programs)

VARIABLES
  account,      \* whom each program runs as
  exclusive,    \* a USB link, which one process can hold; else a CAN interface
  config,       \* each directory's config.ini
  program,      \* each program
  relayFile,    \* whose relay each directory's relay.json announces
  starts,
  overlapped    \* history: two programs were making the file, or an id for it, at once

programsVars ==
  <<account, exclusive, config, program, relayFile, starts, overlapped>>
hostVars == <<account, exclusive>>

(* The host's directories and each account's own, for the config file and  *)
(* the schema cache, in which a relay is announced.                        *)
Host == "host"
Directories == {Host} \cup Accounts
Nobody == <<"nobody", 0>>

Stopped == [step |-> "off", run |-> 0, file |-> FALSE, loads |-> 0, master |-> FALSE,
            id |-> 0, kept |-> FALSE, cache |-> {}, wire |-> "none", path |-> Host]

(* A file says whether this host announces itself as bus master; an old    *)
(* one has no BusID yet.  The old ones here want the API open to others.   *)
NoFile == [is |-> "absent", master |-> FALSE, ids |-> <<>>, api |-> "off", token |-> FALSE]
OldFiles == {[is |-> "whole", master |-> m, ids |-> <<>>, api |-> "anywhere", token |-> FALSE] :
               m \in BOOLEAN}

ProgramsInit ==
  /\ account \in [Programs -> Accounts] /\ exclusive \in BOOLEAN
  /\ \E old \in {NoFile} \cup OldFiles :
       config = [d \in Directories |-> IF d = Host THEN old ELSE NoFile]
  /\ program = [p \in Programs |-> Stopped]
  /\ relayFile = [d \in Directories |-> Nobody]
  /\ starts = 0 /\ overlapped = FALSE

Step(p, step) == program[p].step = step
Becomes(p, new) == program' = [program EXCEPT ![p] = new]
Stop(p) == Becomes(p, Stopped)

Running == {p \in Programs : program[p].step = "running"}
HoldsLink(p) == program[p].wire = "own"

-----------------------------------------------------------------------------
(* The config file.                                                        *)

(* A daemon wants its settings from it, an editor the place of the mapping *)
(* beside it, and then every program the way to the bus.                   *)
Start(p) ==
  /\ Step(p, "off") /\ starts < MaxStarts
  /\ starts' = starts + 1
  /\ Becomes(p, [Stopped EXCEPT !.step = "load", !.run = starts',
                                !.loads = IF p \in Tools THEN 1 ELSE 2])
  /\ UNCHANGED <<hostVars, config, relayFile, overlapped>>

(* resolve_path: the host's file, if there is one or it can be made.       *)
PathOf(p) == IF config[Host].is # "absent" \/ account[p] \in Trusted THEN Host ELSE account[p]
IniFile(p) == config[program[p].path]

AfterLoad(p) == IF program[p].loads = 2 THEN "settings" ELSE "connect"

(* The directory for the schema cache, which a relay is announced in too:  *)
(* the one in the file if this account may write it, else its own.         *)
CacheOf(p) == IF account[p] \in Trusted THEN {Host} ELSE {account[p]}

FromFile(p, ids, kept) ==
  Becomes(p, [program[p] EXCEPT !.step = AfterLoad(p), !.file = TRUE, !.master = IniFile(p).master,
                                !.id = IF kept THEN ids[Len(ids)] ELSE @, !.kept = kept,
                                !.cache = CacheOf(p)])

(* An editor cannot do without; the others find out when they connect.     *)
LoadFails(p) ==
  IF p \in Editors /\ program[p].loads = 2
  THEN Stop(p)
  ELSE Becomes(p, [program[p] EXCEPT !.step = AfterLoad(p), !.file = FALSE])

FindFile(p) ==
  /\ Step(p, "load")
  /\ Becomes(p, [program[p] EXCEPT !.step = "read", !.path = PathOf(p)])
  /\ UNCHANGED <<hostVars, config, relayFile, starts, overlapped>>

(* Without a file, the hardware tells the way to the bus; a USB link may   *)
(* be plugged in or out at any time, and several CAN interfaces are none.  *)
Autodetect(p) == Becomes(p, [program[p] EXCEPT !.step = "create"]) \/ LoadFails(p)

Load(p) ==
  /\ Step(p, "read")
  /\ LET ini == IniFile(p)
     IN CASE ini.is = "absent" -> Autodetect(p)
          [] ini.is = "torn" -> LoadFails(p)
          [] ini.is = "whole" /\ ini.ids # <<>> -> FromFile(p, ini.ids, TRUE)
          [] OTHER -> Becomes(p, [program[p] EXCEPT !.step = "append"])
  /\ UNCHANGED <<hostVars, config, relayFile, starts, overlapped>>

Making(path) ==
  {p \in Programs : program[p].path = path /\ program[p].step \in {"create", "fill", "append"}}
Overlap(p) == overlapped' = (overlapped \/ Cardinality(Making(program[p].path)) > 1)

CreateFile(p) ==
  /\ Step(p, "create")
  /\ config' = [config EXCEPT ![program[p].path] = [NoFile EXCEPT !.is = "torn"]]
  /\ Becomes(p, [program[p] EXCEPT !.step = "fill"])
  /\ Overlap(p)
  /\ UNCHANGED <<hostVars, relayFile, starts>>

FillFile(p) ==
  /\ Step(p, "fill")
  /\ config' = [config EXCEPT ![program[p].path] =
                  [NoFile EXCEPT !.is = "whole", !.ids = <<program[p].run>>]]
  /\ Becomes(p, [program[p] EXCEPT !.step = AfterLoad(p), !.file = TRUE, !.master = FALSE,
                                   !.id = program[p].run, !.kept = TRUE, !.cache = CacheOf(p)])
  /\ Overlap(p)
  /\ UNCHANGED <<hostVars, relayFile, starts>>

(* add_bus_id: a file that cannot be written keeps none, and the engine    *)
(* makes up an id for this run.                                            *)
AppendBusId(p) ==
  /\ Step(p, "append")
  /\ \/ /\ config' = [config EXCEPT ![program[p].path].ids = Append(@, program[p].run)]
        /\ FromFile(p, <<program[p].run>>, TRUE)
     \/ /\ account[p] \notin Trusted /\ UNCHANGED config
        /\ FromFile(p, <<>>, FALSE)
  /\ Overlap(p)
  /\ UNCHANGED <<hostVars, relayFile, starts>>

-----------------------------------------------------------------------------
(* The daemon's settings: the command line, else the file, else defaults.  *)
(* An API that others than this host can reach wants a token.              *)
TakeSettings(p) ==
  /\ Step(p, "settings")
  /\ \E api \in {"unsaid", "loopback", "anywhere"}, tokenFile \in {"unsaid", "good", "bad"} :
       LET saysApi == IF api # "unsaid" THEN api ELSE IF program[p].file THEN IniFile(p).api ELSE "off"
           saysToken == IF tokenFile # "unsaid" THEN tokenFile = "good"
                        ELSE program[p].file /\ IniFile(p).token
       IN IF p \in Daemons /\ (tokenFile = "bad" \/ (saysApi = "anywhere" /\ ~saysToken))
          THEN Stop(p)
          ELSE Becomes(p, [program[p] EXCEPT !.step = "load", !.loads = 1, !.file = FALSE,
                                             !.id = 0, !.kept = FALSE, !.master = FALSE,
                                             !.cache = {}])
  /\ UNCHANGED <<hostVars, config, relayFile, starts, overlapped>>

-----------------------------------------------------------------------------
(* The way to the bus.                                                     *)

(* Where a relay is looked for: the cache directory in use, then the       *)
(* account's own; without the file, only there.                            *)
LooksIn(p) == (IF program[p].file THEN program[p].cache ELSE {}) \cup {account[p]}

(* A relay lets in whoever has its token.  A file left behind leads to     *)
(* nobody, or to a relay with another token.                               *)
Relays(p) ==
  {d \in Daemons : program[d].wire = "own" /\ program[d].step \in {"announced", "running"}
                   /\ \E dir \in LooksIn(p) : relayFile[dir] = <<d, program[d].run>>}

(* For comparison: a joined process keeps announcing itself as master. *)
JoinedTransportStaysMaster(p) ==
  /\ Step(p, "connect") /\ p \notin Daemons /\ Relays(p) # {}
  /\ Becomes(p, [program[p] EXCEPT !.step = "running", !.wire = "relay"])
  /\ UNCHANGED <<hostVars, config, relayFile, starts, overlapped>>

(* joined_transport: whoever joins leaves it to the daemon to be master.   *)
JoinedTransport(p) ==
  /\ Step(p, "connect") /\ p \notin Daemons /\ Relays(p) # {}
  /\ Becomes(p, [program[p] EXCEPT !.step = "running", !.wire = "relay", !.master = FALSE])
  /\ UNCHANGED <<hostVars, config, relayFile, starts, overlapped>>

(* open_file_transport, if there is a file and the link can be opened.     *)
OwnTransport(p) ==
  /\ Step(p, "connect") /\ (p \in Daemons \/ Relays(p) = {})
  /\ IF program[p].file /\ ~(exclusive /\ \E q \in Programs : HoldsLink(q))
     THEN Becomes(p, [program[p] EXCEPT !.wire = "own",
                        !.step = IF p \in Daemons THEN "announce" ELSE "running"])
     ELSE Stop(p)
  /\ UNCHANGED <<hostVars, config, relayFile, starts, overlapped>>

(* auto_shared: the relay is announced before the engine connects; a       *)
(* warning is all that comes of a directory that cannot be written.        *)
Announce(p) ==
  /\ Step(p, "announce")
  /\ relayFile' \in {relayFile} \cup
       {[relayFile EXCEPT ![d] = <<p, program[p].run>>] : d \in program[p].cache}
  /\ Becomes(p, [program[p] EXCEPT !.step = "announced"])
  /\ UNCHANGED <<hostVars, config, starts, overlapped>>

EngineConnects(p) ==
  /\ Step(p, "announced")
  /\ Becomes(p, [program[p] EXCEPT !.step = "running"])
  /\ UNCHANGED <<hostVars, config, relayFile, starts, overlapped>>

(* At any step, which leaves the files as they are.                        *)
Ends(p) ==
  /\ ~Step(p, "off")
  /\ Stop(p)
  /\ UNCHANGED <<hostVars, config, relayFile, starts, overlapped>>

ProgramsNext ==
  \E p \in Programs :
    \/ Start(p) \/ FindFile(p) \/ Load(p) \/ CreateFile(p) \/ FillFile(p) \/ AppendBusId(p)
    \/ TakeSettings(p) \/ JoinedTransport(p) \/ OwnTransport(p)
    \/ Announce(p) \/ EngineConnects(p) \/ Ends(p)

ProgramsSpec == ProgramsInit /\ [][ProgramsNext]_programsVars

-----------------------------------------------------------------------------

Masters == {p \in Running : program[p].master}

(* However the programs of a host start, stop, are killed and share the    *)
(* bus: on a link one process can hold, at most one of them announces      *)
(* itself as bus master, and none that has joined another's connection     *)
(* does; and all that took their BusID from a file have the one that the   *)
(* next to read it will have, unless two of them made it at the same time  *)
(* (core api.rs auto_joined, settings.rs add_bus_id).                      *)
OneHostOnTheBus ==
  /\ exclusive => Cardinality(Masters) <= 1
  /\ \A p \in Masters : HoldsLink(p)
  /\ \A p \in Running :
       program[p].kept /\ ~overlapped =>
         IniFile(p).ids # <<>> /\ program[p].id = IniFile(p).ids[Len(IniFile(p).ids)]
=============================================================================
