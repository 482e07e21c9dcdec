--------------------------- MODULE Programs_proofs ---------------------------
(***************************************************************************)
(* Proofs about Programs, for any finite set of programs, any accounts and *)
(* directories, and any number of starts; and about Daemon, for any finite *)
(* set of devices, any mappings, and any number of requests and edits.     *)
(***************************************************************************)
EXTENDS Programs, Daemon, FiniteSetTheorems, SequenceTheorems, TLAPS

-----------------------------------------------------------------------------
(* Types.                                                                  *)

Steps == {"off", "load", "read", "create", "fill", "append", "settings", "connect",
          "announce", "announced", "running"}
Files == [is : {"absent", "torn", "whole"}, master : BOOLEAN, ids : Seq(Nat),
          api : {"off", "anywhere"}, token : BOOLEAN]
Processes == [step : Steps, run : Nat, file : BOOLEAN, loads : Nat, master : BOOLEAN, id : Nat,
              kept : BOOLEAN, cache : SUBSET Directories, wire : {"none", "own", "relay"},
              path : Directories]

ProgramsTypeOK ==
  /\ account \in [Programs -> Accounts] /\ exclusive \in BOOLEAN
  /\ config \in [Directories -> Files]
  /\ program \in [Programs -> Processes]
  /\ starts \in Nat /\ overlapped \in BOOLEAN

-----------------------------------------------------------------------------
(* The inductive invariant.                                                *)

\* Who announces itself or runs is connected; on a link that one process can hold
\* one holds it at most; and who has joined a relay is no master.
OnTheBus ==
  /\ \A p \in Programs :
       /\ program[p].step \in {"announce", "announced"} => HoldsLink(p)
       /\ program[p].step = "running" => HoldsLink(p) \/ ~program[p].master
  /\ exclusive => \A p, q \in Programs : HoldsLink(p) /\ HoldsLink(q) => p = q

\* Unless two programs were making it at once, the file is as who makes it has found it.
Found(step, ini) ==
  /\ step = "create" => ini.is = "absent"
  /\ step = "fill" => ini.is = "torn"
  /\ step = "append" => ini.is = "whole" /\ ini.ids = <<>>

\* The BusID taken from a file is the last of the file.
HasLast(id, ini) == ini.ids # <<>> /\ id = ini.ids[Len(ini.ids)]

Early == {"off", "load", "read", "create", "fill", "append"}

OfTheFile ==
  /\ ~overlapped => \A d \in Directories : config[d].is # "whole" => config[d].ids = <<>>
  /\ \A p \in Programs : program[p].step \in Early => ~program[p].kept
  /\ ~overlapped => \A p \in Programs : Found(program[p].step, IniFile(p))
  /\ ~overlapped => \A p \in Programs : program[p].kept => HasLast(program[p].id, IniFile(p))

-----------------------------------------------------------------------------
(* What a step that leaves the files as they are may make of a program.    *)

Allowed(p, new) ==
  /\ new \in Processes
  /\ new.step \in {"announce", "announced"} => new.wire = "own"
  /\ new.step = "running" => new.wire = "own" \/ ~new.master
  /\ new.wire = "own" => HoldsLink(p) \/ ~(exclusive /\ \E q \in Programs : HoldsLink(q))

Faithful(new) ==
  /\ new.step \in Early => ~new.kept
  /\ ~overlapped => Found(new.step, config[new.path])
  /\ ~overlapped /\ new.kept => HasLast(new.id, config[new.path])

LEMMA StoppedIsAllowed ==
    ASSUME NEW p \in Programs
    PROVE  Allowed(p, Stopped) /\ Faithful(Stopped)
  BY DEF Allowed, Faithful, Stopped, Processes, Steps, Directories, Found, Early

\* What a program may become when nothing but its step and what it has read changes.
LEMMA FailedLoadIsAllowed ==
    ASSUME ProgramsTypeOK, OnTheBus, OfTheFile, NEW p \in Programs, program[p].step = "read",
           LoadFails(p)
    PROVE  \E new : /\ program' = [program EXCEPT ![p] = new]
                    /\ Allowed(p, new) /\ Faithful(new)
  <1>1. CASE p \in Editors /\ program[p].loads = 2
    BY <1>1, StoppedIsAllowed DEF LoadFails, Stop, Becomes
  <1>2. CASE ~(p \in Editors /\ program[p].loads = 2)
    <2> DEFINE new == [program[p] EXCEPT !.step = AfterLoad(p), !.file = FALSE]
    <2>1. program[p] \in Processes /\ ~program[p].kept
      BY DEF ProgramsTypeOK, OfTheFile, Early
    <2>2. AfterLoad(p) \in {"settings", "connect"}
      BY DEF AfterLoad
    <2>3. /\ new \in Processes /\ new.step = AfterLoad(p) /\ new.wire = program[p].wire
          /\ ~new.kept
      BY <2>1, <2>2 DEF Processes, Steps
    <2>4. program' = [program EXCEPT ![p] = new]
      BY <1>2 DEF LoadFails, Becomes
    <2>5. Allowed(p, new) /\ Faithful(new)
      BY <2>2, <2>3 DEF Allowed, Faithful, HoldsLink, Found
    <2>6. QED
      BY <2>4, <2>5
  <1>3. QED
    BY <1>1, <1>2

\* A program that has its settings from the file has the file's last BusID, if any.
LEMMA FromFileIsAllowed ==
    ASSUME ProgramsTypeOK, NEW p \in Programs, program[p].step \in {"read", "append"},
           NEW ids \in Seq(Nat), NEW kept \in BOOLEAN, FromFile(p, ids, kept),
           kept => ids # <<>>, ~kept => ~program[p].kept
    PROVE  \E new : /\ program' = [program EXCEPT ![p] = new]
                    /\ Allowed(p, new)
                    /\ new.step \in {"settings", "connect"} /\ new.path = program[p].path
                    /\ new.kept = kept /\ (new.kept => HasLast(new.id, [ids |-> ids]))
  <1> DEFINE new == [program[p] EXCEPT !.step = AfterLoad(p), !.file = TRUE,
                       !.master = IniFile(p).master, !.id = IF kept THEN ids[Len(ids)] ELSE @,
                       !.kept = kept, !.cache = CacheOf(p)]
  <1>1. /\ program[p] \in Processes /\ program[p].path \in Directories
        /\ IniFile(p) \in Files /\ account[p] \in Accounts
    BY DEF ProgramsTypeOK, Processes, IniFile
  <1>2. AfterLoad(p) \in {"settings", "connect"} /\ CacheOf(p) \in SUBSET Directories
    BY <1>1 DEF AfterLoad, CacheOf, Directories
  <1>3. kept => ids[Len(ids)] \in Nat
    <2> SUFFICES ASSUME kept PROVE ids[Len(ids)] \in Nat
      OBVIOUS
    <2>1. Len(ids) \in 1..Len(ids)
      BY EmptySeq
    <2>2. QED
      BY <2>1, ElementOfSeq
  <1>4. /\ new \in Processes /\ new.step = AfterLoad(p) /\ new.wire = program[p].wire
        /\ new.kept = kept /\ new.path = program[p].path
        /\ kept => new.id = ids[Len(ids)]
    <2>1. IniFile(p).master \in BOOLEAN
      BY <1>1 DEF Files
    <2>2. (IF kept THEN ids[Len(ids)] ELSE program[p].id) \in Nat
      BY <1>1, <1>3 DEF Processes
    <2>3. "settings" \in Steps /\ "connect" \in Steps
      BY DEF Steps
    <2>4. QED
      BY <1>1, <1>2, <2>1, <2>2, <2>3 DEF Processes
  <1>5. program' = [program EXCEPT ![p] = new]
    BY DEF FromFile, Becomes
  <1> HIDE DEF new
  <1>6. Allowed(p, new)
    BY <1>2, <1>4 DEF Allowed, HoldsLink
  <1>7. new.kept => HasLast(new.id, [ids |-> ids])
    BY <1>4 DEF HasLast
  <1>8. QED
    BY <1>2, <1>4, <1>5, <1>6, <1>7

\* Load, where the file is not made.
LEMMA LoadIsAllowed ==
    ASSUME ProgramsTypeOK, OnTheBus, OfTheFile, NEW p \in Programs, Load(p)
    PROVE  \E new : /\ program' = [program EXCEPT ![p] = new]
                    /\ Allowed(p, new) /\ Faithful(new)
  <1> DEFINE ini == IniFile(p)
  <1>1. /\ program[p] \in Processes /\ program[p].step = "read" /\ ~program[p].kept
        /\ ini \in Files /\ ini = config[program[p].path]
    BY DEF ProgramsTypeOK, Processes, Load, Step, OfTheFile, Early, IniFile
  <1>2. ASSUME NEW step \in {"create", "append"}, Found(step, ini),
               Becomes(p, [program[p] EXCEPT !.step = step])
        PROVE  \E new : /\ program' = [program EXCEPT ![p] = new]
                        /\ Allowed(p, new) /\ Faithful(new)
    <2> DEFINE new == [program[p] EXCEPT !.step = step]
    <2>1. /\ new \in Processes /\ new.step = step /\ new.wire = program[p].wire /\ ~new.kept
          /\ new.path = program[p].path
      BY <1>1 DEF Processes, Steps
    <2>2. program' = [program EXCEPT ![p] = new]
      BY <1>2 DEF Becomes
    <2> HIDE DEF new
    <2>3. Allowed(p, new) /\ Faithful(new)
      BY <1>1, <1>2, <2>1 DEF Allowed, Faithful, HoldsLink
    <2>4. QED
      BY <2>2, <2>3
  <1>3. CASE ini.is = "absent"
    <2>1. Becomes(p, [program[p] EXCEPT !.step = "create"]) \/ LoadFails(p)
      BY <1>3 DEF Load, Autodetect
    <2>2. Found("create", ini)
      BY <1>3 DEF Found
    <2>3. QED
      BY <1>1, <1>2, <2>1, <2>2, FailedLoadIsAllowed
  <1>4. CASE ini.is = "torn"
    <2>1. LoadFails(p)
      BY <1>4 DEF Load
    <2>2. QED
      BY <1>1, <2>1, FailedLoadIsAllowed
  <1>5. CASE ini.is = "whole" /\ ini.ids # <<>>
    <2>1. FromFile(p, ini.ids, TRUE) /\ ini.ids \in Seq(Nat)
      BY <1>1, <1>5 DEF Load, Files
    <2>2. PICK new : /\ program' = [program EXCEPT ![p] = new]
                     /\ Allowed(p, new)
                     /\ new.step \in {"settings", "connect"} /\ new.path = program[p].path
                     /\ new.kept => HasLast(new.id, [ids |-> ini.ids])
      BY <1>1, <1>5, <2>1, FromFileIsAllowed
    <2>3. Faithful(new)
      BY <1>1, <2>2 DEF Faithful, Early, Found, HasLast
    <2>4. QED
      BY <2>2, <2>3
  <1>6. CASE ini.is = "whole" /\ ini.ids = <<>>
    <2>1. Becomes(p, [program[p] EXCEPT !.step = "append"])
      BY <1>6 DEF Load
    <2>2. Found("append", ini)
      BY <1>6 DEF Found
    <2>3. QED
      BY <1>2, <2>1, <2>2
  <1>7. QED
    BY <1>1, <1>3, <1>4, <1>5, <1>6 DEF Files

LEMMA StartIsAllowed ==
    ASSUME ProgramsTypeOK, OnTheBus, OfTheFile, NEW p \in Programs,
           Start(p) \/ FindFile(p) \/ TakeSettings(p) \/ Ends(p)
    PROVE  /\ \E new : /\ program' = [program EXCEPT ![p] = new]
                       /\ Allowed(p, new) /\ Faithful(new)
           /\ starts' \in Nat
  <1>1. program[p] \in Processes /\ starts \in Nat /\ account[p] \in Accounts
    BY DEF ProgramsTypeOK
  <1>2. CASE Start(p)
    <2> DEFINE new == [Stopped EXCEPT !.step = "load", !.run = starts + 1,
                                      !.loads = IF p \in Tools THEN 1 ELSE 2]
    <2>1. starts' = starts + 1 /\ program' = [program EXCEPT ![p] = new]
      BY <1>2 DEF Start, Becomes
    <2>2. /\ new \in Processes /\ new.step = "load" /\ ~new.kept /\ new.wire = "none"
      <3>1. Stopped \in Processes /\ ~Stopped.kept /\ Stopped.wire = "none"
        BY DEF Stopped, Processes, Steps, Directories
      <3>2. starts + 1 \in Nat /\ (IF p \in Tools THEN 1 ELSE 2) \in Nat
        BY <1>1
      <3>3. QED
        BY <3>1, <3>2 DEF Processes, Steps
    <2> HIDE DEF new
    <2>3. Allowed(p, new) /\ Faithful(new)
      BY <2>2 DEF Allowed, Faithful, Found
    <2>4. starts' \in Nat
      BY <1>1, <2>1
    <2>5. QED
      BY <2>1, <2>3, <2>4
  <1>3. CASE FindFile(p)
    <2> DEFINE new == [program[p] EXCEPT !.step = "read", !.path = PathOf(p)]
    <2>1. program' = [program EXCEPT ![p] = new] /\ program[p].step = "load" /\ starts' = starts
      BY <1>3 DEF FindFile, Becomes, Step
    <2>2. PathOf(p) \in Directories
      BY <1>1 DEF PathOf, Directories
    <2>3. ~program[p].kept
      BY <2>1 DEF OfTheFile, Early
    <2>4. new \in Processes /\ new.step = "read" /\ ~new.kept /\ new.wire = program[p].wire
      BY <1>1, <2>2, <2>3 DEF Processes, Steps
    <2> HIDE DEF new
    <2>5. Allowed(p, new) /\ Faithful(new)
      BY <2>4 DEF Allowed, Faithful, Found, HoldsLink
    <2>6. QED
      BY <1>1, <2>1, <2>5
  <1>4. CASE TakeSettings(p)
    <2> DEFINE new == [program[p] EXCEPT !.step = "load", !.loads = 1, !.file = FALSE, !.id = 0,
                                         !.kept = FALSE, !.master = FALSE, !.cache = {}]
    <2>1. starts' = starts /\ (Stop(p) \/ program' = [program EXCEPT ![p] = new])
      BY <1>4 DEF TakeSettings, Becomes
    <2>2. new \in Processes /\ new.step = "load" /\ ~new.kept /\ new.wire = program[p].wire
      BY <1>1 DEF Processes, Steps
    <2> HIDE DEF new
    <2>3. Allowed(p, new) /\ Faithful(new)
      BY <2>2 DEF Allowed, Faithful, Found, HoldsLink
    <2>4. QED
      BY <1>1, <2>1, <2>3, StoppedIsAllowed DEF Stop, Becomes
  <1>5. CASE Ends(p)
    BY <1>1, <1>5, StoppedIsAllowed DEF Ends, Stop, Becomes
  <1>6. QED
    BY <1>2, <1>3, <1>4, <1>5

LEMMA ConnectIsAllowed ==
    ASSUME ProgramsTypeOK, OnTheBus, OfTheFile, NEW p \in Programs,
           JoinedTransport(p) \/ OwnTransport(p) \/ Announce(p) \/ EngineConnects(p)
    PROVE  \E new : /\ program' = [program EXCEPT ![p] = new]
                    /\ Allowed(p, new) /\ Faithful(new)
  <1>1. /\ program[p] \in Processes
        /\ ~overlapped /\ program[p].kept => HasLast(program[p].id, config[program[p].path])
    BY DEF ProgramsTypeOK, OfTheFile, IniFile
  \* Only its step, its wire and whether it is master change.
  <1>2. ASSUME NEW new \in Processes, new.step \in {"announce", "announced", "running"},
               new.id = program[p].id, new.kept = program[p].kept, new.path = program[p].path
        PROVE  Faithful(new)
    BY <1>1, <1>2 DEF Faithful, Found, Early
  <1>3. CASE JoinedTransport(p)
    <2> DEFINE new == [program[p] EXCEPT !.step = "running", !.wire = "relay", !.master = FALSE]
    <2>1. program' = [program EXCEPT ![p] = new]
      BY <1>3 DEF JoinedTransport, Becomes
    <2>2. /\ new \in Processes /\ new.step = "running" /\ ~new.master /\ new.wire = "relay"
          /\ new.id = program[p].id /\ new.kept = program[p].kept /\ new.path = program[p].path
      BY <1>1 DEF Processes, Steps
    <2> HIDE DEF new
    <2>3. Allowed(p, new) /\ Faithful(new)
      BY <1>2, <2>2 DEF Allowed
    <2>4. QED
      BY <2>1, <2>3
  <1>4. CASE OwnTransport(p)
    <2> DEFINE step == IF p \in Daemons THEN "announce" ELSE "running"
               new == [program[p] EXCEPT !.wire = "own", !.step = step]
    <2>1. \/ Stop(p)
          \/ /\ program' = [program EXCEPT ![p] = new]
             /\ ~(exclusive /\ \E q \in Programs : HoldsLink(q))
      BY <1>4 DEF OwnTransport, Becomes
    <2>2. /\ new \in Processes /\ new.step = step /\ new.wire = "own"
          /\ new.id = program[p].id /\ new.kept = program[p].kept /\ new.path = program[p].path
      BY <1>1 DEF Processes, Steps
    <2>3. CASE Stop(p)
      BY <2>3, StoppedIsAllowed DEF Stop, Becomes
    <2>4. CASE ~Stop(p)
      <3>1. step \in {"announce", "announced", "running"}
        OBVIOUS
      <3> HIDE DEF new, step
      <3>2. Allowed(p, new) /\ Faithful(new)
        BY <1>2, <2>1, <2>2, <2>4, <3>1 DEF Allowed
      <3>3. QED
        BY <2>1, <2>4, <3>2
    <2>5. QED
      BY <2>3, <2>4
  <1>5. ASSUME NEW step \in {"announced", "running"}, HoldsLink(p),
               Becomes(p, [program[p] EXCEPT !.step = step])
        PROVE  \E new : /\ program' = [program EXCEPT ![p] = new]
                        /\ Allowed(p, new) /\ Faithful(new)
    <2> DEFINE new == [program[p] EXCEPT !.step = step]
    <2>1. /\ new \in Processes /\ new.step = step /\ new.wire = program[p].wire
          /\ new.id = program[p].id /\ new.kept = program[p].kept /\ new.path = program[p].path
      BY <1>1 DEF Processes, Steps
    <2>2. program' = [program EXCEPT ![p] = new]
      BY <1>5 DEF Becomes
    <2> HIDE DEF new
    <2>3. Allowed(p, new) /\ Faithful(new)
      BY <1>2, <1>5, <2>1 DEF Allowed, HoldsLink
    <2>4. QED
      BY <2>2, <2>3
  <1>6. CASE Announce(p) \/ EngineConnects(p)
    BY <1>5, <1>6 DEF Announce, EngineConnects, Step, OnTheBus
  <1>7. QED
    BY <1>3, <1>4, <1>6

-----------------------------------------------------------------------------
(* The steps.                                                              *)

LEMMA ChangedProgram ==
    ASSUME ProgramsTypeOK, NEW p \in Programs, NEW new,
           program' = [program EXCEPT ![p] = new]
    PROVE  program'[p] = new /\ \A q \in Programs \ {p} : program'[q] = program[q]
  BY DEF ProgramsTypeOK

LEMMA AllowedStep ==
    ASSUME ProgramsTypeOK, OnTheBus, NEW p \in Programs, NEW new, Allowed(p, new),
           program' = [program EXCEPT ![p] = new], UNCHANGED exclusive
    PROVE  OnTheBus' /\ program' \in [Programs -> Processes]
  <1>1. program'[p] = new /\ \A q \in Programs \ {p} : program'[q] = program[q]
    BY ChangedProgram
  <1>2. ASSUME NEW q \in Programs
        PROVE  /\ program'[q].step \in {"announce", "announced"} => HoldsLink(q)'
               /\ program'[q].step = "running" => HoldsLink(q)' \/ ~program'[q].master
    BY <1>1 DEF Allowed, OnTheBus, HoldsLink
  <1>3. ASSUME exclusive', NEW q \in Programs, NEW r \in Programs, HoldsLink(q)', HoldsLink(r)'
        PROVE  q = r
    BY <1>1, <1>3 DEF Allowed, OnTheBus, HoldsLink
  <1>4. program' \in [Programs -> Processes]
    BY DEF Allowed, ProgramsTypeOK
  <1>5. QED
    BY <1>2, <1>3, <1>4 DEF OnTheBus

LEMMA FaithfulStep ==
    ASSUME ProgramsTypeOK, OfTheFile, NEW p \in Programs, NEW new, Faithful(new),
           program' = [program EXCEPT ![p] = new], UNCHANGED <<config, overlapped>>
    PROVE  OfTheFile'
  <1>1. program'[p] = new /\ \A q \in Programs \ {p} : program'[q] = program[q]
    BY ChangedProgram
  <1>2. ASSUME NEW q \in Programs
        PROVE  /\ program'[q].step \in Early => ~program'[q].kept
               /\ ~overlapped' => Found(program'[q].step, IniFile(q)')
               /\ ~overlapped' /\ program'[q].kept => HasLast(program'[q].id, IniFile(q)')
    <2>1. CASE q = p
      BY <1>1, <2>1 DEF Faithful, IniFile
    <2>2. CASE q # p
      <3>1. program'[q] = program[q] /\ IniFile(q)' = IniFile(q)
        BY <1>1, <2>2 DEF IniFile
      <3>2. QED
        BY <3>1 DEF OfTheFile
    <2>3. QED
      BY <2>1, <2>2
  <1>3. QED
    BY <1>2 DEF OfTheFile

\* Whoever makes the file, or an id for it, while another does is seen to overlap.
LEMMA TwoOverlap ==
    ASSUME NEW p \in Programs, NEW q \in Programs, p # q, NEW path, Overlap(p),
           p \in Making(path), q \in Making(path), program[p].path = path
    PROVE  overlapped'
  <1>1. IsFiniteSet(Making(path))
    BY ProgramsAssumption, FS_Subset DEF Making
  <1>2. Cardinality({p, q}) = 2 /\ IsFiniteSet({p, q})
    <2>1. IsFiniteSet({q}) /\ Cardinality({q}) = 1 /\ p \notin {q}
      BY FS_Singleton
    <2>2. {p, q} = {q} \cup {p}
      OBVIOUS
    <2>3. IsFiniteSet({q} \cup {p}) /\ Cardinality({q} \cup {p}) = 1 + 1
      BY <2>1, FS_AddElement
    <2>4. QED
      BY <2>2, <2>3
  <1>3. Cardinality({p, q}) <= Cardinality(Making(path)) /\ Cardinality(Making(path)) \in Nat
    BY <1>1, FS_Subset, FS_CardinalityType
  <1>4. Cardinality(Making(program[p].path)) > 1
    BY <1>2, <1>3
  <1>5. QED
    BY <1>4, Zenon DEF Overlap

\* A step that writes the file: nobody else has it in hand, nor an id from it, unless they overlap.
LEMMA WritingStep ==
    ASSUME ProgramsTypeOK, OfTheFile, NEW p \in Programs, NEW new \in Processes, NEW ini \in Files,
           program[p].step \in {"create", "fill", "append"},
           program' = [program EXCEPT ![p] = new],
           config' = [config EXCEPT ![program[p].path] = ini],
           Overlap(p), overlapped' \in BOOLEAN,
           new.path = program[p].path, Found(new.step, ini), new.step \in Early => ~new.kept,
           new.kept => HasLast(new.id, ini),
           ~overlapped => (ini.is # "whole" => ini.ids = <<>>)
    PROVE  OfTheFile'
  <1> DEFINE path == program[p].path
  <1>1. program'[p] = new /\ \A q \in Programs \ {p} : program'[q] = program[q]
    BY ChangedProgram
  <1>2. /\ path \in Directories /\ config \in [Directories -> Files]
        /\ config'[path] = ini /\ \A d \in Directories \ {path} : config'[d] = config[d]
    BY DEF ProgramsTypeOK, Processes
  <1>3. ~overlapped' => ~overlapped
    BY DEF Overlap
  <1>4. ~overlapped => config[path].ids = <<>>
    BY DEF OfTheFile, Found, IniFile, ProgramsTypeOK, Processes
  <1>5. p \in Making(path)
    BY DEF Making
  <1>6. ASSUME NEW q \in Programs \ {p}, ~overlapped', program[q].path = path
        PROVE  program[q].step \notin {"create", "fill", "append"} /\ ~program[q].kept
    <2>1. q \notin Making(path)
      BY <1>5, <1>6, TwoOverlap
    <2>2. ~HasLast(program[q].id, IniFile(q))
      BY <1>3, <1>4, <1>6 DEF HasLast, IniFile
    <2>3. QED
      BY <1>3, <1>6, <2>1, <2>2 DEF Making, OfTheFile
  <1>7. ASSUME NEW q \in Programs
        PROVE  /\ program'[q].step \in Early => ~program'[q].kept
               /\ ~overlapped' => Found(program'[q].step, IniFile(q)')
               /\ ~overlapped' /\ program'[q].kept => HasLast(program'[q].id, IniFile(q)')
    <2>1. CASE q = p
      BY <1>1, <1>2, <2>1 DEF IniFile
    <2>2. CASE q # p /\ program[q].path = path
      <3>1. program'[q] = program[q]
        BY <1>1, <2>2
      <3>2. QED
        BY <1>6, <2>2, <3>1 DEF OfTheFile, Found
    <2>3. CASE q # p /\ program[q].path # path
      <3>1. program'[q] = program[q] /\ program[q].path \in Directories
        BY <1>1, <2>3 DEF ProgramsTypeOK, Processes
      <3>2. IniFile(q)' = IniFile(q)
        BY <1>2, <2>3, <3>1 DEF IniFile
      <3>3. QED
        BY <1>3, <3>1, <3>2 DEF OfTheFile
    <2>4. QED
      BY <2>1, <2>2, <2>3
  <1>8. ~overlapped' => \A d \in Directories : config'[d].is # "whole" => config'[d].ids = <<>>
    BY <1>2, <1>3 DEF OfTheFile
  <1>9. QED
    BY <1>7, <1>8 DEF OfTheFile

ProgramsInv == ProgramsTypeOK /\ OnTheBus /\ OfTheFile

\* A step that writes the file does not change who holds the link.
LEMMA WritingKeepsBus ==
    ASSUME ProgramsTypeOK, OnTheBus, NEW p \in Programs, NEW new \in Processes,
           program' = [program EXCEPT ![p] = new], UNCHANGED exclusive,
           new.step \in {"fill", "settings", "connect"}, new.wire = program[p].wire
    PROVE  OnTheBus'
  BY AllowedStep DEF Allowed, HoldsLink

LEMMA CreateKeeps ==
    ASSUME ProgramsInv, NEW p \in Programs, CreateFile(p)
    PROVE  ProgramsInv'
  <1> DEFINE ini == [NoFile EXCEPT !.is = "torn"]
             new == [program[p] EXCEPT !.step = "fill"]
  <1>1. /\ program[p] \in Processes /\ program[p].step = "create" /\ ~program[p].kept
        /\ program[p].path \in Directories
    BY DEF ProgramsInv, ProgramsTypeOK, Processes, OfTheFile, CreateFile, Step, Early
  <1>2. ini \in Files /\ ini.is = "torn" /\ ini.ids = <<>>
    <2>1. <<>> \in Seq(Nat)
      OBVIOUS
    <2>2. QED
      BY <2>1 DEF NoFile, Files
  <1>3. /\ new \in Processes /\ new.step = "fill" /\ ~new.kept /\ new.path = program[p].path
        /\ new.wire = program[p].wire
    BY <1>1 DEF Processes, Steps
  <1>4. /\ program' = [program EXCEPT ![p] = new] /\ config' = [config EXCEPT ![program[p].path] = ini]
        /\ Overlap(p) /\ UNCHANGED <<account, exclusive, starts>>
    BY DEF CreateFile, Becomes, hostVars
  <1> HIDE DEF new, ini
  <1>5. overlapped' \in BOOLEAN
    BY <1>4 DEF Overlap, ProgramsInv, ProgramsTypeOK
  <1>6. ProgramsTypeOK'
    BY <1>1, <1>2, <1>3, <1>4, <1>5 DEF ProgramsInv, ProgramsTypeOK
  <1>7. OfTheFile'
    BY <1>1, <1>2, <1>3, <1>4, <1>5, WritingStep DEF ProgramsInv, Found
  <1>8. OnTheBus'
    BY <1>3, <1>4, WritingKeepsBus DEF ProgramsInv
  <1>9. QED
    BY <1>6, <1>7, <1>8 DEF ProgramsInv

LEMMA FillKeeps ==
    ASSUME ProgramsInv, NEW p \in Programs, FillFile(p)
    PROVE  ProgramsInv'
  <1> DEFINE run == program[p].run
             ini == [NoFile EXCEPT !.is = "whole", !.ids = <<run>>]
             new == [program[p] EXCEPT !.step = AfterLoad(p), !.file = TRUE, !.master = FALSE,
                       !.id = run, !.kept = TRUE, !.cache = CacheOf(p)]
  <1>1. /\ program[p] \in Processes /\ program[p].step = "fill" /\ run \in Nat
        /\ program[p].path \in Directories /\ account[p] \in Accounts
    BY DEF ProgramsInv, ProgramsTypeOK, Processes, FillFile, Step
  <1>2. ini \in Files /\ ini.is = "whole" /\ ini.ids = <<run>>
    <2>1. <<run>> \in Seq(Nat)
      BY <1>1
    <2>2. QED
      BY <2>1 DEF NoFile, Files
  <1>3. /\ new \in Processes /\ new.step \in {"settings", "connect"} /\ new.id = run
        /\ new.path = program[p].path /\ new.wire = program[p].wire
    <2>1. AfterLoad(p) \in {"settings", "connect"} /\ CacheOf(p) \in SUBSET Directories
      BY <1>1 DEF AfterLoad, CacheOf, Directories
    <2>2. "settings" \in Steps /\ "connect" \in Steps
      BY DEF Steps
    <2>3. QED
      BY <1>1, <2>1, <2>2 DEF Processes
  <1>4. /\ program' = [program EXCEPT ![p] = new] /\ config' = [config EXCEPT ![program[p].path] = ini]
        /\ Overlap(p) /\ UNCHANGED <<account, exclusive, starts>>
    BY DEF FillFile, Becomes, hostVars
  <1>5. HasLast(new.id, ini)
    BY <1>2, <1>3 DEF HasLast
  <1> HIDE DEF new, ini
  <1>6. overlapped' \in BOOLEAN
    BY <1>4 DEF Overlap, ProgramsInv, ProgramsTypeOK
  <1>7. ProgramsTypeOK'
    BY <1>1, <1>2, <1>3, <1>4, <1>6 DEF ProgramsInv, ProgramsTypeOK
  <1>8. OfTheFile'
    BY <1>1, <1>2, <1>3, <1>4, <1>5, <1>6, WritingStep DEF ProgramsInv, Found, Early
  <1>9. OnTheBus'
    BY <1>3, <1>4, WritingKeepsBus DEF ProgramsInv
  <1>10. QED
    BY <1>7, <1>8, <1>9 DEF ProgramsInv

LEMMA AppendKeeps ==
    ASSUME ProgramsInv, NEW p \in Programs, AppendBusId(p)
    PROVE  ProgramsInv'
  <1> DEFINE run == program[p].run
             old == config[program[p].path]
  <1>1. /\ program[p] \in Processes /\ program[p].step = "append" /\ run \in Nat
        /\ program[p].path \in Directories /\ ~program[p].kept /\ old \in Files
    BY DEF ProgramsInv, ProgramsTypeOK, Processes, AppendBusId, Step, OfTheFile, Early
  <1>2. /\ Overlap(p) /\ overlapped' \in BOOLEAN /\ (overlapped => overlapped')
        /\ UNCHANGED <<account, exclusive, starts>>
    BY DEF AppendBusId, Overlap, hostVars, ProgramsInv, ProgramsTypeOK
  <1>3. ASSUME NEW ini \in Files, NEW ids \in Seq(Nat), NEW kept \in BOOLEAN,
               config' = [config EXCEPT ![program[p].path] = ini], FromFile(p, ids, kept),
               kept => ids # <<>> /\ HasLast(ids[Len(ids)], ini),
               ~overlapped => (ini.is # "whole" => ini.ids = <<>>)
        PROVE  ProgramsInv'
    <2>1. PICK new : /\ program' = [program EXCEPT ![p] = new]
                     /\ Allowed(p, new)
                     /\ new.step \in {"settings", "connect"} /\ new.path = program[p].path
                     /\ new.kept = kept /\ (new.kept => HasLast(new.id, [ids |-> ids]))
      BY <1>1, <1>3, FromFileIsAllowed DEF ProgramsInv
    <2>2. new \in Processes
      BY <2>1 DEF Allowed
    <2>3. new.kept => HasLast(new.id, ini)
      BY <1>3, <2>1 DEF HasLast
    <2>4. ProgramsTypeOK'
      BY <1>1, <1>2, <1>3, <2>1, <2>2 DEF ProgramsInv, ProgramsTypeOK
    <2>5. OfTheFile'
      BY <1>1, <1>2, <1>3, <2>1, <2>2, <2>3, WritingStep DEF ProgramsInv, Found, Early
    <2>6. OnTheBus'
      BY <1>2, <2>1, AllowedStep DEF ProgramsInv
    <2>7. QED
      BY <2>4, <2>5, <2>6 DEF ProgramsInv
  <1>4. ~overlapped => old.is = "whole"
    BY <1>1 DEF ProgramsInv, OfTheFile, Found, IniFile
  <1>5. CASE /\ config' = [config EXCEPT ![program[p].path].ids = Append(@, run)]
             /\ FromFile(p, <<run>>, TRUE)
    <2> DEFINE ini == [old EXCEPT !.ids = Append(@, run)]
    <2>1. Append(old.ids, run) \in Seq(Nat) /\ old.ids \in Seq(Nat)
      BY <1>1 DEF Files
    <2>2. ini \in Files /\ ini.is = old.is /\ ini.ids = Append(old.ids, run)
      BY <1>1, <2>1 DEF Files
    <2>3. config' = [config EXCEPT ![program[p].path] = ini]
      BY <1>5
    <2>4. HasLast(run, ini)
      BY <1>1, <2>1, <2>2, SMTT(30) DEF HasLast
    <2>5. <<run>> \in Seq(Nat) /\ <<run>> # <<>> /\ <<run>>[Len(<<run>>)] = run
      BY <1>1
    <2> HIDE DEF ini, run
    <2>6. QED
      BY <1>3, <1>4, <1>5, <2>2, <2>3, <2>4, <2>5
  <1>6. CASE UNCHANGED config /\ FromFile(p, <<>>, FALSE)
    <2>1. config' = [config EXCEPT ![program[p].path] = old]
      BY <1>6 DEF ProgramsInv, ProgramsTypeOK
    <2>2. <<>> \in Seq(Nat)
      OBVIOUS
    <2>3. QED
      BY <1>1, <1>3, <1>4, <1>6, <2>1, <2>2
  <1>7. QED
    BY <1>5, <1>6 DEF AppendBusId

LEMMA StepKeeps == ProgramsInv /\ [ProgramsNext]_programsVars => ProgramsInv'
  <1> SUFFICES ASSUME ProgramsInv, [ProgramsNext]_programsVars PROVE ProgramsInv'
    OBVIOUS
  <1>1. CASE UNCHANGED programsVars
    BY <1>1 DEF programsVars, ProgramsInv, ProgramsTypeOK, OnTheBus, OfTheFile, HoldsLink, IniFile
  \* A step that leaves the files as they are.
  <1>2. ASSUME NEW p \in Programs, NEW new, Allowed(p, new), Faithful(new),
               program' = [program EXCEPT ![p] = new], starts' \in Nat,
               UNCHANGED <<account, exclusive, config, overlapped>>
        PROVE  ProgramsInv'
    <2>1. OnTheBus' /\ program' \in [Programs -> Processes]
      BY <1>2, AllowedStep DEF ProgramsInv
    <2>2. OfTheFile'
      BY <1>2, FaithfulStep DEF ProgramsInv
    <2>3. QED
      BY <1>2, <2>1, <2>2 DEF ProgramsInv, ProgramsTypeOK
  <1>3. ASSUME NEW p \in Programs,
               \/ Start(p) \/ FindFile(p) \/ TakeSettings(p) \/ Ends(p) \/ Load(p)
               \/ JoinedTransport(p) \/ OwnTransport(p) \/ Announce(p) \/ EngineConnects(p)
        PROVE  ProgramsInv'
    <2>1. /\ UNCHANGED <<account, exclusive, config, overlapped>>
          /\ starts' \in Nat
      <3>1. UNCHANGED <<account, exclusive, config, overlapped>>
        BY <1>3 DEF Start, FindFile, TakeSettings, Ends, Load, JoinedTransport, OwnTransport,
               Announce, EngineConnects, hostVars
      <3>2. starts' = starts \/ Start(p)
        BY <1>3 DEF FindFile, TakeSettings, Ends, Load, JoinedTransport, OwnTransport,
               Announce, EngineConnects
      <3>3. QED
        BY <3>1, <3>2, StartIsAllowed DEF ProgramsInv, ProgramsTypeOK
    <2>2. \E new : /\ program' = [program EXCEPT ![p] = new]
                   /\ Allowed(p, new) /\ Faithful(new)
      BY <1>3, StartIsAllowed, LoadIsAllowed, ConnectIsAllowed DEF ProgramsInv
    <2>3. QED
      BY <1>2, <2>1, <2>2
  <1>4. ASSUME NEW p \in Programs, CreateFile(p) \/ FillFile(p) \/ AppendBusId(p)
        PROVE  ProgramsInv'
    BY <1>4, CreateKeeps, FillKeeps, AppendKeeps
  <1>5. QED
    BY <1>1, <1>3, <1>4 DEF ProgramsNext

LEMMA InitialPrograms == ProgramsInit => ProgramsInv
  <1> SUFFICES ASSUME ProgramsInit PROVE ProgramsInv
    OBVIOUS
  <1>1. Stopped \in Processes
    BY DEF Stopped, Processes, Steps, Directories
  <1>2. <<>> \in Seq(Nat)
    OBVIOUS
  <1>3. PICK old \in {NoFile} \cup OldFiles :
          config = [d \in Directories |-> IF d = Host THEN old ELSE NoFile]
    BY DEF ProgramsInit
  <1>4. NoFile \in Files /\ old \in Files /\ NoFile.ids = <<>> /\ old.ids = <<>>
    <2>1. NoFile \in Files /\ NoFile.ids = <<>>
      BY <1>2 DEF NoFile, Files
    <2>2. ASSUME NEW m \in BOOLEAN,
                 old = [is |-> "whole", master |-> m, ids |-> <<>>, api |-> "anywhere",
                        token |-> FALSE]
          PROVE  old \in Files /\ old.ids = <<>>
      BY <1>2, <2>2 DEF Files
    <2>3. QED
      BY <1>3, <2>1, <2>2 DEF OldFiles
  <1>5. ProgramsTypeOK
    BY <1>1, <1>3, <1>4 DEF ProgramsInit, ProgramsTypeOK
  <1>6. \A p \in Programs : /\ program[p] = Stopped /\ ~HoldsLink(p)
    BY DEF ProgramsInit, Stopped, HoldsLink
  <1>7. \A d \in Directories : config[d].ids = <<>>
    BY <1>3, <1>4
  <1>8. OnTheBus /\ OfTheFile
    BY <1>6, <1>7 DEF OnTheBus, OfTheFile, Stopped, Found
  <1>9. QED
    BY <1>5, <1>8 DEF ProgramsInv

LEMMA InvOneHost == ProgramsInv => OneHostOnTheBus
  <1> SUFFICES ASSUME ProgramsInv PROVE OneHostOnTheBus
    OBVIOUS
  <1>1. \A p \in Masters : p \in Programs /\ HoldsLink(p)
    BY DEF Masters, Running, ProgramsInv, OnTheBus
  <1>2. ASSUME exclusive PROVE Cardinality(Masters) <= 1
    <2>1. CASE Masters = {}
      BY <2>1, FS_EmptySet
    <2>2. ASSUME NEW p \in Masters PROVE Cardinality(Masters) <= 1
      <3>1. Masters = {p}
        BY <1>1, <1>2 DEF ProgramsInv, OnTheBus
      <3>2. Cardinality({p}) = 1
        BY FS_Singleton
      <3>3. QED
        BY <3>1, <3>2
    <2>3. QED
      BY <2>1, <2>2
  <1>3. ASSUME NEW p \in Running, program[p].kept, ~overlapped
        PROVE  HasLast(program[p].id, IniFile(p))
    BY <1>3 DEF Running, ProgramsInv, OfTheFile
  <1>4. QED
    BY <1>1, <1>2, <1>3 DEF OneHostOnTheBus, HasLast

-----------------------------------------------------------------------------

\* Every variable keeps its type, for any programs, accounts and files found at first.
THEOREM TypeCorrect == ProgramsSpec => []ProgramsTypeOK
  <1>1. ProgramsInv => ProgramsTypeOK
    BY DEF ProgramsInv
  <1>2. QED
    BY <1>1, InitialPrograms, StepKeeps, PTL DEF ProgramsSpec

\* However the programs of a host start, stop, are killed and share the bus, at most one of
\* them is bus master on a link one process can hold, none that joined another's connection
\* is, and the BusID each took from a file is the one the next will find there, unless two
\* were making it at once (auto_joined, add_bus_id).
THEOREM OneHost == ProgramsSpec => []OneHostOnTheBus
  BY InitialPrograms, StepKeeps, InvOneHost, PTL DEF ProgramsSpec

\* One process at most holds a link that only one can hold: those that join it and those
\* that find it taken do without (auto_joined, open_file_transport).
THEOREM LinkIsHeldOnce ==
    ProgramsSpec => [](exclusive => \A p, q \in Programs : HoldsLink(p) /\ HoldsLink(q) => p = q)
  <1>1. ProgramsInv => (exclusive => \A p, q \in Programs : HoldsLink(p) /\ HoldsLink(q) => p = q)
    BY DEF ProgramsInv, OnTheBus
  <1>2. QED
    BY <1>1, InitialPrograms, StepKeeps, PTL DEF ProgramsSpec

-----------------------------------------------------------------------------
(* Daemon.  What its threads hold.                                          *)

\* What a mapping file is, a message to the main loop, and the state of each thread.
MappingFiles == [is : {"absent", "torn", "whole"}, mapping : SUBSET OfDevices]
Messages == [device : Devices, mapped : BOOLEAN] \cup {WalkedMessage}
RequestThreads == [step : {"idle", "truncate", "persist", "ensure", "replace", "tell"},
                   mapping : SUBSET OfDevices]
WalkThreads == [step : {"off", "next", "look", "record", "ensure", "tell"}, late : BOOLEAN,
                at : SUBSET Devices, todo : SUBSET Devices, waiting : SUBSET Devices,
                saw : SUBSET OfDevices]
MainLoops == [step : {"load", "set", "stamp", "found", "seed", "seed_set", "seed_stamp", "activate",
                      "ensure", "resolve", "reload", "file", "read", "replace"},
              loaded : SUBSET OfDevices, changed : BOOLEAN, ensure : BOOLEAN,
              taken : SUBSET OfDevices, then : {"found", "reload", "file"}, maySeed : BOOLEAN,
              checked : BOOLEAN]

DaemonTypeOK ==
  /\ file \in MappingFiles /\ editor \in MappingFiles /\ touched \in BOOLEAN
  /\ inForce \subseteq OfDevices /\ reload \in BOOLEAN
  /\ request \in [Requests -> RequestThreads]
  /\ records \subseteq Devices /\ named \subseteq Devices
  /\ known \subseteq OfDevices /\ menus \in [Devices -> SUBSET {"cfg"}] /\ asked \subseteq OfDevices
  /\ busy \in Nat
  /\ walk \in WalkThreads /\ found \in Seq(Messages) /\ main \in MainLoops
  /\ ready \subseteq Devices /\ missed \in BOOLEAN

\* A device is in one place of the walk, it is told of once it has a record, and
\* only those told of are ready.
WalkOK ==
  /\ walk.todo \cap (records \cup walk.at \cup walk.waiting) = {}
  /\ walk.waiting \cap (records \cup walk.at) = {}
  /\ walk.step \in {"ensure", "tell"} => walk.at \subseteq records
  /\ \A i \in 1..Len(found) : found[i] # WalkedMessage => found[i].device \in records
  /\ ready \subseteq records

\* A device's Monitoring is read with its record; and if the bus has answered all,
\* what was asked for is known.
LearnedOK ==
  /\ \A d \in records : On("mon", d) \in known
  /\ busy = 0 => asked \subseteq known
  /\ \A d \in Devices : "cfg" \in menus[d] => On("cfg", d) \in known

\* Whoever truncated the file is about to write it; and what the main loop takes from
\* it, or from its absence, is what it holds, unless its time tells otherwise.
FileOK ==
  /\ editor # Torn
  /\ file = Torn => editor # Absent \/ \E r \in Requests : request[r].step = "persist"
  /\ main.step = "replace" => touched \/ main.loaded = Content
  /\ main.step \in {"seed", "seed_set"} /\ main.loaded = {} => touched \/ file = Absent
  /\ missed \/ Content = inForce \/ FileIsLookedAt

\* Nobody has told of a change of the mapping yet, or what it needs of the devices
\* taken on is known as far as the bus has answered, or the main loop is to ask.
Unsure == missed \/ reload \/ ~Settled
AllKnown == busy = 0 => \A f \in inForce : Dev(f) \in ready \cap named => f \in known
NeedsAreAsked ==
  \/ main.step = "activate" /\ main.ensure
  \/ main.step = "ensure" \/ Unsure \/ AllKnown

StreamOK ==
  /\ main.step \in {"load", "set"} => ready = {} /\ emit = {}
  /\ main.step \in {"seed", "seed_set", "seed_stamp"} => main.changed
  /\ main.step \in {"seed", "seed_set"} => main.loaded \subseteq known
  /\ main.step \in {"ensure", "resolve"} => Unsure \/ main.taken = inForce
  /\ NeedsAreAsked
  /\ missed \/ Streamed \/ StreamIsRenewed

DaemonInv == DaemonTypeOK /\ WalkOK /\ LearnedOK /\ FileOK /\ StreamOK

-----------------------------------------------------------------------------
(* Fields, and what asking for them does.                                  *)

LEMMA OfDevicesIs ==
  /\ \A f \in OfDevices : Dev(f) \in Devices /\ f = On(f[2], Dev(f)) /\ f[2] \in {"mon", "cfg", "hid"}
  /\ \A d \in Devices : \A k \in {"mon", "cfg", "hid"} : /\ On(k, d) \in OfDevices
                                                       /\ Dev(On(k, d)) = d /\ On(k, d)[2] = k
BY DEF OfDevices, Dev, On

LEMMA OfDevicesIsFinite == IsFiniteSet(OfDevices)
<1>1. IsFiniteSet({"mon", "cfg", "hid"})
  <2>1. IsFiniteSet({"mon"}) /\ IsFiniteSet({"cfg"}) /\ IsFiniteSet({"hid"})
    BY FS_Singleton
  <2>2. IsFiniteSet(({"mon"} \cup {"cfg"}) \cup {"hid"})
    BY <2>1, FS_Union
  <2>3. ({"mon"} \cup {"cfg"}) \cup {"hid"} = {"mon", "cfg", "hid"}
    OBVIOUS
  <2>4. QED BY <2>2, <2>3
<1>2. QED BY <1>1, DaemonAssumption, FS_Product DEF OfDevices

\* A set that counts for nothing is empty.
LEMMA NoneOf ==
  ASSUME NEW Z, IsFiniteSet(Z), NEW S \in SUBSET Z
  PROVE  Cardinality(S) \in Nat /\ (Cardinality(S) = 0 => S = {})
<1>1. IsFiniteSet(S)
  BY FS_Subset
<1>2. QED BY <1>1, FS_CardinalityType, FS_EmptySet

\* What EnsureMenus leaves: nothing known is lost, and if the bus has answered
\* all, every mapped field of a device with a record is known.
Ensured(m) ==
  /\ known \subseteq known' /\ known' \subseteq OfDevices
  /\ menus' \in [Devices -> SUBSET {"cfg"}] /\ asked' \subseteq OfDevices
  /\ busy' \in Nat /\ busy <= busy'
  /\ busy' = 0 => /\ asked' \subseteq known'
                  /\ \A f \in m : Dev(f) \in records \cap named => f \in known'
  /\ \A d \in Devices : "cfg" \in menus'[d] => On("cfg", d) \in known'

LEMMA EnsureMenusEnsures ==
  ASSUME DaemonTypeOK, LearnedOK, NEW m \in SUBSET OfDevices, EnsureMenus(m)
  PROVE  Ensured(m)
<1> DEFINE Tabs == {Dev(f) : f \in {f \in Unknown(m) : f[2] = "cfg" /\ "cfg" \notin menus[Dev(f)]}}
<1>1. Tabs \subseteq Devices
  BY OfDevicesIs DEF Unknown
<1>2. PICK silent \in SUBSET Tabs :
        LET heard == {On("cfg", d) : d \in Tabs \ silent}
            alone == (Unknown(m) \ heard) \ asked
        IN \E unheard \in SUBSET alone :
            /\ busy + Cardinality(silent) + Cardinality(unheard) <= MaxBusy
            /\ busy' = busy + Cardinality(silent) + Cardinality(unheard)
            /\ menus' = [d \in Devices |-> menus[d] \cup IF d \in Tabs \ silent THEN {"cfg"} ELSE {}]
            /\ asked' = asked \cup alone
            /\ known' = known \cup heard \cup (alone \ unheard)
  BY Zenon DEF EnsureMenus
<1> DEFINE Heard == {On("cfg", d) : d \in Tabs \ silent}
           Alone == (Unknown(m) \ Heard) \ asked
<1>3. PICK unheard \in SUBSET Alone :
            /\ busy' = busy + Cardinality(silent) + Cardinality(unheard)
            /\ menus' = [d \in Devices |-> menus[d] \cup IF d \in Tabs \ silent THEN {"cfg"} ELSE {}]
            /\ asked' = asked \cup Alone
            /\ known' = known \cup Heard \cup (Alone \ unheard)
  BY <1>2, Zenon
<1>4. Heard \subseteq OfDevices /\ (\A d \in Tabs \ silent : On("cfg", d) \in Heard)
  BY <1>1, OfDevicesIs
<1>5. Alone \subseteq OfDevices /\ (\A f \in Unknown(m) : f \in Heard \/ f \in Alone \/ f \in asked)
  BY DEF Unknown
<1>6. /\ Cardinality(silent) \in Nat
      /\ Cardinality(unheard) \in Nat /\ (Cardinality(unheard) = 0 => unheard = {})
  <2>1. silent \in SUBSET Devices /\ unheard \in SUBSET OfDevices
    BY <1>1, <1>5
  <2>2. QED BY <2>1, NoneOf, OfDevicesIsFinite, DaemonAssumption
<1>7. busy \in Nat /\ known \subseteq OfDevices /\ asked \subseteq OfDevices /\ menus \in [Devices -> SUBSET {"cfg"}]
  BY DEF DaemonTypeOK
<1> HIDE DEF Heard, Alone, Tabs
<1>8. known \subseteq known' /\ known' \subseteq OfDevices /\ asked' \subseteq OfDevices
  BY <1>3, <1>4, <1>5, <1>7
<1>9. busy' \in Nat /\ busy <= busy'
  BY <1>3, <1>6, <1>7
<1>10. menus' \in [Devices -> SUBSET {"cfg"}]
  BY <1>3, <1>7
<1>11. \A d \in Devices : "cfg" \in menus'[d] => On("cfg", d) \in known'
  <2> SUFFICES ASSUME NEW d \in Devices, "cfg" \in menus'[d] PROVE On("cfg", d) \in known'
    OBVIOUS
  <2>1. "cfg" \in menus[d] \/ d \in Tabs \ silent
    BY <1>3
  <2>2. QED BY <2>1, <1>3, <1>4, <1>8 DEF LearnedOK
<1>12. ASSUME busy' = 0
       PROVE  asked' \subseteq known' /\ \A f \in m : Dev(f) \in records \cap named => f \in known'
  <2>1. busy = 0 /\ unheard = {}
    BY <1>12, <1>3, <1>6, <1>7
  <2>2. asked \subseteq known
    BY <2>1 DEF LearnedOK
  <2>3. known' = known \cup Heard \cup Alone
    BY <1>3, <2>1
  <2>4. \A f \in m : Dev(f) \in records \cap named => f \in known \/ f \in Unknown(m)
    BY DEF Unknown
  <2>5. QED BY <1>3, <1>5, <2>2, <2>3, <2>4
<1>13. QED
  BY <1>8, <1>9, <1>10, <1>11, <1>12 DEF Ensured

\* The three steps that ask the bus leave everything but what is known as it is.
LEMMA PreparingEnsures ==
  ASSUME DaemonInv
  PROVE  /\ PrepareDevice => Ensured(walk.saw)
         /\ ActivateEnsures => Ensured(main.taken)
         /\ \A r \in Requests : Prepare(r) => Ensured(request[r].mapping)
<1>1. walk.saw \in SUBSET OfDevices /\ main.taken \in SUBSET OfDevices
  BY DEF DaemonInv, DaemonTypeOK, WalkThreads, MainLoops
<1>2. \A r \in Requests : request[r].mapping \in SUBSET OfDevices
  BY DEF DaemonInv, DaemonTypeOK, RequestThreads
<1>3. DaemonTypeOK /\ LearnedOK
  BY DEF DaemonInv
<1>4. PrepareDevice => Ensured(walk.saw)
  BY <1>1, <1>3, EnsureMenusEnsures DEF PrepareDevice
<1>5. ActivateEnsures => Ensured(main.taken)
  BY <1>1, <1>3, EnsureMenusEnsures DEF ActivateEnsures
<1>6. ASSUME NEW r \in Requests, Prepare(r) PROVE Ensured(request[r].mapping)
  <2>1. EnsureMenus(request[r].mapping)
    BY <1>6 DEF Prepare
  <2>2. request[r].mapping \in SUBSET OfDevices
    BY <1>2
  <2>3. QED BY <2>1, <2>2, <1>3, EnsureMenusEnsures
<1>7. QED BY <1>4, <1>5, <1>6

-----------------------------------------------------------------------------
(* Types.                                                                  *)

LEMMA TypesHold == ASSUME DaemonInv, [DaemonNext]_daemonVars PROVE DaemonTypeOK'
<1> USE DEF DaemonInv, DaemonTypeOK, fileVars, learned
<1>1. CASE Identify
  <2>1. PICK d \in walk.todo, silent \in BOOLEAN :
          /\ busy' = busy + IF silent THEN 1 ELSE 0
          /\ named' = IF silent THEN named ELSE named \cup {d}
          /\ walk' = [walk EXCEPT !.at = {d}, !.step = "look", !.todo = @ \ {d}]
    BY <1>1 DEF Identify
  <2>2. busy' \in Nat
    BY <2>1
  <2>3. d \in Devices /\ walk' \in WalkThreads
    BY <2>1 DEF WalkThreads
  <2>4. QED BY <1>1, <2>1, <2>2, <2>3 DEF Identify
<1>2. CASE LookAtMapping
  BY <1>2 DEF LookAtMapping, WalkThreads
<1>3. CASE AddRecord
  <2>1. {On("mon", d) : d \in walk.at} \subseteq OfDevices
    BY OfDevicesIs DEF WalkThreads
  <2>2. QED BY <1>3, <2>1 DEF AddRecord, WalkThreads
<1>4. CASE PrepareDevice
  BY <1>4, PreparingEnsures DEF PrepareDevice, Ensured, WalkThreads
<1>5. CASE TellFound
  <2>1. PICK d \in walk.at : found' = Append(found, [device |-> d, mapped |-> IsMapped])
    BY <1>5 DEF TellFound
  <2>2. IsMapped \in BOOLEAN
    BY DEF IsMapped
  <2>3. [device |-> d, mapped |-> IsMapped] \in Messages
    BY <2>2 DEF Messages, WalkThreads
  <2>4. found' \in Seq(Messages)
    BY <2>1, <2>3
  <2>5. QED BY <1>5, <2>4 DEF TellFound, WalkThreads
<1>6. CASE WalkEnds
  <2>1. WalkedMessage \in Messages
    BY DEF WalkedMessage, Messages
  <2>2. found' \in Seq(Messages)
    BY <1>6, <2>1 DEF WalkEnds
  <2>3. QED BY <1>6, <2>2 DEF WalkEnds, WalkThreads
<1>7. ASSUME NEW d \in Devices, DeviceAppears(d) PROVE DaemonTypeOK'
  BY <1>7 DEF DeviceAppears, WalkThreads
<1>8. ASSUME NEW m \in Mappings, EditorTruncates(m) PROVE DaemonTypeOK'
  <2>1. m \subseteq OfDevices
    BY DaemonAssumption
  <2>2. QED BY <1>8, <2>1 DEF EditorTruncates, Write, Whole, Torn, MappingFiles
<1>9. CASE EditorWrites
  BY <1>9 DEF EditorWrites, Write, Absent, MappingFiles
<1>10. ASSUME NEW r \in Requests, Receive(r) PROVE DaemonTypeOK'
  <2>1. PICK m \in Mappings \cup {inForce \cup (Copies \cap known)} :
          request' = [request EXCEPT ![r] = [step |-> "truncate", mapping |-> m]]
    BY <1>10 DEF Receive
  <2>2. m \subseteq OfDevices
    BY DaemonAssumption
  <2>3. request' \in [Requests -> RequestThreads]
    BY <2>1, <2>2 DEF RequestThreads
  <2>4. QED BY <1>10, <2>3 DEF Receive
<1>11. ASSUME NEW r \in Requests, Truncate(r) \/ Persist(r) \/ Replace(r) \/ TellReload(r) PROVE DaemonTypeOK'
  <2>1. request[r] \in RequestThreads /\ request' \in [Requests -> RequestThreads]
    BY <1>11 DEF Truncate, Persist, Replace, TellReload, RequestStep, RequestThreads
  <2>2. CASE Truncate(r)
    BY <2>2, <2>1 DEF Truncate, Write, Torn, MappingFiles
  <2>3. CASE Persist(r)
    BY <2>3, <2>1 DEF Persist, RequestThreads, Write, Whole, MappingFiles
  <2>4. CASE Replace(r)
    BY <2>4, <2>1 DEF Replace, RequestThreads
  <2>5. CASE TellReload(r)
    BY <2>5, <2>1 DEF TellReload
  <2>6. QED BY <1>11, <2>2, <2>3, <2>4, <2>5
<1>12. ASSUME NEW r \in Requests, Prepare(r) PROVE DaemonTypeOK'
  <2>1. request' \in [Requests -> RequestThreads]
    BY <1>12 DEF Prepare, RequestStep, RequestThreads
  <2>2. QED BY <1>12, <2>1, PreparingEnsures DEF Prepare, Ensured
<1>13. CASE LoadAtStart \/ SetAtStart \/ StampAtStart
  BY <1>13 DEF LoadAtStart, SetAtStart, StampAtStart, At, Goto, Stamp, StampedOver, Settled, MainLoops,
               WalkThreads, MappingFiles, Content
<1>14. CASE TakeFound
  <2>1. Head(found) \in Messages /\ Tail(found) \in Seq(Messages) /\ Head(found) # WalkedMessage
    BY <1>14 DEF TakeFound
  <2>2. Head(found).device \in Devices /\ Head(found).mapped \in BOOLEAN
    BY <2>1 DEF Messages
  <2>3. Seeds \subseteq OfDevices /\ SeedsNow \in BOOLEAN
    BY DEF Seeds, SeedsNow, FirstRun
  <2>4. \A d, mapped : LeftBehind(d, mapped) \in BOOLEAN
    BY DEF LeftBehind
  <2>5. main' \in MainLoops
    BY <1>14, <2>2, <2>3 DEF TakeFound, MainLoops
  <2>6. ready' \subseteq Devices /\ missed' \in BOOLEAN /\ found' \in Seq(Messages)
    BY <1>14, <2>1, <2>2, <2>4 DEF TakeFound
  <2>7. QED BY <1>14, <2>5, <2>6 DEF TakeFound
<1>15. CASE TakeWalked
  <2>1. Tail(found) \in Seq(Messages)
    BY <1>15 DEF TakeWalked
  <2>2. Seeds \subseteq OfDevices /\ SeedsNow \in BOOLEAN /\ FirstRun \in BOOLEAN
    BY DEF Seeds, SeedsNow, FirstRun
  <2>3. main' \in MainLoops
    BY <1>15, <2>2 DEF TakeWalked, MainLoops
  <2>4. QED BY <1>15, <2>1, <2>3 DEF TakeWalked
<1>16. CASE SeedWrites \/ SeedSets \/ SeedStamps
  <2>1. CASE SeedWrites
    <3>1. main' \in MainLoops
      BY <2>1 DEF SeedWrites, Goto, MainLoops
    <3>2. file' \in MappingFiles /\ touched' \in BOOLEAN
      <4>1. CASE main.loaded = {}
        BY <2>1, <4>1 DEF SeedWrites
      <4>2. CASE main.loaded # {}
        <5>1. file' = [is |-> "whole", mapping |-> main.loaded] /\ touched' = TRUE
          BY <2>1, <4>2 DEF SeedWrites, Write, Whole
        <5>2. QED BY <5>1 DEF MainLoops, MappingFiles
      <4>3. QED BY <4>1, <4>2
    <3>3. QED BY <2>1, <3>1, <3>2 DEF SeedWrites
  <2>2. CASE SeedSets
    BY <2>2 DEF SeedSets, MainLoops
  <2>3. CASE SeedStamps
    BY <2>3 DEF SeedStamps, Goto, Stamp, StampedOver, Settled, MainLoops
  <2>4. QED BY <1>16, <2>1, <2>2, <2>3
<1>17. CASE FoundDone \/ Activate \/ ActivateStreams
  BY <1>17 DEF FoundDone, Activate, ActivateStreams, MainLoops
<1>18. CASE ActivateEnsures
  BY <1>18, PreparingEnsures DEF ActivateEnsures, Goto, Ensured, MainLoops
<1>19. CASE TakeReload \/ NoReload \/ SkipFile \/ CheckFile
  BY <1>19 DEF TakeReload, NoReload, SkipFile, CheckFile, Stamp, StampedOver, Settled, Goto, MainLoops
<1>20. CASE ReadFile \/ ReplaceByFile
  BY <1>20 DEF ReadFile, ReplaceByFile, Content, MainLoops, MappingFiles
<1>21. CASE UNCHANGED daemonVars
  BY <1>21 DEF daemonVars
<1>22. QED
  BY <1>1, <1>2, <1>3, <1>4, <1>5, <1>6, <1>7, <1>8, <1>9, <1>10, <1>11, <1>12, <1>13, <1>14, <1>15, <1>16,
     <1>17, <1>18, <1>19, <1>20, <1>21 DEF DaemonNext, Discovers, MainLoop, Adopts

-----------------------------------------------------------------------------
(* The walk.                                                               *)

\* Steps of the other threads.
WalkKept == UNCHANGED <<walk, found, records, ready>>

LEMMA OthersKeepTheWalk ==
  ASSUME MainLoop \/ (\E m \in Mappings : EditorTruncates(m)) \/ EditorWrites
           \/ (\E r \in Requests : Receive(r) \/ Adopts(r)) \/ UNCHANGED daemonVars
  PROVE  WalkKept \/ SetAtStart \/ TakeFound \/ TakeWalked
BY DEF MainLoop, EditorTruncates, EditorWrites, Receive, Adopts, Truncate, Persist, Prepare, Replace, TellReload,
       LoadAtStart, StampAtStart, SeedWrites, SeedSets, SeedStamps, FoundDone, Activate, ActivateEnsures,
       ActivateStreams, TakeReload, NoReload, SkipFile, CheckFile, ReadFile, ReplaceByFile, daemonVars, WalkKept

LEMMA WalkHolds == ASSUME DaemonInv, [DaemonNext]_daemonVars PROVE WalkOK'
<1>0. /\ WalkOK /\ walk \in WalkThreads /\ found \in Seq(Messages)
      /\ records \subseteq Devices /\ ready \subseteq Devices
  BY DEF DaemonInv, DaemonTypeOK
<1>1. CASE Identify
  <2>1. PICK d \in walk.todo : walk' = [walk EXCEPT !.at = {d}, !.step = "look", !.todo = @ \ {d}]
    BY <1>1 DEF Identify
  <2>2. UNCHANGED <<records, ready, found>>
    BY <1>1 DEF Identify
  <2>3. QED BY <1>0, <2>1, <2>2 DEF WalkOK, WalkThreads
<1>2. CASE LookAtMapping
  BY <1>0, <1>2 DEF LookAtMapping, WalkOK, WalkThreads
<1>3. CASE AddRecord
  BY <1>0, <1>3 DEF AddRecord, WalkOK, WalkThreads
<1>4. CASE PrepareDevice
  BY <1>0, <1>4 DEF PrepareDevice, WalkOK, WalkThreads
<1>5. CASE TellFound
  <2>1. PICK d \in walk.at : found' = Append(found, [device |-> d, mapped |-> IsMapped])
    BY <1>5 DEF TellFound
  <2> DEFINE msg == [device |-> d, mapped |-> IsMapped]
  <2>2. msg.device \in records
    BY <1>0, <1>5 DEF TellFound, WalkOK
  <2> HIDE DEF msg
  <2>3. /\ Len(found') = Len(found) + 1 /\ found'[Len(found) + 1] = msg
        /\ \A i \in 1..Len(found) : found'[i] = found[i]
    BY <1>0, <2>1 DEF msg
  <2>4. \A i \in 1..Len(found') : found'[i] # WalkedMessage => found'[i].device \in records
    BY <1>0, <2>2, <2>3 DEF WalkOK
  <2>5. QED BY <1>0, <1>5, <2>4 DEF TellFound, WalkOK, WalkThreads
<1>6. CASE WalkEnds
  <2>1. found' = Append(found, WalkedMessage) /\ UNCHANGED <<records, ready>>
    BY <1>6 DEF WalkEnds
  <2>2. /\ Len(found') = Len(found) + 1 /\ found'[Len(found) + 1] = WalkedMessage
        /\ \A i \in 1..Len(found) : found'[i] = found[i]
    BY <1>0, <2>1
  <2>3. \A i \in 1..Len(found') : found'[i] # WalkedMessage => found'[i].device \in records
    BY <1>0, <2>2 DEF WalkOK
  <2>4. QED BY <1>0, <1>6, <2>1, <2>3 DEF WalkEnds, WalkOK, WalkThreads
<1>7. ASSUME NEW d \in Devices, DeviceAppears(d) PROVE WalkOK'
  BY <1>0, <1>7 DEF DeviceAppears, WalkOK, WalkThreads
<1>8. CASE SetAtStart
  BY <1>0, <1>8 DEF SetAtStart, WalkOK, WalkThreads
<1>9. ASSUME found # <<>>, found' = Tail(found)
      PROVE  /\ \A i \in 1..Len(found') : i + 1 \in 1..Len(found) /\ found'[i] = found[i + 1]
             /\ Head(found) = found[1] /\ 1 \in 1..Len(found)
  BY <1>0, <1>9
<1>10. CASE TakeFound
  <2>1. found # <<>> /\ found' = Tail(found) /\ Head(found) # WalkedMessage
    BY <1>10 DEF TakeFound
  <2>2. ready' = ready \cup {Head(found).device} /\ UNCHANGED <<walk, records>>
    BY <1>10 DEF TakeFound
  <2>3. QED BY <1>0, <1>9, <2>1, <2>2 DEF WalkOK
<1>11. CASE TakeWalked
  <2>1. found # <<>> /\ found' = Tail(found) /\ UNCHANGED <<walk, records, ready>>
    BY <1>11 DEF TakeWalked
  <2>2. QED BY <1>0, <1>9, <2>1 DEF WalkOK
<1>12. CASE WalkKept
  BY <1>0, <1>12 DEF WalkKept, WalkOK
<1>13. QED
  BY <1>1, <1>2, <1>3, <1>4, <1>5, <1>6, <1>7, <1>8, <1>10, <1>11, <1>12, OthersKeepTheWalk
     DEF DaemonNext, Discovers

-----------------------------------------------------------------------------
(* What has been learned of the devices.                                   *)

LearnedKept == UNCHANGED <<records, learned>>

LEMMA OthersLearnNothing ==
  ASSUME [DaemonNext]_daemonVars
  PROVE  \/ LearnedKept \/ Identify \/ AddRecord
         \/ PrepareDevice \/ ActivateEnsures \/ \E r \in Requests : Prepare(r)
BY DEF DaemonNext, Discovers, LookAtMapping, TellFound, WalkEnds, DeviceAppears, MainLoop, EditorTruncates,
       EditorWrites, Receive, Adopts, Truncate, Persist, Replace, TellReload, LoadAtStart, SetAtStart, StampAtStart,
       TakeFound, TakeWalked, SeedWrites, SeedSets, SeedStamps, FoundDone, Activate, ActivateStreams, TakeReload,
       NoReload, SkipFile, CheckFile, ReadFile, ReplaceByFile, daemonVars, learned, LearnedKept

LEMMA LearnedHolds == ASSUME DaemonInv, [DaemonNext]_daemonVars PROVE LearnedOK'
<1>0. LearnedOK /\ busy \in Nat
  BY DEF DaemonInv, DaemonTypeOK
<1>1. CASE LearnedKept
  BY <1>0, <1>1 DEF LearnedKept, learned, LearnedOK
<1>2. CASE Identify
  <2>1. PICK silent \in BOOLEAN : busy' = busy + IF silent THEN 1 ELSE 0
    BY <1>2 DEF Identify
  <2>2. QED BY <1>0, <1>2, <2>1 DEF Identify, LearnedOK
<1>3. CASE AddRecord
  BY <1>0, <1>3 DEF AddRecord, LearnedOK
<1>4. ASSUME NEW m, Ensured(m), UNCHANGED records PROVE LearnedOK'
  BY <1>0, <1>4 DEF Ensured, LearnedOK
<1>5. CASE PrepareDevice
  BY <1>4, <1>5, PreparingEnsures DEF PrepareDevice
<1>6. CASE ActivateEnsures
  BY <1>4, <1>6, PreparingEnsures DEF ActivateEnsures
<1>7. ASSUME NEW r \in Requests, Prepare(r) PROVE LearnedOK'
  BY <1>4, <1>7, PreparingEnsures DEF Prepare
<1>8. QED BY <1>1, <1>2, <1>3, <1>5, <1>6, <1>7, OthersLearnNothing

-----------------------------------------------------------------------------
(* The file.                                                               *)

FileKept == UNCHANGED <<file, touched, editor, inForce, reload, request, main, missed>>

LEMMA DiscoveryKeepsTheFile ==
  ASSUME Discovers \/ (\E d \in Devices : DeviceAppears(d)) \/ UNCHANGED daemonVars
  PROVE  FileKept
BY DEF Discovers, Identify, LookAtMapping, AddRecord, PrepareDevice, TellFound, WalkEnds, DeviceAppears,
       daemonVars, fileVars, FileKept

LEMMA FileHolds == ASSUME DaemonInv, [DaemonNext]_daemonVars PROVE FileOK'
<1>0. FileOK /\ DaemonTypeOK
  BY DEF DaemonInv
<1>1. CASE FileKept
  BY <1>0, <1>1 DEF FileKept, FileOK, FileIsLookedAt, Content, Settled
<1>2. ASSUME NEW m \in Mappings, EditorTruncates(m) PROVE FileOK'
  BY <1>0, <1>2 DEF EditorTruncates, Write, Whole, Torn, Absent, FileOK, FileIsLookedAt
<1>3. CASE EditorWrites
  BY <1>0, <1>3 DEF EditorWrites, Write, Torn, Absent, FileOK, FileIsLookedAt

\* The threads of requests.
<1>4. ASSUME NEW r \in Requests, Receive(r) PROVE FileOK'
  <2>1. PICK m : request' = [request EXCEPT ![r] = [step |-> "truncate", mapping |-> m]]
    BY <1>4 DEF Receive
  <2>2. /\ request[r].step = "idle" /\ request'[r].step = "truncate"
        /\ \A q \in Requests : q # r => request'[q] = request[q]
    BY <1>0, <1>4, <2>1 DEF Receive, DaemonTypeOK
  <2>3. UNCHANGED <<file, touched, editor, inForce, main>>
    BY <1>4 DEF Receive, fileVars
  <2> HIDE <2>1
  <2>4. QED BY <1>0, <2>2, <2>3 DEF FileOK, FileIsLookedAt, Settled, Content
<1>5. ASSUME NEW r \in Requests, NEW from, NEW to, RequestStep(r, from, to)
      PROVE  /\ request[r].step = from /\ request'[r].step = to
             /\ \A q \in Requests : q # r => request'[q] = request[q]
  BY <1>0, <1>5 DEF RequestStep, DaemonTypeOK, RequestThreads
<1>6. ASSUME NEW r \in Requests, Truncate(r) PROVE FileOK'
  <2>1. request'[r].step = "persist"
    BY <1>5, <1>6 DEF Truncate
  <2>2. file' = Torn /\ touched' = TRUE /\ UNCHANGED <<editor, inForce, main>>
    BY <1>6 DEF Truncate, Write
  <2>3. QED BY <1>0, <2>1, <2>2 DEF FileOK, FileIsLookedAt
<1>7. ASSUME NEW r \in Requests, Persist(r) PROVE FileOK'
  <2>1. file' = Whole(request[r].mapping) /\ touched' = TRUE /\ UNCHANGED <<editor, inForce, main>>
    BY <1>7 DEF Persist, Write
  <2>2. QED BY <1>0, <2>1 DEF FileOK, FileIsLookedAt, Whole, Torn
<1>8. ASSUME NEW r \in Requests, Prepare(r) PROVE FileOK'
  <2>1. /\ request[r].step = "ensure" /\ request'[r].step = "replace"
        /\ \A q \in Requests : q # r => request'[q] = request[q]
    BY <1>5, <1>8 DEF Prepare
  <2>2. UNCHANGED <<file, touched, editor, inForce, main>>
    BY <1>8 DEF Prepare, fileVars
  <2>3. QED BY <1>0, <2>1, <2>2 DEF FileOK, FileIsLookedAt, Settled, Content
<1>9. ASSUME NEW r \in Requests, Replace(r) PROVE FileOK'
  <2>1. /\ request[r].step = "replace" /\ request'[r].step = "tell"
        /\ \A q \in Requests : q # r => request'[q] = request[q]
    BY <1>5, <1>9 DEF Replace
  <2>2. UNCHANGED <<file, touched, editor, main>>
    BY <1>9 DEF Replace, fileVars
  <2>3. QED BY <1>0, <2>1, <2>2 DEF FileOK, FileIsLookedAt, Settled, Content
<1>10. ASSUME NEW r \in Requests, TellReload(r) PROVE FileOK'
  <2>1. /\ request[r].step = "tell"
        /\ \A q \in Requests : q # r => request'[q] = request[q]
    BY <1>0, <1>10 DEF TellReload, DaemonTypeOK
  <2>2. reload' = TRUE /\ UNCHANGED <<file, touched, editor, main>>
    BY <1>10 DEF TellReload, fileVars
  <2>3. QED BY <1>0, <2>1, <2>2 DEF FileOK, FileIsLookedAt, Content

\* The main loop, first where it takes the file's time without reading the file.
<1>11. \/ StampedOver \/ Content = inForce \/ ~Settled \/ editor # Absent
  BY <1>0 DEF FileOK, StampedOver, Settled
<1>12. ASSUME Stamp, UNCHANGED <<editor, request, inForce>>, missed' = (missed \/ StampedOver),
              main'.step \notin {"replace", "seed", "seed_set"}
       PROVE  FileOK'
  <2>1. missed' \/ Content' = inForce' \/ ~Settled' \/ editor' # Absent
    BY <1>11, <1>12 DEF Stamp, Content, Settled
  <2>2. QED BY <1>0, <1>12, <2>1 DEF Stamp, FileOK, FileIsLookedAt
<1>13. CASE StampAtStart \/ SeedStamps \/ TakeReload
  <2>1. Stamp /\ UNCHANGED <<editor, request, inForce>> /\ missed' = (missed \/ StampedOver)
    BY <1>13 DEF StampAtStart, SeedStamps, TakeReload
  <2>2. main'.step \in {"found", "activate"}
    BY <1>0, <1>13 DEF StampAtStart, SeedStamps, TakeReload, Goto, DaemonTypeOK, MainLoops
  <2>3. QED BY <1>12, <2>1, <2>2
<1>14. ASSUME UNCHANGED <<file, touched, editor, request>>,
              main'.step = "replace" => touched \/ main'.loaded = Content,
              main'.step \in {"seed", "seed_set"} /\ main'.loaded = {} => touched \/ file = Absent,
              missed' \/ Content = inForce' \/ FileIsLookedAt'
       PROVE  FileOK'
  BY <1>0, <1>14 DEF FileOK, Content
<1>15. CASE LoadAtStart \/ SetAtStart
  BY <1>0, <1>14, <1>15 DEF LoadAtStart, SetAtStart, fileVars, FileIsLookedAt, DaemonTypeOK, MainLoops
<1>16. CASE FoundDone \/ Activate \/ ActivateEnsures \/ ActivateStreams \/ NoReload \/ SkipFile
  <2>1. UNCHANGED <<file, touched, editor, request, inForce, reload, missed>>
    BY <1>16 DEF FoundDone, Activate, ActivateEnsures, ActivateStreams, NoReload, SkipFile, fileVars
  <2>2. /\ main.step \in {"found", "activate", "ensure", "resolve", "reload", "file"}
        /\ main'.step \in {"found", "activate", "ensure", "resolve", "reload", "file"}
    BY <1>0, <1>16 DEF FoundDone, Activate, ActivateEnsures, ActivateStreams, NoReload, SkipFile, At, Goto,
                       DaemonTypeOK, MainLoops
  <2>3. QED BY <1>0, <1>14, <2>1, <2>2 DEF FileOK, FileIsLookedAt, Settled
<1>17. CASE TakeFound
  <2>1. UNCHANGED <<file, touched, editor, request, inForce, reload>> /\ (missed => missed')
    BY <1>17 DEF TakeFound, fileVars
  <2>2. /\ main.step = "found"
        /\ \/ main'.step = "found"
           \/ (main'.step = "seed" /\ main'.loaded # {})
    BY <1>0, <1>17 DEF TakeFound, At, DaemonTypeOK, MainLoops
  <2>3. QED BY <1>0, <1>14, <2>1, <2>2 DEF FileOK, FileIsLookedAt, Settled
<1>18. CASE TakeWalked
  <2>1. UNCHANGED <<file, touched, editor, request, inForce, reload, missed>>
    BY <1>18 DEF TakeWalked, fileVars
  <2>2. /\ main.step = "found"
        /\ main'.step = "found" \/ (main'.step = "seed" /\ file = Absent)
    BY <1>0, <1>18 DEF TakeWalked, At, SeedsNow, FirstRun, DaemonTypeOK, MainLoops
  <2>3. QED BY <1>0, <1>14, <2>1, <2>2 DEF FileOK, FileIsLookedAt, Settled
<1>19. CASE SeedWrites
  <2>1. main.step = "seed" /\ main'.step = "seed_set" /\ main'.loaded = main.loaded
    BY <1>0, <1>19 DEF SeedWrites, At, Goto, DaemonTypeOK, MainLoops
  <2>2. CASE main.loaded = {}
    BY <1>0, <1>14, <1>19, <2>1, <2>2 DEF SeedWrites, fileVars, FileOK, FileIsLookedAt
  <2>3. CASE main.loaded # {}
    <3>1. file' = Whole(main.loaded) /\ touched' = TRUE /\ UNCHANGED editor
      BY <1>19, <2>3 DEF SeedWrites, Write
    <3>2. QED BY <1>0, <2>1, <3>1 DEF FileOK, FileIsLookedAt, Whole, Torn
  <2>4. QED BY <2>2, <2>3
<1>20. CASE SeedSets
  <2>1. /\ main.step = "seed_set" /\ inForce' = main.loaded
        /\ main'.step = IF main.loaded = {} THEN "found" ELSE "seed_stamp"
        /\ UNCHANGED <<file, touched, editor, request, reload, missed>>
    BY <1>0, <1>20 DEF SeedSets, At, fileVars, DaemonTypeOK, MainLoops
  <2>2. main.loaded # {} \/ touched \/ Content = {}
    BY <1>0, <2>1 DEF FileOK, Content, Absent
  <2>3. QED BY <1>14, <2>1, <2>2 DEF FileIsLookedAt
<1>21. CASE CheckFile
  <2>1. /\ main.step = "file" /\ main'.step = IF touched THEN "read" ELSE "found"
        /\ UNCHANGED <<file, editor, inForce, request, reload, missed>>
    BY <1>0, <1>21 DEF CheckFile, At, Stamp, DaemonTypeOK, MainLoops
  <2>2. QED BY <1>0, <2>1 DEF FileOK, FileIsLookedAt, Content, Settled, DaemonTypeOK
<1>22. CASE ReadFile
  <2>1. /\ main'.loaded = Content /\ main'.step = IF file = Torn THEN "found" ELSE "replace"
        /\ UNCHANGED <<file, touched, editor, inForce, request, reload, missed>>
    BY <1>0, <1>22 DEF ReadFile, At, fileVars, DaemonTypeOK, MainLoops
  <2>2. file = Torn => editor # Absent \/ ~Settled
    BY <1>0 DEF FileOK, Settled
  <2>3. QED BY <1>14, <2>1, <2>2 DEF FileIsLookedAt, Settled
<1>23. CASE ReplaceByFile
  <2>1. /\ main.step = "replace" /\ main'.step = "activate" /\ inForce' = main.loaded
        /\ UNCHANGED <<file, touched, editor, request, reload, missed>>
    BY <1>0, <1>23 DEF ReplaceByFile, At, fileVars, DaemonTypeOK, MainLoops
  <2>2. QED BY <1>0, <1>14, <2>1 DEF FileOK, FileIsLookedAt
<1>24. QED
  BY <1>1, <1>2, <1>3, <1>4, <1>6, <1>7, <1>8, <1>9, <1>10, <1>13, <1>15, <1>16, <1>17, <1>18, <1>19, <1>20,
     <1>21, <1>22, <1>23, DiscoveryKeepsTheFile DEF DaemonNext, MainLoop, Adopts

-----------------------------------------------------------------------------
(* The stream.                                                             *)

\* Nothing is forgotten while the mapping, the stream and the devices stay.
LEMMA KnowledgeGrows ==
  ASSUME DaemonTypeOK, UNCHANGED <<inForce, ready, named, emit>>,
         known \subseteq known', busy' \in Nat, busy <= busy'
  PROVE  (AllKnown => AllKnown') /\ (Streamed => Streamed')
<1>1. busy' = 0 => busy = 0
  BY DEF DaemonTypeOK
<1>2. AllKnown => AllKnown'
  BY <1>1 DEF AllKnown
<1>3. Streamed => Streamed'
  BY <1>1 DEF Streamed
<1>4. QED BY <1>2, <1>3

\* What there is to stream, once all that is mapped and can be known is known.
LEMMA ResolvedIsStreamed ==
  ASSUME DaemonInv, AllKnown, emit' = Resolve(inForce), UNCHANGED <<inForce, ready, named, busy>>
  PROVE  Streamed'
<1>1. emit' = {f \in inForce : Dev(f) \in ready \cap records \cap named /\ f \in known}
  BY DEF Resolve
<1>2. ready \subseteq records /\ inForce \subseteq OfDevices
  BY DEF DaemonInv, WalkOK, DaemonTypeOK
<1>3. ASSUME NEW f \in inForce, Dev(f) \in ready \cap named, f[2] = "mon" \/ busy = 0
      PROVE  f \in known
  <2>1. CASE f[2] = "mon"
    <3>1. f = On("mon", Dev(f)) /\ Dev(f) \in records
      BY <1>2, <1>3, <2>1, OfDevicesIs
    <3>2. QED BY <3>1 DEF DaemonInv, LearnedOK
  <2>2. CASE busy = 0
    BY <1>3, <2>2 DEF AllKnown
  <2>3. QED BY <1>3, <2>1, <2>2
<1>4. QED BY <1>1, <1>2, <1>3 DEF Streamed

LEMMA StreamHolds == ASSUME DaemonInv, [DaemonNext]_daemonVars PROVE StreamOK'
<1>0. DaemonTypeOK /\ WalkOK /\ StreamOK
  BY DEF DaemonInv
<1>1. main \in MainLoops /\ busy \in Nat /\ busy <= busy
  BY <1>0 DEF DaemonTypeOK

\* Discovery and the editor of the file.
<1>2. ASSUME UNCHANGED <<main, missed, reload, request, ready, emit>>,
             AllKnown => AllKnown', Streamed => Streamed', known \subseteq known',
             inForce' = inForce
      PROVE  StreamOK'
  BY <1>0, <1>2 DEF StreamOK, NeedsAreAsked, Unsure, Settled, StreamIsRenewed
<1>3. ASSUME UNCHANGED <<main, missed, reload, request, ready, emit, inForce, named>>,
             known \subseteq known', busy' \in Nat, busy <= busy'
      PROVE  StreamOK'
  BY <1>0, <1>2, <1>3, KnowledgeGrows
<1>4. CASE Identify
  <2>1. PICK d \in walk.todo, silent \in BOOLEAN :
          /\ busy' = busy + IF silent THEN 1 ELSE 0
          /\ named' = IF silent THEN named ELSE named \cup {d}
    BY <1>4 DEF Identify
  <2>2. d \notin ready
    BY <1>0 DEF WalkOK
  <2>3. busy' = 0 => busy = 0
    BY <1>1, <2>1
  <2>4. \A e \in ready : e \in named' <=> e \in named
    BY <2>1, <2>2
  <2>5. UNCHANGED <<main, missed, reload, request, ready, emit, inForce, known>>
    BY <1>4 DEF Identify
  <2>6. AllKnown => AllKnown'
    BY <2>3, <2>4, <2>5 DEF AllKnown
  <2>7. Streamed => Streamed'
    BY <2>3, <2>4, <2>5 DEF Streamed
  <2>8. QED BY <1>2, <2>5, <2>6, <2>7
<1>5. CASE AddRecord
  BY <1>1, <1>3, <1>5 DEF AddRecord
<1>6. CASE PrepareDevice
  BY <1>3, <1>6, PreparingEnsures DEF PrepareDevice, Ensured
<1>7. ASSUME UNCHANGED <<main, missed, reload, request, ready, emit, inForce, named, learned>> PROVE StreamOK'
  BY <1>1, <1>3, <1>7 DEF learned
<1>8. CASE LookAtMapping \/ TellFound \/ WalkEnds \/ EditorWrites \/ UNCHANGED daemonVars
  BY <1>7, <1>8 DEF LookAtMapping, TellFound, WalkEnds, EditorWrites, daemonVars, learned
<1>9. ASSUME NEW d \in Devices, DeviceAppears(d) PROVE StreamOK'
  BY <1>7, <1>9 DEF DeviceAppears
<1>10. ASSUME NEW m \in Mappings, EditorTruncates(m) PROVE StreamOK'
  BY <1>7, <1>10 DEF EditorTruncates

\* The threads of requests: until the last has told of it nothing is sure.
<1>11. ASSUME reload' \/ ~Settled', UNCHANGED <<main, ready, emit>>, known \subseteq known' PROVE StreamOK'
  BY <1>0, <1>11 DEF StreamOK, NeedsAreAsked, Unsure, StreamIsRenewed
<1>12. ASSUME NEW r \in Requests, request'[r].step # "idle", UNCHANGED <<main, ready, emit>>,
              known \subseteq known'
       PROVE  StreamOK'
  BY <1>11, <1>12 DEF Settled
<1>13. ASSUME NEW r \in Requests, NEW from, NEW to, RequestStep(r, from, to)
       PROVE  request'[r].step = to
  BY <1>0, <1>13 DEF RequestStep, DaemonTypeOK, RequestThreads
<1>14. ASSUME NEW r \in Requests, Receive(r) PROVE StreamOK'
  <2>1. request'[r].step = "truncate"
    BY <1>0, <1>14 DEF Receive, DaemonTypeOK
  <2>2. QED BY <1>12, <1>14, <2>1 DEF Receive, learned
<1>15. ASSUME NEW r \in Requests, Truncate(r) \/ Persist(r) \/ Replace(r) PROVE StreamOK'
  <2>1. request'[r].step \in {"persist", "ensure", "tell"}
    BY <1>13, <1>15 DEF Truncate, Persist, Replace
  <2>2. QED BY <1>12, <1>15, <2>1 DEF Truncate, Persist, Replace, learned
<1>16. ASSUME NEW r \in Requests, Prepare(r) PROVE StreamOK'
  <2>1. request'[r].step = "replace"
    BY <1>13, <1>16 DEF Prepare
  <2>2. QED BY <1>12, <1>16, <2>1, PreparingEnsures DEF Prepare, Ensured
<1>17. ASSUME NEW r \in Requests, TellReload(r) PROVE StreamOK'
  BY <1>11, <1>17 DEF TellReload, learned

\* The main loop, first where the mapping, the devices and the stream stay.
<1> DEFINE MainKept == /\ UNCHANGED <<inForce, ready, named, emit, learned, reload, request>>
                       /\ missed => missed'
<1>18. ASSUME MainKept
       PROVE  /\ AllKnown => AllKnown'
              /\ Streamed => Streamed'
              /\ Unsure => Unsure'
              /\ known' = known /\ ready' = ready /\ emit' = emit /\ inForce' = inForce
              /\ reload \/ ~Settled => reload' \/ ~Settled'
  BY <1>0, <1>1, <1>18, KnowledgeGrows DEF learned, Unsure, Settled
<1> HIDE DEF MainKept
<1> DEFINE Elsewhere == {"load", "set", "stamp", "found", "reload", "file", "read", "replace"}
<1>19. ASSUME MainKept, main.step \in Elsewhere \cup {"seed_stamp"}, main'.step \in Elsewhere,
              main'.step \in {"load", "set"} => main.step \in {"load", "set"}, main.changed => main'.changed
       PROVE  StreamOK'
  <2>1. (Unsure \/ AllKnown) /\ (missed \/ Streamed \/ reload \/ ~Settled \/ main.changed)
    BY <1>0, <1>19 DEF StreamOK, NeedsAreAsked, StreamIsRenewed
  <2>2. QED BY <1>0, <1>18, <1>19, <2>1 DEF StreamOK, NeedsAreAsked, StreamIsRenewed, MainKept
<1>20. CASE LoadAtStart \/ StampAtStart \/ SeedStamps \/ NoReload \/ SkipFile \/ CheckFile \/ ReadFile
  <2>1. MainKept
    <3>1. UNCHANGED <<inForce, ready, named, emit, learned, reload, request>>
      BY <1>20 DEF LoadAtStart, StampAtStart, SeedStamps, NoReload, SkipFile, CheckFile, ReadFile
    <3>2. missed => missed'
      BY <1>20 DEF LoadAtStart, StampAtStart, SeedStamps, NoReload, SkipFile, CheckFile, ReadFile
    <3>3. QED BY <3>1, <3>2 DEF MainKept
  <2>2. /\ main.step \in Elsewhere \cup {"seed_stamp"} /\ main'.step \in Elsewhere
        /\ main'.step \in {"load", "set"} => main.step \in {"load", "set"}
        /\ main.changed => main'.changed
    BY <1>1, <1>20 DEF LoadAtStart, StampAtStart, SeedStamps, NoReload, SkipFile, CheckFile, ReadFile, At, Goto,
                       MainLoops
  <2>3. QED BY <1>19, <2>1, <2>2
<1>21. CASE SetAtStart
  <2>1. /\ main.step = "set" /\ main'.step = "stamp" /\ UNCHANGED <<ready, emit>>
    BY <1>1, <1>21 DEF SetAtStart, At, MainLoops
  <2>2. ready' = {} /\ emit' = {}
    BY <1>0, <2>1 DEF StreamOK
  <2>3. AllKnown' /\ Streamed'
    BY <2>2 DEF AllKnown, Streamed
  <2>4. QED BY <2>1, <2>3 DEF StreamOK, NeedsAreAsked
<1>22. Seeds \subseteq known
  BY DEF Seeds
<1>23. CASE TakeFound
  <2> DEFINE d == Head(found).device
             mapped == Head(found).mapped
             seeds == main.maySeed /\ SeedsNow /\ Seeds # {}
  <2>1. /\ main.step = "found" /\ main'.step = IF seeds THEN "seed" ELSE "found"
        /\ main'.changed = (main.changed \/ mapped \/ seeds)
        /\ seeds => main'.loaded = Seeds
    BY <1>1, <1>23 DEF TakeFound, At, MainLoops
  <2>2. /\ ready' = ready \cup {d} /\ missed' = (missed \/ LeftBehind(d, mapped))
        /\ UNCHANGED <<inForce, named, emit, learned, reload, request>>
    BY <1>23 DEF TakeFound
  <2> HIDE DEF d, mapped, seeds
  <2>3. ASSUME Settled, ~reload, ~LeftBehind(d, mapped)
        PROVE  \A f \in inForce : Dev(f) = d /\ d \in named => mapped /\ f \in known
    BY <2>3 DEF LeftBehind
  <2>4. Unsure' \/ AllKnown'
    <3>1. CASE Unsure
      BY <2>2, <3>1 DEF Unsure, Settled
    <3>2. CASE AllKnown /\ Settled /\ ~reload
      BY <2>2, <2>3, <3>2 DEF AllKnown, Unsure, learned
    <3>3. QED BY <1>0, <2>1, <3>1, <3>2 DEF StreamOK, NeedsAreAsked, Unsure
  <2>5. missed' \/ Streamed' \/ StreamIsRenewed'
    <3>1. CASE missed \/ main.changed \/ mapped \/ seeds \/ reload \/ ~Settled \/ LeftBehind(d, mapped)
      BY <2>1, <2>2, <3>1 DEF StreamIsRenewed, Settled
    <3>2. CASE ~(missed \/ main.changed \/ mapped \/ seeds \/ reload \/ ~Settled \/ LeftBehind(d, mapped))
      <4>1. Streamed
        BY <1>0, <2>1, <3>2 DEF StreamOK, StreamIsRenewed
      <4>2. \A f \in inForce : Dev(f) \in ready' \cap named <=> Dev(f) \in ready \cap named
        BY <2>2, <2>3, <3>2
      <4>3. QED BY <2>2, <4>1, <4>2 DEF Streamed, learned
    <3>3. QED BY <3>1, <3>2
  <2>6. QED BY <1>22, <2>1, <2>2, <2>4, <2>5 DEF StreamOK, NeedsAreAsked, learned
<1>24. CASE TakeWalked
  <2>1. MainKept
    BY <1>24 DEF TakeWalked, MainKept
  <2>2. /\ main.step = "found" /\ main'.step \in {"seed", "found"} /\ main'.changed
        /\ main'.step = "seed" => main'.loaded = Seeds
    BY <1>1, <1>24 DEF TakeWalked, At, MainLoops
  <2>3. QED BY <1>0, <1>18, <1>22, <2>1, <2>2 DEF StreamOK, NeedsAreAsked, StreamIsRenewed
<1>25. CASE SeedWrites
  <2>1. MainKept
    BY <1>25 DEF SeedWrites, MainKept
  <2>2. main.step = "seed" /\ main'.step = "seed_set" /\ main'.loaded = main.loaded /\ main'.changed = main.changed
    BY <1>1, <1>25 DEF SeedWrites, At, Goto, MainLoops
  <2>3. QED BY <1>0, <1>18, <2>1, <2>2 DEF StreamOK, NeedsAreAsked, StreamIsRenewed
<1>26. CASE SeedSets
  <2>1. /\ main.step = "seed_set" /\ main'.step \in {"found", "seed_stamp"} /\ main'.changed = main.changed
        /\ inForce' = main.loaded /\ UNCHANGED known
    BY <1>1, <1>26 DEF SeedSets, At, MainLoops, learned
  <2>2. main.changed /\ main.loaded \subseteq known
    BY <1>0, <2>1 DEF StreamOK
  <2>3. AllKnown'
    BY <2>1, <2>2 DEF AllKnown
  <2>4. QED BY <2>1, <2>2, <2>3 DEF StreamOK, NeedsAreAsked, StreamIsRenewed
<1>27. CASE FoundDone
  <2>1. MainKept
    BY <1>27 DEF FoundDone, MainKept
  <2>2. main.step = "found" /\ main'.step = IF main.changed THEN "activate" ELSE "reload"
    BY <1>1, <1>27 DEF FoundDone, At, MainLoops
  <2>3. (Unsure \/ AllKnown) /\ (missed \/ Streamed \/ reload \/ ~Settled \/ main.changed)
    BY <1>0, <2>2 DEF StreamOK, NeedsAreAsked, StreamIsRenewed
  <2>4. QED BY <1>1, <1>18, <2>1, <2>2, <2>3 DEF StreamOK, NeedsAreAsked, StreamIsRenewed, MainKept
<1>28. CASE Activate
  <2>1. MainKept
    BY <1>28 DEF Activate, MainKept
  <2>2. /\ main.step = "activate" /\ main'.step = IF main.ensure THEN "ensure" ELSE "resolve"
        /\ main'.taken = inForce
    BY <1>1, <1>28 DEF Activate, At, MainLoops
  <2>3. main.ensure \/ Unsure \/ AllKnown
    BY <1>0, <2>2 DEF StreamOK, NeedsAreAsked
  <2>4. QED BY <1>18, <2>1, <2>2, <2>3 DEF StreamOK, NeedsAreAsked, StreamIsRenewed
<1>29. CASE ActivateEnsures
  <2>1. main.step = "ensure" /\ main'.step = "resolve" /\ main'.taken = main.taken
    BY <1>1, <1>29 DEF ActivateEnsures, At, Goto, MainLoops
  <2>2. Ensured(main.taken) /\ UNCHANGED <<inForce, reload, request, named, ready, missed>>
    BY <1>29, PreparingEnsures DEF ActivateEnsures
  <2>3. Unsure \/ main.taken = inForce
    BY <1>0, <2>1 DEF StreamOK
  <2>4. ASSUME main.taken = inForce PROVE AllKnown'
    <3>1. busy' = 0 => \A f \in inForce : Dev(f) \in records \cap named => f \in known'
      BY <2>2, <2>4 DEF Ensured
    <3>2. QED BY <1>0, <2>2, <3>1 DEF AllKnown, WalkOK
  <2>5. Unsure => Unsure'
    BY <2>2 DEF Unsure, Settled
  <2>6. QED BY <2>1, <2>2, <2>3, <2>4, <2>5 DEF StreamOK, NeedsAreAsked, StreamIsRenewed
<1>30. CASE ActivateStreams
  <2>1. /\ main.step = "resolve" /\ main'.step = main.then /\ main.then \in {"found", "reload", "file"}
        /\ emit' = Resolve(main.taken)
        /\ UNCHANGED <<inForce, reload, request, named, ready, missed, learned>>
    BY <1>1, <1>30 DEF ActivateStreams, At, MainLoops
  <2>2. (Unsure \/ main.taken = inForce) /\ (Unsure \/ AllKnown)
    BY <1>0, <2>1 DEF StreamOK, NeedsAreAsked
  <2>3. Unsure => Unsure'
    BY <2>1 DEF Unsure, Settled
  <2>4. AllKnown => AllKnown'
    BY <2>1 DEF AllKnown, learned
  <2>5. ASSUME AllKnown, main.taken = inForce PROVE Streamed'
    BY <2>1, <2>5, ResolvedIsStreamed DEF learned
  <2>6. Unsure' => missed' \/ StreamIsRenewed'
    BY DEF Unsure, StreamIsRenewed
  <2>7. QED BY <2>1, <2>2, <2>3, <2>4, <2>5, <2>6 DEF StreamOK, NeedsAreAsked
<1>31. CASE TakeReload
  <2>1. main'.step = "activate" /\ main'.ensure
    BY <1>1, <1>31 DEF TakeReload, MainLoops
  <2>2. QED BY <2>1 DEF StreamOK, NeedsAreAsked, StreamIsRenewed
<1>32. CASE ReplaceByFile
  <2>1. main'.step = "activate" /\ main'.ensure
    BY <1>1, <1>32 DEF ReplaceByFile, MainLoops
  <2>2. QED BY <2>1 DEF StreamOK, NeedsAreAsked, StreamIsRenewed
<1>33. QED
  BY <1>4, <1>5, <1>6, <1>8, <1>9, <1>10, <1>14, <1>15, <1>16, <1>17, <1>20, <1>21, <1>23, <1>24, <1>25, <1>26,
     <1>27, <1>28, <1>29, <1>30, <1>31, <1>32 DEF DaemonNext, Discovers, MainLoop, Adopts

-----------------------------------------------------------------------------
(* The initial states, and the theorem.                                    *)

LEMMA DaemonStarts == DaemonInit("load") => DaemonInv
<1> SUFFICES ASSUME DaemonInit("load") PROVE DaemonInv
  OBVIOUS
<1>1. PICK first \in SUBSET Devices :
        walk = [step |-> "off", late |-> FALSE, at |-> {}, todo |-> first, waiting |-> {}, saw |-> {}]
  BY DEF DaemonInit
<1>2. /\ inForce = {} /\ reload = FALSE /\ touched = FALSE /\ editor = Absent /\ missed = FALSE
      /\ records = {} /\ named = {} /\ known = {} /\ asked = {} /\ busy = 0 /\ found = <<>>
      /\ ready = {} /\ emit = {}
      /\ request = [r \in Requests |-> [step |-> "idle", mapping |-> {}]]
      /\ menus = [d \in Devices |-> {}]
  BY DEF DaemonInit
<1>3. main = [step |-> "load", loaded |-> {}, changed |-> FALSE, ensure |-> FALSE, taken |-> {},
              then |-> "found", maySeed |-> FALSE, checked |-> FALSE]
  BY DEF DaemonInit
<1>4. file \in MappingFiles /\ file # Torn
  <2>1. file = Absent \/ \E m \in Saved : file = Whole(m)
    BY DEF DaemonInit
  <2>2. CASE file = Absent
    BY <2>2 DEF MappingFiles, Absent, Torn
  <2>3. ASSUME NEW m \in Saved, file = Whole(m)
        PROVE  file \in MappingFiles /\ file # Torn
    <3>1. m \subseteq OfDevices
      BY DaemonAssumption
    <3>2. QED BY <2>3, <3>1 DEF MappingFiles, Whole, Torn
  <2>4. QED BY <2>1, <2>2, <2>3
<1>5. DaemonTypeOK
  <2>1. walk \in WalkThreads /\ main \in MainLoops /\ editor \in MappingFiles
    BY <1>1, <1>2, <1>3 DEF WalkThreads, MainLoops, MappingFiles, Absent
  <2>2. request \in [Requests -> RequestThreads] /\ menus \in [Devices -> SUBSET {"cfg"}]
    BY <1>2 DEF RequestThreads
  <2>3. found \in Seq(Messages)
    <3>1. << >> \in Seq(Messages)
      OBVIOUS
    <3>2. QED BY <1>2, <3>1, Zenon
  <2>4. touched \in BOOLEAN /\ reload \in BOOLEAN /\ missed \in BOOLEAN /\ busy \in Nat
    BY <1>2
  <2>5. /\ inForce \subseteq OfDevices /\ known \subseteq OfDevices /\ asked \subseteq OfDevices
        /\ records \subseteq Devices /\ named \subseteq Devices /\ ready \subseteq Devices
    BY <1>2
  <2>6. QED BY <1>4, <2>1, <2>2, <2>3, <2>4, <2>5, Zenon DEF DaemonTypeOK
<1>6. WalkOK
  BY <1>1, <1>2 DEF WalkOK
<1>7. LearnedOK
  BY <1>2 DEF LearnedOK
<1>8. FileOK
  BY <1>2, <1>3, <1>4 DEF FileOK, FileIsLookedAt, Absent, Torn
<1>9. StreamOK
  BY <1>2, <1>3 DEF StreamOK, NeedsAreAsked, AllKnown, Streamed
<1>10. QED BY <1>5, <1>6, <1>7, <1>8, <1>9 DEF DaemonInv

\* Whoever edits the mapping, as long as the file, the mapping in force and the stream
\* do not agree there is somebody on the way to make them: a request that has yet to
\* tell of it, an editor that has yet to write, or a step of the main loop.  With any
\* number of devices, requests and edits, however the bus fails to answer (api.rs
\* adopt; the reload, the file check, the seeding and activate of
\* bin/masterbus-signalk.rs).  That the step is taken is EditsLand.
THEOREM EditsStayUnderWay == DaemonSpec => []EditsAreUnderWay
<1>1. DaemonInv /\ [DaemonNext]_daemonVars => DaemonInv'
  <2> SUFFICES ASSUME DaemonInv, [DaemonNext]_daemonVars PROVE DaemonInv'
    OBVIOUS
  <2>1. DaemonTypeOK' /\ WalkOK' /\ LearnedOK' /\ FileOK' /\ StreamOK'
    BY TypesHold, WalkHolds, LearnedHolds, FileHolds, StreamHolds
  <2>2. QED BY <2>1 DEF DaemonInv
<1>2. DaemonInv => EditsAreUnderWay
  BY DEF DaemonInv, FileOK, StreamOK, EditsAreUnderWay
<1>3. QED BY DaemonStarts, <1>1, <1>2, PTL DEF DaemonSpec

=============================================================================
