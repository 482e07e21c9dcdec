-------------------------- MODULE ValuePath_proofs --------------------------
(***************************************************************************)
(* Proofs about ValuePath, for any set of fields and values and any bounds.*)
(***************************************************************************)
EXTENDS ValuePath, TLAPS

\* A frame appended to a history: one longer, everything before it kept.
LEMMA AppendToSeq ==
    ASSUME NEW S, NEW s \in Seq(S), NEW x \in S
    PROVE  /\ Append(s, x) \in Seq(S) \ {<<>>}
           /\ Len(Append(s, x)) = Len(s) + 1
           /\ \A i \in 1..Len(s) : Append(s, x)[i] = s[i]
           /\ Append(s, x)[Len(s) + 1] = x
  OBVIOUS

\* The frame taken from a queue and the queue that is left.
LEMMA TakeFromSeq ==
    ASSUME NEW S, NEW s \in Seq(S), s # <<>>
    PROVE  /\ Head(s) \in S
           /\ Head(s) = s[1]
           /\ 1 \in 1..Len(s)
           /\ Tail(s) \in Seq(S)
           /\ Len(Tail(s)) = Len(s) - 1
           /\ \A i \in 1..Len(Tail(s)) : i + 1 \in 1..Len(s) /\ Tail(s)[i] = s[i + 1]
  OBVIOUS

\* A field always has a present value, and a reading of it is well formed.
LEMMA PresentType ==
    ASSUME TypeOK, NEW f \in Fields
    PROVE  /\ held[f] \in Seq(Values) /\ Len(held[f]) \in Nat \ {0}
           /\ Current(f) \in Values
           /\ Present(f) \in Reading
  <1>1. held[f] \in Seq(Values) /\ held[f] # <<>>
    BY DEF TypeOK
  <1>2. Len(held[f]) \in Nat \ {0}
    BY <1>1
  <1>3. QED
    BY <1>1, <1>2 DEF Current, Present, Reading

LEMMA InitType == Init => TypeOK
  <1> SUFFICES ASSUME Init PROVE TypeOK
    OBVIOUS
  <1>1. held \in [Fields -> Seq(Values) \ {<<>>}]
    <2>1. ASSUME NEW v \in Values PROVE <<v>> \in Seq(Values) \ {<<>>}
      OBVIOUS
    <2>2. {<<v>> : v \in Values} \subseteq Seq(Values) \ {<<>>}
      BY <2>1
    <2>3. QED
      BY <2>2, Zenon DEF Init
  <1>2. heard \in [Fields -> Nat] /\ incoming \in [Fields -> Values \cup {None}]
    BY DEF Init
  <1>3. slots \in [Fields -> Reading \cup {Absent, None}]
    BY DEF Init, WaiterInit
  <1>4. cache \in [Fields -> Entry \cup {None}] /\ told \in [Fields -> Reading \cup {None}]
    BY DEF Init, CacheInit
  <1>5. QED
    BY <1>1, <1>2, <1>3, <1>4 DEF Init, TypeOK, Job

\* What the shared operators do to the types of the tables they update.
LEMMA TableTypes ==
    ASSUME TypeOK, NEW f \in Fields, NEW rd \in Reading
    PROVE  /\ Register(f) => slots' \in [Fields -> Reading \cup {Absent, None}]
           /\ Deliver(f, rd) => slots' \in [Fields -> Reading \cup {Absent, None}]
           /\ Remove(f) => slots' \in [Fields -> Reading \cup {Absent, None}]
           /\ PutValue(f, rd) => cache' \in [Fields -> Entry \cup {None}]
           /\ MarkOutdated(f) => cache' \in [Fields -> Entry \cup {None}]
  <1>1. MarkOutdated(f) => cache' \in [Fields -> Entry \cup {None}]
    <2>1. CASE cache[f] = None
      BY <2>1 DEF TypeOK, MarkOutdated, Outdated
    <2>2. CASE cache[f] # None
      <3>1. cache[f] \in Entry
        BY <2>2 DEF TypeOK
      <3>2. [cache[f] EXCEPT !.outdated = TRUE] \in Entry
        BY <3>1 DEF Entry
      <3>3. QED
        BY <2>2, <3>2 DEF TypeOK, MarkOutdated, Outdated
    <2>3. QED
      BY <2>1, <2>2
  <1>2. PutValue(f, rd) => cache' \in [Fields -> Entry \cup {None}]
    BY DEF TypeOK, PutValue, Entry
  <1>3. QED
    BY <1>1, <1>2 DEF TypeOK, Register, Deliver, Remove

LEMMA DeviceType ==
    ASSUME TypeOK, NEW f \in Fields, Device(f)
    PROVE  TypeOK'
  <1> USE PresentType
  <1>1. CASE DeviceActs(f)
    <2>1. incoming[f] \in Values
      BY <1>1 DEF DeviceActs, TypeOK
    <2>2. Append(held[f], incoming[f]) \in Seq(Values) \ {<<>>}
      BY <2>1, AppendToSeq
    <2>3. held' \in [Fields -> Seq(Values) \ {<<>>}]
      BY <1>1, <2>2 DEF DeviceActs, TypeOK
    <2>4. incoming' \in [Fields -> Values \cup {None}]
      BY <1>1 DEF DeviceActs, TypeOK
    <2>5. QED
      BY <1>1, <2>3, <2>4 DEF DeviceActs, TypeOK, schedVars, phaseVars
  <1>2. CASE DeviceSends(f)
    <2>1. [field |-> f, rd |-> Present(f)] \in Frame
      BY DEF Frame
    <2>2. wire' \in Seq(Frame)
      BY <1>2, <2>1, AppendToSeq DEF DeviceSends, TypeOK
    <2>3. QED
      BY <1>2, <2>2 DEF DeviceSends, TypeOK, deviceVars, schedVars, phaseVars
  <1>3. ASSUME NEW v \in Values, DeviceChanges(f, v) PROVE TypeOK'
    <2>1. Append(held[f], v) \in Seq(Values) \ {<<>>}
      BY AppendToSeq
    <2>2. held' \in [Fields -> Seq(Values) \ {<<>>}]
      BY <1>3, <2>1 DEF DeviceChanges, TypeOK
    <2>3. QED
      BY <1>3, <2>2 DEF DeviceChanges, TypeOK, schedVars, phaseVars
  <1>4. ASSUME NEW v \in Values, OtherMasterWrites(f, v) PROVE TypeOK'
    <2>1. [field |-> f, rd |-> [val |-> v, at |-> Len(held[f])]] \in Frame
      BY DEF Frame, Reading
    <2>2. wire' \in Seq(Frame)
      BY <1>4, <2>1, AppendToSeq DEF OtherMasterWrites, TypeOK
    <2>3. incoming' \in [Fields -> Values \cup {None}]
      BY <1>4 DEF OtherMasterWrites, TypeOK
    <2>4. QED
      BY <1>4, <2>2, <2>3 DEF OtherMasterWrites, TypeOK, schedVars, phaseVars
  <1>5. QED
    BY <1>1, <1>2, <1>3, <1>4, Device(f) DEF Device

LEMMA ReaderType ==
    ASSUME TypeOK, Reader
    PROVE  TypeOK'
  <1>1. CASE HearFrame
    <2>1. /\ Head(wire) \in Frame
          /\ Tail(wire) \in Seq(Frame)
      BY <1>1, TakeFromSeq DEF HearFrame, TypeOK
    <2>2. rhand' \in Frame /\ rhand'.field \in Fields /\ rhand'.rd \in Reading
      BY <1>1, <2>1 DEF HearFrame, Frame
    <2>3. slots' \in [Fields -> Reading \cup {Absent, None}]
      BY <1>1, <2>2, TableTypes DEF HearFrame
    <2>4. heard' \in [Fields -> Nat]
      BY <1>1, <2>2 DEF HearFrame, TypeOK, Reading
    <2>5. QED
      BY <1>1, <2>1, <2>2, <2>3, <2>4
      DEF HearFrame, TypeOK, deviceVars, schedVars, phaseVars
  <1>2. CASE CacheFrame
    <2>1. rhand.field \in Fields /\ rhand.rd \in Reading
      BY <1>2 DEF CacheFrame, TypeOK, Frame
    <2>2. cache' \in [Fields -> Entry \cup {None}]
      BY <1>2, <2>1, TableTypes DEF CacheFrame
    <2>3. QED
      BY <1>2, <2>2 DEF CacheFrame, TypeOK, deviceVars, schedVars, phaseVars
  <1>3. QED
    BY <1>1, <1>2, Reader DEF Reader

LEMMA BeginType ==
    ASSUME TypeOK, Begin
    PROVE  TypeOK'
  <1>1. ASSUME NEW f \in Fields, BeginRead(f) PROVE TypeOK'
    <2>1. job' \in Job
      BY <1>1 DEF BeginRead, Idle, Job
    <2>2. QED
      BY <1>1, <2>1 DEF BeginRead, TypeOK, deviceVars
  <1>2. ASSUME NEW f \in Fields, NEW v \in Values, BeginWrite(f, v) PROVE TypeOK'
    <2>1. job' \in Job
      BY <1>2, PathAssumption DEF BeginWrite, Job
    <2>2. incoming' \in [Fields -> Values \cup {None}]
      BY <1>2 DEF BeginWrite, TypeOK
    <2>3. QED
      BY <1>2, <2>1, <2>2 DEF BeginWrite, TypeOK, phaseVars
  <1>3. ASSUME NEW due \in SUBSET Fields \ {{}}, BeginPass(due) PROVE TypeOK'
    <2>1. job' \in Job
      BY <1>3 DEF BeginPass, Idle, Job
    <2>2. QED
      BY <1>3, <2>1 DEF BeginPass, TypeOK, deviceVars
  <1>4. QED
    BY <1>1, <1>2, <1>3, Begin DEF Begin

\* A job whose operation is a write is a full write job.
LEMMA WritingJob ==
    ASSUME TypeOK, job.op = "write"
    PROVE  /\ job \in [op : {"write"}, field : Fields, want : Values, tries : 0..SettlePolls]
           /\ job.field \in Fields /\ job.want \in Values
  BY DEF TypeOK, Job, Idle

LEMMA WorkType ==
    ASSUME TypeOK, SchedulerPhase, Work
    PROVE  TypeOK'
  <1>1. ASSUME NEW f \in Fields, UseCache(f) PROVE TypeOK'
    <2>1. cache[f].rd \in Reading
      BY <1>1 DEF UseCache, Trusted, TypeOK, Entry
    <2>2. QED
      BY <1>1, <2>1 DEF UseCache, TypeOK, deviceVars
  <1>2. ASSUME NEW f \in Fields, ChoosePoll(f) PROVE TypeOK'
    BY <1>2 DEF ChoosePoll, TypeOK, deviceVars
  <1>3. ASSUME NEW f \in Fields, SendRead(f) PROVE TypeOK'
    <2>1. slots' \in [Fields -> Reading \cup {Absent, None}]
      BY <1>3 DEF SendRead, Register, TypeOK
    <2>2. QED
      BY <1>3, <2>1 DEF SendRead, TypeOK, deviceVars
  <1>4. ASSUME NEW f \in Fields, Collect(f) PROVE TypeOK'
    <2>1. slots[f] \in Reading /\ shand' \in Frame
      BY <1>4 DEF Collect, Answered, TypeOK, Frame
    <2>2. slots' \in [Fields -> Reading \cup {Absent, None}]
      BY <1>4 DEF Collect, Remove, TypeOK
    <2>3. QED
      BY <1>4, <2>1, <2>2 DEF Collect, TypeOK, deviceVars
  <1>5. ASSUME NEW f \in Fields, Miss(f) PROVE TypeOK'
    <2>1. slots' \in [Fields -> Reading \cup {Absent, None}]
      BY <1>5 DEF Miss, Remove, TypeOK
    <2>2. job' \in Job /\ pc' \in {"idle", "poll"}
      BY <1>5 DEF Miss, AllSent, TypeOK, Job
    <2>3. QED
      BY <1>5, <2>1, <2>2 DEF Miss, TypeOK, deviceVars
  <1>6. CASE StoreRead
    <2>1. shand.field \in Fields /\ shand.rd \in Reading
      BY <1>6 DEF StoreRead, SchedulerPhase, TypeOK, Frame
    <2>2. cache' \in [Fields -> Entry \cup {None}]
      BY <1>6, <2>1, TableTypes DEF StoreRead
    <2>3. told' \in [Fields -> Reading \cup {None}]
      BY <1>6, <2>1 DEF StoreRead, TypeOK
    <2>4. shand' \in Frame \cup {None} /\ pc' \in {"poll", "check"}
      BY <1>6 DEF StoreRead, TypeOK
    <2>5. QED
      BY <1>6, <2>2, <2>3, <2>4 DEF StoreRead, TypeOK, deviceVars, phaseVars
  <1>7. CASE Finish
    BY <1>7 DEF Finish, TypeOK, deviceVars, phaseVars, Job
  <1>8. CASE MarkWritten
    <2>1. job.field \in Fields
      BY <1>8, WritingJob DEF MarkWritten, SchedulerPhase
    <2>2. cache' \in [Fields -> Entry \cup {None}]
      BY <1>8, <2>1 DEF MarkWritten, MarkOutdated, Outdated, TypeOK, Entry
    <2>3. QED
      BY <1>8, <2>1, <2>2 DEF MarkWritten, TypeOK, deviceVars
  <1>9. CASE SettleAgain
    <2>1. /\ job \in [op : {"write"}, field : Fields, want : Values, tries : 0..SettlePolls]
          /\ job.tries < SettlePolls
      BY <1>9, WritingJob DEF SettleAgain, SchedulerPhase
    <2>2. job.tries + 1 \in 0..SettlePolls
      BY <2>1, PathAssumption
    <2>3. job' \in [op : {"write"}, field : Fields, want : Values, tries : 0..SettlePolls]
      BY <1>9, <2>1, <2>2 DEF SettleAgain
    <2>4. job' \in Job
      BY <2>3 DEF Job
    <2>5. QED
      BY <1>9, <2>4 DEF SettleAgain, TypeOK, deviceVars, phaseVars
  <1>10. CASE ReportWrite
    <2>1. shand.field \in Fields /\ shand.rd \in Reading
      BY <1>10 DEF ReportWrite, SchedulerPhase, TypeOK, Frame
    <2>2. told' \in [Fields -> Reading \cup {None}]
      BY <1>10, <2>1 DEF ReportWrite, TypeOK
    <2>3. QED
      BY <1>10, <2>2 DEF ReportWrite, TypeOK, deviceVars, phaseVars, Job
  <1>11. QED
    BY <1>1, <1>2, <1>3, <1>4, <1>5, <1>6, <1>7, <1>8, <1>9, <1>10, Work DEF Work

-----------------------------------------------------------------------------
(* The scheduler's control: which keys are registered, and what its local  *)
(* variables look like.                                                    *)

Control == TypeOK /\ SlotsAreReadsInFlight /\ SchedulerPhase

LEMMA InitControl == Init => Control
  BY InitType
  DEF Init, Control, SlotsAreReadsInFlight, SchedulerPhase, WaiterInit, Registered, Idle

\* Steps of the device, of other masters and of the reader leave the
\* scheduler's variables alone; the reader registers and removes no key.
LEMMA BusControl ==
    ASSUME Control, Reader \/ \E f \in Fields : Device(f)
    PROVE  SlotsAreReadsInFlight' /\ SchedulerPhase'
  <1>1. CASE \E f \in Fields : Device(f)
    <2>1. UNCHANGED <<slots, schedVars>>
      BY <1>1 DEF Device, DeviceActs, DeviceSends, DeviceChanges, OtherMasterWrites
    <2>2. QED
      BY <2>1 DEF Control, schedVars, phaseVars, SlotsAreReadsInFlight, SchedulerPhase,
                  Registered
  <1>2. CASE CacheFrame
    BY <1>2 DEF CacheFrame, Control, schedVars, phaseVars, SlotsAreReadsInFlight,
                SchedulerPhase, Registered
  <1>3. CASE HearFrame
    <2>1. Head(wire) \in Frame
      BY <1>3, TakeFromSeq DEF HearFrame, Control, TypeOK
    <2>9. rhand' \in Frame /\ rhand'.field \in Fields /\ rhand'.rd \in Reading
      BY <1>3, <2>1 DEF HearFrame, Frame
    <2>2. \A f \in Fields : slots'[f] # Absent <=> slots[f] # Absent
      BY <1>3, <2>9, PathAssumption DEF HearFrame, Deliver, Registered, Control, TypeOK
    <2>3. QED
      BY <1>3, <2>2 DEF HearFrame, Control, schedVars, phaseVars, SlotsAreReadsInFlight,
                        SchedulerPhase, Registered
  <1>4. QED
    BY <1>1, <1>2, <1>3 DEF Reader

LEMMA BeginControl ==
    ASSUME Control, Begin
    PROVE  SlotsAreReadsInFlight' /\ SchedulerPhase'
  <1>1. pc = "idle"
    BY DEF Begin, BeginRead, BeginWrite, BeginPass
  <1>2. todo = {} /\ chosen = {} /\ inflight = {} /\ shand = None
    BY <1>1 DEF Control, SchedulerPhase
  <1>3. UNCHANGED <<slots, chosen, inflight, shand>>
    BY DEF Begin, BeginRead, BeginWrite, BeginPass, phaseVars
  <1>4. SlotsAreReadsInFlight'
    BY <1>3 DEF Control, SlotsAreReadsInFlight, Registered
  <1>9. chosen' = {} /\ inflight' = {} /\ shand' = None
    BY <1>2, <1>3
  <1>5. CASE \E f \in Fields : BeginRead(f)
    <2>1. pc' = "poll" /\ job'.op # "write"
      BY <1>5 DEF BeginRead, Idle
    <2>2. QED
      BY <1>4, <1>9, <2>1 DEF SchedulerPhase
  <1>6. CASE \E due \in SUBSET Fields \ {{}} : BeginPass(due)
    <2>1. pc' = "poll" /\ job'.op # "write"
      BY <1>6 DEF BeginPass, Idle
    <2>2. QED
      BY <1>4, <1>9, <2>1 DEF SchedulerPhase
  <1>7. CASE \E f \in Fields, v \in Values : BeginWrite(f, v)
    <2>1. PICK f \in Fields, v \in Values : BeginWrite(f, v)
      BY <1>7
    <2>2. pc' = "mark" /\ job'.op = "write" /\ UNCHANGED todo
      BY <2>1 DEF BeginWrite, phaseVars
    <2>3. QED
      BY <1>2, <1>4, <1>9, <2>2 DEF SchedulerPhase
  <1>8. QED
    BY <1>4, <1>5, <1>6, <1>7, Begin DEF Begin

LEMMA WorkControl ==
    ASSUME Control, Work
    PROVE  SlotsAreReadsInFlight' /\ SchedulerPhase'
  <1> USE DEF Control, SlotsAreReadsInFlight, SchedulerPhase, Registered
  <1>1. ASSUME NEW f \in Fields, UseCache(f)
        PROVE SlotsAreReadsInFlight' /\ SchedulerPhase'
    BY <1>1 DEF UseCache
  <1>2. ASSUME NEW f \in Fields, ChoosePoll(f)
        PROVE SlotsAreReadsInFlight' /\ SchedulerPhase'
    BY <1>2 DEF ChoosePoll
  <1>3. ASSUME NEW f \in Fields, SendRead(f)
        PROVE SlotsAreReadsInFlight' /\ SchedulerPhase'
    <2>1. SlotsAreReadsInFlight'
      BY <1>3, PathAssumption DEF SendRead, Register, TypeOK
    <2>2. SchedulerPhase'
      BY <1>3 DEF SendRead
    <2>3. QED
      BY <2>1, <2>2
  <1>4. ASSUME NEW f \in Fields, Collect(f)
        PROVE SlotsAreReadsInFlight' /\ SchedulerPhase'
    <2>1. SlotsAreReadsInFlight'
      BY <1>4 DEF Collect, Remove, TypeOK
    <2>2. shand' # None /\ shand'.field = f
      BY <1>4, PathAssumption DEF Collect, Answered, TypeOK, Frame
    <2>3. SchedulerPhase'
      BY <1>4, <2>2 DEF Collect, AllSent
    <2>4. QED
      BY <2>1, <2>3
  <1>5. ASSUME NEW f \in Fields, Miss(f)
        PROVE SlotsAreReadsInFlight' /\ SchedulerPhase'
    <2>1. SlotsAreReadsInFlight'
      BY <1>5 DEF Miss, Remove, TypeOK
    <2>2. SchedulerPhase'
      BY <1>5 DEF Miss, AllSent, Idle
    <2>3. QED
      BY <2>1, <2>2
  <1>6. CASE StoreRead
    BY <1>6 DEF StoreRead, phaseVars
  <1>7. CASE Finish
    BY <1>7 DEF Finish, AllSent, phaseVars, Idle
  <1>8. CASE MarkWritten
    BY <1>8 DEF MarkWritten
  <1>9. CASE SettleAgain
    <2>1. job'.op = "write" /\ job'.field = job.field
      BY <1>9, WritingJob DEF SettleAgain
    <2>2. QED
      BY <1>9, <2>1 DEF SettleAgain, phaseVars
  <1>10. CASE ReportWrite
    BY <1>10 DEF ReportWrite, phaseVars, Idle
  <1>11. QED
    BY <1>1, <1>2, <1>3, <1>4, <1>5, <1>6, <1>7, <1>8, <1>9, <1>10, Work DEF Work

LEMMA StepControl == Control /\ [Next]_vars => Control'
  <1> SUFFICES ASSUME Control, [Next]_vars PROVE Control'
    OBVIOUS
  <1>1. CASE UNCHANGED vars
    BY <1>1 DEF vars, deviceVars, schedVars, phaseVars, Control, TypeOK,
                SlotsAreReadsInFlight, SchedulerPhase, Registered
  <1>2. CASE Next
    BY <1>2, DeviceType, ReaderType, BeginType, WorkType, BusControl, BeginControl,
       WorkControl DEF Next, Control
  <1>3. QED
    BY <1>1, <1>2

\* Every variable keeps its type: the fields, the jobs and the answers passed
\* between the two threads are always well formed.
THEOREM TypeCorrect == Spec => []TypeOK
  <1>1. Spec => []Control
    BY InitControl, StepControl, PTL DEF Spec
  <1>2. Control => TypeOK
    BY DEF Control
  <1>3. QED
    BY <1>1, <1>2, PTL

\* No key outlives its read in the waiter table and none is removed early,
\* whatever the bus answers and when (Waiter::register, wait, deliver).
THEOREM KeysAreReadsInFlight == Spec => []SlotsAreReadsInFlight
  <1>1. Spec => []Control
    BY InitControl, StepControl, PTL DEF Spec
  <1>2. Control => SlotsAreReadsInFlight
    BY DEF Control
  <1>3. QED
    BY <1>1, <1>2, PTL

-----------------------------------------------------------------------------
(* The order of knowledge along the path. *)

IInv == Control /\ KnowledgeIsOrdered

\* The positions the order compares are natural numbers.
LEMMA Positions ==
    ASSUME TypeOK
    PROVE  /\ \A f \in Fields :
                /\ ToldAt(f) \in Nat /\ heard[f] \in Nat /\ Len(held[f]) \in Nat \ {0}
                /\ cache[f] # None => cache[f].rd.at \in Nat
                /\ Answered(f) => slots[f].at \in Nat
           /\ shand # None => shand.field \in Fields /\ shand.rd.at \in Nat
           /\ rhand # None => rhand.field \in Fields /\ rhand.rd.at \in Nat
           /\ Len(wire) \in Nat
           /\ \A i \in 1..Len(wire) :
                wire[i] \in Frame /\ wire[i].field \in Fields /\ wire[i].rd.at \in Nat
  <1>1. \A f \in Fields :
          /\ ToldAt(f) \in Nat /\ heard[f] \in Nat /\ Len(held[f]) \in Nat \ {0}
          /\ cache[f] # None => cache[f].rd.at \in Nat
          /\ Answered(f) => slots[f].at \in Nat
    <2> TAKE f \in Fields
    <2>1. ToldAt(f) \in Nat /\ heard[f] \in Nat
      BY DEF TypeOK, ToldAt, Reading
    <2>2. Len(held[f]) \in Nat \ {0}
      BY PresentType
    <2>3. cache[f] # None => cache[f].rd.at \in Nat
      BY DEF TypeOK, Entry, Reading
    <2>4. Answered(f) => slots[f].at \in Nat
      BY DEF TypeOK, Answered, Reading
    <2>5. QED
      BY <2>1, <2>2, <2>3, <2>4
  <1>2. /\ shand # None => shand.field \in Fields /\ shand.rd.at \in Nat
        /\ rhand # None => rhand.field \in Fields /\ rhand.rd.at \in Nat
    BY DEF TypeOK, Frame, Reading
  <1>3. Len(wire) \in Nat /\ \A i \in 1..Len(wire) : wire[i] \in Frame
    BY DEF TypeOK
  <1>4. \A fr \in Frame : fr.field \in Fields /\ fr.rd.at \in Nat
    BY DEF Frame, Reading
  <1>5. QED
    BY <1>1, <1>2, <1>3, <1>4

LEMMA InitOrder == Init => KnowledgeIsOrdered
  <1> SUFFICES ASSUME Init PROVE KnowledgeIsOrdered
    OBVIOUS
  <1>1. \A f \in Fields : Len(held[f]) \in Nat
    BY InitType, Positions
  <1>2. TablesOrdered
    <2>1. \A f \in Fields : ToldAt(f) = 0 /\ heard[f] = 0
      BY DEF Init, ToldAt
    <2>2. \A f \in Fields : cache[f] = None /\ ~Answered(f)
      BY DEF Init, Answered, WaiterInit, CacheInit
    <2>3. \A n \in Nat : 0 <= n
      OBVIOUS
    <2>4. \A f \in Fields : ToldAt(f) <= heard[f] /\ heard[f] <= Len(held[f])
      BY <1>1, <2>1, <2>3, Zenon
    <2>5. QED
      BY <2>2, <2>4, Zenon DEF TablesOrdered
  <1>3. SchedulerHandOrdered /\ ReaderHandOrdered
    BY DEF Init, SchedulerHandOrdered, ReaderHandOrdered
  <1>4. WireOrdered
    BY DEF Init, WireOrdered
  <1>5. QED
    BY <1>2, <1>3, <1>4 DEF KnowledgeIsOrdered

\* The device takes another value: the histories only grow.
LEMMA GrowOrder ==
    ASSUME IInv, TypeOK', UNCHANGED <<wire, rhand, slots, cache, schedVars, told, heard>>,
           \A f \in Fields : Len(held[f]) <= Len(held'[f])
    PROVE  KnowledgeIsOrdered'
  <1> USE DEF IInv, Control, KnowledgeIsOrdered
  <1>1. \A f \in Fields : Len(held[f]) \in Nat /\ Len(held'[f]) \in Nat
    BY Positions DEF TypeOK
  <1>2. TablesOrdered'
    BY <1>1, Positions DEF TablesOrdered, ToldAt, Answered
  <1>3. SchedulerHandOrdered' /\ ReaderHandOrdered'
    BY DEF SchedulerHandOrdered, ReaderHandOrdered, ToldAt, schedVars
  <1>4. WireOrdered'
    BY <1>1, Positions DEF WireOrdered
  <1>5. QED
    BY <1>2, <1>3, <1>4

\* A frame is put on the wire behind the others.
LEMMA SendOrder ==
    ASSUME IInv, UNCHANGED <<held, rhand, slots, cache, schedVars, told, heard>>,
           NEW fr \in Frame, wire' = Append(wire, fr), fr.rd.at = Len(held[fr.field])
    PROVE  KnowledgeIsOrdered'
  <1> USE DEF IInv, Control, KnowledgeIsOrdered
  <1>1. TablesOrdered' /\ SchedulerHandOrdered' /\ ReaderHandOrdered'
    BY DEF TablesOrdered, SchedulerHandOrdered, ReaderHandOrdered, ToldAt, Answered,
           schedVars
  <1>2. /\ Len(wire') = Len(wire) + 1
        /\ \A i \in 1..Len(wire) : wire'[i] = wire[i]
        /\ wire'[Len(wire) + 1] = fr
    BY AppendToSeq DEF TypeOK
  <1>3. fr.field \in Fields
    BY DEF Frame
  <1>4. heard[fr.field] <= Len(held[fr.field])
    BY <1>3 DEF TablesOrdered
  <1>5. ASSUME NEW i \in 1..Len(wire')
        PROVE  /\ heard[wire'[i].field] <= wire'[i].rd.at
               /\ wire'[i].rd.at <= Len(held[wire'[i].field])
    <2>1. i \in 1..Len(wire) \/ i = Len(wire) + 1
      BY <1>2, Positions
    <2>2. QED
      BY <2>1, <1>2, <1>3, <1>4, Positions DEF WireOrdered
  <1>6. ASSUME NEW i \in 1..Len(wire'), NEW j \in 1..Len(wire'), i < j,
               wire'[i].field = wire'[j].field
        PROVE  wire'[i].rd.at <= wire'[j].rd.at
    <2>9. Len(wire) \in Nat /\ Len(wire') = Len(wire) + 1
      BY <1>2, Positions
    <2>1. i \in 1..Len(wire) /\ (j \in 1..Len(wire) \/ j = Len(wire) + 1)
      BY <1>6, <2>9
    <2>2. CASE j \in 1..Len(wire)
      BY <2>1, <2>2, <1>2, <1>6 DEF WireOrdered
    <2>3. CASE j = Len(wire) + 1
      BY <2>1, <2>3, <1>2, <1>6 DEF WireOrdered
    <2>4. QED
      BY <2>1, <2>2, <2>3
  <1>7. WireOrdered'
    BY <1>5, <1>6 DEF WireOrdered
  <1>8. QED
    BY <1>1, <1>7

LEMMA DeviceOrder ==
    ASSUME IInv, TypeOK', NEW f \in Fields, Device(f)
    PROVE  KnowledgeIsOrdered'
  <1>1. ASSUME NEW v \in Values, held' = [held EXCEPT ![f] = Append(@, v)]
        PROVE  \A g \in Fields : Len(held[g]) <= Len(held'[g])
    <2>1. held \in [Fields -> Seq(Values) \ {<<>>}]
      BY DEF IInv, Control, TypeOK
    <2>2. Len(Append(held[f], v)) = Len(held[f]) + 1
      BY <2>1, AppendToSeq
    <2>3. QED
      BY <1>1, <2>1, <2>2, Positions DEF IInv, Control
  <1>2. CASE DeviceActs(f)
    <2>1. incoming[f] \in Values
      BY <1>2 DEF DeviceActs, IInv, Control, TypeOK
    <2>2. held' = held \/ held' = [held EXCEPT ![f] = Append(@, incoming[f])]
      BY <1>2 DEF DeviceActs
    <2>3. \A g \in Fields : Len(held[g]) <= Len(held'[g])
      BY <2>1, <2>2, <1>1, Positions DEF IInv, Control
    <2>4. QED
      BY <1>2, <2>3, GrowOrder DEF DeviceActs
  <1>3. ASSUME NEW v \in Values, DeviceChanges(f, v) PROVE KnowledgeIsOrdered'
    BY <1>1, <1>3, GrowOrder DEF DeviceChanges
  <1>4. CASE DeviceSends(f)
    <2>1. [field |-> f, rd |-> Present(f)] \in Frame
      BY PresentType DEF Frame, IInv, Control
    <2>2. QED
      BY <1>4, <2>1, SendOrder DEF DeviceSends, Present, deviceVars
  <1>5. ASSUME NEW v \in Values, OtherMasterWrites(f, v) PROVE KnowledgeIsOrdered'
    <2>1. [field |-> f, rd |-> [val |-> v, at |-> Len(held[f])]] \in Frame
      BY PresentType DEF Frame, Reading, IInv, Control
    <2>2. QED
      BY <1>5, <2>1, SendOrder DEF OtherMasterWrites
  <1>6. QED
    BY <1>2, <1>3, <1>4, <1>5, Device(f) DEF Device

LEMMA HearOrder ==
    ASSUME IInv, TypeOK', HearFrame
    PROVE  KnowledgeIsOrdered'
  <1> USE DEF IInv, Control, KnowledgeIsOrdered
  <1> DEFINE fr == wire[1]
             g == fr.field
  <1>1. /\ fr \in Frame /\ g \in Fields /\ fr.rd \in Reading /\ fr.rd.at \in Nat
        /\ 1 \in 1..Len(wire) /\ wire # <<>> /\ Head(wire) = fr
    <2>1. wire \in Seq(Frame) /\ wire # <<>>
      BY DEF HearFrame, TypeOK
    <2>2. Head(wire) \in Frame /\ Head(wire) = fr /\ 1 \in 1..Len(wire)
      BY <2>1, TakeFromSeq
    <2>3. QED
      BY <2>1, <2>2 DEF Frame, Reading
  <1>2. /\ rhand' = fr
        /\ heard' = [heard EXCEPT ![g] = fr.rd.at]
        /\ Deliver(g, fr.rd)
        /\ wire' = Tail(wire)
    BY <1>1 DEF HearFrame
  <1>3. UNCHANGED <<held, cache, pc, shand, told>>
    BY DEF HearFrame, deviceVars, schedVars
  <1>4. /\ heard[g] <= fr.rd.at /\ fr.rd.at <= Len(held[g])
    BY <1>1 DEF WireOrdered
  <1>5. /\ \A f \in Fields : heard[f] <= heard'[f] /\ heard'[f] \in Nat
        /\ heard'[g] = fr.rd.at
        /\ \A f \in Fields : f # g => heard'[f] = heard[f]
    <2>1. heard'[g] = fr.rd.at /\ \A f \in Fields : f # g => heard'[f] = heard[f]
      BY <1>1, <1>2 DEF TypeOK
    <2>2. ASSUME NEW f \in Fields PROVE heard[f] <= heard'[f] /\ heard'[f] \in Nat
      <3>1. heard[f] \in Nat
        BY Positions
      <3>2. CASE f = g
        BY <3>1, <3>2, <2>1, <1>1, <1>4
      <3>3. CASE f # g
        BY <3>1, <3>3, <2>1
      <3>4. QED
        BY <3>2, <3>3
    <2>3. QED
      BY <2>1, <2>2
  <1>6. \A f \in Fields : ToldAt(f)' = ToldAt(f)
    BY <1>3 DEF ToldAt
  <1>7. TablesOrdered'
    <2> SUFFICES ASSUME NEW f \in Fields
                 PROVE  /\ ToldAt(f) <= heard'[f] /\ heard'[f] <= Len(held[f])
                        /\ cache[f] # None => /\ ToldAt(f) <= cache[f].rd.at
                                              /\ cache[f].rd.at <= heard'[f]
                        /\ slots'[f] \notin {Absent, None} => /\ ToldAt(f) <= slots'[f].at
                                                              /\ slots'[f].at <= heard'[f]
      BY <1>3, <1>6 DEF TablesOrdered, Answered
    <2>1. heard'[f] <= Len(held[f])
      BY <1>4, <1>5, Positions DEF TablesOrdered
    <2>2. ToldAt(f) <= heard'[f]
      BY <1>5, Positions DEF TablesOrdered
    <2>3. cache[f] # None => ToldAt(f) <= cache[f].rd.at /\ cache[f].rd.at <= heard'[f]
      BY <1>5, Positions DEF TablesOrdered
    <2>4. slots'[f] = slots[f] \/ (f = g /\ slots'[f] = fr.rd)
      BY <1>1, <1>2 DEF Deliver, TypeOK
    <2>5. CASE slots'[f] = slots[f]
      BY <2>5, <1>5, <2>1, <2>2, <2>3, Positions DEF TablesOrdered, Answered
    <2>6. CASE f = g /\ slots'[f] = fr.rd
      BY <2>6, <1>5, <2>1, <2>2, <2>3, Positions
    <2>7. QED
      BY <2>4, <2>5, <2>6
  <1>8. SchedulerHandOrdered'
    <2> SUFFICES ASSUME shand # None
                 PROVE  /\ ToldAt(shand.field) <= shand.rd.at
                        /\ shand.rd.at <= heard'[shand.field]
                        /\ pc = "check" => /\ cache[shand.field] # None
                                           /\ shand.rd.at <= cache[shand.field].rd.at
      BY <1>3, <1>6, Positions DEF SchedulerHandOrdered
    <2>1. shand.field \in Fields /\ shand.rd.at \in Nat
      BY Positions
    <2>2. shand.rd.at <= heard'[shand.field]
      BY <1>5, <2>1, Positions DEF SchedulerHandOrdered
    <2>3. QED
      BY <2>2 DEF SchedulerHandOrdered
  <1>9. ReaderHandOrdered'
    BY <1>2, <1>5 DEF ReaderHandOrdered
  <1>10. WireOrdered'
    <2>1. /\ Len(wire') = Len(wire) - 1
          /\ \A i \in 1..Len(wire') : i + 1 \in 1..Len(wire) /\ wire'[i] = wire[i + 1]
      BY <1>1, <1>2, TakeFromSeq DEF TypeOK
    <2>2. ASSUME NEW i \in 1..Len(wire')
          PROVE  /\ heard'[wire'[i].field] <= wire'[i].rd.at
                 /\ wire'[i].rd.at <= Len(held[wire'[i].field])
      <3>1. i + 1 \in 1..Len(wire) /\ wire'[i] = wire[i + 1] /\ 1 < i + 1
        BY <2>1
      <3>2. wire[i + 1].field = g => fr.rd.at <= wire[i + 1].rd.at
        BY <1>1, <3>1 DEF WireOrdered
      <3>3. heard[wire[i + 1].field] <= wire[i + 1].rd.at
        BY <3>1 DEF WireOrdered
      <3>4. wire[i + 1].field \in Fields
        BY <3>1, Positions
      <3>5. heard'[wire[i + 1].field] <= wire[i + 1].rd.at
        BY <1>5, <3>2, <3>3, <3>4
      <3>6. QED
        BY <3>1, <3>5 DEF WireOrdered
    <2>3. ASSUME NEW i \in 1..Len(wire'), NEW j \in 1..Len(wire'), i < j,
                 wire'[i].field = wire'[j].field
          PROVE  wire'[i].rd.at <= wire'[j].rd.at
      <3>1. /\ i + 1 \in 1..Len(wire) /\ wire'[i] = wire[i + 1]
            /\ j + 1 \in 1..Len(wire) /\ wire'[j] = wire[j + 1]
            /\ i + 1 < j + 1
        BY <2>1, <2>3
      <3>2. QED
        BY <2>3, <3>1 DEF WireOrdered
    <2>4. QED
      BY <1>3, <2>2, <2>3 DEF WireOrdered
  <1>11. QED
    BY <1>7, <1>8, <1>9, <1>10

LEMMA CacheFrameOrder ==
    ASSUME IInv, TypeOK', CacheFrame
    PROVE  KnowledgeIsOrdered'
  <1> USE DEF IInv, Control, KnowledgeIsOrdered
  <1>1. /\ rhand # None /\ rhand.field \in Fields /\ rhand.rd.at = heard[rhand.field]
        /\ rhand' = None
    BY Positions DEF CacheFrame, ReaderHandOrdered
  <1>2. /\ cache'[rhand.field].rd = rhand.rd /\ cache'[rhand.field] # None
        /\ \A f \in Fields : f # rhand.field => cache'[f] = cache[f]
    <2>1. rhand.rd \in Reading
      BY <1>1 DEF TypeOK, Frame
    <2>2. [rd |-> rhand.rd, outdated |-> FALSE] \in Entry
      BY <2>1 DEF Entry
    <2>3. cache' = [cache EXCEPT ![rhand.field] = [rd |-> rhand.rd, outdated |-> FALSE]]
      BY DEF CacheFrame, PutValue
    <2>4. QED
      BY <1>1, <2>2, <2>3, PathAssumption DEF TypeOK
  <1>3. UNCHANGED <<held, wire, slots, pc, shand, told, heard>>
    BY DEF CacheFrame, deviceVars, schedVars
  <1>4. \A f \in Fields : ToldAt(f)' = ToldAt(f)
    BY <1>3 DEF ToldAt
  <1>5. TablesOrdered'
    BY <1>1, <1>2, <1>3, <1>4, Positions DEF TablesOrdered, Answered
  <1>6. SchedulerHandOrdered'
    BY <1>1, <1>2, <1>3, <1>4, Positions DEF SchedulerHandOrdered
  <1>7. ReaderHandOrdered' /\ WireOrdered'
    BY <1>1, <1>3 DEF ReaderHandOrdered, WireOrdered
  <1>8. QED
    BY <1>5, <1>6, <1>7

\* A step that hands nothing out and hears nothing: answers may be dropped,
\* cached values marked, the scheduler's answer put away.
LEMMA QuietOrder ==
    ASSUME IInv, UNCHANGED <<held, wire, rhand, told, heard>>,
           \A f \in Fields : Answered(f)' => Answered(f) /\ slots'[f] = slots[f],
           \A f \in Fields : cache'[f] # None =>
                               cache[f] # None /\ cache'[f].rd = cache[f].rd,
           shand' = None
    PROVE  KnowledgeIsOrdered'
  <1> USE DEF IInv, Control, KnowledgeIsOrdered
  <1>1. \A f \in Fields : ToldAt(f)' = ToldAt(f)
    BY DEF ToldAt
  <1>2. TablesOrdered'
    BY <1>1 DEF TablesOrdered
  <1>3. SchedulerHandOrdered' /\ ReaderHandOrdered' /\ WireOrdered'
    BY DEF SchedulerHandOrdered, ReaderHandOrdered, WireOrdered
  <1>4. QED
    BY <1>2, <1>3

\* A step that hands out a reading of f, none of f being in the waiter table
\* and the cache holding nothing older.
LEMMA TellOrder ==
    ASSUME IInv, TypeOK', UNCHANGED <<held, wire, rhand, slots, heard>>,
           NEW f \in Fields, NEW rd \in Reading,
           told' = [told EXCEPT ![f] = rd],
           ~Answered(f), shand' = None,
           cache'[f] # None, rd.at <= cache'[f].rd.at, cache'[f].rd.at <= heard[f],
           \A g \in Fields : g # f => cache'[g] = cache[g]
    PROVE  KnowledgeIsOrdered'
  <1> USE DEF IInv, Control, KnowledgeIsOrdered
  <1>1. ToldAt(f)' = rd.at /\ \A g \in Fields : g # f => ToldAt(g)' = ToldAt(g)
    BY PathAssumption DEF ToldAt, TypeOK
  <1>2. rd.at \in Nat /\ cache'[f].rd.at \in Nat
    BY DEF Reading, TypeOK, Entry
  <1>3. TablesOrdered'
    <2> SUFFICES ASSUME NEW g \in Fields
                 PROVE  /\ ToldAt(g)' <= heard[g] /\ heard[g] <= Len(held[g])
                        /\ cache'[g] # None => /\ ToldAt(g)' <= cache'[g].rd.at
                                               /\ cache'[g].rd.at <= heard[g]
                        /\ Answered(g) => /\ ToldAt(g)' <= slots[g].at
                                          /\ slots[g].at <= heard[g]
      BY DEF TablesOrdered, Answered
    <2>1. CASE g = f
      BY <2>1, <1>1, <1>2, Positions DEF TablesOrdered
    <2>2. CASE g # f
      BY <2>2, <1>1 DEF TablesOrdered
    <2>3. QED
      BY <2>1, <2>2
  <1>4. SchedulerHandOrdered' /\ ReaderHandOrdered' /\ WireOrdered'
    BY DEF SchedulerHandOrdered, ReaderHandOrdered, WireOrdered
  <1>5. QED
    BY <1>3, <1>4

LEMMA BeginOrder ==
    ASSUME IInv, Begin
    PROVE  KnowledgeIsOrdered'
  <1>1. UNCHANGED <<held, wire, rhand, slots, cache, shand, told, heard>> /\ pc = "idle"
    BY DEF Begin, BeginRead, BeginPass, BeginWrite, deviceVars
  <1>2. shand' = None
    BY <1>1 DEF IInv, Control, SchedulerPhase
  <1>3. QED
    BY <1>1, <1>2, QuietOrder DEF Answered

\* No answer waits in the table for a field that is not being read.
LEMMA NoStrayAnswer ==
    ASSUME Control, NEW f \in Fields, f \notin inflight
    PROVE  ~Answered(f)
  BY DEF Control, SlotsAreReadsInFlight, Registered, Answered

LEMMA WorkOrder ==
    ASSUME IInv, TypeOK', Work
    PROVE  KnowledgeIsOrdered'
  <1>1. ASSUME NEW f \in Fields, UseCache(f) PROVE KnowledgeIsOrdered'
    <2>1. cache[f] # None /\ cache[f].rd \in Reading
      BY <1>1 DEF UseCache, Trusted, IInv, Control, TypeOK, Entry
    <2>2. shand = None /\ inflight = {}
      BY <1>1 DEF UseCache, IInv, Control, SchedulerPhase
    <2>3. ~Answered(f)
      BY <2>2, NoStrayAnswer DEF IInv
    <2>4. cache[f].rd.at <= heard[f] /\ cache[f].rd.at \in Nat
      BY <2>1, Positions DEF IInv, Control, KnowledgeIsOrdered, TablesOrdered
    <2>5. UNCHANGED <<held, wire, rhand, slots, cache, shand, heard>>
      BY <1>1 DEF UseCache, deviceVars
    <2>6. told' = [told EXCEPT ![f] = cache[f].rd]
      BY <1>1 DEF UseCache
    <2>7. cache'[f] # None /\ cache[f].rd.at <= cache'[f].rd.at
      BY <2>1, <2>4, <2>5
    <2>8. QED
      BY <2>1, <2>2, <2>3, <2>4, <2>5, <2>6, <2>7, TellOrder
  <1>2. ASSUME NEW f \in Fields, ChoosePoll(f) PROVE KnowledgeIsOrdered'
    <2>1. shand' = None /\ UNCHANGED <<held, wire, rhand, told, heard, slots, cache>>
      BY <1>2 DEF ChoosePoll, deviceVars, IInv, Control, SchedulerPhase
    <2>2. QED
      BY <2>1, QuietOrder DEF Answered
  <1>3. ASSUME NEW f \in Fields, SendRead(f) PROVE KnowledgeIsOrdered'
    <2>1. shand' = None /\ UNCHANGED <<held, wire, rhand, told, heard, cache>>
      BY <1>3 DEF SendRead, deviceVars, IInv, Control, SchedulerPhase
    <2>2. \A g \in Fields : Answered(g)' => Answered(g) /\ slots'[g] = slots[g]
      BY <1>3 DEF SendRead, Register, Answered, IInv, Control, TypeOK
    <2>3. QED
      BY <2>1, <2>2, QuietOrder
  <1>4. ASSUME NEW f \in Fields, Collect(f) PROVE KnowledgeIsOrdered'
    <2>1. /\ UNCHANGED <<held, wire, rhand, told, heard, cache>> /\ pc' = "store"
          /\ shand' = [field |-> f, rd |-> slots[f]] /\ Answered(f)
      BY <1>4 DEF Collect, deviceVars
    <2>2. \A g \in Fields : Answered(g)' => Answered(g) /\ slots'[g] = slots[g]
      BY <1>4 DEF Collect, Remove, Answered, IInv, Control, TypeOK
    <2>3. \A g \in Fields : ToldAt(g)' = ToldAt(g)
      BY <2>1 DEF ToldAt
    <2>4. TablesOrdered'
      BY <2>1, <2>2, <2>3 DEF IInv, KnowledgeIsOrdered, TablesOrdered
    <2>5. SchedulerHandOrdered'
      BY <2>1, <2>3 DEF IInv, KnowledgeIsOrdered, TablesOrdered, SchedulerHandOrdered
    <2>6. ReaderHandOrdered' /\ WireOrdered'
      BY <2>1 DEF IInv, KnowledgeIsOrdered, ReaderHandOrdered, WireOrdered
    <2>7. QED
      BY <2>4, <2>5, <2>6 DEF KnowledgeIsOrdered
  <1>5. ASSUME NEW f \in Fields, Miss(f) PROVE KnowledgeIsOrdered'
    <2>1. shand' = None /\ UNCHANGED <<held, wire, rhand, told, heard, cache>>
      BY <1>5 DEF Miss, AllSent, deviceVars, IInv, Control, SchedulerPhase
    <2>2. \A g \in Fields : Answered(g)' => Answered(g) /\ slots'[g] = slots[g]
      BY <1>5 DEF Miss, Remove, Answered, IInv, Control, TypeOK
    <2>3. QED
      BY <2>1, <2>2, QuietOrder
  <1>6. CASE StoreRead
    <2>1. /\ shand # None /\ shand.field \in Fields /\ shand.rd \in Reading
          /\ shand.field \notin inflight
      BY <1>6 DEF StoreRead, IInv, Control, SchedulerPhase, TypeOK, Frame
    <2>2. /\ ToldAt(shand.field) <= shand.rd.at /\ shand.rd.at <= heard[shand.field]
          /\ shand.rd.at \in Nat
      BY <2>1, Positions DEF IInv, Control, KnowledgeIsOrdered, SchedulerHandOrdered
    <2>3. [rd |-> shand.rd, outdated |-> FALSE] \in Entry
      BY <2>1 DEF Entry
    <2>4. /\ cache'[shand.field] # None /\ cache'[shand.field].rd = shand.rd
          /\ \A g \in Fields : g # shand.field => cache'[g] = cache[g]
      <3>1. cache' = [cache EXCEPT ![shand.field] = [rd |-> shand.rd, outdated |-> FALSE]]
        BY <1>6 DEF StoreRead, PutValue
      <3>2. DOMAIN cache = Fields
        BY DEF IInv, Control, TypeOK
      <3>3. cache'[shand.field] = [rd |-> shand.rd, outdated |-> FALSE]
        BY <2>1, <3>1, <3>2
      <3>4. cache'[shand.field] # None
        BY <2>3, <3>3, PathAssumption
      <3>5. QED
        BY <3>1, <3>2, <3>3, <3>4
    <2>5. UNCHANGED <<held, wire, rhand, slots, heard>>
      BY <1>6 DEF StoreRead, deviceVars
    <2>6. ~Answered(shand.field)
      BY <2>1, NoStrayAnswer DEF IInv
    <2>7. CASE job.op # "write"
      <3>1. told' = [told EXCEPT ![shand.field] = shand.rd] /\ shand' = None
        BY <1>6, <2>7 DEF StoreRead
      <3>2. shand.rd.at <= cache'[shand.field].rd.at /\ cache'[shand.field].rd.at <= heard[shand.field]
        BY <2>2, <2>4
      <3>3. QED
        BY <2>1, <2>4, <2>5, <2>6, <3>1, <3>2, TellOrder
    <2>8. CASE job.op = "write"
      <3>1. UNCHANGED <<told, shand>>
        BY <1>6, <2>8 DEF StoreRead
      <3>2. \A g \in Fields : ToldAt(g)' = ToldAt(g)
        BY <3>1 DEF ToldAt
      <3>3. TablesOrdered'
        BY <2>1, <2>2, <2>4, <2>5, <3>2
        DEF IInv, KnowledgeIsOrdered, TablesOrdered, Answered
      <3>4. SchedulerHandOrdered'
        BY <2>1, <2>2, <2>4, <2>5, <3>1, <3>2 DEF SchedulerHandOrdered
      <3>5. ReaderHandOrdered' /\ WireOrdered'
        BY <2>5 DEF IInv, KnowledgeIsOrdered, ReaderHandOrdered, WireOrdered
      <3>6. QED
        BY <3>3, <3>4, <3>5 DEF KnowledgeIsOrdered
    <2>9. QED
      BY <2>7, <2>8
  <1>7. CASE Finish
    <2>1. shand' = None /\ UNCHANGED <<held, wire, rhand, told, heard, slots, cache>>
      BY <1>7 DEF Finish, AllSent, deviceVars, IInv, Control, SchedulerPhase
    <2>2. QED
      BY <2>1, QuietOrder DEF Answered
  <1>8. CASE MarkWritten
    <2>1. shand' = None /\ UNCHANGED <<held, wire, rhand, told, heard, slots>>
      BY <1>8 DEF MarkWritten, deviceVars, IInv, Control, SchedulerPhase
    <2>2. job.field \in Fields
      BY <1>8, WritingJob DEF MarkWritten, IInv, Control, SchedulerPhase
    <2>3. \A g \in Fields : cache'[g] # None =>
                              cache[g] # None /\ cache'[g].rd = cache[g].rd
      BY <1>8, <2>2 DEF MarkWritten, MarkOutdated, Outdated, IInv, Control, TypeOK, Entry
    <2>4. QED
      BY <2>1, <2>3, QuietOrder DEF Answered
  <1>9. CASE SettleAgain
    <2>1. shand' = None /\ UNCHANGED <<held, wire, rhand, told, heard, slots, cache>>
      BY <1>9 DEF SettleAgain, deviceVars
    <2>2. QED
      BY <2>1, QuietOrder DEF Answered
  <1>10. CASE ReportWrite
    <2>1. /\ shand # None /\ shand.field \in Fields /\ shand.rd \in Reading
          /\ inflight = {}
      BY <1>10 DEF ReportWrite, IInv, Control, SchedulerPhase, TypeOK, Frame
    <2>2. ~Answered(shand.field)
      BY <2>1, NoStrayAnswer DEF IInv
    <2>3. cache[shand.field] # None /\ shand.rd.at <= cache[shand.field].rd.at
      BY <1>10, <2>1 DEF ReportWrite, IInv, KnowledgeIsOrdered, SchedulerHandOrdered
    <2>4. cache[shand.field].rd.at <= heard[shand.field]
      BY <2>1, <2>3 DEF IInv, KnowledgeIsOrdered, TablesOrdered
    <2>5. /\ UNCHANGED <<held, wire, rhand, slots, heard, cache>>
          /\ told' = [told EXCEPT ![shand.field] = shand.rd] /\ shand' = None
      BY <1>10 DEF ReportWrite, deviceVars
    <2>6. QED
      BY <2>1, <2>2, <2>3, <2>4, <2>5, TellOrder
  <1>11. QED
    BY <1>1, <1>2, <1>3, <1>4, <1>5, <1>6, <1>7, <1>8, <1>9, <1>10, Work DEF Work

LEMMA StepOrder == IInv /\ [Next]_vars => IInv'
  <1> SUFFICES ASSUME IInv, [Next]_vars PROVE IInv'
    OBVIOUS
  <1>1. Control'
    BY StepControl DEF IInv
  <1>2. TypeOK'
    BY <1>1 DEF Control
  <1>3. CASE UNCHANGED vars
    <2>1. KnowledgeIsOrdered'
      BY <1>3 DEF vars, deviceVars, schedVars, IInv, KnowledgeIsOrdered, TablesOrdered,
                  SchedulerHandOrdered, ReaderHandOrdered, WireOrdered, ToldAt, Answered
    <2>2. QED
      BY <1>1, <2>1 DEF IInv
  <1>4. CASE Next
    <2>1. KnowledgeIsOrdered'
      BY <1>2, <1>4, DeviceOrder, HearOrder, CacheFrameOrder, BeginOrder, WorkOrder
      DEF Next, Reader
    <2>2. QED
      BY <1>1, <2>1 DEF IInv
  <1>5. QED
    BY <1>3, <1>4

LEMMA SpecOrder == Spec => []IInv
  <1>1. Init => IInv
    BY InitControl, InitOrder DEF IInv
  <1>2. QED
    BY <1>1, StepOrder, PTL DEF Spec

\* Between the device and the callers, every place that holds a reading of a
\* field (wire, reader, waiter table, scheduler, cache) holds one no older
\* than the places behind it, though two threads fill the cache.
THEOREM OrderIsKept == Spec => []KnowledgeIsOrdered
  <1>1. IInv => KnowledgeIsOrdered
    BY DEF IInv
  <1>2. QED
    BY <1>1, SpecOrder, PTL

\* What is told anew by a step, and where it came from.
LEMMA ToldFrom ==
    ASSUME Control, Next, NEW f \in Fields, told'[f] # told[f]
    PROVE  /\ UNCHANGED held
           /\ \/ cache[f] # None /\ told' = [told EXCEPT ![f] = cache[f].rd]
              \/ /\ shand # None /\ shand.field = f
                 /\ told' = [told EXCEPT ![f] = shand.rd]
  <1> USE DEF Control, TypeOK
  <1>1. UNCHANGED told \/ (\E g \in Fields : UseCache(g)) \/ StoreRead \/ ReportWrite
    BY DEF Next, Reader, HearFrame, CacheFrame, Begin, BeginRead, BeginPass, BeginWrite,
           Work, ChoosePoll, SendRead, Collect, Miss, Finish, MarkWritten, SettleAgain,
           Device, DeviceActs, DeviceSends, DeviceChanges, OtherMasterWrites
  <1>2. ASSUME NEW g \in Fields, UseCache(g)
        PROVE  /\ UNCHANGED held /\ f = g
               /\ cache[g] # None /\ told' = [told EXCEPT ![g] = cache[g].rd]
    BY <1>2 DEF UseCache, Trusted, deviceVars
  <1>3. ASSUME StoreRead \/ ReportWrite
        PROVE  /\ UNCHANGED held
               /\ shand # None /\ told' = [told EXCEPT ![shand.field] = shand.rd]
    BY <1>3 DEF StoreRead, ReportWrite, deviceVars, SchedulerPhase
  <1>4. ASSUME StoreRead \/ ReportWrite PROVE shand.field = f
    BY <1>3, <1>4
  <1>5. QED
    BY <1>1, <1>2, <1>3, <1>4

\* No caller and no subscriber is told a value of a field older than one
\* told before it (do_read, poll_due and do_write all hand out what the
\* cache or finish_read gives them).
THEOREM ToldInOrder == Spec => NeverBackInTime
  <1>1. IInv /\ [Next]_vars =>
          [\A f \in Fields : told'[f] # told[f] =>
              told'[f] # None /\ told'[f].at >= ToldAt(f)]_vars
    <2> SUFFICES ASSUME IInv, Next, NEW f \in Fields, told'[f] # told[f]
                 PROVE  told'[f] # None /\ told'[f].at >= ToldAt(f)
      BY DEF vars
    <2>1. told' \in [Fields -> Reading \cup {None}] /\ told \in [Fields -> Reading \cup {None}]
      BY StepOrder DEF IInv, Control, TypeOK
    <2>2. CASE cache[f] # None /\ told' = [told EXCEPT ![f] = cache[f].rd]
      <3>1. cache[f].rd \in Reading
        BY <2>2 DEF IInv, Control, TypeOK, Entry
      <3>2. told'[f] = cache[f].rd
        BY <2>1, <2>2
      <3>3. ToldAt(f) <= cache[f].rd.at
        BY <2>2 DEF IInv, KnowledgeIsOrdered, TablesOrdered
      <3>4. QED
        BY <3>1, <3>2, <3>3, PathAssumption, Positions DEF IInv, Control, Reading
    <2>3. CASE shand # None /\ shand.field = f /\ told' = [told EXCEPT ![f] = shand.rd]
      <3>1. shand.rd \in Reading
        BY <2>3 DEF IInv, Control, TypeOK, Frame
      <3>2. told'[f] = shand.rd
        BY <2>1, <2>3
      <3>3. ToldAt(f) <= shand.rd.at
        BY <2>3 DEF IInv, KnowledgeIsOrdered, SchedulerHandOrdered
      <3>4. QED
        BY <3>1, <3>2, <3>3, PathAssumption, Positions DEF IInv, Control, Reading
    <2>4. QED
      BY <2>2, <2>3, ToldFrom DEF IInv
  <1>2. QED
    BY <1>1, SpecOrder, PTL DEF Spec, NeverBackInTime

-----------------------------------------------------------------------------
(* Unless other masters' writes look like values, readings are genuine, and *)
(* the engine implements LaggingView.                                      *)

GInv == IInv /\ ReadingsAreGenuine

\* What a field has been it stays: histories only grow.
LEMMA HeldKept ==
    ASSUME TypeOK, Next, NEW f \in Fields, NEW i \in 1..Len(held[f])
    PROVE  i \in 1..Len(held'[f]) /\ held'[f][i] = held[f][i]
  <1>1. \/ UNCHANGED held
        \/ \E g \in Fields, v \in Values : held' = [held EXCEPT ![g] = Append(@, v)]
    <2>1. ASSUME NEW g \in Fields, DeviceActs(g)
          PROVE  \/ UNCHANGED held
                 \/ \E v \in Values : held' = [held EXCEPT ![g] = Append(@, v)]
      <3>1. incoming[g] \in Values
        BY <2>1 DEF DeviceActs, TypeOK
      <3>2. QED
        BY <2>1, <3>1 DEF DeviceActs
    <2>2. CASE \E g \in Fields : Device(g)
      BY <2>1, <2>2 DEF Device, DeviceSends, DeviceChanges, OtherMasterWrites, deviceVars
    <2>3. CASE ~\E g \in Fields : Device(g)
      BY <2>3 DEF Next, Reader, HearFrame, CacheFrame, Begin, BeginRead, BeginPass,
                  BeginWrite, Work, UseCache, ChoosePoll, SendRead, Collect, Miss, Finish,
                  StoreRead, MarkWritten, SettleAgain, ReportWrite, deviceVars
    <2>4. QED
      BY <2>2, <2>3
  <1>2. ASSUME NEW g \in Fields, NEW v \in Values,
               held' = [held EXCEPT ![g] = Append(@, v)]
        PROVE  i \in 1..Len(held'[f]) /\ held'[f][i] = held[f][i]
    <2>1. held'[f] = IF f = g THEN Append(held[f], v) ELSE held[f]
      BY <1>2 DEF TypeOK
    <2>2. held[f] \in Seq(Values)
      BY DEF TypeOK
    <2>3. QED
      BY <2>1, <2>2, AppendToSeq
  <1>3. QED
    BY <1>1, <1>2

LEMMA GenuineKept ==
    ASSUME TypeOK, Next, NEW f \in Fields, NEW rd \in Reading, IsGenuine(f, rd)
    PROVE  IsGenuine(f, rd)'
  BY HeldKept DEF IsGenuine

LEMMA InitGenuine == Init => ReadingsAreGenuine
  BY DEF Init, WaiterInit, CacheInit, ReadingsAreGenuine, CachedWasHeld, Answered

\* Every reading a step puts somewhere comes from another such place, or is
\* the device's present value.
LEMMA GenuineSources ==
    ASSUME Control, TypeOK', Next, Overheard = {}
    PROVE  /\ \A f \in Fields : cache'[f] # None =>
                \/ cache[f] # None /\ cache'[f].rd = cache[f].rd
                \/ rhand # None /\ rhand.field = f /\ cache'[f].rd = rhand.rd
                \/ shand # None /\ shand.field = f /\ cache'[f].rd = shand.rd
           /\ \A f \in Fields : Answered(f)' =>
                \/ Answered(f) /\ slots'[f] = slots[f]
                \/ \E i \in 1..Len(wire) : wire[i].field = f /\ slots'[f] = wire[i].rd
           /\ rhand' # None =>
                rhand' = rhand \/ \E i \in 1..Len(wire) : rhand' = wire[i]
           /\ shand' # None =>
                \/ shand' = shand
                \/ \E f \in Fields : Answered(f) /\ shand' = [field |-> f, rd |-> slots[f]]
           /\ \A i \in 1..Len(wire') :
                \/ \E j \in 1..Len(wire) : wire'[i] = wire[j]
                \/ \E f \in Fields : wire'[i] = [field |-> f, rd |-> Present(f)]
  <1> DEFINE CacheFrom ==
               \A f \in Fields : cache'[f] # None =>
                 \/ cache[f] # None /\ cache'[f].rd = cache[f].rd
                 \/ rhand # None /\ rhand.field = f /\ cache'[f].rd = rhand.rd
                 \/ shand # None /\ shand.field = f /\ cache'[f].rd = shand.rd
             SlotsFrom ==
               \A f \in Fields : Answered(f)' =>
                 \/ Answered(f) /\ slots'[f] = slots[f]
                 \/ \E i \in 1..Len(wire) : wire[i].field = f /\ slots'[f] = wire[i].rd
             RHandFrom ==
               rhand' # None =>
                 rhand' = rhand \/ \E i \in 1..Len(wire) : rhand' = wire[i]
             SHandFrom ==
               shand' # None =>
                 \/ shand' = shand
                 \/ \E f \in Fields : Answered(f) /\ shand' = [field |-> f, rd |-> slots[f]]
             WireFrom ==
               \A i \in 1..Len(wire') :
                 \/ \E j \in 1..Len(wire) : wire'[i] = wire[j]
                 \/ \E f \in Fields : wire'[i] = [field |-> f, rd |-> Present(f)]
  <1>1. CASE \E f \in Fields : Device(f)
    <2>1. PICK f \in Fields : Device(f)
      BY <1>1
    <2>2. UNCHANGED <<rhand, slots, cache, shand>>
      BY <2>1 DEF Device, DeviceActs, DeviceSends, DeviceChanges, OtherMasterWrites,
                  schedVars
    <2>3. CacheFrom /\ SlotsFrom /\ RHandFrom /\ SHandFrom
      BY <2>2 DEF Answered
    <2>4. UNCHANGED wire \/ wire' = Append(wire, [field |-> f, rd |-> Present(f)])
      BY <2>1 DEF Device, DeviceActs, DeviceSends, DeviceChanges, OtherMasterWrites
    <2>5. [field |-> f, rd |-> Present(f)] \in Frame
      BY PresentType DEF Frame, Control
    <2>6. ASSUME wire' = Append(wire, [field |-> f, rd |-> Present(f)]) PROVE WireFrom
      <3>1. /\ Len(wire) \in Nat /\ Len(wire') = Len(wire) + 1
            /\ \A i \in 1..Len(wire) : wire'[i] = wire[i]
            /\ wire'[Len(wire) + 1] = [field |-> f, rd |-> Present(f)]
        BY <2>5, <2>6, AppendToSeq DEF Control, TypeOK
      <3>2. \A i \in 1..Len(wire') : i \in 1..Len(wire) \/ i = Len(wire) + 1
        BY <3>1
      <3>3. QED
        BY <3>1, <3>2
    <2>7. WireFrom
      BY <2>4, <2>6
    <2>8. QED
      BY <2>3, <2>7
  <1>2. CASE HearFrame
    <2>1. wire \in Seq(Frame) /\ wire # <<>>
      BY <1>2 DEF HearFrame, Control, TypeOK
    <2>2. /\ 1 \in 1..Len(wire) /\ wire[1] \in Frame /\ Head(wire) = wire[1]
          /\ \A i \in 1..Len(Tail(wire)) : i + 1 \in 1..Len(wire) /\ Tail(wire)[i] = wire[i + 1]
      BY <2>1, TakeFromSeq
    <2>3. /\ rhand' = wire[1] /\ wire' = Tail(wire) /\ UNCHANGED <<cache, shand>>
          /\ Deliver(wire[1].field, wire[1].rd)
      BY <1>2, <2>2 DEF HearFrame, schedVars
    <2>4. SlotsFrom
      BY <2>2, <2>3 DEF Deliver, Answered, Registered, Control, TypeOK, Frame
    <2>5. CacheFrom /\ RHandFrom /\ SHandFrom /\ WireFrom
      BY <2>2, <2>3
    <2>6. QED
      BY <2>4, <2>5
  <1>3. CASE CacheFrame
    <2>1. rhand.field \in Fields /\ rhand.rd \in Reading /\ rhand # None
      BY <1>3 DEF CacheFrame, Control, TypeOK, Frame
    <2>2. CacheFrom
      BY <1>3, <2>1 DEF CacheFrame, PutValue, Control, TypeOK
    <2>3. UNCHANGED <<wire, slots, shand>> /\ rhand' = None
      BY <1>3 DEF CacheFrame, schedVars
    <2>4. QED
      BY <2>2, <2>3 DEF Answered
  <1>4. CASE Begin
    <2>1. UNCHANGED <<wire, rhand, slots, cache, shand>>
      BY <1>4 DEF Begin, BeginRead, BeginPass, BeginWrite
    <2>2. QED
      BY <2>1 DEF Answered
  <1>5. CASE StoreRead
    <2>1. shand.field \in Fields /\ shand.rd \in Reading /\ shand # None
      BY <1>5 DEF StoreRead, Control, SchedulerPhase, TypeOK, Frame
    <2>2. CacheFrom
      BY <1>5, <2>1 DEF StoreRead, PutValue, Control, TypeOK
    <2>3. UNCHANGED <<wire, slots, rhand>> /\ (shand' = None \/ shand' = shand)
      BY <1>5 DEF StoreRead
    <2>4. QED
      BY <2>2, <2>3 DEF Answered
  <1>6. CASE MarkWritten
    <2>1. job.field \in Fields
      BY <1>6, WritingJob DEF MarkWritten, Control, SchedulerPhase
    <2>2. CacheFrom
      BY <1>6, <2>1 DEF MarkWritten, MarkOutdated, Outdated, Control, TypeOK, Entry
    <2>3. UNCHANGED <<wire, slots, rhand, shand>>
      BY <1>6 DEF MarkWritten
    <2>4. QED
      BY <2>2, <2>3 DEF Answered
  <1>7. CASE \E f \in Fields : SendRead(f) \/ Miss(f)
    <2>1. UNCHANGED <<wire, rhand, cache, shand>>
      BY <1>7 DEF SendRead, Miss
    <2>2. SlotsFrom
      BY <1>7 DEF SendRead, Miss, Register, Remove, Answered, Control, TypeOK
    <2>3. QED
      BY <2>1, <2>2
  <1>8. ASSUME NEW f \in Fields, Collect(f)
        PROVE  CacheFrom /\ SlotsFrom /\ RHandFrom /\ SHandFrom /\ WireFrom
    <2>1. UNCHANGED <<wire, rhand, cache>>
      BY <1>8 DEF Collect
    <2>2. SlotsFrom
      BY <1>8 DEF Collect, Remove, Answered, Control, TypeOK
    <2>3. SHandFrom
      BY <1>8 DEF Collect
    <2>4. QED
      BY <2>1, <2>2, <2>3
  <1>9. CASE \/ \E f \in Fields : UseCache(f) \/ ChoosePoll(f)
             \/ Finish \/ SettleAgain \/ ReportWrite
    <2>1. UNCHANGED <<wire, rhand, slots, cache>> /\ (shand' = None \/ shand' = shand)
      BY <1>9 DEF UseCache, ChoosePoll, Finish, SettleAgain, ReportWrite
    <2>2. QED
      BY <2>1 DEF Answered
  <1>10. QED
    BY <1>1, <1>2, <1>3, <1>4, <1>5, <1>6, <1>7, <1>8, <1>9, Next DEF Next, Reader, Work

LEMMA StepGenuine ==
    ASSUME GInv, Next, Overheard = {}
    PROVE  ReadingsAreGenuine'
  <1> USE DEF GInv, IInv, Control
  <1>1. TypeOK'
    BY StepOrder
  <1>2. \A f \in Fields, rd \in Reading : IsGenuine(f, rd) => IsGenuine(f, rd)'
    BY GenuineKept
  <1>3. \A f \in Fields : Present(f) \in Reading /\ IsGenuine(f, Present(f))
    <2> TAKE f \in Fields
    <2>1. Len(held[f]) \in Nat \ {0} /\ Present(f) \in Reading
      BY PresentType
    <2>2. Present(f).val = held[f][Len(held[f])] /\ Present(f).at = Len(held[f])
      BY DEF Present, Current
    <2>3. QED
      BY <2>1, <2>2 DEF IsGenuine
  <1>4. \A i \in 1..Len(wire) : /\ wire[i].field \in Fields /\ wire[i].rd \in Reading
                                /\ IsGenuine(wire[i].field, wire[i].rd)
    <2> TAKE i \in 1..Len(wire)
    <2>1. wire[i] \in Frame
      BY DEF TypeOK
    <2>2. QED
      BY <2>1 DEF Frame, ReadingsAreGenuine
  <1>5. shand # None => /\ shand.field \in Fields /\ shand.rd \in Reading
                        /\ IsGenuine(shand.field, shand.rd)
    BY DEF TypeOK, Frame, ReadingsAreGenuine
  <1>6. rhand # None => /\ rhand.field \in Fields /\ rhand.rd \in Reading
                        /\ IsGenuine(rhand.field, rhand.rd)
    BY DEF TypeOK, Frame, ReadingsAreGenuine
  <1>7. \A f \in Fields : Answered(f) => slots[f] \in Reading /\ IsGenuine(f, slots[f])
    BY DEF TypeOK, Answered, ReadingsAreGenuine
  <1>8. \A f \in Fields : cache[f] # None => /\ cache[f].rd \in Reading
                                             /\ IsGenuine(f, cache[f].rd)
    BY DEF TypeOK, Entry, ReadingsAreGenuine, CachedWasHeld
  <1>9. CachedWasHeld'
    <2>1. ASSUME NEW f \in Fields, cache'[f] # None PROVE IsGenuine(f, cache[f].rd)'
      BY <1>1, <1>2, <1>5, <1>6, <1>8, <2>1, GenuineSources
    <2>2. QED
      BY <2>1 DEF CachedWasHeld
  <1>10. \A f \in Fields : Answered(f)' => IsGenuine(f, slots[f])'
    BY <1>1, <1>2, <1>4, <1>7, GenuineSources
  <1>11. rhand' # None => IsGenuine(rhand.field, rhand.rd)'
    BY <1>1, <1>2, <1>4, <1>6, GenuineSources
  <1>12. shand' # None => IsGenuine(shand.field, shand.rd)'
    BY <1>1, <1>2, <1>5, <1>7, GenuineSources
  <1>13. \A i \in 1..Len(wire') : IsGenuine(wire[i].field, wire[i].rd)'
    <2>1. ASSUME NEW i \in 1..Len(wire') PROVE IsGenuine(wire[i].field, wire[i].rd)'
      <3>1. \/ \E j \in 1..Len(wire) : wire'[i] = wire[j]
            \/ \E f \in Fields : wire'[i] = [field |-> f, rd |-> Present(f)]
        BY <1>1, GenuineSources
      <3>2. PICK f \in Fields, rd \in Reading :
              wire'[i].field = f /\ wire'[i].rd = rd /\ IsGenuine(f, rd)
        <4>1. ASSUME NEW j \in 1..Len(wire), wire'[i] = wire[j]
              PROVE  /\ wire'[i].field \in Fields /\ wire'[i].rd \in Reading
                     /\ IsGenuine(wire'[i].field, wire'[i].rd)
          BY <1>4, <4>1
        <4>2. ASSUME NEW f \in Fields, wire'[i] = [field |-> f, rd |-> Present(f)]
              PROVE  /\ wire'[i].field \in Fields /\ wire'[i].rd \in Reading
                     /\ IsGenuine(wire'[i].field, wire'[i].rd)
          <5>1. wire'[i].field = f /\ wire'[i].rd = Present(f)
            BY <4>2
          <5>2. QED
            BY <1>3, <5>1, Zenon
        <4>3. QED
          BY <3>1, <4>1, <4>2
      <3>3. IsGenuine(f, rd)'
        BY <1>2, <3>2
      <3>4. QED
        BY <3>2, <3>3 DEF IsGenuine
    <2>2. QED
      BY <2>1
  <1>14. QED
    BY <1>9, <1>10, <1>11, <1>12, <1>13 DEF ReadingsAreGenuine

LEMMA GInvKept == Overheard = {} /\ GInv /\ [Next]_vars => GInv'
  <1> SUFFICES ASSUME Overheard = {}, GInv, [Next]_vars PROVE GInv'
    OBVIOUS
  <1>1. CASE Next
    BY <1>1, StepGenuine, StepOrder DEF GInv
  <1>2. CASE UNCHANGED vars
    BY <1>2, StepOrder DEF GInv, vars, deviceVars, schedVars, ReadingsAreGenuine,
                           CachedWasHeld, IsGenuine, Answered
  <1>3. QED
    BY <1>1, <1>2

LEMMA SpecGenuine == ASSUME Overheard = {} PROVE Spec => []GInv
  <1>1. Init => GInv
    BY InitControl, InitOrder, InitGenuine DEF IInv, GInv
  <1>2. GInv /\ [Next]_vars => GInv'
    BY GInvKept
  <1>3. QED
    BY <1>1, <1>2, PTL DEF Spec

\* The device's steps are LaggingView's Change, and nothing else changes a
\* history.
LEMMA HeldStep ==
    ASSUME Control, Next, held' # held
    PROVE  UNCHANGED told /\ \E f \in Fields, v \in Values : View!Change(f, v)
  <1>1. PICK f \in Fields : Device(f)
    BY DEF Next, Reader, HearFrame, CacheFrame, Begin, BeginRead, BeginPass, BeginWrite,
           Work, UseCache, ChoosePoll, SendRead, Collect, Miss, Finish, StoreRead,
           MarkWritten, SettleAgain, ReportWrite, deviceVars
  <1>2. CASE DeviceActs(f)
    <2>1. incoming[f] \in Values
      BY <1>2 DEF DeviceActs, Control, TypeOK
    <2>2. held' = [held EXCEPT ![f] = Append(@, incoming[f])] /\ UNCHANGED told
      BY <1>2 DEF DeviceActs
    <2>3. View!Change(f, incoming[f])
      BY <2>2 DEF View!Change
    <2>4. QED
      BY <2>1, <2>2, <2>3
  <1>3. ASSUME NEW v \in Values, DeviceChanges(f, v)
        PROVE  UNCHANGED told /\ \E g \in Fields, w \in Values : View!Change(g, w)
    BY <1>3 DEF DeviceChanges, View!Change
  <1>4. QED
    BY <1>1, <1>2, <1>3 DEF Device, DeviceSends, OtherMasterWrites, deviceVars

\* Unless writes of other masters are taken for values, what the engine
\* tells its callers and subscribers is the abstract LaggingView: values the
\* device really had, in its order.
THEOREM ImplementsView == ASSUME Overheard = {} PROVE Spec => ShowsLaggingView
  <1>1. Init => View!Init
    BY DEF Init, View!Init
  <1>2. GInv /\ [Next]_vars => [View!Next]_<<held, told>>
    <2> SUFFICES ASSUME GInv, Next, ~UNCHANGED <<held, told>> PROVE View!Next
      BY DEF vars, deviceVars
    <2>1. CASE held' # held
      BY <2>1, HeldStep DEF GInv, IInv, View!Next
    <2>2. CASE told' # told
      <3>1. /\ told \in [Fields -> Reading \cup {None}]
            /\ told' \in [Fields -> Reading \cup {None}]
        BY StepOrder DEF GInv, IInv, Control, TypeOK
      <3>2. PICK f \in Fields : told'[f] # told[f]
        BY <2>2, <3>1
      <3>3. UNCHANGED held
        BY <3>2, ToldFrom DEF GInv, IInv
      <3>4. ASSUME NEW rd \in Reading, told' = [told EXCEPT ![f] = rd],
                   IsGenuine(f, rd), ToldAt(f) <= rd.at
            PROVE  View!Next
        <4>1. rd.at \in DOMAIN held[f] /\ held[f] \in Seq(Values)
          BY <3>4 DEF IsGenuine, GInv, IInv, Control, TypeOK
        <4>2. View!ToldAt(f) = ToldAt(f) /\ ToldAt(f) \in Nat /\ rd.at \in Nat
          BY Positions DEF View!ToldAt, ToldAt, Reading, GInv, IInv, Control
        <4>3. rd = [val |-> held[f][rd.at], at |-> rd.at]
          BY <3>4 DEF IsGenuine, Reading
        <4>4. View!Tell(f, rd.at)
          BY <3>3, <3>4, <4>1, <4>2, <4>3 DEF View!Tell
        <4>5. QED
          BY <4>1, <4>4 DEF View!Next
      <3>5. CASE cache[f] # None /\ told' = [told EXCEPT ![f] = cache[f].rd]
        <4>1. cache[f].rd \in Reading
          BY <3>5 DEF GInv, IInv, Control, TypeOK, Entry
        <4>2. IsGenuine(f, cache[f].rd) /\ ToldAt(f) <= cache[f].rd.at
          BY <3>5 DEF GInv, IInv, ReadingsAreGenuine, CachedWasHeld, KnowledgeIsOrdered,
                      TablesOrdered
        <4>3. QED
          BY <3>4, <3>5, <4>1, <4>2
      <3>6. CASE shand # None /\ shand.field = f /\ told' = [told EXCEPT ![f] = shand.rd]
        <4>1. shand.rd \in Reading
          BY <3>6 DEF GInv, IInv, Control, TypeOK, Frame
        <4>2. IsGenuine(f, shand.rd) /\ ToldAt(f) <= shand.rd.at
          BY <3>6 DEF GInv, IInv, ReadingsAreGenuine, KnowledgeIsOrdered,
                      SchedulerHandOrdered
        <4>3. QED
          BY <3>4, <3>6, <4>1, <4>2
      <3>7. QED
        BY <3>2, <3>5, <3>6, ToldFrom DEF GInv, IInv
    <2>3. QED
      BY <2>1, <2>2
  <1>3. Spec => []GInv
    BY SpecGenuine
  <1>4. QED
    BY <1>1, <1>2, <1>3, PTL DEF Spec, ShowsLaggingView, View!Spec

=============================================================================
