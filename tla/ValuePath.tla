----------------------------- MODULE ValuePath -----------------------------
(***************************************************************************)
(* The path of a value through the engine: from the device over the bus to *)
(* the reader thread, from there into the waiter table and the value       *)
(* cache, and out of both to callers and subscribers by way of the         *)
(* scheduler thread.                                                       *)
(*                                                                         *)
(* Two threads share the waiter table and the cache, each behind its own   *)
(* mutex (runtime/waiter.rs, runtime/state.rs):                            *)
(*                                                                         *)
(*   reader     hear a frame and deliver it, then cache it (two locks)     *)
(*   scheduler  one command or one subscription pass at a time: look at    *)
(*              the cache, register and send, collect the answers as they  *)
(*              come, cache them, hand them out; for a write, send, mark   *)
(*              the cached value outdated, and read back until it shows    *)
(*                                                                         *)
(* The fields are numeric ones with a known type; text fields go through   *)
(* the string table instead.  Time is left out: a value may be found too   *)
(* old, and an answer may come too late, whenever that could happen.       *)
(***************************************************************************)
EXTENDS Naturals, Sequences, Waiter, ValueCache

CONSTANTS
    Writable,     \* fields on a tab that takes writes, not refused up front
    Overheard,    \* fields whose writes by another master look like values
    SettlePolls,  \* WRITE_SETTLE_POLLS
    MaxHeld,      \* bound: values a field takes in one behaviour
    MaxWire       \* bound: frames queued towards the reader

ASSUME PathAssumption ==
    /\ Writable \subseteq Fields
    /\ Overheard \subseteq Fields
    /\ SettlePolls \in Nat
    /\ MaxHeld \in Nat \ {0}
    /\ MaxWire \in Nat \ {0}
    /\ None \notin Values
    /\ None \notin Reading
    /\ None \notin Entry
    /\ None \notin Frame
    /\ Absent \notin Reading
    /\ Absent # None

VARIABLES
    held,      \* held[f]: every value the device's field has had, in order
    incoming,  \* incoming[f]: a write the device accepted, not acted on yet
    wire,      \* frames on their way to the reader, first in first out
    rhand,     \* reader: the frame delivered but not cached yet, or None
    pc,        \* scheduler: where it is
    job,       \* scheduler: the command or pass it works on
    todo,      \* scheduler: fields still to be looked up in the cache
    chosen,    \* scheduler: fields to be read, request not sent yet
    inflight,  \* scheduler: fields whose request is out
    shand,     \* scheduler: the answer collected, until it is dealt with
    told,      \* history: the reading handed out last, per field
    heard      \* history: the position in held of the last frame taken

deviceVars == <<held, incoming>>
phaseVars == <<todo, chosen, inflight>>
schedVars == <<pc, job, phaseVars, shand>>
vars == <<deviceVars, wire, rhand, slots, cache, schedVars, told, heard>>

Idle == [op |-> "none", field |-> None, want |-> None, tries |-> 0]

Job ==
    {Idle} \cup
    [op : {"read", "pass"}, field : {None}, want : {None}, tries : {0}] \cup
    [op : {"write"}, field : Fields, want : Values, tries : 0..SettlePolls]

Current(f) == held[f][Len(held[f])]

\* The reading that is true of the device now.
Present(f) == [val |-> Current(f), at |-> Len(held[f])]

ToldAt(f) == IF told[f] = None THEN 0 ELSE told[f].at

Init ==
    /\ WaiterInit
    /\ CacheInit
    /\ held \in [Fields -> {<<v>> : v \in Values}]
    /\ incoming = [f \in Fields |-> None]
    /\ wire = <<>>
    /\ rhand = None
    /\ pc = "idle"
    /\ job = Idle
    /\ todo = {} /\ chosen = {} /\ inflight = {}
    /\ shand = None
    /\ told = [f \in Fields |-> None]
    /\ heard = [f \in Fields |-> 0]

-----------------------------------------------------------------------------
(* The device and the other masters on the bus. *)

\* The field takes another value by itself: a measurement, the front panel.
DeviceChanges(f, v) ==
    /\ v # Current(f)
    /\ Len(held[f]) < MaxHeld
    /\ held' = [held EXCEPT ![f] = Append(@, v)]
    /\ UNCHANGED <<incoming, wire, rhand, slots, cache, schedVars, told, heard>>

\* The device acts on an accepted write, at once or (a relay) a while later.
DeviceActs(f) ==
    /\ incoming[f] # None
    /\ incoming[f] # Current(f) => Len(held[f]) < MaxHeld
    /\ held' = IF incoming[f] = Current(f) THEN held
               ELSE [held EXCEPT ![f] = Append(@, incoming[f])]
    /\ incoming' = [incoming EXCEPT ![f] = None]
    /\ UNCHANGED <<wire, rhand, slots, cache, schedVars, told, heard>>

\* A value frame: the answer to our read or to another master's, however
\* late, or the echo of a write. A frame that is lost is one not sent.
DeviceSends(f) ==
    /\ Len(wire) < MaxWire
    /\ wire' = Append(wire, [field |-> f, rd |-> Present(f)])
    /\ UNCHANGED <<deviceVars, rhand, slots, cache, schedVars, told, heard>>

\* Another master writes a Monitoring field: a six-byte class-0x18 frame,
\* which parse_frame turns into MonitoringData like a device's own value.
\* The device may or may not be there to accept it.
OtherMasterWrites(f, v) ==
    /\ f \in Overheard
    /\ Len(wire) < MaxWire
    /\ wire' = Append(wire, [field |-> f, rd |-> [val |-> v, at |-> Len(held[f])]])
    /\ \/ incoming' = [incoming EXCEPT ![f] = v]
       \/ UNCHANGED incoming
    /\ UNCHANGED <<held, rhand, slots, cache, schedVars, told, heard>>

-----------------------------------------------------------------------------
(* The reader thread: handle_frame takes the two locks one after the other. *)

\* For comparison: a receive buffer drained from the wrong end.
HearNewestFrame ==
    /\ rhand = None
    /\ wire # <<>>
    /\ rhand' = wire[Len(wire)]
    /\ wire' = SubSeq(wire, 1, Len(wire) - 1)
    /\ Deliver(rhand'.field, rhand'.rd)
    /\ heard' = [heard EXCEPT ![rhand'.field] = rhand'.rd.at]
    /\ UNCHANGED <<deviceVars, cache, schedVars, told>>

HearFrame ==
    /\ rhand = None
    /\ wire # <<>>
    /\ rhand' = Head(wire)
    /\ wire' = Tail(wire)
    /\ Deliver(rhand'.field, rhand'.rd)
    /\ heard' = [heard EXCEPT ![rhand'.field] = rhand'.rd.at]
    /\ UNCHANGED <<deviceVars, cache, schedVars, told>>

CacheFrame ==
    /\ rhand # None
    /\ PutValue(rhand.field, rhand.rd)
    /\ rhand' = None
    /\ UNCHANGED <<deviceVars, wire, slots, schedVars, told, heard>>

-----------------------------------------------------------------------------
(* The scheduler thread. *)

BeginRead(f) ==
    /\ pc = "idle"
    /\ pc' = "poll"
    /\ job' = [Idle EXCEPT !.op = "read"]
    /\ todo' = {f}
    /\ UNCHANGED <<deviceVars, wire, rhand, slots, cache, chosen, inflight, shand,
                   told, heard>>

\* A subscription pass over the fields that are due and may be read.
BeginPass(due) ==
    /\ pc = "idle"
    /\ pc' = "poll"
    /\ job' = [Idle EXCEPT !.op = "pass"]
    /\ todo' = due
    /\ UNCHANGED <<deviceVars, wire, rhand, slots, cache, chosen, inflight, shand,
                   told, heard>>

\* Passive first: a trusted value that is young enough is handed out.
UseCache(f) ==
    /\ pc = "poll"
    /\ f \in todo
    /\ Trusted(f)
    /\ told' = [told EXCEPT ![f] = cache[f].rd]
    /\ todo' = todo \ {f}
    /\ UNCHANGED <<deviceVars, wire, rhand, slots, cache, pc, job, chosen, inflight,
                   shand, heard>>

\* Untrusted, or too old: it will be read.
ChoosePoll(f) ==
    /\ pc = "poll"
    /\ f \in todo
    /\ chosen' = chosen \cup {f}
    /\ todo' = todo \ {f}
    /\ UNCHANGED <<deviceVars, wire, rhand, slots, cache, pc, job, inflight, shand,
                   told, heard>>

\* send_read: the key is registered, then the request goes out.
SendRead(f) ==
    /\ pc = "poll"
    /\ todo = {}
    /\ f \in chosen
    /\ Register(f)
    /\ chosen' = chosen \ {f}
    /\ inflight' = inflight \cup {f}
    /\ UNCHANGED <<deviceVars, wire, rhand, cache, pc, job, todo, shand, told, heard>>

AllSent == pc = "poll" /\ todo = {} /\ chosen = {}

\* wait_any found an answer and finish_read's wait takes it.
Collect(f) ==
    /\ AllSent
    /\ f \in inflight
    /\ Answered(f)
    /\ shand' = [field |-> f, rd |-> slots[f]]
    /\ Remove(f)
    /\ inflight' = inflight \ {f}
    /\ pc' = "store"
    /\ UNCHANGED <<deviceVars, wire, rhand, cache, job, todo, chosen, told, heard>>

\* For comparison: finish_read relying on the reader to cache the answer.
StoreReadUncached ==
    /\ pc = "store"
    /\ IF job.op = "write"
       THEN pc' = "check" /\ UNCHANGED <<shand, told>>
       ELSE /\ pc' = "poll"
            /\ told' = [told EXCEPT ![shand.field] = shand.rd]
            /\ shand' = None
    /\ UNCHANGED <<deviceVars, wire, rhand, slots, cache, job, phaseVars, heard>>

\* For comparison: poll_values calling got with a position in pending, not
\* in reads, so that another field's subscribers are handed the answer.
StoreReadElsewhere ==
    /\ pc = "store"
    /\ PutValue(shand.field, shand.rd)
    /\ IF job.op = "write"
       THEN pc' = "check" /\ UNCHANGED <<shand, told>>
       ELSE /\ pc' = "poll"
            /\ \E f \in inflight \cup {shand.field} : told' = [told EXCEPT ![f] = shand.rd]
            /\ shand' = None
    /\ UNCHANGED <<deviceVars, wire, rhand, slots, job, phaseVars, heard>>

\* The rest of finish_read: cache the answer and hand it out, or for a
\* write go on to compare it with what was written.
StoreRead ==
    /\ pc = "store"
    /\ PutValue(shand.field, shand.rd)
    /\ IF job.op = "write"
       THEN pc' = "check" /\ UNCHANGED <<shand, told>>
       ELSE /\ pc' = "poll"
            /\ told' = [told EXCEPT ![shand.field] = shand.rd]
            /\ shand' = None
    /\ UNCHANGED <<deviceVars, wire, rhand, slots, job, phaseVars, heard>>

\* For comparison: the key left registered, as after wait_or_keep.
MissKept(f) ==
    /\ AllSent
    /\ f \in inflight
    /\ ~Answered(f)
    /\ inflight' = inflight \ {f}
    /\ IF job.op = "write"
       THEN pc' = "idle" /\ job' = Idle
       ELSE UNCHANGED <<pc, job>>
    /\ UNCHANGED <<deviceVars, wire, rhand, slots, cache, todo, chosen, shand, told, heard>>

\* The deadline passed without an answer. A write that gets no read-back
\* ends with the error.
Miss(f) ==
    /\ AllSent
    /\ f \in inflight
    /\ ~Answered(f)
    /\ Remove(f)
    /\ inflight' = inflight \ {f}
    /\ IF job.op = "write"
       THEN pc' = "idle" /\ job' = Idle
       ELSE UNCHANGED <<pc, job>>
    /\ UNCHANGED <<deviceVars, wire, rhand, cache, todo, chosen, shand, told, heard>>

Finish ==
    /\ AllSent
    /\ inflight = {}
    /\ pc' = "idle"
    /\ job' = Idle
    /\ UNCHANGED <<deviceVars, wire, rhand, slots, cache, phaseVars, shand, told, heard>>

\* do_write puts the value (and for a switch the commit) on the bus; the
\* device accepts it, or it is lost or refused there. A write refused before
\* it is sent changes nothing and is not a step.
BeginWrite(f, v) ==
    /\ pc = "idle"
    /\ f \in Writable
    /\ \/ incoming' = [incoming EXCEPT ![f] = v]
       \/ UNCHANGED incoming
    /\ pc' = "mark"
    /\ job' = [op |-> "write", field |-> f, want |-> v, tries |-> 0]
    /\ UNCHANGED <<held, wire, rhand, slots, cache, phaseVars, shand, told, heard>>

\* Before each read-back the cached value is marked outdated.
MarkWritten ==
    /\ pc = "mark"
    /\ MarkOutdated(job.field)
    /\ chosen' = {job.field}
    /\ pc' = "poll"
    /\ UNCHANGED <<deviceVars, wire, rhand, slots, job, todo, inflight, shand, told,
                   heard>>

TookEffect == shand.rd.val = job.want

\* For comparison: polling until the write shows, without counting.
SettleUncounted ==
    /\ pc = "check"
    /\ ~TookEffect
    /\ shand' = None
    /\ pc' = "mark"
    /\ UNCHANGED <<deviceVars, wire, rhand, slots, cache, job, phaseVars, told, heard>>

\* The read-back does not show the write yet, and polls are left.
SettleAgain ==
    /\ pc = "check"
    /\ ~TookEffect
    /\ job.tries < SettlePolls
    /\ job' = [job EXCEPT !.tries = @ + 1]
    /\ shand' = None
    /\ pc' = "mark"
    /\ UNCHANGED <<deviceVars, wire, rhand, slots, cache, phaseVars, told, heard>>

\* The write's result: the last read-back, whether or not it matches.
ReportWrite ==
    /\ pc = "check"
    /\ TookEffect \/ job.tries = SettlePolls
    /\ told' = [told EXCEPT ![shand.field] = shand.rd]
    /\ shand' = None
    /\ pc' = "idle"
    /\ job' = Idle
    /\ UNCHANGED <<deviceVars, wire, rhand, slots, cache, phaseVars, heard>>

-----------------------------------------------------------------------------
Device(f) ==
    \/ DeviceActs(f)
    \/ DeviceSends(f)
    \/ \E v \in Values : DeviceChanges(f, v) \/ OtherMasterWrites(f, v)

Reader == HearFrame \/ CacheFrame

Begin ==
    \/ \E f \in Fields : BeginRead(f) \/ \E v \in Values : BeginWrite(f, v)
    \/ \E due \in SUBSET Fields \ {{}} : BeginPass(due)

\* What the scheduler does once it has begun something.
Work ==
    \/ \E f \in Fields :
          UseCache(f) \/ ChoosePoll(f) \/ SendRead(f) \/ Collect(f) \/ Miss(f)
    \/ StoreRead \/ Finish \/ MarkWritten \/ SettleAgain \/ ReportWrite

Next == Reader \/ Begin \/ Work \/ \E f \in Fields : Device(f)

\* The scheduler thread runs; every wait of its has a deadline. Nothing is
\* assumed of the bus, the device or the reader.
Spec == Init /\ [][Next]_vars /\ WF_vars(Work)

-----------------------------------------------------------------------------
(* Properties. *)

TypeOK ==
    /\ slots \in [Fields -> Reading \cup {Absent, None}]
    /\ cache \in [Fields -> Entry \cup {None}]
    /\ held \in [Fields -> Seq(Values) \ {<<>>}]
    /\ incoming \in [Fields -> Values \cup {None}]
    /\ wire \in Seq(Frame)
    /\ rhand \in Frame \cup {None}
    /\ pc \in {"idle", "poll", "store", "mark", "check"}
    /\ job \in Job
    /\ todo \subseteq Fields /\ chosen \subseteq Fields /\ inflight \subseteq Fields
    /\ shand \in Frame \cup {None}
    /\ told \in [Fields -> Reading \cup {None}]
    /\ heard \in [Fields -> Nat]

\* A key stays registered exactly as long as its read is in flight, through
\* answers, timeouts, failed writes and batches: none leaks in the table, to
\* catch an answer meant for a later read, and none is removed early.
SlotsAreReadsInFlight ==
    \A f \in Fields : Registered(f) <=> f \in inflight

\* What the scheduler's local variables may look like at each place of its
\* program: looking up, sending and waiting follow each other, an answer in
\* hand belongs to no read in flight, and a write reads its own field only.
SchedulerPhase ==
    /\ todo # {} => inflight = {}
    /\ pc # "poll" /\ pc # "store" => todo = {} /\ chosen = {} /\ inflight = {}
    /\ pc = "store" => todo = {} /\ chosen = {}
    /\ shand # None <=> pc \in {"store", "check"}
    /\ shand # None => shand.field \notin inflight
    /\ pc \in {"mark", "check"} => job.op = "write"
    /\ job.op = "write" =>
          /\ todo = {}
          /\ chosen \subseteq {job.field} /\ inflight \subseteq {job.field}
          /\ shand # None => inflight = {} /\ shand.field = job.field
          /\ chosen = {} \/ inflight = {}

\* What is cached or waits to be collected is no older than what was told,
\* and no newer than what the reader has heard.
TablesOrdered ==
    \A f \in Fields :
        /\ ToldAt(f) <= heard[f] /\ heard[f] <= Len(held[f])
        /\ cache[f] # None => ToldAt(f) <= cache[f].rd.at /\ cache[f].rd.at <= heard[f]
        /\ Answered(f) => ToldAt(f) <= slots[f].at /\ slots[f].at <= heard[f]

\* Nor is the answer the scheduler holds; the one a write is still judging
\* is never newer than the cache.
SchedulerHandOrdered ==
    shand # None =>
        /\ ToldAt(shand.field) <= shand.rd.at
        /\ shand.rd.at <= heard[shand.field]
        /\ pc = "check" => /\ cache[shand.field] # None
                           /\ shand.rd.at <= cache[shand.field].rd.at

\* The frame the reader holds is the last it heard of that field.
ReaderHandOrdered == rhand # None => rhand.rd.at = heard[rhand.field]

\* Frames on the wire are newer still, in the order they were sent.
WireOrdered ==
    /\ \A i \in 1..Len(wire) :
          /\ heard[wire[i].field] <= wire[i].rd.at
          /\ wire[i].rd.at <= Len(held[wire[i].field])
    /\ \A i, j \in 1..Len(wire) :
          i < j /\ wire[i].field = wire[j].field => wire[i].rd.at <= wire[j].rd.at

\* Per field, what is known is ordered like the path it takes: told, then
\* the tables and the scheduler's hand, then the reader's, the wire, and the
\* device. (That the cache may hold less than the reader has heard is
\* CacheIsLatest's matter.)
KnowledgeIsOrdered ==
    TablesOrdered /\ SchedulerHandOrdered /\ ReaderHandOrdered /\ WireOrdered

\* Callers and subscribers see a field's values in the order the device had
\* them: whatever mixture of cached values, polls, late answers and
\* read-backs they are served from, no result is older than the one before.
NeverBackInTime ==
    [][\A f \in Fields : told'[f] # told[f] =>
          told'[f] # None /\ told'[f].at >= ToldAt(f)]_vars

\* Whatever is handed out is a value that field itself had, at the time
\* claimed and in order: the engine implements LaggingView.
View == INSTANCE LaggingView WITH held <- held, told <- told
ShowsLaggingView == View!Spec

\* Every command and every subscription pass comes to an end, though the
\* device may never answer and a write may never show.
CommandsEnd == pc # "idle" ~> pc = "idle"

\* state.rs calls a cached value "the value last seen on the bus": once the
\* reader is done with a frame, the cache shows no older one.
CacheIsLatest ==
    rhand = None =>
        \A f \in Fields : cache[f] # None => cache[f].rd.at = heard[f]

\* A reading is genuine if its field took that value, at that place.
IsGenuine(f, rd) == rd.at \in 1..Len(held[f]) /\ rd.val = held[f][rd.at]

\* A cached value is one the device had, as decode.rs demands when it says
\* that a write command must not be mistaken for a value.
CachedWasHeld ==
    \A f \in Fields : cache[f] # None => IsGenuine(f, cache[f].rd)

\* The same of every place that holds a reading on its way to a caller.
ReadingsAreGenuine ==
    /\ CachedWasHeld
    /\ \A f \in Fields : Answered(f) => IsGenuine(f, slots[f])
    /\ rhand # None => IsGenuine(rhand.field, rhand.rd)
    /\ shand # None => IsGenuine(shand.field, shand.rd)
    /\ \A i \in 1..Len(wire) : IsGenuine(wire[i].field, wire[i].rd)
=============================================================================
