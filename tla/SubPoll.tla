------------------------------ MODULE SubPoll ------------------------------
(***************************************************************************)
(* Which fields the scheduler reads for its subscriptions, and when: the   *)
(* passes of poll_due, one batch of reads at most in each, and what keeps  *)
(* devices and fields that do not answer from using up the bus             *)
(* (runtime/scheduler.rs).  What becomes of a single read is ValuePath's   *)
(* matter; here it is answered or it times out.                            *)
(*                                                                         *)
(* Time is counted in ticks.  Instants are kept as the ticks still to go,  *)
(* or gone by, up to where they make no more difference.  No tick falls    *)
(* within the selection of a pass's reads, which waits for nothing.        *)
(***************************************************************************)
EXTENDS Integers, Sequences

CONSTANTS
    Subs,          \* subscriptions, numbered as they were made
    Fields,        \* fields of all devices, in the order of their ids
    DeviceOf,      \* the device a field belongs to
    Wants,         \* the fields a subscription is for
    Interval,      \* the interval of a subscription
    Known,         \* fields whose type is known, so that they can be read
    Reliable,      \* fields whose reads the device always answers in time
    ReadBatch,     \* READ_BATCH
    BackoffAfter,  \* BACKOFF_AFTER
    QuietProbe,    \* Config::quiet_probe
    Liveness,      \* Config::liveness
    PassTicks,     \* bound: ticks a pass and the command before it can take
    MaxLate,       \* bound: lateness beyond this is not told apart
    TooOld,        \* bound: ages beyond this are not told apart
    None           \* Option::None

Devices == {DeviceOf[f] : f \in Fields}

\* The keys of all next_due maps: a subscription and a field of it.
Wanted == {p \in Subs \X Fields : p[2] \in Wants[p[1]]}

ASSUME PollAssumption ==
    /\ Subs \subseteq Nat /\ Fields \subseteq Nat
    /\ Wants \in [Subs -> SUBSET Fields]
    /\ Interval \in [Subs -> Nat \ {0}]
    /\ \A s \in Subs : \A f, g \in Wants[s] : DeviceOf[f] = DeviceOf[g]
    /\ Known \subseteq Fields /\ Reliable \subseteq Fields
    /\ {ReadBatch, BackoffAfter, QuietProbe} \subseteq Nat \ {0}
    /\ {Liveness, PassTicks, MaxLate, TooOld} \subseteq Nat
    /\ \A s \in Subs : Interval[s] < TooOld
    /\ None \notin Nat

VARIABLES
    subs,      \* subs[s]: "new", "on" or "off"
    due,       \* due[p]: ticks until p is due, negative when overdue
    age,       \* age[f]: ticks since f's value was cached
    silent,    \* silent[d]: ticks since the device was heard
    quiet,     \* quiet[d]: None, or ticks until the next probe may go out
    misses,    \* misses[f]: reads missed in a row, ticks until the next probe
    pc,        \* "idle", "select" or "wait"
    spent,     \* ticks since the last pass began while one was on or due
    work,      \* this pass: what was due and is still to be looked at
    probed,    \* this pass: quiet devices that get their one read
    reads,     \* this pass: the reads, each with the subscriptions it is for
    pending,   \* this pass: positions of the reads in flight
    given,     \* history: whether p was handed a value since it last came due
    sinceRead, \* history: ticks since f was last chosen to be read
    strikes    \* history: f's misses since it answered or its device came back

passVars == <<work, probed, reads, pending>>
history == <<given, sinceRead, strikes>>
vars == <<subs, due, age, silent, quiet, misses, pc, spent, passVars, history>>

FieldsOf(d) == {f \in Fields : DeviceOf[f] = d}
Active(p) == subs[p[1]] = "on"
On(d) == silent[d] <= Liveness

Overdue == {p \in Wanted : Active(p) /\ due[p] <= 0}

AtMost(n, limit) == IF n < limit THEN n ELSE limit
AtLeast(n, limit) == IF n > limit THEN n ELSE limit
Down(n) == IF n = 0 THEN 0 ELSE n - 1

NoMisses == [count |-> 0, retry |-> 0]

Init ==
    /\ subs = [s \in Subs |-> "new"]
    /\ due = [p \in Wanted |-> 0]
    /\ age = [f \in Fields |-> TooOld]
    /\ silent \in [Devices -> {0, Liveness + 1}]
    /\ quiet = [d \in Devices |-> None]
    /\ misses = [f \in Fields |-> NoMisses]
    /\ pc = "idle"
    /\ spent = 0
    /\ work = {} /\ probed = {} /\ reads = <<>> /\ pending = {}
    /\ given = [p \in Wanted |-> FALSE]
    /\ sinceRead = [f \in Fields |-> QuietProbe]
    /\ strikes = [f \in Fields |-> 0]

-----------------------------------------------------------------------------
(* Time, and what the reader thread hears. *)

Tick ==
    /\ pc # "select"
    /\ IF pc = "idle" /\ Overdue = {} THEN UNCHANGED spent
       ELSE spent < PassTicks /\ spent' = spent + 1
    /\ due' = [p \in Wanted |->
                 IF Active(p) THEN AtLeast(due[p] - 1, -MaxLate) ELSE due[p]]
    /\ age' = [f \in Fields |-> AtMost(age[f] + 1, TooOld)]
    /\ silent' = [d \in Devices |-> AtMost(silent[d] + 1, Liveness + 1)]
    /\ quiet' = [d \in Devices |-> IF quiet[d] = None THEN None ELSE Down(quiet[d])]
    /\ misses' = [f \in Fields |-> [misses[f] EXCEPT !.retry = Down(@)]]
    /\ sinceRead' = [f \in Fields |-> AtMost(sinceRead[f] + 1, QuietProbe)]
    /\ UNCHANGED <<subs, pc, passVars, given, strikes>>

\* A device down to probes that is heard again has no strikes left.
StrikesHearing(d) ==
    [f \in Fields |-> IF DeviceOf[f] = d /\ quiet[d] # None THEN 0 ELSE strikes[f]]

Heard(d) ==
    /\ silent' = [silent EXCEPT ![d] = 0]
    /\ strikes' = StrikesHearing(d)

\* An announcement, or a frame meant for somebody else.
HearDevice(d) ==
    /\ Heard(d)
    /\ UNCHANGED <<subs, due, age, quiet, misses, pc, spent, passVars, given, sinceRead>>

\* A value nobody here waits for: another master reads the field too, or an
\* answer comes late. (One heard while a read of the field is out answers it.)
HearValue(f) ==
    /\ f \in Known
    /\ \A r \in pending : reads[r].field # f
    /\ Heard(DeviceOf[f])
    /\ age' = [age EXCEPT ![f] = 0]
    /\ UNCHANGED <<subs, due, quiet, misses, pc, spent, passVars, given, sinceRead>>

-----------------------------------------------------------------------------
(* Commands, taken between passes. *)

Subscribe(s) ==
    /\ pc = "idle"
    /\ subs[s] = "new"
    /\ \A t \in Subs : t < s => subs[t] # "new"
    /\ subs' = [subs EXCEPT ![s] = "on"]
    /\ due' = [p \in Wanted |-> IF p[1] = s THEN 0 ELSE due[p]]
    /\ UNCHANGED <<age, silent, quiet, misses, pc, spent, passVars, history>>

Unsubscribe(s) ==
    /\ pc = "idle"
    /\ subs[s] = "on"
    /\ subs' = [subs EXCEPT ![s] = "off"]
    /\ UNCHANGED <<due, age, silent, quiet, misses, pc, spent, passVars, history>>

-----------------------------------------------------------------------------
(* The selection of a pass's reads. *)

StartPass ==
    /\ pc = "idle"
    /\ Overdue # {}
    /\ work' = Overdue
    /\ probed' = {} /\ reads' = <<>>
    /\ pc' = "select"
    /\ spent' = 0
    /\ UNCHANGED <<subs, due, age, silent, quiet, misses, pending, history>>

\* For comparison: subscriptions served in their order, not by their need.
BeforeInTurn(p, q) == p[1] < q[1] \/ (p[1] = q[1] /\ p[2] < q[2])

\* The order of work: longest overdue first, then by subscription and field.
Before(p, q) ==
    \/ due[p] < due[q]
    \/ due[p] = due[q] /\ p[1] < q[1]
    \/ due[p] = due[q] /\ p[1] = q[1] /\ p[2] < q[2]

\* p is looked at now, and is due again after its interval.
TakeUp(p) ==
    /\ pc = "select"
    /\ Len(reads) < ReadBatch
    /\ p \in work
    /\ \A q \in work \ {p} : Before(p, q)
    /\ work' = work \ {p}
    /\ due' = [due EXCEPT ![p] = Interval[p[1]]]
    /\ UNCHANGED <<subs, age, silent, pc, spent, pending, strikes>>

Young(p) == age[p[2]] <= Interval[p[1]]

\* For comparison: read_of keyed by subscription and field, so that only a
\* subscription's own read is found.
SharingOwn(p) == {r \in DOMAIN reads : reads[r].field = p[2] /\ p[1] \in reads[r].by}

\* The read of the same field another subscription wants already.
Sharing(p) == {r \in DOMAIN reads : reads[r].field = p[2]}

UseCached(p) ==
    /\ TakeUp(p)
    /\ Young(p)
    /\ given' = [given EXCEPT ![p] = TRUE]
    /\ UNCHANGED <<quiet, misses, probed, reads, sinceRead>>

Share(p) ==
    /\ TakeUp(p)
    /\ ~Young(p)
    /\ \E r \in Sharing(p) : reads' = [reads EXCEPT ![r].by = @ \cup {p[1]}]
    /\ given' = [given EXCEPT ![p] = FALSE]
    /\ UNCHANGED <<quiet, misses, probed, sinceRead>>

\* p calls for a read of its own.
NeedsRead(p) == ~Young(p) /\ Sharing(p) = {}

\* It goes out, if the field's type is known.
Enqueue(p) ==
    IF p[2] \in Known
    THEN /\ reads' = Append(reads, [field |-> p[2], by |-> {p[1]}])
         /\ sinceRead' = [sinceRead EXCEPT ![p[2]] = 0]
    ELSE UNCHANGED <<reads, sinceRead>>

\* It does not, this time.
Hold(p) ==
    /\ given' = [given EXCEPT ![p] = FALSE]
    /\ UNCHANGED <<reads, sinceRead>>

\* For comparison: the probe put off by each pass that asks for it.
PutOffProbe(d) == quiet' = [quiet EXCEPT ![d] = QuietProbe]

\* may_poll, for a device not heard within the liveness window: its first
\* probe is due one quiet_probe from now.
ArmProbe(d) ==
    quiet' = IF quiet[d] = None THEN [quiet EXCEPT ![d] = QuietProbe] ELSE quiet

\* One read of a quiet device is enough for a pass, and one per quiet_probe.
HoldQuiet(p) ==
    LET d == DeviceOf[p[2]] IN
    /\ TakeUp(p)
    /\ NeedsRead(p)
    /\ \/ d \in probed /\ UNCHANGED quiet
       \/ d \notin probed /\ ~On(d) /\ quiet[d] # 0 /\ ArmProbe(d)
    /\ Hold(p)
    /\ UNCHANGED <<misses, probed>>

\* For comparison: a probe that does not put off the next one.
ProbeUnarmed(p) ==
    LET d == DeviceOf[p[2]] IN
    /\ TakeUp(p)
    /\ NeedsRead(p)
    /\ d \notin probed /\ ~On(d) /\ quiet[d] = 0
    /\ probed' = probed \cup {d}
    /\ Enqueue(p)
    /\ given' = [given EXCEPT ![p] = FALSE]
    /\ UNCHANGED <<quiet, misses>>

ProbeQuiet(p) ==
    LET d == DeviceOf[p[2]] IN
    /\ TakeUp(p)
    /\ NeedsRead(p)
    /\ d \notin probed /\ ~On(d) /\ quiet[d] = 0
    /\ quiet' = [quiet EXCEPT ![d] = QuietProbe]
    /\ probed' = probed \cup {d}
    /\ Enqueue(p)
    /\ given' = [given EXCEPT ![p] = FALSE]
    /\ UNCHANGED misses

\* For comparison: only the field asked about is forgiven.
CountedForOthers(f) ==
    [g \in Fields |-> IF quiet[DeviceOf[f]] # None /\ g = f THEN NoMisses ELSE misses[g]]

\* The misses that count once a device is heard: a device that comes back
\* from being quiet starts with a clean slate.
Counted(f) ==
    [g \in Fields |->
        IF quiet[DeviceOf[f]] # None /\ DeviceOf[g] = DeviceOf[f] THEN NoMisses
        ELSE misses[g]]

BackedOff(m) == m.count >= BackoffAfter

\* A device that is heard, and a field of it that answers or may be probed.
PollHeard(p) ==
    LET f == p[2]
        d == DeviceOf[f]
        m == Counted(f)
    IN
    /\ TakeUp(p)
    /\ NeedsRead(p)
    /\ d \notin probed /\ On(d)
    /\ BackedOff(m[f]) => m[f].retry = 0
    /\ quiet' = [quiet EXCEPT ![d] = None]
    /\ misses' = IF BackedOff(m[f]) THEN [m EXCEPT ![f].retry = QuietProbe] ELSE m
    /\ Enqueue(p)
    /\ given' = [given EXCEPT ![p] = FALSE]
    /\ UNCHANGED probed

\* A field that has stopped answering is left alone until its next probe.
HoldMissing(p) ==
    LET f == p[2]
        d == DeviceOf[f]
        m == Counted(f)
    IN
    /\ TakeUp(p)
    /\ NeedsRead(p)
    /\ d \notin probed /\ On(d)
    /\ BackedOff(m[f]) /\ m[f].retry > 0
    /\ quiet' = [quiet EXCEPT ![d] = None]
    /\ misses' = m
    /\ Hold(p)
    /\ UNCHANGED probed

\* The batch is full, or nothing is left: poll_values sends what was chosen.
SendReads ==
    /\ pc = "select"
    /\ work = {} \/ Len(reads) = ReadBatch
    /\ pending' = DOMAIN reads
    /\ work' = {}
    /\ pc' = "wait"
    /\ UNCHANGED <<subs, due, age, silent, quiet, misses, spent, probed, reads, history>>

-----------------------------------------------------------------------------
(* The reads in flight. *)

\* finish_read with an answer, and poll_due handing it to all who want it.
ReadAnswered(r) ==
    LET f == reads[r].field
        d == DeviceOf[f]
    IN
    /\ r \in pending
    /\ silent' = [silent EXCEPT ![d] = 0]
    /\ age' = [age EXCEPT ![f] = 0]
    /\ misses' = [misses EXCEPT ![f] = NoMisses]
    /\ strikes' = [StrikesHearing(d) EXCEPT ![f] = 0]
    /\ given' = [p \in Wanted |->
                   given[p] \/ (p[2] = f /\ p[1] \in reads[r].by)]
    /\ pending' = pending \ {r}
    /\ UNCHANGED <<subs, due, quiet, pc, spent, work, probed, reads, sinceRead>>

\* finish_read without one. The count only matters up to BackoffAfter.
ReadTimesOut(r) ==
    LET f == reads[r].field
        n == AtMost(misses[f].count + 1, BackoffAfter)
    IN
    /\ r \in pending
    /\ f \notin Reliable
    /\ misses' = [misses EXCEPT ![f] =
                    [count |-> n, retry |-> IF n >= BackoffAfter THEN QuietProbe ELSE @.retry]]
    /\ strikes' = [strikes EXCEPT ![f] = AtMost(@ + 1, BackoffAfter)]
    /\ pending' = pending \ {r}
    /\ UNCHANGED <<subs, due, age, silent, quiet, pc, spent, work, probed, reads, given,
                   sinceRead>>

EndPass ==
    /\ pc = "wait"
    /\ pending = {}
    /\ pc' = "idle"
    /\ probed' = {} /\ reads' = <<>>
    /\ UNCHANGED <<subs, due, age, silent, quiet, misses, spent, work, pending, history>>

-----------------------------------------------------------------------------
Outside ==
    \/ \E d \in Devices : HearDevice(d)
    \/ \E f \in Fields : HearValue(f)
    \/ \E s \in Subs : Subscribe(s) \/ Unsubscribe(s)

Select ==
    \E p \in Wanted :
        \/ UseCached(p) \/ Share(p)
        \/ HoldQuiet(p) \/ ProbeQuiet(p)
        \/ PollHeard(p) \/ HoldMissing(p)

Scheduler ==
    \/ StartPass \/ Select \/ SendReads \/ EndPass
    \/ \E r \in pending : ReadAnswered(r) \/ ReadTimesOut(r)

Next == Tick \/ Outside \/ Scheduler

\* Time passes, the scheduler thread runs, and every read of it ends. That a
\* device is heard unasked, and what subscribers do, is left open.
Spec == Init /\ [][Next]_vars /\ WF_vars(Tick) /\ WF_vars(Scheduler)

-----------------------------------------------------------------------------
(* Properties. *)

Probes == 0..QuietProbe

TypeOK ==
    /\ subs \in [Subs -> {"new", "on", "off"}]
    /\ due \in [Wanted -> Int]
    /\ spent \in 0..PassTicks
    /\ age \in [Fields -> 0..TooOld]
    /\ silent \in [Devices -> 0..(Liveness + 1)]
    /\ quiet \in [Devices -> Probes \cup {None}]
    /\ misses \in [Fields -> [count : 0..BackoffAfter, retry : Probes]]
    /\ pc \in {"idle", "select", "wait"}
    /\ work \subseteq Wanted
    /\ probed \subseteq Devices
    /\ reads \in Seq([field : Known, by : SUBSET Subs]) /\ Len(reads) <= ReadBatch
    /\ pending \subseteq DOMAIN reads
    /\ given \in [Wanted -> BOOLEAN]
    /\ sinceRead \in [Fields -> Probes]
    /\ strikes \in [Fields -> 0..BackoffAfter]

\* No two reads in flight are of the same field: they would share a key in
\* the waiter table, and the second would throw away the answer to the first.
ReadsAreDistinct ==
    \A r, q \in DOMAIN reads : reads[r].field = reads[q].field => r = q

\* While a device is not down to probes, a field of it is counted out for
\* misses of its own since the device came back, never for those that fell
\* into the time it was away: it starts with a clean slate, in all fields.
CleanSlate ==
    \A f \in Fields : quiet[DeviceOf[f]] = None => misses[f].count <= strikes[f]

\* f is chosen to be read by this step.
Chosen(f) == Len(reads') > Len(reads) /\ reads'[Len(reads')].field = f

\* A device not heard is read once per quiet_probe, whatever the number of
\* its fields and of their subscriptions, and so is a field that has missed
\* BACKOFF_AFTER reads, whichever way the device came and went in between.
ProbesAreRare ==
    [][\A f \in Fields : Chosen(f) =>
          /\ ~On(DeviceOf[f]) =>
                \A g \in FieldsOf(DeviceOf[f]) : sinceRead[g] = QuietProbe
          /\ quiet[DeviceOf[f]] = None /\ BackedOff(misses[f]) =>
                sinceRead[f] = QuietProbe]_vars

\* What the timers of the two kinds of probe owe to the reads that went out:
\* they run from a read of the device, or of the field, or from later.
ProbesAreApart ==
    \A f \in Fields : quiet[DeviceOf[f]] # None =>
        QuietProbe <= sinceRead[f] + quiet[DeviceOf[f]]

RetriesAreApart ==
    \A f \in Fields : quiet[DeviceOf[f]] = None /\ BackedOff(misses[f]) =>
        QuietProbe <= sinceRead[f] + misses[f].retry

\* However many fields are due at once and however few fit in a batch, each
\* subscription is handed each of its fields' values, again and again, while
\* the device is heard and answers.
SubscribersAreServed ==
    \A p \in Wanted :
        (Active(p) /\ ~given[p]) ~>
            (given[p] \/ ~Active(p) \/ ~On(DeviceOf[p[2]]))

\* Longest overdue first: nothing that is due waits longer than the batches
\* ahead of it take, which MaxLate is chosen to exceed.
LatenessIsBounded == \A p \in Wanted : due[p] > -MaxLate

\* A device that only speaks when spoken to is heard from again, as long as
\* a subscription wants a field that it answers.
Answering(d) ==
    \E p \in Wanted : Active(p) /\ DeviceOf[p[2]] = d /\ p[2] \in Known \cap Reliable

HeardFromAgain ==
    \A d \in Devices : (~On(d) /\ Answering(d)) ~> (On(d) \/ ~Answering(d))
=============================================================================
