--------------------------- MODULE SubPoll_proofs ---------------------------
(***************************************************************************)
(* Proofs about SubPoll, for any subscriptions, fields and devices, and    *)
(* any intervals, batch, back-off and probe times.                         *)
(***************************************************************************)
EXTENDS SubPoll, TLAPS

\* A read added to those of the pass.
LEMMA AddedRead ==
    ASSUME NEW S, NEW s \in Seq(S), NEW x \in S
    PROVE  /\ Append(s, x) \in Seq(S)
           /\ Len(Append(s, x)) = Len(s) + 1
           /\ DOMAIN Append(s, x) = DOMAIN s \cup {Len(s) + 1}
           /\ \A i \in DOMAIN s : Append(s, x)[i] = s[i]
           /\ Append(s, x)[Len(s) + 1] = x
  OBVIOUS

\* The parameters one by one.
LEMMA Parameters ==
    /\ ReadBatch \in Nat \ {0} /\ BackoffAfter \in Nat \ {0} /\ QuietProbe \in Nat \ {0}
    /\ Liveness \in Nat /\ PassTicks \in Nat /\ MaxLate \in Nat /\ TooOld \in Nat
    /\ None \notin Nat
    /\ Interval \in [Subs -> Nat \ {0}]
    /\ 0 \in Probes /\ QuietProbe \in Probes /\ Probes \subseteq Nat
  BY PollAssumption DEF Probes

\* A read of the pass that another subscription joins.
LEMMA ChangedRead ==
    ASSUME NEW S, NEW s \in Seq(S), NEW i \in DOMAIN s, NEW x \in S
    PROVE  /\ [s EXCEPT ![i] = x] \in Seq(S)
           /\ Len([s EXCEPT ![i] = x]) = Len(s)
           /\ DOMAIN [s EXCEPT ![i] = x] = DOMAIN s
  OBVIOUS

LEMMA ElementType ==
    ASSUME NEW S, NEW s \in Seq(S), NEW i \in DOMAIN s
    PROVE  s[i] \in S
  OBVIOUS

LEMMA ReadType ==
    ASSUME TypeOK, NEW r \in DOMAIN reads
    PROVE  /\ reads[r] \in [field : Known, by : SUBSET Subs]
           /\ reads[r].field \in Fields /\ DeviceOf[reads[r].field] \in Devices
  <1>1. reads[r] \in [field : Known, by : SUBSET Subs]
    <2>1. reads \in Seq([field : Known, by : SUBSET Subs])
      BY DEF TypeOK
    <2>2. QED
      BY <2>1, ElementType
  <1>2. QED
    BY <1>1, PollAssumption DEF Devices

\* Reads are in flight only while the pass waits for them.
Waiting == pc # "wait" => pending = {}

Typed == TypeOK /\ Waiting

LEMMA InitType == Init => Typed
  BY Parameters, SMTT(30) DEF Init, Typed, TypeOK, Waiting, NoMisses

\* Time, what is heard and what subscribers do leave the reads alone.
LEMMA TickType == TypeOK /\ Tick => TypeOK'
  <1> SUFFICES ASSUME TypeOK, Tick PROVE TypeOK'
    OBVIOUS
  <1> USE Parameters DEF Probes
  <1>1. due' \in [Wanted -> Int] /\ spent' \in 0..PassTicks
    BY DEF TypeOK, Tick, AtLeast
  <1>2. age' \in [Fields -> 0..TooOld]
    <2>1. \A n \in 0..TooOld : AtMost(n + 1, TooOld) \in 0..TooOld
      BY DEF AtMost
    <2>2. QED
      BY <2>1 DEF TypeOK, Tick
  <1>3. silent' \in [Devices -> 0..(Liveness + 1)] /\ sinceRead' \in [Fields -> Probes]
    <2>1. /\ \A n \in 0..(Liveness + 1) : AtMost(n + 1, Liveness + 1) \in 0..(Liveness + 1)
          /\ \A n \in Probes : AtMost(n + 1, QuietProbe) \in Probes
      BY DEF AtMost
    <2>2. QED
      BY <2>1 DEF TypeOK, Tick
  <1>4. \A n \in Probes : Down(n) \in Probes
    BY DEF Down
  <1>5. /\ quiet' \in [Devices -> Probes \cup {None}]
        /\ misses' \in [Fields -> [count : 0..BackoffAfter, retry : Probes]]
    BY <1>4 DEF TypeOK, Tick
  <1>6. QED
    BY <1>1, <1>2, <1>3, <1>5 DEF TypeOK, Tick, passVars

LEMMA OutsideType == TypeOK /\ Outside => TypeOK'
  <1> SUFFICES ASSUME TypeOK, Outside PROVE TypeOK'
    OBVIOUS
  <1> USE Parameters
  <1>1. ASSUME NEW d \in Devices, HearDevice(d) PROVE TypeOK'
    BY <1>1 DEF TypeOK, HearDevice, Heard, StrikesHearing, passVars
  <1>2. ASSUME NEW f \in Fields, HearValue(f) PROVE TypeOK'
    BY <1>2 DEF TypeOK, HearValue, Heard, StrikesHearing, Devices, passVars
  <1>3. ASSUME NEW s \in Subs, Subscribe(s) PROVE TypeOK'
    BY <1>3 DEF TypeOK, Subscribe, passVars, history
  <1>4. ASSUME NEW s \in Subs, Unsubscribe(s) PROVE TypeOK'
    BY <1>4 DEF TypeOK, Unsubscribe, passVars, history
  <1>5. QED
    BY <1>1, <1>2, <1>3, <1>4 DEF Outside

\* What taking up an item of the work list does to the variables that all
\* six ways of dealing with it share.
LEMMA TakenUp ==
    ASSUME TypeOK, NEW p \in Wanted, TakeUp(p)
    PROVE  /\ p[1] \in Subs /\ p[2] \in Fields /\ DeviceOf[p[2]] \in Devices
           /\ due' \in [Wanted -> Int]
           /\ work' \subseteq Wanted
           /\ Len(reads) + 1 <= ReadBatch
  <1>1. p[1] \in Subs /\ p[2] \in Fields
    BY DEF Wanted
  <1>2. Interval[p[1]] \in Int
    BY <1>1, Parameters
  <1>3. Len(reads) \in Nat /\ ReadBatch \in Nat
    BY Parameters DEF TypeOK
  <1>4. QED
    BY <1>1, <1>2, <1>3 DEF TypeOK, TakeUp, Devices

\* A read that is enqueued, if any, is the pass's last, and of that field.
LEMMA Enqueued ==
    ASSUME TypeOK, NEW p \in Wanted, TakeUp(p), Enqueue(p)
    PROVE  /\ reads' \in Seq([field : Known, by : SUBSET Subs]) /\ Len(reads') <= ReadBatch
           /\ DOMAIN reads \subseteq DOMAIN reads'
           /\ sinceRead' \in [Fields -> Probes]
           /\ \/ UNCHANGED <<reads, sinceRead>>
              \/ /\ reads' = Append(reads, [field |-> p[2], by |-> {p[1]}])
                 /\ p[2] \in Known
                 /\ sinceRead' = [sinceRead EXCEPT ![p[2]] = 0]
  <1>1. /\ p[1] \in Subs /\ p[2] \in Fields
        /\ Len(reads) + 1 <= ReadBatch
    BY TakenUp
  <1>2. reads \in Seq([field : Known, by : SUBSET Subs]) /\ Len(reads) <= ReadBatch
    BY DEF TypeOK
  <1>3. CASE p[2] \in Known
    <2>1. [field |-> p[2], by |-> {p[1]}] \in [field : Known, by : SUBSET Subs]
      BY <1>1, <1>3
    <2>2. sinceRead' = [sinceRead EXCEPT ![p[2]] = 0]
          /\ reads' = Append(reads, [field |-> p[2], by |-> {p[1]}])
      BY <1>3 DEF Enqueue
    <2>3. 0 \in Probes
      BY Parameters DEF Probes
    <2>4. sinceRead' \in [Fields -> Probes]
      BY <2>2, <2>3 DEF TypeOK
    <2>5. QED
      BY <2>1, <2>2, <2>4, <1>1, <1>2, <1>3, AddedRead
  <1>4. CASE p[2] \notin Known
    BY <1>2, <1>4 DEF Enqueue, TypeOK
  <1>5. QED
    BY <1>3, <1>4

LEMMA CountedType ==
    ASSUME TypeOK, NEW f \in Fields
    PROVE  Counted(f) \in [Fields -> [count : 0..BackoffAfter, retry : Probes]]
  BY Parameters DEF TypeOK, Counted, NoMisses, Probes

LEMMA SelectType == TypeOK /\ Select => TypeOK'
  <1> SUFFICES ASSUME TypeOK, NEW p \in Wanted,
                      \/ UseCached(p) \/ Share(p)
                      \/ HoldQuiet(p) \/ ProbeQuiet(p)
                      \/ PollHeard(p) \/ HoldMissing(p)
               PROVE  TypeOK'
    BY DEF Select
  <1> DEFINE f == p[2]
             d == DeviceOf[p[2]]
  <1>1. TakeUp(p)
    BY DEF UseCached, Share, HoldQuiet, ProbeQuiet, PollHeard, HoldMissing
  <1>2. /\ p[1] \in Subs /\ f \in Fields /\ d \in Devices
        /\ due' \in [Wanted -> Int] /\ work' \subseteq Wanted
    BY <1>1, TakenUp
  <1>3. UNCHANGED <<subs, age, silent, pc, spent, pending, strikes>>
    BY <1>1 DEF TakeUp
  <1>4. given' \in [Wanted -> BOOLEAN]
    BY DEF TypeOK, UseCached, Share, HoldQuiet, ProbeQuiet, PollHeard, HoldMissing, Hold
  <1>5. QuietProbe \in Probes
    BY Parameters DEF Probes
  <1>6. ASSUME quiet' \in [Devices -> Probes \cup {None}],
               misses' \in [Fields -> [count : 0..BackoffAfter, retry : Probes]],
               probed' \subseteq Devices,
               sinceRead' \in [Fields -> Probes],
               reads' \in Seq([field : Known, by : SUBSET Subs]),
               Len(reads') <= ReadBatch,
               DOMAIN reads \subseteq DOMAIN reads'
        PROVE  TypeOK'
    BY <1>2, <1>3, <1>4, <1>6 DEF TypeOK
  <1>7. ASSUME UNCHANGED <<reads, sinceRead, probed>>
        PROVE  /\ probed' \subseteq Devices
               /\ sinceRead' \in [Fields -> Probes]
               /\ reads' \in Seq([field : Known, by : SUBSET Subs])
               /\ Len(reads') <= ReadBatch
               /\ DOMAIN reads \subseteq DOMAIN reads'
    BY <1>7 DEF TypeOK
  <1>8. CASE UseCached(p)
    BY <1>6, <1>7, <1>8 DEF TypeOK, UseCached
  <1>9. CASE Share(p)
    <2>1. PICK r \in Sharing(p) : reads' = [reads EXCEPT ![r].by = @ \cup {p[1]}]
      BY <1>9 DEF Share
    <2>2. r \in DOMAIN reads /\ reads[r].by \cup {p[1]} \in SUBSET Subs
      BY <1>2, ReadType DEF Sharing
    <2>3. reads' = [reads EXCEPT ![r] = [reads[r] EXCEPT !.by = @ \cup {p[1]}]]
      BY <2>1
    <2>4. [reads[r] EXCEPT !.by = @ \cup {p[1]}] \in [field : Known, by : SUBSET Subs]
      BY <2>2, ReadType
    <2>5. reads \in Seq([field : Known, by : SUBSET Subs]) /\ Len(reads) <= ReadBatch
      BY DEF TypeOK
    <2>6. /\ reads' \in Seq([field : Known, by : SUBSET Subs])
          /\ Len(reads') = Len(reads) /\ DOMAIN reads' = DOMAIN reads
      BY <2>2, <2>3, <2>4, <2>5, ChangedRead
    <2>7. QED
      BY <2>5, <2>6, <1>6, <1>9 DEF TypeOK, Share
  <1>10. CASE HoldQuiet(p)
    <2>1. quiet' \in [Devices -> Probes \cup {None}]
      BY <1>2, <1>5, <1>10 DEF TypeOK, HoldQuiet, ArmProbe
    <2>2. QED
      BY <2>1, <1>6, <1>7, <1>10 DEF TypeOK, HoldQuiet, Hold
  <1>11. CASE ProbeQuiet(p)
    <2>1. quiet' \in [Devices -> Probes \cup {None}] /\ probed' \subseteq Devices
      BY <1>2, <1>5, <1>11 DEF TypeOK, ProbeQuiet
    <2>2. QED
      BY <2>1, <1>1, <1>6, <1>11, Enqueued DEF TypeOK, ProbeQuiet
  <1>12. CASE PollHeard(p)
    <2>1. quiet' \in [Devices -> Probes \cup {None}]
      BY <1>2, <1>12 DEF TypeOK, PollHeard
    <2>2. misses' \in [Fields -> [count : 0..BackoffAfter, retry : Probes]]
      BY <1>2, <1>5, <1>12, CountedType DEF PollHeard
    <2>3. QED
      BY <2>1, <2>2, <1>1, <1>6, <1>12, Enqueued DEF TypeOK, PollHeard
  <1>13. CASE HoldMissing(p)
    <2>1. quiet' \in [Devices -> Probes \cup {None}]
      BY <1>2, <1>13 DEF TypeOK, HoldMissing
    <2>2. misses' \in [Fields -> [count : 0..BackoffAfter, retry : Probes]]
      BY <1>2, <1>13, CountedType DEF HoldMissing
    <2>3. QED
      BY <2>1, <2>2, <1>6, <1>7, <1>13 DEF HoldMissing, Hold
  <1>14. QED
    BY <1>8, <1>9, <1>10, <1>11, <1>12, <1>13

\* The steps of a pass other than the selection.
LEMMA PassType ==
    ASSUME Typed,
           \/ StartPass \/ SendReads \/ EndPass
           \/ \E r \in pending : ReadAnswered(r) \/ ReadTimesOut(r)
    PROVE  TypeOK'
  <1> USE Parameters DEF Typed
  <1>1. CASE StartPass
    <2>1. Overdue \subseteq Wanted
      BY DEF Overdue
    <2>2. pending = {}
      BY <1>1 DEF StartPass, Waiting
    <2>3. QED
      BY <1>1, <2>1, <2>2 DEF TypeOK, StartPass, history
  <1>2. CASE SendReads
    BY <1>2 DEF TypeOK, SendReads, history
  <1>3. CASE EndPass
    BY <1>3 DEF TypeOK, EndPass, history
  <1>4. ASSUME NEW r \in pending
        PROVE  reads[r].field \in Fields /\ DeviceOf[reads[r].field] \in Devices
    BY <1>4, ReadType DEF TypeOK
  <1>5. ASSUME NEW r \in pending, ReadAnswered(r) PROVE TypeOK'
    <2>1. misses' \in [Fields -> [count : 0..BackoffAfter, retry : Probes]]
      BY <1>4, <1>5 DEF TypeOK, ReadAnswered, NoMisses, Probes
    <2>2. strikes' \in [Fields -> 0..BackoffAfter]
      <3>1. strikes \in [Fields -> 0..BackoffAfter] /\ 0 \in 0..BackoffAfter
        BY DEF TypeOK
      <3>2. StrikesHearing(DeviceOf[reads[r].field]) \in [Fields -> 0..BackoffAfter]
        BY <3>1 DEF StrikesHearing
      <3>3. QED
        BY <1>4, <1>5, <3>1, <3>2 DEF ReadAnswered
    <2>3. silent' \in [Devices -> 0..(Liveness + 1)] /\ age' \in [Fields -> 0..TooOld]
      BY <1>4, <1>5 DEF TypeOK, ReadAnswered
    <2>4. given' \in [Wanted -> BOOLEAN]
      BY <1>5 DEF TypeOK, ReadAnswered
    <2>5. pending' \subseteq DOMAIN reads
      BY <1>5 DEF TypeOK, ReadAnswered
    <2>6. UNCHANGED <<subs, due, quiet, pc, spent, work, probed, reads, sinceRead>>
      BY <1>5 DEF ReadAnswered
    <2>7. QED
      BY <2>1, <2>2, <2>3, <2>4, <2>5, <2>6 DEF TypeOK
  <1>6. ASSUME NEW r \in pending, ReadTimesOut(r) PROVE TypeOK'
    <2>1. misses' \in [Fields -> [count : 0..BackoffAfter, retry : Probes]]
      <3> DEFINE f == reads[r].field
                 n == AtMost(misses[f].count + 1, BackoffAfter)
                 new == [count |-> n, retry |-> IF n >= BackoffAfter THEN QuietProbe
                                                ELSE misses[f].retry]
      <3>1. misses \in [Fields -> [count : 0..BackoffAfter, retry : Probes]] /\ f \in Fields
        BY <1>4, <1>6 DEF TypeOK
      <3>2. misses[f].count \in 0..BackoffAfter /\ misses[f].retry \in Probes
        BY <3>1
      <3>3. n \in 0..BackoffAfter
        BY <3>2 DEF AtMost
      <3>4. misses' = [misses EXCEPT ![f] = new]
        BY <1>6 DEF ReadTimesOut
      <3> HIDE DEF f, n
      <3>5. new \in [count : 0..BackoffAfter, retry : Probes]
        BY <3>2, <3>3
      <3> HIDE DEF new
      <3>6. QED
        BY <3>1, <3>4, <3>5
    <2>2. strikes' \in [Fields -> 0..BackoffAfter]
      <3>1. strikes \in [Fields -> 0..BackoffAfter] /\ reads[r].field \in Fields
        BY <1>4, <1>6 DEF TypeOK
      <3>2. AtMost(strikes[reads[r].field] + 1, BackoffAfter) \in 0..BackoffAfter
        BY <3>1 DEF AtMost
      <3>3. QED
        BY <1>6, <3>1, <3>2 DEF ReadTimesOut
    <2>3. pending' \subseteq DOMAIN reads
      BY <1>6 DEF TypeOK, ReadTimesOut
    <2>4. UNCHANGED <<subs, due, age, silent, quiet, pc, spent, work, probed, reads, given, sinceRead>>
      BY <1>6 DEF ReadTimesOut
    <2>5. QED
      BY <2>1, <2>2, <2>3, <2>4 DEF TypeOK
  <1>7. QED
    BY <1>1, <1>2, <1>3, <1>5, <1>6

LEMMA StepType == Typed /\ [Next]_vars => Typed'
  <1> SUFFICES ASSUME Typed, [Next]_vars PROVE Typed'
    OBVIOUS
  <1>1. CASE UNCHANGED vars
    BY <1>1 DEF Typed, TypeOK, Waiting, vars, passVars, history
  <1>2. CASE Tick
    BY <1>2, TickType DEF Typed, Waiting, Tick, passVars
  <1>3. CASE Outside
    <2>1. UNCHANGED <<pc, pending>>
      BY <1>3 DEF Outside, HearDevice, HearValue, Subscribe, Unsubscribe, passVars
    <2>2. QED
      BY <1>3, <2>1, OutsideType DEF Typed, Waiting
  <1>4. CASE Select
    <2>1. UNCHANGED <<pc, pending>>
      BY <1>4 DEF Select, UseCached, Share, HoldQuiet, ProbeQuiet, PollHeard, HoldMissing,
                  TakeUp
    <2>2. QED
      BY <1>4, <2>1, SelectType DEF Typed, Waiting
  <1>5. CASE \/ StartPass \/ SendReads \/ EndPass
             \/ \E r \in pending : ReadAnswered(r) \/ ReadTimesOut(r)
    <2>1. Waiting'
      BY <1>5 DEF Typed, Waiting, StartPass, SendReads, EndPass, ReadAnswered, ReadTimesOut
    <2>2. QED
      BY <1>5, <2>1, PassType DEF Typed
  <1>6. QED
    BY <1>1, <1>2, <1>3, <1>4, <1>5 DEF Next, Scheduler

\* Every variable keeps its type; among others, a pass never holds more
\* reads than READ_BATCH, nor one in flight that it did not send.
THEOREM TypeCorrect == Spec => []TypeOK
  <1>1. Typed => TypeOK
    BY DEF Typed
  <1>2. QED
    BY <1>1, InitType, StepType, PTL DEF Spec

-----------------------------------------------------------------------------
(* One read of a field at a time. *)

LEMMA StepDistinct == Typed /\ ReadsAreDistinct /\ [Next]_vars => ReadsAreDistinct'
  <1> SUFFICES ASSUME Typed, ReadsAreDistinct, [Next]_vars PROVE ReadsAreDistinct'
    OBVIOUS
  <1> USE DEF Typed
  <1>1. ASSUME UNCHANGED reads PROVE ReadsAreDistinct'
    BY <1>1 DEF ReadsAreDistinct
  <1>2. ASSUME reads' = <<>> PROVE ReadsAreDistinct'
    BY <1>2 DEF ReadsAreDistinct
  <1>3. ASSUME NEW p \in Wanted, TakeUp(p), NeedsRead(p), Enqueue(p)
        PROVE  ReadsAreDistinct'
    <2>1. CASE UNCHANGED reads
      BY <2>1, <1>1
    <2>2. CASE reads' = Append(reads, [field |-> p[2], by |-> {p[1]}])
      <3>1. /\ reads \in Seq([field : Known, by : SUBSET Subs])
            /\ p[1] \in Subs
        BY <1>3, TakenUp DEF TypeOK
      <3>2. p[2] \in Known \/ UNCHANGED reads
        BY <1>3, Enqueued
      <3>3. CASE p[2] \in Known
        <4>1. [field |-> p[2], by |-> {p[1]}] \in [field : Known, by : SUBSET Subs]
          BY <3>1, <3>3
        <4>2. /\ DOMAIN reads' = DOMAIN reads \cup {Len(reads) + 1}
              /\ \A i \in DOMAIN reads : reads'[i] = reads[i]
              /\ reads'[Len(reads) + 1].field = p[2]
          BY <2>2, <3>1, <4>1, AddedRead
        <4>3. \A i \in DOMAIN reads : reads[i].field # p[2]
          BY <1>3 DEF NeedsRead, Sharing
        <4>4. QED
          BY <4>2, <4>3 DEF ReadsAreDistinct
      <3>4. QED
        BY <1>1, <3>2, <3>3
    <2>3. QED
      BY <2>1, <2>2, <1>3, Enqueued
  <1>4. ASSUME NEW p \in Wanted, Share(p) PROVE ReadsAreDistinct'
    <2>1. PICK r \in Sharing(p) : reads' = [reads EXCEPT ![r].by = @ \cup {p[1]}]
      BY <1>4 DEF Share
    <2>2. r \in DOMAIN reads
      BY DEF Sharing
    <2>3. reads[r] \in [field : Known, by : SUBSET Subs]
      BY <2>2, ReadType
    <2>4. /\ DOMAIN reads' = DOMAIN reads
          /\ \A i \in DOMAIN reads : reads'[i].field = reads[i].field
      BY <2>1, <2>2, <2>3
    <2>5. QED
      BY <2>4 DEF ReadsAreDistinct
  <1>5. CASE Tick \/ Outside \/ UNCHANGED vars
    BY <1>1, <1>5 DEF Tick, Outside, HearDevice, HearValue, Subscribe, Unsubscribe, vars,
                      passVars
  <1>6. CASE StartPass \/ EndPass
    BY <1>2, <1>6 DEF StartPass, EndPass
  <1>7. CASE SendReads \/ \E r \in pending : ReadAnswered(r) \/ ReadTimesOut(r)
    BY <1>1, <1>7 DEF SendReads, ReadAnswered, ReadTimesOut
  <1>8. CASE Select
    <2>1. PICK p \in Wanted : \/ UseCached(p) \/ Share(p)
                              \/ HoldQuiet(p) \/ ProbeQuiet(p)
                              \/ PollHeard(p) \/ HoldMissing(p)
      BY <1>8 DEF Select
    <2>2. CASE UseCached(p) \/ HoldQuiet(p) \/ HoldMissing(p)
      BY <1>1, <2>2 DEF UseCached, HoldQuiet, HoldMissing, Hold
    <2>3. CASE ProbeQuiet(p) \/ PollHeard(p)
      BY <1>3, <2>3 DEF ProbeQuiet, PollHeard
    <2>4. QED
      BY <1>4, <2>1, <2>2, <2>3
  <1>9. QED
    BY <1>5, <1>6, <1>7, <1>8 DEF Next, Scheduler

\* Whatever the subscriptions have in common, a pass reads each field once:
\* two reads of it would share a key in the request table.
THEOREM OneReadPerField == Spec => []ReadsAreDistinct
  <1>1. Init => ReadsAreDistinct
    BY DEF Init, ReadsAreDistinct
  <1>2. QED
    BY <1>1, InitType, StepType, StepDistinct, PTL DEF Spec

-----------------------------------------------------------------------------
(* A clean slate for a device that is back, and rare probes for one that is
   not. *)

IInv == Typed /\ CleanSlate /\ ProbesAreApart /\ RetriesAreApart

LEMMA InitIInv == Init => IInv
  <1>1. Init => CleanSlate
    BY DEF Init, CleanSlate, NoMisses
  <1>2. Init => ProbesAreApart
    BY PollAssumption DEF Init, ProbesAreApart, Devices
  <1>3. Init => RetriesAreApart
    BY Parameters DEF Init, RetriesAreApart, BackedOff, NoMisses
  <1>4. QED
    BY <1>1, <1>2, <1>3, InitType DEF IInv

\* The types the timers have, field by field.
LEMMA TimerTypes ==
    ASSUME TypeOK, NEW f \in Fields
    PROVE  /\ DeviceOf[f] \in Devices
           /\ quiet[DeviceOf[f]] \in Probes \cup {None}
           /\ misses[f] \in [count : 0..BackoffAfter, retry : Probes]
           /\ misses[f].count \in Nat /\ misses[f].retry \in Nat
           /\ sinceRead[f] \in Probes /\ sinceRead[f] \in Nat
           /\ strikes[f] \in 0..BackoffAfter /\ strikes[f] \in Nat
           /\ quiet[DeviceOf[f]] # None => quiet[DeviceOf[f]] \in Nat
  <1>1. DeviceOf[f] \in Devices
    BY DEF Devices
  <1>2. quiet[DeviceOf[f]] \in Probes \cup {None}
    BY <1>1 DEF TypeOK
  <1>3. misses[f] \in [count : 0..BackoffAfter, retry : Probes]
    BY DEF TypeOK
  <1>4. misses[f].count \in 0..BackoffAfter /\ misses[f].retry \in Probes
    BY <1>3
  <1>5. sinceRead[f] \in Probes /\ strikes[f] \in 0..BackoffAfter
    BY DEF TypeOK
  <1>6. 0..BackoffAfter \subseteq Nat /\ Probes \subseteq Nat
    BY Parameters
  <1>7. /\ misses[f].count \in Nat /\ misses[f].retry \in Nat
        /\ sinceRead[f] \in Nat /\ strikes[f] \in Nat
    BY <1>4, <1>5, <1>6, Zenon
  <1>8. quiet[DeviceOf[f]] # None => quiet[DeviceOf[f]] \in Nat
    BY <1>2, <1>6, Zenon
  <1>9. QED
    BY <1>1, <1>2, <1>3, <1>5, <1>7, <1>8

LEMMA TickIInv == IInv /\ Tick => CleanSlate' /\ ProbesAreApart' /\ RetriesAreApart'
  <1> SUFFICES ASSUME IInv, Tick, NEW f \in Fields
               PROVE  /\ (quiet[DeviceOf[f]] = None => misses[f].count <= strikes[f])'
                      /\ (quiet[DeviceOf[f]] # None =>
                             QuietProbe <= sinceRead[f] + quiet[DeviceOf[f]])'
                      /\ (quiet[DeviceOf[f]] = None /\ BackedOff(misses[f]) =>
                             QuietProbe <= sinceRead[f] + misses[f].retry)'
    BY DEF CleanSlate, ProbesAreApart, RetriesAreApart
  <1>1. TypeOK
    BY DEF IInv, Typed
  <1> DEFINE d == DeviceOf[f]
  <1>2. /\ quiet'[d] = IF quiet[d] = None THEN None ELSE Down(quiet[d])
        /\ misses'[f] = [misses[f] EXCEPT !.retry = Down(@)]
        /\ sinceRead'[f] = AtMost(sinceRead[f] + 1, QuietProbe)
        /\ strikes'[f] = strikes[f]
    BY <1>1, TimerTypes DEF Tick
  <1>3. misses'[f].count = misses[f].count /\ misses'[f].retry = Down(misses[f].retry)
    BY <1>1, <1>2, TimerTypes
  <1>4. quiet'[d] = None <=> quiet[d] = None
    BY <1>1, <1>2, TimerTypes, Parameters DEF Down
  <1>5. \A n, m \in Nat :
           QuietProbe <= n + m => QuietProbe <= AtMost(n + 1, QuietProbe) + Down(m)
    BY Parameters DEF AtMost, Down
  <1>6. QED
    BY <1>1, <1>2, <1>3, <1>4, <1>5, TimerTypes
       DEF IInv, CleanSlate, ProbesAreApart, RetriesAreApart, BackedOff

\* Hearing a device only forgives strikes while the device is down to probes.
LEMMA HearIInv ==
    ASSUME IInv, NEW d \in Devices, strikes' = StrikesHearing(d),
           UNCHANGED <<quiet, misses, sinceRead>>
    PROVE  CleanSlate' /\ ProbesAreApart' /\ RetriesAreApart'
  BY DEF IInv, CleanSlate, ProbesAreApart, RetriesAreApart, StrikesHearing

LEMMA ReadIInv ==
    ASSUME IInv, NEW r \in pending, ReadAnswered(r) \/ ReadTimesOut(r)
    PROVE  CleanSlate' /\ ProbesAreApart' /\ RetriesAreApart'
  <1>1. TypeOK /\ r \in DOMAIN reads
    BY DEF IInv, Typed, TypeOK
  <1> DEFINE g == reads[r].field
  <1>2. g \in Fields
    BY <1>1, ReadType
  <1>3. UNCHANGED <<quiet, sinceRead>>
    BY DEF ReadAnswered, ReadTimesOut
  <1> SUFFICES ASSUME NEW f \in Fields, quiet[DeviceOf[f]] = None
               PROVE  /\ misses'[f].count <= strikes'[f]
                      /\ BackedOff(misses'[f]) =>
                             QuietProbe <= sinceRead[f] + misses'[f].retry
    BY <1>3 DEF IInv, CleanSlate, ProbesAreApart, RetriesAreApart
  <1>4. /\ misses[f].count <= strikes[f]
        /\ BackedOff(misses[f]) => QuietProbe <= sinceRead[f] + misses[f].retry
    BY DEF IInv, CleanSlate, RetriesAreApart
  <1>5. CASE ReadAnswered(r)
    <2>1. CASE f = g
      <3>1. misses'[f] = NoMisses /\ strikes'[f] = 0
        BY <1>1, <1>2, <1>5, <2>1 DEF ReadAnswered, TypeOK, StrikesHearing
      <3>2. QED
        BY <3>1, Parameters DEF NoMisses, BackedOff
    <2>2. CASE f # g
      <3>1. misses'[f] = misses[f] /\ strikes'[f] = strikes[f]
        BY <1>1, <1>2, <1>5, <2>2 DEF ReadAnswered, TypeOK, StrikesHearing
      <3>2. QED
        BY <1>4, <3>1
    <2>3. QED
      BY <2>1, <2>2
  <1>6. CASE ReadTimesOut(r)
    <2>1. CASE f = g
      <3> DEFINE n == AtMost(misses[f].count + 1, BackoffAfter)
      <3>1. /\ misses'[f].count = n
            /\ n >= BackoffAfter => misses'[f].retry = QuietProbe
            /\ strikes'[f] = AtMost(strikes[f] + 1, BackoffAfter)
        BY <1>1, <1>2, <1>6, <2>1 DEF ReadTimesOut, TypeOK
      <3>2. n <= AtMost(strikes[f] + 1, BackoffAfter)
        BY <1>1, <1>4, TimerTypes, Parameters DEF AtMost
      <3>3. QED
        BY <1>1, <3>1, <3>2, TimerTypes, Parameters DEF BackedOff
    <2>2. CASE f # g
      <3>1. misses'[f] = misses[f] /\ strikes'[f] = strikes[f]
        BY <1>1, <1>2, <1>6, <2>2 DEF ReadTimesOut, TypeOK
      <3>2. QED
        BY <1>4, <3>1
    <2>3. QED
      BY <2>1, <2>2
  <1>7. QED
    BY <1>5, <1>6

\* A quiet device: its timer is set when a read of it goes out, or later,
\* and what is counted of its fields does not matter any more.
LEMMA QuietIInv ==
    ASSUME IInv, NEW p \in Wanted, HoldQuiet(p) \/ ProbeQuiet(p)
    PROVE  CleanSlate' /\ ProbesAreApart' /\ RetriesAreApart'
  <1>1. TypeOK /\ TakeUp(p)
    BY DEF IInv, Typed, HoldQuiet, ProbeQuiet
  <1>2. p[2] \in Fields /\ DeviceOf[p[2]] \in Devices
    BY <1>1, TakenUp
  <1>3. UNCHANGED <<misses, strikes>>
    BY DEF HoldQuiet, ProbeQuiet, TakeUp
  <1> SUFFICES ASSUME NEW f \in Fields
               PROVE  /\ quiet'[DeviceOf[f]] = None =>
                             /\ misses[f].count <= strikes[f]
                             /\ BackedOff(misses[f]) =>
                                   QuietProbe <= sinceRead'[f] + misses[f].retry
                      /\ quiet'[DeviceOf[f]] # None =>
                             QuietProbe <= sinceRead'[f] + quiet'[DeviceOf[f]]
    BY <1>3 DEF CleanSlate, ProbesAreApart, RetriesAreApart
  <1>4. /\ quiet[DeviceOf[f]] = None =>
              /\ misses[f].count <= strikes[f]
              /\ BackedOff(misses[f]) => QuietProbe <= sinceRead[f] + misses[f].retry
        /\ quiet[DeviceOf[f]] # None => QuietProbe <= sinceRead[f] + quiet[DeviceOf[f]]
    BY DEF IInv, CleanSlate, ProbesAreApart, RetriesAreApart
  <1>5. QuietProbe \in Nat /\ QuietProbe # None /\ sinceRead[f] \in Nat
    BY <1>1, TimerTypes, Parameters
  <1>6. CASE HoldQuiet(p)
    <2>1. UNCHANGED sinceRead
      BY <1>6 DEF HoldQuiet, Hold
    <2>2. \/ quiet'[DeviceOf[f]] = quiet[DeviceOf[f]]
          \/ quiet'[DeviceOf[f]] = QuietProbe
      BY <1>1, <1>2, <1>6, TimerTypes DEF HoldQuiet, ArmProbe, TypeOK
    <2>3. QED
      BY <1>4, <1>5, <2>1, <2>2
  <1>7. CASE ProbeQuiet(p)
    <2>1. sinceRead'[f] = sinceRead[f] \/ (sinceRead'[f] = 0 /\ f = p[2])
      <3>1. Enqueue(p)
        BY <1>7 DEF ProbeQuiet
      <3>2. sinceRead' = sinceRead \/ sinceRead' = [sinceRead EXCEPT ![p[2]] = 0]
        BY <1>1, <3>1, Enqueued
      <3>3. sinceRead \in [Fields -> Probes]
        BY <1>1 DEF TypeOK
      <3>4. QED
        BY <1>2, <3>2, <3>3
    <2>2. CASE DeviceOf[f] = DeviceOf[p[2]]
      <3>1. quiet'[DeviceOf[f]] = QuietProbe
        BY <1>1, <1>2, <1>7, <2>2 DEF ProbeQuiet, TypeOK
      <3>2. QED
        BY <1>5, <2>1, <3>1
    <2>3. CASE DeviceOf[f] # DeviceOf[p[2]]
      <3>1. quiet'[DeviceOf[f]] = quiet[DeviceOf[f]]
        BY <1>1, <1>2, <1>7, <2>3, TimerTypes DEF ProbeQuiet, TypeOK
      <3>2. sinceRead'[f] = sinceRead[f]
        BY <2>1, <2>3
      <3>3. QED
        BY <1>4, <3>1, <3>2
    <2>4. QED
      BY <2>2, <2>3
  <1>8. QED
    BY <1>6, <1>7

\* A device that is heard: coming back, all its fields start afresh, and a
\* field that has backed off is read when its own timer says so.
LEMMA HeardIInv ==
    ASSUME IInv, NEW p \in Wanted, PollHeard(p) \/ HoldMissing(p)
    PROVE  CleanSlate' /\ ProbesAreApart' /\ RetriesAreApart'
  <1>1. TypeOK /\ TakeUp(p)
    BY DEF IInv, Typed, PollHeard, HoldMissing
  <1> DEFINE g == p[2]
             d == DeviceOf[p[2]]
             m == Counted(p[2])
  <1>2. g \in Fields /\ d \in Devices
    BY <1>1, TakenUp
  <1>3. UNCHANGED strikes /\ quiet' = [quiet EXCEPT ![d] = None]
    BY <1>1 DEF PollHeard, HoldMissing, TakeUp
  <1> SUFFICES ASSUME NEW f \in Fields
               PROVE  /\ quiet'[DeviceOf[f]] = None =>
                             /\ misses'[f].count <= strikes[f]
                             /\ BackedOff(misses'[f]) =>
                                   QuietProbe <= sinceRead'[f] + misses'[f].retry
                      /\ quiet'[DeviceOf[f]] # None =>
                             QuietProbe <= sinceRead'[f] + quiet'[DeviceOf[f]]
    BY <1>3 DEF CleanSlate, ProbesAreApart, RetriesAreApart
  <1>4. /\ quiet[DeviceOf[f]] = None =>
              /\ misses[f].count <= strikes[f]
              /\ BackedOff(misses[f]) => QuietProbe <= sinceRead[f] + misses[f].retry
        /\ quiet[DeviceOf[f]] # None => QuietProbe <= sinceRead[f] + quiet[DeviceOf[f]]
    BY DEF IInv, CleanSlate, ProbesAreApart, RetriesAreApart
  <1>5. /\ QuietProbe \in Nat /\ sinceRead[f] \in Nat /\ strikes[f] \in Nat
        /\ BackoffAfter \in Nat \ {0}
        /\ misses[f].count \in Nat /\ misses[f].retry \in Nat
    BY <1>1, TimerTypes, Parameters
  <1>6. m[f] = NoMisses \/ (m[f] = misses[f] /\ (DeviceOf[f] = d => quiet[d] = None))
    <2>1. m[f] = IF quiet[d] # None /\ DeviceOf[f] = d THEN NoMisses ELSE misses[f]
      BY DEF Counted
    <2>2. QED
      BY <2>1
  <1>7. /\ quiet'[DeviceOf[f]] # None => quiet'[DeviceOf[f]] = quiet[DeviceOf[f]]
        /\ quiet'[DeviceOf[f]] = None => DeviceOf[f] = d \/ quiet[DeviceOf[f]] = None
        /\ quiet'[DeviceOf[f]] # None => DeviceOf[f] # d
    BY <1>1, <1>2, <1>3, TimerTypes DEF TypeOK
  <1>8. /\ m[f].count \in Nat /\ m[f].retry \in Nat
        /\ quiet'[DeviceOf[f]] = None =>
              /\ m[f].count <= strikes[f]
              /\ BackedOff(m[f]) => QuietProbe <= sinceRead[f] + m[f].retry
    <2>1. CASE m[f] = NoMisses
      BY <1>5, <2>1 DEF NoMisses, BackedOff
    <2>2. CASE m[f] = misses[f] /\ (DeviceOf[f] = d => quiet[d] = None)
      BY <1>4, <1>5, <1>7, <2>2
    <2>3. QED
      BY <1>6, <2>1, <2>2
  <1>9. m \in [Fields -> [count : 0..BackoffAfter, retry : Probes]]
    BY <1>1, <1>2, CountedType
  <1>10. CASE HoldMissing(p)
    <2>1. misses' = m /\ UNCHANGED sinceRead
      BY <1>10 DEF HoldMissing, Hold
    <2>2. QED
      BY <1>4, <1>7, <1>8, <2>1
  <1>11. CASE PollHeard(p)
    <2>1. sinceRead'[f] = sinceRead[f] \/ (sinceRead'[f] = 0 /\ f = g)
      <3>1. Enqueue(p)
        BY <1>11 DEF PollHeard
      <3>2. sinceRead' = sinceRead \/ sinceRead' = [sinceRead EXCEPT ![g] = 0]
        BY <1>1, <3>1, Enqueued
      <3>3. sinceRead \in [Fields -> Probes]
        BY <1>1 DEF TypeOK
      <3>4. QED
        BY <1>2, <3>2, <3>3
    <2>2. misses' = IF BackedOff(m[g]) THEN [m EXCEPT ![g].retry = QuietProbe] ELSE m
      BY <1>11 DEF PollHeard
    <2>3. CASE f # g
      <3>1. misses'[f] = m[f] /\ sinceRead'[f] = sinceRead[f]
        BY <1>2, <1>9, <2>1, <2>2, <2>3
      <3>2. QED
        BY <1>4, <1>7, <1>8, <3>1
    <2>4. CASE f = g
      <3>1. /\ misses'[f].count = m[f].count
            /\ BackedOff(m[f]) => misses'[f].retry = QuietProbe
        BY <1>2, <1>9, <2>2, <2>4
      <3>2. sinceRead'[f] \in Nat
        BY <1>5, <2>1
      <3>3. quiet'[DeviceOf[f]] = None
        BY <1>1, <1>2, <1>3, <2>4 DEF TypeOK
      <3>4. QED
        BY <1>5, <1>8, <3>1, <3>2, <3>3 DEF BackedOff
    <2>5. QED
      BY <2>3, <2>4
  <1>12. QED
    BY <1>10, <1>11

LEMMA StepIInv == IInv /\ [Next]_vars => IInv'
  <1> SUFFICES ASSUME IInv, [Next]_vars
               PROVE  CleanSlate' /\ ProbesAreApart' /\ RetriesAreApart'
    BY StepType DEF IInv
  <1>1. ASSUME UNCHANGED <<quiet, misses, strikes, sinceRead>>
        PROVE  CleanSlate' /\ ProbesAreApart' /\ RetriesAreApart'
    BY <1>1 DEF IInv, CleanSlate, ProbesAreApart, RetriesAreApart
  <1>2. CASE UNCHANGED vars
    BY <1>1, <1>2 DEF vars, history
  <1>3. CASE Tick
    BY <1>3, TickIInv
  <1>4. CASE Outside
    <2>1. ASSUME NEW d \in Devices, HearDevice(d)
          PROVE  CleanSlate' /\ ProbesAreApart' /\ RetriesAreApart'
      BY <2>1, HearIInv DEF HearDevice, Heard
    <2>2. ASSUME NEW f \in Fields, HearValue(f)
          PROVE  CleanSlate' /\ ProbesAreApart' /\ RetriesAreApart'
      <3>1. DeviceOf[f] \in Devices
        BY DEF Devices
      <3>2. QED
        BY <2>2, <3>1, HearIInv DEF HearValue, Heard
    <2>3. CASE \E s \in Subs : Subscribe(s) \/ Unsubscribe(s)
      BY <1>1, <2>3 DEF Subscribe, Unsubscribe, history
    <2>4. QED
      BY <1>4, <2>1, <2>2, <2>3 DEF Outside
  <1>5. CASE StartPass \/ SendReads \/ EndPass
    BY <1>1, <1>5 DEF StartPass, SendReads, EndPass, history
  <1>6. CASE \E r \in pending : ReadAnswered(r) \/ ReadTimesOut(r)
    BY <1>6, ReadIInv
  <1>7. CASE Select
    <2>1. PICK p \in Wanted : \/ UseCached(p) \/ Share(p)
                              \/ HoldQuiet(p) \/ ProbeQuiet(p)
                              \/ PollHeard(p) \/ HoldMissing(p)
      BY <1>7 DEF Select
    <2>2. CASE UseCached(p) \/ Share(p)
      BY <1>1, <2>2 DEF UseCached, Share, TakeUp
    <2>3. QED
      BY <2>1, <2>2, QuietIInv, HeardIInv
  <1>8. QED
    BY <1>2, <1>3, <1>4, <1>5, <1>6, <1>7 DEF Next, Scheduler

LEMMA SpecIInv == Spec => []IInv
  BY InitIInv, StepIInv, PTL DEF Spec

\* A device that comes back starts with a clean slate: no field of it is held
\* back for reads that were missed while it was away.
THEOREM SlateIsClean == Spec => []CleanSlate
  <1>1. IInv => CleanSlate
    BY DEF IInv
  <1>2. QED
    BY <1>1, SpecIInv, PTL

\* Only a probe of a quiet device, or a read of a device that is heard,
\* chooses a field.
LEMMA ChosenBy ==
    ASSUME Typed, Next, NEW f \in Fields, Chosen(f)
    PROVE  \E p \in Wanted : p[2] = f /\ TakeUp(p) /\ (ProbeQuiet(p) \/ PollHeard(p))
  <1>1. Len(reads) \in Nat /\ reads \in Seq([field : Known, by : SUBSET Subs])
    BY DEF Typed, TypeOK
  <1>2. Len(reads') # Len(reads)
    BY <1>1 DEF Chosen
  <1>3. ~Tick /\ ~Outside
    BY <1>2 DEF Tick, Outside, HearDevice, HearValue, Subscribe, Unsubscribe, passVars
  <1>4. ~SendReads /\ ~ \E r \in pending : ReadAnswered(r) \/ ReadTimesOut(r)
    BY <1>2 DEF SendReads, ReadAnswered, ReadTimesOut
  <1>5. ~StartPass /\ ~EndPass
    BY <1>1 DEF Chosen, StartPass, EndPass
  <1>6. PICK p \in Wanted : \/ UseCached(p) \/ Share(p)
                            \/ HoldQuiet(p) \/ ProbeQuiet(p)
                            \/ PollHeard(p) \/ HoldMissing(p)
    BY <1>3, <1>4, <1>5 DEF Next, Scheduler, Select
  <1>7. ~UseCached(p) /\ ~HoldQuiet(p) /\ ~HoldMissing(p)
    BY <1>2 DEF UseCached, HoldQuiet, HoldMissing, Hold
  <1>8. ~Share(p)
    BY <1>1, <1>2 DEF Share
  <1>9. TakeUp(p) /\ Enqueue(p) /\ (ProbeQuiet(p) \/ PollHeard(p))
    BY <1>6, <1>7, <1>8 DEF ProbeQuiet, PollHeard
  <1>10. reads' = Append(reads, [field |-> p[2], by |-> {p[1]}])
    BY <1>2, <1>9 DEF Enqueue
  <1>11. reads'[Len(reads')].field = p[2]
    BY <1>1, <1>10
  <1>12. QED
    BY <1>9, <1>11 DEF Chosen

\* However many fields a silent device has and however many subscriptions
\* want them, one read of it goes out per quiet_probe; likewise for a field
\* that has missed BACKOFF_AFTER reads of a device that is there.
THEOREM ProbesStayRare == Spec => ProbesAreRare
  <1>1. ASSUME IInv, Next, NEW f \in Fields, Chosen(f)
        PROVE  /\ ~On(DeviceOf[f]) =>
                     \A g \in FieldsOf(DeviceOf[f]) : sinceRead[g] = QuietProbe
               /\ quiet[DeviceOf[f]] = None /\ BackedOff(misses[f]) =>
                     sinceRead[f] = QuietProbe
    <2>1. TypeOK
      BY <1>1 DEF IInv, Typed
    <2>2. \A g \in Fields : sinceRead[g] \in Nat /\ sinceRead[g] <= QuietProbe
      BY <2>1, Parameters DEF TypeOK, Probes
    <2>3. PICK p \in Wanted : p[2] = f /\ TakeUp(p) /\ (ProbeQuiet(p) \/ PollHeard(p))
      BY <1>1, ChosenBy DEF IInv
    <2>4. CASE ProbeQuiet(p)
      <3>1. quiet[DeviceOf[f]] = 0 /\ quiet[DeviceOf[f]] # None
        BY <2>3, <2>4, Parameters DEF ProbeQuiet
      <3>2. \A g \in FieldsOf(DeviceOf[f]) : sinceRead[g] >= QuietProbe
        BY <1>1, <2>2, <3>1, Parameters DEF IInv, ProbesAreApart, FieldsOf
      <3>3. QED
        BY <2>2, <3>1, <3>2, Parameters DEF FieldsOf
    <2>5. CASE PollHeard(p)
      <3>1. On(DeviceOf[f])
        BY <2>3, <2>5 DEF PollHeard
      <3>2. ASSUME quiet[DeviceOf[f]] = None, BackedOff(misses[f])
            PROVE  sinceRead[f] = QuietProbe
        <4>1. Counted(f)[f] = misses[f]
          BY <3>2 DEF Counted
        <4>2. misses[f].retry = 0
          BY <2>3, <2>5, <3>2, <4>1 DEF PollHeard
        <4>3. QuietProbe <= sinceRead[f] + misses[f].retry
          BY <1>1, <3>2 DEF IInv, RetriesAreApart
        <4>4. QED
          BY <2>2, <4>2, <4>3, Parameters
      <3>3. QED
        BY <3>1, <3>2
    <2>6. QED
      BY <2>3, <2>4, <2>5
  <1>2. ASSUME NEW f \in Fields, UNCHANGED vars PROVE ~Chosen(f)
    BY <1>2 DEF vars, passVars, Chosen
  <1>3. IInv /\ [Next]_vars =>
          \A f \in Fields : Chosen(f) =>
             /\ ~On(DeviceOf[f]) =>
                   \A g \in FieldsOf(DeviceOf[f]) : sinceRead[g] = QuietProbe
             /\ quiet[DeviceOf[f]] = None /\ BackedOff(misses[f]) =>
                   sinceRead[f] = QuietProbe
    BY <1>1, <1>2
  <1>4. QED
    BY <1>3, SpecIInv, PTL DEF Spec, ProbesAreRare
=============================================================================
