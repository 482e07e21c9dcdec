--------------------------- MODULE Interfaces_proofs ---------------------------
(***************************************************************************)
(* Proofs about the interfaces to people and other programs, each on its   *)
(* own: a PUT through the control API (FieldPut), the delta stream         *)
(* (Stream), the terminal interface (Tui) and Signal K paths (SignalK).    *)
(***************************************************************************)
EXTENDS SignalK, FieldPut, Stream, Tui, FiniteSetTheorems, SequenceTheorems,
        WellFoundedInduction, TLAPS

-----------------------------------------------------------------------------
(* A PUT through the control API.                                          *)

PutSteps == {"idle", "entry", "template", "way", "switch", "write", "again", "login", "done"}
Ways == {"none", "switched", "written"}
Statuses == {0, 200, 400, 403, 404, 502}

Requests ==
  [step : PutSteps, field : Fields \cup {""}, on : BOOLEAN, login : Logins, entry : BOOLEAN,
   way : Ways, status : Statuses, leave : BOOLEAN, listed : BOOLEAN]

PutTypeOK ==
  /\ awake \in BOOLEAN /\ level \in {"end user", "installer"}
  /\ libOutputs \in SUBSET Driven
  /\ listing \in [asked : BOOLEAN, outputs : SUBSET Driven, old : BOOLEAN]
  /\ recorded \in SUBSET Fields /\ allowOff \in SUBSET Fields
  /\ puts \in [Puts -> Requests]

(* Once the daemon has a list that is not empty it keeps it, so that an    *)
(* output listed when the request came is listed still.                    *)
ListsAreKept ==
  /\ listing.outputs # {} => listing.asked
  /\ \A p \in Puts : puts[p].listed => puts[p].field \in listing.outputs

(* Leave to switch off is what a mapping in force during the request gave. *)
LeaveIsSeen ==
  \A p \in Puts : /\ puts[p].field \in allowOff => puts[p].leave
                  /\ puts[p].entry => puts[p].leave

(* A request for an output that events drive.                              *)
ByEvent(r) ==
  r.field \in Driven /\ (r.field \in NoLabels \/ (r.field \in Locked /\ r.listed))

(* Such a request is never on its way to being written, nor to being       *)
(* switched off without leave.                                             *)
EventsWay(r) ==
  ByEvent(r) =>
    /\ r.step \notin {"write", "again", "login"}
    /\ r.step = "switch" => r.on \/ r.entry
    /\ r.way # "written"
    /\ r.way = "switched" => r.on \/ r.leave

PutInv == PutTypeOK /\ ListsAreKept /\ LeaveIsSeen /\ \A p \in Puts : EventsWay(puts[p])

(* A step of one request that leaves field, leave and listed as they were. *)
Moves(r, new) ==
  /\ new \in Requests
  /\ new.field = r.field /\ (new.leave <=> r.leave) /\ (new.listed <=> r.listed)
  /\ new.entry => r.leave
  /\ EventsWay(new)

LEMMA RequestFields ==
    /\ "idle" \in PutSteps /\ "entry" \in PutSteps /\ "template" \in PutSteps
    /\ "way" \in PutSteps /\ "switch" \in PutSteps /\ "write" \in PutSteps
    /\ "again" \in PutSteps /\ "login" \in PutSteps /\ "done" \in PutSteps
    /\ "none" \in Logins /\ "none" \in Ways /\ "switched" \in Ways /\ "written" \in Ways
    /\ 0 \in Statuses /\ 200 \in Statuses /\ 400 \in Statuses /\ 403 \in Statuses
    /\ 404 \in Statuses /\ 502 \in Statuses /\ Logins = {"none", "right", "wrong", "no such level"}
  BY DEF PutSteps, Logins, Ways, Statuses

LEMMA MovesKeeps ==
    ASSUME PutInv, NEW p \in Puts, NEW new, Moves(puts[p], new),
           puts' = [puts EXCEPT ![p] = new], UNCHANGED allowOff,
           PutTypeOK => awake' \in BOOLEAN /\ level' \in {"end user", "installer"},
           libOutputs' \in SUBSET Driven,
           listing' \in [asked : BOOLEAN, outputs : SUBSET Driven, old : BOOLEAN],
           recorded' \in SUBSET Fields,
           listing.outputs # {} => listing'.outputs = listing.outputs,
           listing'.outputs # {} => listing'.asked
    PROVE  PutInv'
  <1>1. /\ puts' \in [Puts -> Requests] /\ puts'[p] = new
        /\ \A q \in Puts \ {p} : puts'[q] = puts[q]
    BY DEF PutInv, PutTypeOK, Moves
  <1>2. PutTypeOK'
    BY <1>1 DEF PutInv, PutTypeOK
  <1>3. \A q \in Puts : puts'[q].field = puts[q].field /\ (puts'[q].listed <=> puts[q].listed)
                        /\ (puts'[q].leave <=> puts[q].leave)
                        /\ (puts'[q].entry => puts[q].leave) /\ EventsWay(puts'[q])
    BY <1>1 DEF PutInv, Moves, LeaveIsSeen
  <1>4. ListsAreKept'
    BY <1>3 DEF PutInv, ListsAreKept
  <1>5. LeaveIsSeen'
    <2>1. allowOff' = allowOff /\ LeaveIsSeen
      BY DEF PutInv
    <2> SUFFICES ASSUME NEW q \in Puts
                 PROVE  /\ puts'[q].field \in allowOff => puts'[q].leave
                        /\ puts'[q].entry => puts'[q].leave
      BY <2>1 DEF LeaveIsSeen
    <2>2. QED
      BY <1>3, <2>1 DEF LeaveIsSeen
  <1>6. QED
    BY <1>2, <1>3, <1>4, <1>5 DEF PutInv

(* What EnsureOutputs does to the lists: one that names an output stays.   *)
LEMMA EnsureOutputsKeeps ==
    ASSUME PutInv, EnsureOutputs
    PROVE  /\ libOutputs' \in SUBSET Driven
           /\ listing' \in [asked : BOOLEAN, outputs : SUBSET Driven, old : BOOLEAN]
           /\ recorded' \in SUBSET Fields
           /\ listing.outputs # {} => listing'.outputs = listing.outputs
           /\ listing'.outputs # {} => listing'.asked
  <1>1. Lists \in SUBSET Driven /\ Lists \in SUBSET Fields
    BY SwitchesAssumption DEF Lists, PutInv, PutTypeOK
  <1>2. CASE HaveOutputs
    BY <1>2 DEF EnsureOutputs, PutInv, PutTypeOK, ListsAreKept
  <1>3. CASE ~HaveOutputs
    <2>1. listing.outputs = {}
      BY <1>3 DEF HaveOutputs, PutInv, ListsAreKept
    <2>2. /\ libOutputs' = Lists /\ recorded' \in {recorded, recorded \cup Lists}
          /\ listing' = [asked |-> TRUE, outputs |-> Lists, old |-> FALSE]
      BY <1>3 DEF EnsureOutputs
    <2>3. QED
      BY <1>1, <2>1, <2>2 DEF PutInv, PutTypeOK
  <1>4. QED
    BY <1>2, <1>3

(* The steps of a request that leave the lists as they are.                *)
LEMMA PlainMoveKeeps ==
    ASSUME PutInv, NEW p \in Puts, NEW new, Moves(puts[p], new),
           puts' = [puts EXCEPT ![p] = new], awake' \in BOOLEAN,
           level' \in {"end user", "installer"}, libOutputs' \in SUBSET Driven,
           UNCHANGED <<listing, recorded, allowOff>>
    PROVE  PutInv'
  BY MovesKeeps DEF PutInv, PutTypeOK, ListsAreKept

LEMMA PickedMoveKeeps ==
    ASSUME PutInv, NEW p \in Puts, awake' \in BOOLEAN, level' \in {"end user", "installer"},
           libOutputs' \in SUBSET Driven, UNCHANGED <<listing, recorded, allowOff>>,
           \E new : puts' = [puts EXCEPT ![p] = new] /\ Moves(puts[p], new)
    PROVE  PutInv'
  BY PlainMoveKeeps

LEMMA NewRequest ==
    ASSUME NEW f \in Fields, NEW on \in BOOLEAN, NEW login \in Logins, NEW step \in PutSteps,
           NEW status \in Statuses, NEW leave \in BOOLEAN, NEW named \in BOOLEAN
    PROVE  [step |-> step, field |-> f, on |-> on, login |-> login, entry |-> FALSE,
            way |-> "none", status |-> status, leave |-> leave, listed |-> named] \in Requests
  BY RequestFields, ZenonT(60) DEF Requests

LEMMA ArriveKeeps == ASSUME PutInv, NEW p \in Puts, Arrive(p) PROVE PutInv'
  <1>1. PICK f \in Fields, on \in BOOLEAN, login \in Logins :
          puts' = [puts EXCEPT ![p] =
                    [step |-> IF f \in recorded THEN "entry" ELSE "done", field |-> f,
                     on |-> on, login |-> login, entry |-> FALSE, way |-> "none",
                     status |-> IF f \in recorded THEN 0 ELSE 404,
                     leave |-> f \in allowOff, listed |-> f \in listing.outputs]]
    BY DEF Arrive
  <1> DEFINE step == IF f \in recorded THEN "entry" ELSE "done"
             status == IF f \in recorded THEN 0 ELSE 404
             leave == f \in allowOff
             named == f \in listing.outputs
             new == [step |-> step, field |-> f, on |-> on, login |-> login, entry |-> FALSE,
                     way |-> "none", status |-> status, leave |-> leave, listed |-> named]
  <1>0. puts' = [puts EXCEPT ![p] = new]
    BY <1>1
  <1>2. /\ new \in Requests /\ new.field = f /\ ~new.entry /\ new.way = "none"
        /\ new.step \in {"entry", "done"}
        /\ (new.leave <=> f \in allowOff)
        /\ (new.listed <=> f \in listing.outputs)
        /\ puts' = [puts EXCEPT ![p] = new]
    <2>1. step \in {"entry", "done"}
      OBVIOUS
    <2>2. step \in PutSteps
      BY RequestFields
    <2>3. status \in Statuses
      BY RequestFields
    <2>5. leave \in BOOLEAN
      OBVIOUS
    <2>6. named \in BOOLEAN
      OBVIOUS
    <2> HIDE DEF step, status, leave, named
    <2>7. new \in Requests
      BY <2>2, <2>3, <2>5, <2>6, NewRequest
    <2>8. /\ new.field = f /\ ~new.entry /\ new.way = "none" /\ new.step = step
          /\ (new.leave <=> leave) /\ (new.listed <=> named)
      BY <2>5, <2>6
    <2> HIDE DEF new
    <2>9. QED
      BY <1>0, <2>1, <2>7, <2>8 DEF leave, named
  <1> HIDE DEF new
  <1>3. /\ puts' \in [Puts -> Requests] /\ puts'[p] = new
        /\ \A q \in Puts \ {p} : puts'[q] = puts[q]
    BY <1>2 DEF PutInv, PutTypeOK
  <1>4. UNCHANGED <<deviceVars, libOutputs, listing, recorded, allowOff>>
    BY DEF Arrive
  <1>5. PutTypeOK'
    BY <1>3, <1>4 DEF PutInv, PutTypeOK, deviceVars
  <1>6. ListsAreKept' /\ LeaveIsSeen'
    BY <1>2, <1>3, <1>4 DEF PutInv, ListsAreKept, LeaveIsSeen
  <1>7. \A q \in Puts : EventsWay(puts'[q])
    BY <1>2, <1>3 DEF PutInv, EventsWay
  <1>8. QED
    BY <1>5, <1>6, <1>7 DEF PutInv

(* A request that goes on to a step that it may take.                      *)
LEMMA StepMoves ==
    ASSUME PutInv, NEW p \in Puts, NEW step \in PutSteps,
           ByEvent(puts[p]) => /\ step \notin {"write", "again", "login"}
                               /\ step = "switch" => puts[p].on \/ puts[p].entry
    PROVE  Moves(puts[p], [puts[p] EXCEPT !.step = step])
  <1> DEFINE new == [puts[p] EXCEPT !.step = step]
  <1>1. /\ puts[p] \in Requests /\ EventsWay(puts[p])
        /\ puts[p].entry => puts[p].leave
    BY DEF PutInv, PutTypeOK, LeaveIsSeen
  <1>2. /\ new \in Requests /\ new.field = puts[p].field /\ (new.leave <=> puts[p].leave)
        /\ (new.listed <=> puts[p].listed) /\ (new.entry <=> puts[p].entry)
        /\ (new.on <=> puts[p].on) /\ new.way = puts[p].way /\ new.step = step
    BY <1>1 DEF Requests
  <1>3. EventsWay(new)
    BY <1>1, <1>2 DEF EventsWay, ByEvent
  <1>4. QED
    BY <1>1, <1>2, <1>3 DEF Moves

(* A request that is answered without anything sent.                       *)
LEMMA AnswerMoves ==
    ASSUME PutInv, NEW p \in Puts, NEW status \in Statuses
    PROVE  Moves(puts[p], [puts[p] EXCEPT !.step = "done", !.status = status])
  <1> DEFINE new == [puts[p] EXCEPT !.step = "done", !.status = status]
  <1>1. /\ puts[p] \in Requests /\ EventsWay(puts[p])
        /\ puts[p].entry => puts[p].leave
    BY DEF PutInv, PutTypeOK, LeaveIsSeen
  <1>2. /\ new \in Requests /\ new.field = puts[p].field /\ (new.leave <=> puts[p].leave)
        /\ (new.listed <=> puts[p].listed) /\ (new.entry <=> puts[p].entry)
        /\ (new.on <=> puts[p].on) /\ new.way = puts[p].way /\ new.step = "done"
    BY <1>1, RequestFields, ZenonT(60) DEF Requests
  <1>3. EventsWay(new)
    BY <1>1, <1>2 DEF EventsWay, ByEvent
  <1>4. QED
    BY <1>1, <1>2, <1>3 DEF Moves

LEMMA PutStepKeeps == ASSUME PutInv, NEW p \in Puts, PutStep(p) PROVE PutInv'
  <1> DEFINE r == puts[p]
  <1>1. /\ r \in Requests /\ EventsWay(r) /\ awake \in BOOLEAN /\ level \in {"end user", "installer"}
        /\ libOutputs \in SUBSET Driven /\ Lists \in SUBSET Driven
        /\ r.field \in allowOff => r.leave
        /\ r.entry => r.leave
        /\ r.listed => r.field \in listing.outputs
    BY DEF PutInv, PutTypeOK, LeaveIsSeen, ListsAreKept, Lists
  <1>2. CASE Arrive(p)
    BY <1>2, ArriveKeeps
  <1>3. CASE TakeEntry(p)
    <2>0. (r.field \in allowOff) \in BOOLEAN
      OBVIOUS
    <2> DEFINE new == [r EXCEPT !.entry = r.field \in allowOff, !.step = "template"]
    <2>1. /\ new \in Requests /\ new.field = r.field /\ (new.leave <=> r.leave)
          /\ (new.listed <=> r.listed) /\ (new.on <=> r.on) /\ new.way = r.way /\ new.step = "template"
          /\ (new.entry <=> r.field \in allowOff)
      BY <1>1, <2>0, RequestFields, ZenonT(60) DEF Requests
    <2>2. puts' = [puts EXCEPT ![p] = new] /\ UNCHANGED <<deviceVars, libOutputs, listing, recorded, allowOff>>
      BY <1>3 DEF TakeEntry
    <2> HIDE DEF new
    <2>3. Moves(r, new)
      BY <1>1, <2>1 DEF Moves, EventsWay, ByEvent
    <2>4. QED
      BY <1>1, <2>2, <2>3, PlainMoveKeeps DEF deviceVars
  <1>4. CASE ReadTemplate(p)
    <2>1. /\ \/ puts' = [puts EXCEPT ![p] = [r EXCEPT !.step = "way"]]
             \/ puts' = [puts EXCEPT ![p] = [r EXCEPT !.step = "done", !.status = 502]]
          /\ UNCHANGED <<deviceVars, libOutputs, listing, recorded, allowOff>>
      BY <1>4 DEF ReadTemplate, Goes, Answers
    <2>2. /\ Moves(r, [r EXCEPT !.step = "way"])
          /\ Moves(r, [r EXCEPT !.step = "done", !.status = 502])
      BY RequestFields, StepMoves, AnswerMoves
    <2>3. \E new : puts' = [puts EXCEPT ![p] = new] /\ Moves(r, new)
      BY <2>1, <2>2
    <2>4. QED
      BY <1>1, <2>1, <2>3, PickedMoveKeeps DEF deviceVars
  <1>5. CASE ChooseWay(p)
    <2>1. /\ libOutputs' \in SUBSET Driven
          /\ listing' \in [asked : BOOLEAN, outputs : SUBSET Driven, old : BOOLEAN]
          /\ recorded' \in SUBSET Fields
          /\ listing.outputs # {} => listing'.outputs = listing.outputs
          /\ listing'.outputs # {} => listing'.asked
      <3>1. CASE NeedsOutputs(r.field)
        BY <1>5, <3>1, EnsureOutputsKeeps DEF ChooseWay
      <3>2. CASE ~NeedsOutputs(r.field)
        BY <1>5, <3>2 DEF ChooseWay, PutInv, PutTypeOK, ListsAreKept
      <3>3. QED
        BY <3>1, <3>2
    <2>2. UNCHANGED <<deviceVars, allowOff>>
      BY <1>5 DEF ChooseWay
    <2>3. ByEvent(r) => EventOnly(r.field)
      <3>1. r.listed => r.field \in listing'.outputs
        BY <1>1, <2>1
      <3>2. QED
        BY <3>1 DEF ByEvent, EventOnly
    <2>4. CASE EventOnly(r.field) /\ (r.on \/ r.entry)
      <3>1. puts' = [puts EXCEPT ![p] = [r EXCEPT !.step = "switch"]]
        BY <1>5, <2>4 DEF ChooseWay, Goes
      <3>2. Moves(r, [r EXCEPT !.step = "switch"])
        BY <2>4, RequestFields, StepMoves, AnswerMoves
      <3>3. QED
        BY <1>1, <2>1, <2>2, <3>1, <3>2, MovesKeeps DEF deviceVars
    <2>5. CASE EventOnly(r.field) /\ ~(r.on \/ r.entry)
      <3>1. puts' = [puts EXCEPT ![p] = [r EXCEPT !.step = "done", !.status = 403]]
        BY <1>5, <2>5 DEF ChooseWay, Answers
      <3>2. Moves(r, [r EXCEPT !.step = "done", !.status = 403])
        BY RequestFields, StepMoves, AnswerMoves
      <3>3. QED
        BY <1>1, <2>1, <2>2, <3>1, <3>2, MovesKeeps DEF deviceVars
    <2>6. CASE ~EventOnly(r.field)
      <3>1. puts' = [puts EXCEPT ![p] = [r EXCEPT !.step = "write"]]
        BY <1>5, <2>6 DEF ChooseWay, Goes
      <3>2. Moves(r, [r EXCEPT !.step = "write"])
        BY <2>3, <2>6, RequestFields, StepMoves, AnswerMoves
      <3>3. QED
        BY <1>1, <2>1, <2>2, <3>1, <3>2, MovesKeeps DEF deviceVars
    <2>7. QED
      BY <2>4, <2>5, <2>6
  <1>6. CASE Switch(p)
    <2> DEFINE sent == [r EXCEPT !.step = "done", !.status = 200, !.way = "switched"]
    <2>1. /\ sent \in Requests /\ sent.field = r.field /\ (sent.leave <=> r.leave)
          /\ (sent.listed <=> r.listed) /\ (sent.on <=> r.on) /\ (sent.entry <=> r.entry)
          /\ sent.way = "switched" /\ sent.step = "done"
      BY <1>1, RequestFields, ZenonT(60) DEF Requests
    <2>2. /\ \/ puts' = [puts EXCEPT ![p] = sent]
             \/ puts' = [puts EXCEPT ![p] = [r EXCEPT !.step = "done", !.status = 502]]
          /\ libOutputs' = Lists /\ UNCHANGED <<deviceVars, listing, recorded, allowOff>>
          /\ r.step = "switch"
      BY <1>6 DEF Switch, Sends, Answers, AtStep
    <2> HIDE DEF sent
    <2>3. Moves(r, sent)
      <3>1. ByEvent(sent) <=> ByEvent(r)
        BY <2>1 DEF ByEvent
      <3>2. ByEvent(r) => r.on \/ r.entry
        BY <1>1, <2>2 DEF EventsWay
      <3>3. ByEvent(sent) => sent.on \/ sent.leave
        BY <1>1, <2>1, <3>1, <3>2
      <3>4. EventsWay(sent)
        BY <2>1, <3>3 DEF EventsWay
      <3>5. QED
        BY <1>1, <2>1, <3>4 DEF Moves
    <2>4. Moves(r, [r EXCEPT !.step = "done", !.status = 502])
      BY RequestFields, StepMoves, AnswerMoves
    <2>5. \E new : puts' = [puts EXCEPT ![p] = new] /\ Moves(r, new)
      BY <2>2, <2>3, <2>4
    <2>6. QED
      BY <1>1, <2>2, <2>5, PickedMoveKeeps DEF deviceVars
  <1>7. CASE WriteField(p)
    <2>1. r.step \in {"write", "again"} /\ ~ByEvent(r)
      BY <1>1, <1>7 DEF WriteField, AtStep, EventsWay
    <2> DEFINE sent == [r EXCEPT !.step = "done", !.status = 200, !.way = "written"]
    <2>2. /\ sent \in Requests /\ sent.field = r.field /\ (sent.leave <=> r.leave)
          /\ (sent.listed <=> r.listed) /\ (sent.entry <=> r.entry)
      BY <1>1, RequestFields, ZenonT(60) DEF Requests
    <2>3. /\ \/ puts' = [puts EXCEPT ![p] = sent]
             \/ \E status \in Statuses :
                  puts' = [puts EXCEPT ![p] = [r EXCEPT !.step = "done", !.status = status]]
             \/ puts' = [puts EXCEPT ![p] = [r EXCEPT !.step = "login"]]
          /\ UNCHANGED <<deviceVars, libOutputs, listing, recorded, allowOff>>
      <3>1. /\ \/ Sends(p, "written")
               \/ /\ UNCHANGED deviceVars
                  /\ Answers(p, 502) \/ Answers(p, 403) \/ Answers(p, 400) \/ Goes(p, "login")
            /\ UNCHANGED <<libOutputs, listing, recorded, allowOff>>
        BY <1>7, Zenon DEF WriteField
      <3>2. Sends(p, "written") => puts' = [puts EXCEPT ![p] = sent] /\ UNCHANGED deviceVars
        BY DEF Sends
      <3>3. \A status : Answers(p, status) =>
              puts' = [puts EXCEPT ![p] = [r EXCEPT !.step = "done", !.status = status]]
        BY DEF Answers
      <3>4. Goes(p, "login") => puts' = [puts EXCEPT ![p] = [r EXCEPT !.step = "login"]]
        BY DEF Goes
      <3>5. UNCHANGED <<deviceVars, libOutputs, listing, recorded, allowOff>>
        BY <3>1, <3>2
      <3> HIDE DEF sent
      <3> DEFINE Answered(status) ==
                   puts' = [puts EXCEPT ![p] = [r EXCEPT !.step = "done", !.status = status]]
      <3>6. 502 \in Statuses /\ 403 \in Statuses /\ 400 \in Statuses
        BY RequestFields
      <3>7. \A status : Answers(p, status) => Answered(status)
        BY <3>3
      <3> HIDE DEF Answered
      <3>8. \/ puts' = [puts EXCEPT ![p] = sent]
            \/ \E status \in Statuses : Answered(status)
            \/ puts' = [puts EXCEPT ![p] = [r EXCEPT !.step = "login"]]
        BY <3>1, <3>2, <3>4, <3>6, <3>7
      <3>9. QED
        BY <3>5, <3>8 DEF Answered
    <2> HIDE DEF sent
    <2>4. Moves(r, sent)
      BY <1>1, <2>1, <2>2 DEF Moves, EventsWay, ByEvent
    <2>5. Moves(r, [r EXCEPT !.step = "login"])
      BY <2>1, RequestFields, StepMoves
    <2>6. \A status \in Statuses : Moves(r, [r EXCEPT !.step = "done", !.status = status])
      BY AnswerMoves
    <2>7. \E new : puts' = [puts EXCEPT ![p] = new] /\ Moves(r, new)
      BY <2>3, <2>4, <2>5, <2>6
    <2>8. QED
      BY <1>1, <2>3, <2>7, PickedMoveKeeps DEF deviceVars
  <1>8. CASE LogIn(p)
    <2>1. ~ByEvent(r)
      BY <1>1, <1>8 DEF LogIn, AtStep, EventsWay
    <2>2. /\ \/ puts' = [puts EXCEPT ![p] = [r EXCEPT !.step = "again"]]
             \/ \E status \in Statuses :
                  puts' = [puts EXCEPT ![p] = [r EXCEPT !.step = "done", !.status = status]]
          /\ level' \in {level, "installer"}
          /\ UNCHANGED <<awake, libOutputs, listing, recorded, allowOff>>
      BY <1>8, RequestFields DEF LogIn, Answers, Goes
    <2>3. Moves(r, [r EXCEPT !.step = "again"])
      BY <2>1, RequestFields, StepMoves
    <2>4. \A status \in Statuses : Moves(r, [r EXCEPT !.step = "done", !.status = status])
      BY AnswerMoves
    <2>5. \E new : puts' = [puts EXCEPT ![p] = new] /\ Moves(r, new)
      BY <2>2, <2>3, <2>4
    <2>6. awake' \in BOOLEAN /\ level' \in {"end user", "installer"} /\ libOutputs' \in SUBSET Driven
      BY <1>1, <2>2
    <2>7. QED
      BY <2>2, <2>5, <2>6, PickedMoveKeeps
  <1>9. QED
    BY <1>2, <1>3, <1>4, <1>5, <1>6, <1>7, <1>8 DEF PutStep

LEMMA PutNextKeeps == PutInv /\ [PutNext]_putVars => PutInv'
  <1> SUFFICES ASSUME PutInv, [PutNext]_putVars PROVE PutInv'
    OBVIOUS
  <1>1. CASE UNCHANGED putVars
    BY <1>1 DEF putVars, PutInv, PutTypeOK, ListsAreKept, LeaveIsSeen
  <1>2. ASSUME NEW p \in Puts, PutStep(p) PROVE PutInv'
    BY <1>2, PutStepKeeps
  <1>3. CASE OpenEditor
    <2>1. /\ libOutputs' \in SUBSET Driven
          /\ listing' \in [asked : BOOLEAN, outputs : SUBSET Driven, old : BOOLEAN]
          /\ recorded' \in SUBSET Fields
          /\ listing.outputs # {} => listing'.outputs = listing.outputs
          /\ listing'.outputs # {} => listing'.asked
      BY <1>3, EnsureOutputsKeeps DEF OpenEditor
    <2>2. UNCHANGED <<deviceVars, allowOff, puts>>
      BY <1>3 DEF OpenEditor
    <2>3. PutTypeOK' /\ ListsAreKept' /\ LeaveIsSeen'
      BY <2>1, <2>2 DEF deviceVars, PutInv, PutTypeOK, ListsAreKept, LeaveIsSeen
    <2>4. QED
      BY <2>2, <2>3 DEF PutInv
  <1>4. CASE EditMapping
    <2>1. /\ allowOff' \in SUBSET Fields
          /\ puts' = [p \in Puts |-> [puts[p] EXCEPT !.leave = @ \/ puts[p].field \in allowOff']]
          /\ UNCHANGED <<deviceVars, libOutputs, listing, recorded>>
      BY <1>4 DEF EditMapping, PutInv, PutTypeOK
    <2>2. ASSUME NEW p \in Puts
          PROVE  /\ puts'[p] \in Requests /\ puts'[p].field = puts[p].field
                 /\ (puts'[p].listed <=> puts[p].listed) /\ (puts'[p].entry <=> puts[p].entry)
                 /\ puts'[p].step = puts[p].step /\ puts'[p].way = puts[p].way
                 /\ (puts'[p].on <=> puts[p].on)
                 /\ (puts'[p].leave <=> (puts[p].leave \/ puts[p].field \in allowOff'))
      <3>1. puts'[p] = [puts[p] EXCEPT !.leave = puts[p].leave \/ puts[p].field \in allowOff']
        BY <2>1
      <3>2. puts[p] \in Requests /\ (puts[p].leave \/ puts[p].field \in allowOff') \in BOOLEAN
        BY DEF PutInv, PutTypeOK
      <3> DEFINE leave == puts[p].leave \/ puts[p].field \in allowOff'
      <3> HIDE DEF leave
      <3>3. QED
        BY <3>1, <3>2 DEF Requests, leave
    <2>3. PutTypeOK'
      BY <2>1, <2>2 DEF PutInv, PutTypeOK, deviceVars
    <2>4. ListsAreKept' /\ LeaveIsSeen'
      BY <2>1, <2>2 DEF PutInv, ListsAreKept, LeaveIsSeen
    <2>5. \A p \in Puts : EventsWay(puts'[p])
      BY <2>2 DEF PutInv, EventsWay, ByEvent
    <2>6. QED
      BY <2>3, <2>4, <2>5 DEF PutInv
  <1>5. CASE GrowOld
    <2>1. /\ listing' \in [asked : BOOLEAN, outputs : SUBSET Driven, old : BOOLEAN]
          /\ listing'.outputs = listing.outputs /\ listing'.asked = listing.asked
          /\ UNCHANGED <<deviceVars, libOutputs, recorded, allowOff, puts>>
      BY <1>5 DEF GrowOld, PutInv, PutTypeOK
    <2>2. PutTypeOK' /\ ListsAreKept' /\ LeaveIsSeen'
      BY <2>1 DEF deviceVars, PutInv, PutTypeOK, ListsAreKept, LeaveIsSeen
    <2>3. QED
      BY <2>1, <2>2 DEF PutInv
  <1>6. CASE DeviceActs
    BY <1>6 DEF DeviceActs, PutInv, PutTypeOK, ListsAreKept, LeaveIsSeen
  <1>7. QED
    BY <1>1, <1>2, <1>3, <1>4, <1>5, <1>6 DEF PutNext

LEMMA InitialPut == PutInit => PutInv
  <1> SUFFICES ASSUME PutInit PROVE PutInv
    OBVIOUS
  <1>1. NoRequest \in Requests
    BY RequestFields DEF NoRequest, Requests
  <1>2. PutTypeOK
    BY <1>1 DEF PutInit, PutTypeOK
  <1>3. \A p \in Puts : /\ ~puts[p].listed /\ ~puts[p].entry /\ puts[p].step = "idle"
                        /\ puts[p].way = "none"
    BY DEF PutInit, NoRequest
  <1>4. ListsAreKept /\ LeaveIsSeen /\ \A p \in Puts : EventsWay(puts[p])
    BY <1>3 DEF PutInit, ListsAreKept, LeaveIsSeen, EventsWay
  <1>5. QED
    BY <1>2, <1>4 DEF PutInv

(* An output that events drive is switched as an event switches it, and    *)
(* off only with leave that a mapping gave during the request, whatever    *)
(* other requests, the editor and the device do meanwhile (api.rs:374).    *)
THEOREM OutputsGoOffByLeave == PutSpec => []OffByLeave
  <1>1. PutInv => OffByLeave
    BY DEF PutInv, EventsWay, ByEvent, OffByLeave
  <1>2. QED
    BY InitialPut, PutNextKeeps, <1>1, PTL DEF PutSpec

-----------------------------------------------------------------------------
(* The delta stream.                                                       *)

Shown == {"none", "normal", "alarm"}
Stages == {"away", "counted", "greeted", "in"}
PollSteps == {"changes", "publish", "look", "drain", "extend", "send"}
Told == [Alarmed -> Shown]

ClientRecords ==
  [step : Stages, names : Nat, meta : SUBSET Metered, bare : BOOLEAN, shown : Told, told : Told]
Batches == [values : SUBSET Published, meta : SUBSET Metered, shown : Told, told : Told]

StreamTypeOK ==
  /\ client \in [Viewers -> ClientRecords]
  /\ fresh \in SUBSET Viewers /\ slipped \in SUBSET Viewers
  /\ static \in [names : Nat, meta : SUBSET Metered]
  /\ updates \in [Published -> Shown]
  /\ active \in [emit : SUBSET Published, metaSent : SUBSET Metered, notified : Told]
  /\ poll \in [step : PollSteps, have : BOOLEAN, batch : Batches]

Sending == poll.step = "extend" \/ poll.step = "send"

(* What is about to be sent has the unit of every path not sent before,    *)
(* and a notification of every state not sent before.                      *)
BatchOK ==
  Sending =>
    /\ poll.batch.values \cap Metered \subseteq active.metaSent
    /\ \A f \in Alarmed :
         /\ poll.batch.shown[f] # "none" => active.notified[f] = poll.batch.shown[f]
         /\ poll.batch.told[f] # "none" => poll.batch.shown[f] = poll.batch.told[f]

(* The units sent are those of the static batch, but while it lags behind. *)
MetaIsKept ==
  active.metaSent = IF Poll("extend") THEN static.meta \cup poll.batch.meta ELSE static.meta

(* The metadata and the state a client has once the batch has gone out.    *)
MetaOnTheWay == IF Poll("send") THEN poll.batch.meta ELSE {}
ToldOnTheWay(c, f) ==
  IF Sending /\ poll.batch.told[f] # "none" THEN poll.batch.told[f] ELSE client[c].told[f]

GreetedOK(c) ==
  client[c].step \in {"greeted", "in"} =>
    /\ ~Poll("publish") => client[c].names = static.names
    /\ static.meta \subseteq client[c].meta \cup MetaOnTheWay

(* What the main loop believes was sent to all, each has been told, if the *)
(* loop has seen it come.                                                  *)
SeenIsTold(c) ==
  c \notin fresh =>
    \A f \in Alarmed : active.notified[f] # "none" => ToldOnTheWay(c, f) = active.notified[f]

ShownIsTold(c) ==
  \A f \in Alarmed : /\ client[c].shown[f] \in {"none", client[c].told[f]}
                     /\ c \in fresh => client[c].shown[f] = "none"

ClientOK(c) ==
  client[c].step # "away" /\ c \notin slipped =>
    ~client[c].bare /\ GreetedOK(c) /\ SeenIsTold(c) /\ ShownIsTold(c)

StreamInv ==
  /\ StreamTypeOK /\ BatchOK /\ MetaIsKept
  /\ \A c \in Viewers : ClientOK(c)

LEMMA StreamWords ==
    /\ "none" \in Shown /\ "normal" \in Shown /\ "alarm" \in Shown
    /\ "away" \in Stages /\ "counted" \in Stages /\ "greeted" \in Stages /\ "in" \in Stages
    /\ "changes" \in PollSteps /\ "publish" \in PollSteps /\ "look" \in PollSteps
    /\ "drain" \in PollSteps /\ "extend" \in PollSteps /\ "send" \in PollSteps
  BY DEF Shown, Stages, PollSteps

LEMMA NothingTold == Nothing \in Told /\ NoBatch \in Batches
  BY StreamWords DEF Nothing, Told, NoBatch, Batches

LEMMA AwayIsARecord == Away \in ClientRecords /\ ~Away.bare /\ Away.shown = Nothing /\ Away.step = "away"
  BY StreamWords, NothingTold DEF Away, ClientRecords

LEMMA InitialStream == StreamInit => StreamInv
  <1> SUFFICES ASSUME StreamInit PROVE StreamInv
    OBVIOUS
  <1>1. StreamTypeOK
    BY StreamWords, NothingTold, AwayIsARecord DEF StreamInit, StreamTypeOK
  <1>2. BatchOK /\ MetaIsKept
    BY DEF StreamInit, BatchOK, MetaIsKept, Sending, Poll
  <1>3. \A c \in Viewers : ClientOK(c)
    BY AwayIsARecord DEF StreamInit, ClientOK
  <1>4. QED
    BY <1>1, <1>2, <1>3 DEF StreamInv

(* The steps of the main loop that only go on.                             *)
LEMMA PollGoesOn ==
    ASSUME StreamInv, NothingChanged \/ Look
    PROVE  StreamInv'
  <1>1. /\ poll' \in [step : PollSteps, have : BOOLEAN, batch : Batches]
        /\ poll'.step \in {"look", "drain"} /\ poll.step \in {"changes", "look"}
        /\ UNCHANGED <<client, fresh, static, updates, active, slipped>>
    BY StreamWords DEF NothingChanged, Look, Poll, Then, StreamInv, StreamTypeOK
  <1>2. StreamTypeOK'
    BY <1>1 DEF StreamInv, StreamTypeOK
  <1>3. BatchOK' /\ MetaIsKept'
    BY <1>1 DEF BatchOK, MetaIsKept, Sending, Poll, StreamInv
  <1>4. ASSUME NEW c \in Viewers PROVE ClientOK(c)'
    BY <1>1 DEF ClientOK, GreetedOK, SeenIsTold, ShownIsTold, ToldOnTheWay, MetaOnTheWay,
         Sending, Poll, StreamInv
  <1>5. QED
    BY <1>2, <1>3, <1>4 DEF StreamInv

LEMMA UpdateKeeps ==
    ASSUME StreamInv, NEW f \in Published, Update(f)
    PROVE  StreamInv'
  <1>1. /\ updates' \in [Published -> Shown]
        /\ UNCHANGED <<client, fresh, static, active, poll, slipped>>
    BY DEF Update, States, Shown, StreamInv, StreamTypeOK
  <1>2. StreamTypeOK' /\ BatchOK' /\ MetaIsKept'
    BY <1>1 DEF StreamInv, StreamTypeOK, BatchOK, MetaIsKept, Sending, Poll
  <1>3. ASSUME NEW c \in Viewers PROVE ClientOK(c)'
    BY <1>1 DEF ClientOK, GreetedOK, SeenIsTold, ShownIsTold, ToldOnTheWay, MetaOnTheWay,
         Sending, Poll, StreamInv
  <1>4. QED
    BY <1>2, <1>3 DEF StreamInv

(* A client comes, is greeted, or is handed over.                          *)
LEMMA AcceptKeeps ==
    ASSUME StreamInv, NEW c \in Viewers, Count(c) \/ Greet(c) \/ HandOver(c)
    PROVE  StreamInv'
  <1>1. UNCHANGED <<static, updates, active, poll>> /\ client[c] \in ClientRecords
    BY DEF Count, Greet, HandOver, StreamInv, StreamTypeOK
  <1>2. BatchOK' /\ MetaIsKept'
    BY <1>1 DEF StreamInv, BatchOK, MetaIsKept, Sending, Poll
  <1>3. ASSUME NEW new \in ClientRecords, client' = [client EXCEPT ![c] = new],
               fresh' \in SUBSET Viewers, slipped' \in SUBSET Viewers,
               fresh' \ {c} = fresh \ {c}, slipped' \ {c} = slipped \ {c}, ClientOK(c)'
        PROVE  StreamInv'
    <2>1. StreamTypeOK'
      BY <1>1, <1>3 DEF StreamInv, StreamTypeOK
    <2>2. ASSUME NEW d \in Viewers, d # c PROVE ClientOK(d)'
      <3>1. client'[d] = client[d] /\ (d \in fresh' <=> d \in fresh)
            /\ (d \in slipped' <=> d \in slipped) /\ ClientOK(d)
        BY <1>3, <2>2 DEF StreamInv, StreamTypeOK
      <3>2. QED
        BY <1>1, <3>1 DEF ClientOK, GreetedOK, SeenIsTold, ShownIsTold, ToldOnTheWay,
             MetaOnTheWay, Sending, Poll
    <2>3. QED
      BY <1>2, <1>3, <2>1, <2>2 DEF StreamInv
  <1>4. CASE Count(c)
    <2> DEFINE new == [Away EXCEPT !.step = "counted"]
    <2>1. new \in ClientRecords /\ new.step = "counted" /\ ~new.bare /\ new.shown = Nothing
      BY StreamWords, AwayIsARecord, NothingTold DEF Away, ClientRecords
    <2>2. /\ client' = [client EXCEPT ![c] = new] /\ fresh' = fresh \cup {c}
          /\ slipped' = slipped \ {c}
      BY <1>4 DEF Count
    <2> HIDE DEF new
    <2>3. client'[c] = new
      BY <2>2 DEF StreamInv, StreamTypeOK
    <2>4. ClientOK(c)'
      BY <2>1, <2>2, <2>3 DEF ClientOK, GreetedOK, SeenIsTold, ShownIsTold, Nothing
    <2>5. fresh' \in SUBSET Viewers /\ slipped' \in SUBSET Viewers
      BY <2>2 DEF StreamInv, StreamTypeOK
    <2>6. QED
      BY <1>3, <2>1, <2>2, <2>4, <2>5
  <1>5. CASE Greet(c)
    <2> DEFINE new == [client[c] EXCEPT !.step = "greeted", !.names = static.names,
                         !.meta = static.meta]
    <2>1. /\ new \in ClientRecords /\ new.step = "greeted" /\ new.names = static.names
          /\ new.meta = static.meta /\ new.bare = client[c].bare
          /\ new.shown = client[c].shown /\ new.told = client[c].told
      BY <1>1, StreamWords DEF ClientRecords, StreamInv, StreamTypeOK
    <2>2. /\ client' = [client EXCEPT ![c] = new] /\ UNCHANGED <<fresh, slipped>>
          /\ client[c].step = "counted"
      BY <1>5 DEF Greet
    <2> HIDE DEF new
    <2>3. client'[c] = new
      BY <2>2 DEF StreamInv, StreamTypeOK
    <2>4. ClientOK(c)'
      BY <1>1, <2>1, <2>2, <2>3 DEF ClientOK, GreetedOK, SeenIsTold, ShownIsTold, ToldOnTheWay,
           MetaOnTheWay, Sending, Poll, StreamInv
    <2>5. QED
      BY <1>3, <2>1, <2>2, <2>4 DEF StreamInv, StreamTypeOK
  <1>6. CASE HandOver(c)
    <2> DEFINE new == [client[c] EXCEPT !.step = "in"]
    <2>1. /\ new \in ClientRecords /\ new.step = "in" /\ new.names = client[c].names
          /\ new.meta = client[c].meta /\ new.bare = client[c].bare
          /\ new.shown = client[c].shown /\ new.told = client[c].told
      BY <1>1, StreamWords DEF ClientRecords
    <2>2. /\ client' = [client EXCEPT ![c] = new] /\ UNCHANGED <<fresh, slipped>>
          /\ client[c].step = "greeted"
      BY <1>6 DEF HandOver
    <2> HIDE DEF new
    <2>3. client'[c] = new
      BY <2>2 DEF StreamInv, StreamTypeOK
    <2>4. ClientOK(c)'
      BY <1>1, <2>1, <2>2, <2>3 DEF ClientOK, GreetedOK, SeenIsTold, ShownIsTold, ToldOnTheWay,
           MetaOnTheWay, Sending, Poll, StreamInv
    <2>5. QED
      BY <1>3, <2>1, <2>2, <2>4 DEF StreamInv, StreamTypeOK
  <1>7. QED
    BY <1>4, <1>5, <1>6
(* Whoever can be written to has what was sent, the rest are gone or not   *)
(* yet among the clients.                                                  *)
LEMMA Written ==
    ASSUME StreamTypeOK, NEW after, WriteAll(after), \A c \in Viewers : after[c] \in ClientRecords
    PROVE  /\ client' \in [Viewers -> ClientRecords]
           /\ \A c \in Viewers : \/ client'[c] = Away
                                 \/ client[c].step = "in" /\ client'[c] = after[c]
                                 \/ client[c].step # "in" /\ client'[c] = client[c]
  <1>1. PICK gone \in SUBSET Clients :
          client' = [c \in Viewers |-> CASE c \in gone -> Away
                                         [] c \in Clients \ gone -> after[c]
                                         [] OTHER -> client[c]]
    BY DEF WriteAll
  <1>2. ASSUME NEW c \in Viewers
        PROVE  \/ client'[c] = Away
               \/ client[c].step = "in" /\ client'[c] = after[c]
               \/ client[c].step # "in" /\ client'[c] = client[c]
    BY <1>1 DEF Clients
  <1>3. \A c \in Viewers : client'[c] \in ClientRecords
    BY <1>2, AwayIsARecord DEF StreamTypeOK
  <1>4. QED
    BY <1>1, <1>2, <1>3

LEMMA SendNamesKeeps == ASSUME StreamInv, SendNames PROVE StreamInv'
  <1>1. \A c \in Viewers : Named[c] = [client[c] EXCEPT !.names = static.names]
    BY DEF Named
  <1>2. ASSUME NEW c \in Viewers
        PROVE  /\ Named[c] \in ClientRecords /\ Named[c].step = client[c].step
               /\ Named[c].names = static.names /\ Named[c].meta = client[c].meta
               /\ Named[c].bare = client[c].bare /\ Named[c].shown = client[c].shown
               /\ Named[c].told = client[c].told
    <2>1. client[c] \in ClientRecords /\ static.names \in Nat
      BY DEF StreamInv, StreamTypeOK
    <2>2. QED
      BY <1>1, <2>1 DEF ClientRecords
  <1>3. /\ client' \in [Viewers -> ClientRecords]
        /\ \A c \in Viewers : \/ client'[c] = Away
                              \/ client[c].step = "in" /\ client'[c] = Named[c]
                              \/ client[c].step # "in" /\ client'[c] = client[c]
    BY <1>2, Written DEF SendNames, StreamInv
  <1>4. /\ Poll("publish") /\ poll' = [poll EXCEPT !.step = "look"]
        /\ slipped' = slipped \cup {c \in Accepting : /\ client[c].step = "greeted"
                                                      /\ client[c].names # static.names}
        /\ UNCHANGED <<fresh, static, updates, active>>
    BY DEF SendNames, Then
  <1>5. poll' \in [step : PollSteps, have : BOOLEAN, batch : Batches] /\ poll'.step = "look"
    BY <1>4, StreamWords DEF StreamInv, StreamTypeOK
  <1>6. StreamTypeOK'
    BY <1>3, <1>4, <1>5 DEF StreamInv, StreamTypeOK, Accepting
  <1>7. BatchOK' /\ MetaIsKept'
    BY <1>4, <1>5 DEF StreamInv, BatchOK, MetaIsKept, Sending, Poll
  <1>8. ASSUME NEW c \in Viewers PROVE ClientOK(c)'
    <2> SUFFICES ASSUME client'[c].step # "away", c \notin slipped' PROVE ClientOK(c)'
      BY DEF ClientOK
    <2>1. /\ client'[c].step = client[c].step /\ client'[c].bare = client[c].bare
          /\ client'[c].meta = client[c].meta /\ client'[c].shown = client[c].shown
          /\ client'[c].told = client[c].told
          /\ client'[c].names \in {client[c].names, static.names}
          /\ client[c].step = "in" => client'[c].names = static.names
      BY <1>2, <1>3, AwayIsARecord
    <2>2. c \notin slipped /\ ~(client[c].step = "greeted" /\ client[c].names # static.names)
      BY <1>4 DEF Accepting
    <2>3. ~client[c].bare /\ GreetedOK(c) /\ SeenIsTold(c) /\ ShownIsTold(c)
      BY <2>1, <2>2 DEF StreamInv, ClientOK
    <2>4. GreetedOK(c)'
      BY <1>4, <1>5, <2>1, <2>2, <2>3 DEF GreetedOK, MetaOnTheWay, Poll
    <2>5. SeenIsTold(c)' /\ ShownIsTold(c)'
      BY <1>4, <1>5, <2>1, <2>3 DEF SeenIsTold, ShownIsTold, ToldOnTheWay, Sending, Poll
    <2>6. QED
      BY <2>1, <2>3, <2>4, <2>5 DEF ClientOK
  <1>9. QED
    BY <1>6, <1>7, <1>8 DEF StreamInv

LEMMA RestreamKeeps == ASSUME StreamInv, NEW emit \in SUBSET Published, Restream(emit) PROVE StreamInv'
  <1>1. /\ poll' = [poll EXCEPT !.step = "publish"] /\ Poll("changes")
        /\ static' = [names |-> NewNames, meta |-> {}]
        /\ active' = [emit |-> emit, metaSent |-> {}, notified |-> Nothing]
        /\ updates' = [f \in Published |-> IF f \in emit THEN updates[f] ELSE "none"]
        /\ UNCHANGED <<client, fresh, slipped>>
    BY DEF Restream, Then
  <1>2. poll' \in [step : PollSteps, have : BOOLEAN, batch : Batches] /\ poll'.step = "publish"
    BY <1>1, StreamWords DEF StreamInv, StreamTypeOK
  <1>3. static' \in [names : Nat, meta : SUBSET Metered] /\ static'.meta = {}
    BY <1>1 DEF NewNames, StreamInv, StreamTypeOK
  <1>4. /\ active' \in [emit : SUBSET Published, metaSent : SUBSET Metered, notified : Told]
        /\ active'.metaSent = {} /\ \A f \in Alarmed : active'.notified[f] = "none"
    BY <1>1, NothingTold DEF Nothing
  <1>5. updates' \in [Published -> Shown]
    BY <1>1, StreamWords DEF StreamInv, StreamTypeOK
  <1>6. StreamTypeOK'
    BY <1>1, <1>2, <1>3, <1>4, <1>5 DEF StreamInv, StreamTypeOK
  <1>7. BatchOK' /\ MetaIsKept'
    BY <1>2, <1>3, <1>4 DEF BatchOK, MetaIsKept, Sending, Poll
  <1>8. ASSUME NEW c \in Viewers PROVE ClientOK(c)'
    BY <1>1, <1>2, <1>3, <1>4 DEF StreamInv, ClientOK, GreetedOK, SeenIsTold, ShownIsTold, Poll
  <1>9. QED
    BY <1>6, <1>7, <1>8 DEF StreamInv

LEMMA DrainKeeps == ASSUME StreamInv, Drain PROVE StreamInv'
  <1> DEFINE due == {f \in Published : updates[f] # "none"}
             changed == {f \in due \cap Alarmed : updates[f] # Sees[f]}
             Of(some) == [f \in Alarmed |-> IF f \in some THEN updates[f] ELSE "none"]
             batch == [values |-> due, meta |-> (due \cap Metered) \ active.metaSent,
                       shown |-> Of(due), told |-> Of(changed)]
             notified == [f \in Alarmed |-> IF f \in changed THEN updates[f] ELSE Sees[f]]
  <1>1. Alarmed \subseteq Published /\ updates \in [Published -> Shown]
    BY DEF Published, StreamInv, StreamTypeOK
  <1>2. Sees \in Told /\ (fresh = {} => Sees = active.notified) /\ (fresh # {} => Sees = Nothing)
    BY NothingTold DEF Sees, StreamInv, StreamTypeOK
  <1>3. batch \in Batches /\ notified \in Told
    <2>1. Of(due) \in Told /\ Of(changed) \in Told /\ notified \in Told
      BY <1>1, <1>2, StreamWords DEF Told
    <2>2. due \in SUBSET Published /\ (due \cap Metered) \ active.metaSent \in SUBSET Metered
      OBVIOUS
    <2> HIDE DEF due, changed, Of
    <2>3. QED
      BY <2>1, <2>2 DEF Batches
  <1>4. /\ fresh' = {} /\ updates' = [f \in Published |-> "none"]
        /\ UNCHANGED <<client, static, slipped>> /\ Poll("drain")
        /\ \/ /\ poll' = [poll EXCEPT !.step = "extend", !.batch = batch]
              /\ active' = [active EXCEPT !.metaSent = @ \cup batch.meta, !.notified = notified]
           \/ /\ poll' = [poll EXCEPT !.step = "changes"]
              /\ active' = [active EXCEPT !.notified = Sees]
    BY DEF Drain, Then
  <1>5. updates' \in [Published -> Shown]
    BY <1>4, StreamWords
  <1>6. CASE /\ poll' = [poll EXCEPT !.step = "changes"]
             /\ active' = [active EXCEPT !.notified = Sees]
    <2>1. /\ poll' \in [step : PollSteps, have : BOOLEAN, batch : Batches]
          /\ poll'.step = "changes"
      BY <1>6, StreamWords DEF StreamInv, StreamTypeOK
    <2>2. /\ active' \in [emit : SUBSET Published, metaSent : SUBSET Metered, notified : Told]
          /\ active'.metaSent = active.metaSent /\ active'.notified = Sees
      BY <1>2, <1>6 DEF StreamInv, StreamTypeOK
    <2>3. StreamTypeOK'
      BY <1>4, <1>5, <2>1, <2>2 DEF StreamInv, StreamTypeOK
    <2>4. BatchOK' /\ MetaIsKept'
      BY <1>4, <2>1, <2>2 DEF StreamInv, BatchOK, MetaIsKept, Sending, Poll
    <2>5. ASSUME NEW c \in Viewers PROVE ClientOK(c)'
      BY <1>2, <1>4, <2>1, <2>2 DEF StreamInv, ClientOK, GreetedOK, SeenIsTold, ShownIsTold,
           ToldOnTheWay, MetaOnTheWay, Sending, Poll, Nothing
    <2>6. QED
      BY <2>3, <2>4, <2>5 DEF StreamInv
  <1>7. CASE /\ poll' = [poll EXCEPT !.step = "extend", !.batch = batch]
             /\ active' = [active EXCEPT !.metaSent = @ \cup batch.meta, !.notified = notified]
    <2>1. /\ batch.values = due /\ batch.meta = (due \cap Metered) \ active.metaSent
          /\ \A f \in Alarmed :
               /\ batch.shown[f] # "none" => notified[f] = batch.shown[f]
               /\ batch.told[f] # "none" => batch.shown[f] = batch.told[f]
               /\ Sees[f] = "none" /\ notified[f] # "none" => batch.told[f] = notified[f]
               /\ notified[f] # "none" => batch.told[f] = notified[f]
                                          \/ (batch.told[f] = "none" /\ notified[f] = Sees[f])
      BY <1>1, <1>2
    <2> HIDE DEF batch, notified, due, changed, Of
    <2>2. /\ poll' \in [step : PollSteps, have : BOOLEAN, batch : Batches]
          /\ poll'.step = "extend" /\ poll'.batch = batch
      BY <1>3, <1>7, StreamWords DEF StreamInv, StreamTypeOK
    <2>3. /\ active' \in [emit : SUBSET Published, metaSent : SUBSET Metered, notified : Told]
          /\ active'.metaSent = active.metaSent \cup batch.meta /\ active'.notified = notified
      BY <1>3, <1>7 DEF StreamInv, StreamTypeOK, Batches
    <2>4. StreamTypeOK'
      BY <1>4, <1>5, <2>2, <2>3 DEF StreamInv, StreamTypeOK
    <2>5. BatchOK'
      BY <2>1, <2>2, <2>3 DEF BatchOK
    <2>6. MetaIsKept'
      BY <1>4, <2>2, <2>3 DEF StreamInv, MetaIsKept, Poll
    <2>7. ASSUME NEW c \in Viewers PROVE ClientOK(c)'
      <3> SUFFICES ASSUME client[c].step # "away", c \notin slipped
                   PROVE  ~client'[c].bare /\ GreetedOK(c)' /\ SeenIsTold(c)' /\ ShownIsTold(c)'
        BY <1>4 DEF ClientOK
      <3>1. ~client[c].bare /\ GreetedOK(c) /\ SeenIsTold(c) /\ ShownIsTold(c)
        BY DEF StreamInv, ClientOK
      <3>2. GreetedOK(c)'
        BY <1>4, <2>2, <3>1 DEF GreetedOK, MetaOnTheWay, Poll
      <3>3. ShownIsTold(c)'
        BY <1>4, <3>1 DEF ShownIsTold
      <3>4. ASSUME NEW f \in Alarmed, notified[f] # "none"
            PROVE  (IF batch.told[f] # "none" THEN batch.told[f] ELSE client[c].told[f]) = notified[f]
        <4>1. CASE fresh # {}
          BY <1>2, <2>1, <3>4, <4>1 DEF Nothing
        <4>2. CASE fresh = {}
          BY <1>2, <1>4, <2>1, <3>1, <3>4, <4>2 DEF SeenIsTold, ToldOnTheWay, Sending, Poll
        <4>3. QED
          BY <4>1, <4>2
      <3>5. SeenIsTold(c)'
        BY <1>4, <2>2, <2>3, <3>4 DEF SeenIsTold, ToldOnTheWay, Sending
      <3>6. QED
        BY <1>4, <3>1, <3>2, <3>3, <3>5
    <2>8. QED
      BY <2>4, <2>5, <2>6, <2>7 DEF StreamInv
  <1>8. QED
    BY <1>4, <1>6, <1>7

LEMMA ExtendKeeps == ASSUME StreamInv, Extend PROVE StreamInv'
  <1>1. /\ poll' = [poll EXCEPT !.step = "send"] /\ Poll("extend")
        /\ static' = [static EXCEPT !.meta = @ \cup poll.batch.meta]
        /\ UNCHANGED <<client, fresh, updates, active, slipped>>
    BY DEF Extend, Then
  <1>2. /\ poll' \in [step : PollSteps, have : BOOLEAN, batch : Batches]
        /\ poll'.step = "send" /\ poll'.batch = poll.batch
    BY <1>1, StreamWords DEF StreamInv, StreamTypeOK
  <1>3. /\ static' \in [names : Nat, meta : SUBSET Metered] /\ static'.names = static.names
        /\ static'.meta = static.meta \cup poll.batch.meta
    BY <1>1 DEF StreamInv, StreamTypeOK, Batches
  <1>4. StreamTypeOK'
    BY <1>1, <1>2, <1>3 DEF StreamInv, StreamTypeOK
  <1>5. BatchOK' /\ MetaIsKept'
    BY <1>1, <1>2, <1>3 DEF StreamInv, BatchOK, MetaIsKept, Sending, Poll
  <1>6. ASSUME NEW c \in Viewers PROVE ClientOK(c)'
    BY <1>1, <1>2, <1>3 DEF StreamInv, ClientOK, GreetedOK, SeenIsTold, ShownIsTold, ToldOnTheWay,
         MetaOnTheWay, Sending, Poll
  <1>7. QED
    BY <1>4, <1>5, <1>6 DEF StreamInv
LEMMA SendKeeps == ASSUME StreamInv, Send PROVE StreamInv'
  <1> DEFINE b == poll.batch
             Latest(new, old) == [f \in Alarmed |-> IF new[f] = "none" THEN old[f] ELSE new[f]]
  <1>1. ASSUME NEW c \in Viewers
        PROVE  /\ Informed[c] \in ClientRecords /\ Informed[c].step = client[c].step
               /\ Informed[c].names = client[c].names
               /\ Informed[c].meta = client[c].meta \cup b.meta
               /\ Informed[c].bare <=> \/ client[c].bare
                                       \/ (b.values \cap Metered) \ (client[c].meta \cup b.meta) # {}
               /\ Informed[c].shown = IF c \in fresh THEN client[c].shown
                                      ELSE Latest(b.shown, client[c].shown)
               /\ Informed[c].told = Latest(b.told, client[c].told)
    <2> DEFINE meta == client[c].meta \cup b.meta
               bare == client[c].bare \/ (b.values \cap Metered) \ (client[c].meta \cup b.meta) # {}
               alarm == IF c \in fresh THEN client[c].shown ELSE Latest(b.shown, client[c].shown)
               told == Latest(b.told, client[c].told)
    <2>1. Informed[c] = [client[c] EXCEPT !.meta = meta, !.bare = bare, !.shown = alarm,
                                          !.told = told]
      BY DEF Informed
    <2>2. client[c] \in ClientRecords /\ b \in Batches
      BY DEF StreamInv, StreamTypeOK
    <2>3. meta \in SUBSET Metered
      BY <2>2 DEF ClientRecords, Batches
    <2>4. bare \in BOOLEAN
      BY <2>2 DEF ClientRecords
    <2>5. alarm \in Told /\ told \in Told
      BY <2>2 DEF ClientRecords, Batches, Told
    <2> HIDE DEF meta, bare, alarm, told, b, Latest
    <2>6. /\ Informed[c] \in ClientRecords /\ Informed[c].step = client[c].step
          /\ Informed[c].names = client[c].names /\ Informed[c].meta = meta
          /\ Informed[c].bare = bare /\ Informed[c].shown = alarm /\ Informed[c].told = told
      BY <2>1, <2>2, <2>3, <2>4, <2>5 DEF ClientRecords
    <2>7. QED
      BY <2>6 DEF meta, bare, alarm, told
  <1>2. /\ client' \in [Viewers -> ClientRecords]
        /\ \A c \in Viewers : \/ client'[c] = Away
                              \/ client[c].step = "in" /\ client'[c] = Informed[c]
                              \/ client[c].step # "in" /\ client'[c] = client[c]
    BY <1>1, Written DEF Send, StreamInv
  <1>3. /\ Poll("send") /\ poll' = [poll EXCEPT !.step = "changes", !.batch = NoBatch]
        /\ slipped' = slipped \cup {c \in Accepting : Misses(c)}
        /\ UNCHANGED <<fresh, static, updates, active>>
    BY DEF Send
  <1>4. /\ poll' \in [step : PollSteps, have : BOOLEAN, batch : Batches]
        /\ poll'.step = "changes"
    BY <1>3, StreamWords, NothingTold DEF StreamInv, StreamTypeOK
  <1>5. StreamTypeOK'
    BY <1>2, <1>3, <1>4 DEF StreamInv, StreamTypeOK, Accepting
  <1>6. BatchOK' /\ MetaIsKept'
    BY <1>3, <1>4 DEF StreamInv, BatchOK, MetaIsKept, Sending, Poll
  \* What the batch does for a client that is among them, and for one that is not yet.
  <1>7. /\ b.values \cap Metered \subseteq static.meta
        /\ \A f \in Alarmed : /\ b.shown[f] # "none" => active.notified[f] = b.shown[f]
                              /\ b.told[f] # "none" => b.shown[f] = b.told[f]
    BY <1>3 DEF StreamInv, BatchOK, MetaIsKept, Sending, Poll
  <1>8. ASSUME NEW c \in Viewers PROVE ClientOK(c)'
    <2> SUFFICES ASSUME client'[c].step # "away", c \notin slipped'
                 PROVE  ~client'[c].bare /\ GreetedOK(c)' /\ SeenIsTold(c)' /\ ShownIsTold(c)'
      BY DEF ClientOK
    <2>1. client[c].step # "away" /\ c \notin slipped
      BY <1>1, <1>2, <1>3, AwayIsARecord
    <2>2. /\ ~client[c].bare /\ GreetedOK(c) /\ SeenIsTold(c) /\ ShownIsTold(c)
      BY <2>1 DEF StreamInv, ClientOK
    <2>3. static.meta \subseteq client[c].meta \cup b.meta \/ client[c].step = "counted"
      <3>1. client[c].step \in {"counted", "greeted", "in"}
        BY <2>1 DEF StreamInv, StreamTypeOK, ClientRecords, Stages
      <3>2. QED
        BY <1>3, <2>2, <3>1 DEF GreetedOK, MetaOnTheWay
    <2>4. \A f \in Alarmed : c \notin fresh /\ active.notified[f] # "none" =>
            (IF b.told[f] # "none" THEN b.told[f] ELSE client[c].told[f]) = active.notified[f]
      BY <1>3, <2>2 DEF SeenIsTold, ToldOnTheWay, Sending, Poll
    <2>5. CASE client[c].step = "in"
      <3>1. client'[c] = Informed[c] /\ client'[c].step = "in"
        BY <1>1, <1>2, <2>5, AwayIsARecord
      <3>2. ~client'[c].bare
        BY <1>1, <1>7, <2>2, <2>3, <2>5, <3>1
      <3>3. GreetedOK(c)'
        BY <1>1, <1>3, <1>4, <2>2, <2>3, <2>5, <3>1 DEF GreetedOK, Poll
      <3>4. \A f \in Alarmed : /\ client'[c].told[f] = IF b.told[f] # "none" THEN b.told[f]
                                                       ELSE client[c].told[f]
                               /\ client'[c].shown[f] =
                                    IF c \in fresh \/ b.shown[f] = "none" THEN client[c].shown[f]
                                    ELSE b.shown[f]
        <4>1. /\ client'[c].told = Latest(b.told, client[c].told)
              /\ client'[c].shown = IF c \in fresh THEN client[c].shown
                                    ELSE Latest(b.shown, client[c].shown)
          BY <1>1, <3>1
        <4>2. \A f \in Alarmed :
                /\ Latest(b.told, client[c].told)[f] =
                     IF b.told[f] # "none" THEN b.told[f] ELSE client[c].told[f]
                /\ Latest(b.shown, client[c].shown)[f] =
                     IF b.shown[f] = "none" THEN client[c].shown[f] ELSE b.shown[f]
          OBVIOUS
        <4> HIDE DEF Latest
        <4>3. QED
          BY <4>1, <4>2
      <3>5. SeenIsTold(c)'
        BY <1>3, <1>4, <2>4, <3>4 DEF SeenIsTold, ToldOnTheWay, Sending
      <3>6. ShownIsTold(c)'
        BY <1>3, <1>7, <2>2, <2>4, <3>4 DEF ShownIsTold
      <3>7. QED
        BY <3>2, <3>3, <3>5, <3>6
    <2>6. CASE client[c].step # "in"
      <3>1. client'[c] = client[c] /\ c \in Accepting
        BY <1>2, <2>1, <2>6, AwayIsARecord
           DEF Accepting, StreamInv, StreamTypeOK, ClientRecords, Stages
      <3>2. ~Misses(c)
        BY <1>3, <3>1
      <3>3. GreetedOK(c)'
        BY <1>3, <1>4, <2>2, <2>6, <3>1, <3>2 DEF GreetedOK, Misses, Poll
      <3>4. c \in fresh \/ \A f \in Alarmed : b.told[f] = "none"
        BY <3>2 DEF Misses, Nothing
      <3>5. SeenIsTold(c)'
        BY <1>3, <1>4, <2>4, <3>1, <3>4 DEF SeenIsTold, ToldOnTheWay, Sending
      <3>6. ShownIsTold(c)'
        BY <1>3, <2>2, <3>1 DEF ShownIsTold
      <3>7. QED
        BY <2>2, <3>1, <3>3, <3>5, <3>6
    <2>7. QED
      BY <2>5, <2>6
  <1>9. QED
    BY <1>5, <1>6, <1>8 DEF StreamInv

LEMMA StreamNextKeeps == StreamInv /\ [StreamNext]_streamVars => StreamInv'
  <1> SUFFICES ASSUME StreamInv, [StreamNext]_streamVars PROVE StreamInv'
    OBVIOUS
  <1>1. CASE UNCHANGED streamVars
    BY <1>1 DEF streamVars, StreamInv, StreamTypeOK, BatchOK, MetaIsKept, ClientOK, GreetedOK,
       SeenIsTold, ShownIsTold, ToldOnTheWay, MetaOnTheWay, Sending, Poll
  <1>2. CASE StreamNext
    BY <1>2, AcceptKeeps, UpdateKeeps, RestreamKeeps, SendNamesKeeps, PollGoesOn, DrainKeeps,
       ExtendKeeps, SendKeeps DEF StreamNext
  <1>3. QED
    BY <1>1, <1>2

(* The names, units and states each client of the stream has been told are *)
(* those that go with what it was sent, for any set of clients and fields  *)
(* and whenever a client connects, unless it came in through one of the    *)
(* gaps (bin/masterbus-signalk.rs:497).                                    *)
THEOREM StreamIsTold == StreamSpec => []ClientsAreTold
  <1>1. StreamInv => ClientsAreTold
    BY DEF StreamInv, ClientOK, GreetedOK, ShownIsTold, ClientsAreTold, Clients
  <1>2. QED
    BY InitialStream, StreamNextKeeps, <1>1, PTL DEF StreamSpec
-----------------------------------------------------------------------------
(* The terminal interface.                                                 *)

IsApp(a) ==
  /\ a.focus \in {"devices", "fields"}
  /\ a = [dev |-> a.dev, focus |-> a.focus, cur |-> a.cur, info |-> a.info, serial |-> a.serial,
          tab |-> a.tab, loaded |-> a.loaded, rows |-> a.rows, row |-> a.row, values |-> a.values,
          sub |-> a.sub, pending |-> a.pending, editor |-> a.editor, modal |-> a.modal,
          login |-> a.login, path |-> a.path, prompt |-> a.prompt, quit |-> a.quit]
IsEditor(e) ==
  e = [field |-> e.field, labels |-> e.labels, path |-> e.path, truth |-> e.truth,
       existing |-> e.existing, stage |-> e.stage, offered |-> e.offered]
IsSession(s) == s = [map |-> s.map, dirty |-> s.dirty]
IsRow(f) == f = <<f[1], f[2], f[3]>>

(* What is on the screen is of the open device and tab.                    *)
RowsOK(a) ==
  a.rows # NoTui => a.cur # NoTui /\ a.rows.device = a.cur /\ a.rows.tab = a.tab
OpenOK(a) ==
  a.cur # NoTui =>
    /\ \A v \in a.values : v[1] = a.cur
    /\ a.sub # NoTui => a.sub.device = a.cur
    /\ a.info \in {NoTui, a.cur}

(* What is awaited is of the open device and tab too, and while it is      *)
(* awaited no rows are shown.                                              *)
PendingOK(a) ==
  a.pending # NoTui =>
    /\ a.pending = [device |-> a.cur, tab |-> a.tab, is |-> a.pending.is]
    /\ a.cur # NoTui /\ a.rows = NoTui

(* The editors are those of a row of the open device.                      *)
EditorOK(a) == a.editor # NoTui => IsRow(a.editor.field) /\ a.editor.field[1] = a.cur
PathOK(a) == a.path # NoTui => a.cur # NoTui /\ IsEditor(a.path) /\ a.path.field[1] = a.cur
LoginOK(a) ==
  a.login # NoTui =>
    a.login.device # NoTui /\ a.login = [device |-> a.login.device, stage |-> a.login.stage]

AppOK(a) ==
  IsApp(a) /\ RowsOK(a) /\ OpenOK(a) /\ PendingOK(a) /\ EditorOK(a) /\ PathOK(a) /\ LoginOK(a)

(* The serial is that of the open device, so that entries are filed as     *)
(* they should be.                                                         *)
SerialOK(a) == a.cur # NoTui => a.serial = a.cur
FiledOK(map) == \A e \in map : e.serial = e.of

HistoryOK ==
  /\ behind \in BOOLEAN /\ unheard \in BOOLEAN /\ astray \in BOOLEAN
  /\ ~astray
  /\ ~unheard => SerialOK(app) /\ FiledOK(mapSession.map)
  /\ behind => mapSession.dirty
  /\ behind /\ app.quit => app.prompt = "discard"

TuiInv == AppOK(app) /\ listed \in Seq(Browsed) /\ IsSession(mapSession) /\ HistoryOK

LEMMA InitialTui == TuiInit => TuiInv
  <1> SUFFICES ASSUME TuiInit PROVE TuiInv
    OBVIOUS
  <1>1. /\ IsApp(app) /\ app.cur = NoTui /\ app.rows = NoTui /\ app.pending = NoTui
        /\ app.editor = NoTui /\ app.path = NoTui /\ app.login = NoTui
    BY DEF TuiInit, NothingOpen, IsApp
  <1>2. AppOK(app)
    BY <1>1 DEF AppOK, RowsOK, OpenOK, PendingOK, EditorOK, PathOK, LoginOK
  <1>3. HistoryOK
    BY <1>1, TuiAssumption DEF TuiInit, HistoryOK, SerialOK, FiledOK
  <1>4. QED
    BY <1>2, <1>3, TuiAssumption DEF TuiInit, TuiInv, IsSession

(* A step that leaves the list, the mapping and the open device alone.     *)
LEMMA ViewKeeps ==
    ASSUME TuiInv, AppOK(app'), UNCHANGED <<listed, mapSession, behind, unheard, astray>>,
           app'.cur = app.cur \/ app'.cur = NoTui, app'.serial = app.serial,
           app'.quit = app.quit, app'.prompt = app.prompt
    PROVE  TuiInv'
  <1>1. HistoryOK'
    BY DEF TuiInv, HistoryOK, SerialOK
  <1>2. QED
    BY <1>1 DEF TuiInv

(* The fields of App that say what is on the screen.                       *)
ViewFields ==
  <<app.cur, app.info, app.serial, app.tab, app.rows, app.values, app.sub, app.pending,
    app.editor, app.login, app.path, app.prompt, app.quit>>

(* The keys that change none of these.                                     *)
LEMMA CursorKeeps ==
    ASSUME TuiInv, IsApp(app'), UNCHANGED ViewFields,
           UNCHANGED <<listed, mapSession, behind, unheard, astray>>
    PROVE  TuiInv'
  <1>1. AppOK(app')
    BY DEF TuiInv, AppOK, RowsOK, OpenOK, PendingOK, EditorOK, PathOK, LoginOK, ViewFields
  <1>2. QED
    BY <1>1, ViewKeeps DEF ViewFields

LEMMA PlainKeys ==
    ASSUME TuiInv, MoveDevice \/ OpenValues \/ CloseValues
    PROVE  TuiInv'
  <1>1. IsApp(app') /\ UNCHANGED ViewFields
    BY DEF MoveDevice, OpenValues, CloseValues, Set, TuiInv, AppOK, IsApp, ViewFields
  <1>2. UNCHANGED <<listed, mapSession, behind, unheard, astray>>
    BY DEF MoveDevice, OpenValues, CloseValues
  <1>3. QED
    BY <1>1, <1>2, CursorKeeps

(* A read of a field is a value of the open device.                        *)
LEMMA ValueIsOfOpen ==
    ASSUME NEW f, IsRow(f), NEW answers, NEW v \in WithValue(f, answers)
    PROVE  v[1] = app.cur
  <1>1. v = <<app.cur>> \o Tail(<<f[1], f[2], f[3]>>)
    BY DEF WithValue, IsRow
  <1>2. QED
    BY <1>1

LEMMA FieldIsRow == \A i : IsRow(Field(i)) /\ Field(i)[1] = app.rows.device
  BY DEF IsRow, Field

(* More values of the open device.                                         *)
LEMMA ValuesKeep ==
    ASSUME TuiInv, NEW row, NEW values, app' = [app EXCEPT !.row = row, !.values = values],
           \A v \in values : v \in app.values \/ (app.cur # NoTui => v[1] = app.cur),
           UNCHANGED <<listed, mapSession, behind, unheard, astray>>
    PROVE  TuiInv'
  <1>1. /\ IsApp(app') /\ app'.values = values
        /\ UNCHANGED <<app.cur, app.info, app.serial, app.tab, app.rows, app.sub, app.pending,
                       app.editor, app.login, app.path, app.prompt, app.quit>>
    BY DEF TuiInv, AppOK, IsApp
  <1>2. AppOK(app')
    BY <1>1 DEF TuiInv, AppOK, RowsOK, OpenOK, PendingOK, EditorOK, PathOK, LoginOK
  <1>3. QED
    BY <1>1, <1>2, ViewKeeps

LEMMA ReadingKeys ==
    ASSUME TuiInv, MoveRow \/ Reread \/ PumpSubscription
    PROVE  TuiInv'
  <1>1. CASE MoveRow
    <2>1. PICK i, answers :
            app' = [app EXCEPT !.row = i, !.values = @ \cup WithValue(Field(i), answers)]
      BY <1>1 DEF MoveRow
    <2> DEFINE values == app.values \cup WithValue(Field(i), answers)
    <2>2. app' = [app EXCEPT !.row = i, !.values = values]
      BY <2>1
    <2>3. \A v \in values : v \in app.values \/ v[1] = app.cur
      BY FieldIsRow, ValueIsOfOpen
    <2>4. UNCHANGED <<listed, mapSession, behind, unheard, astray>>
      BY <1>1 DEF MoveRow
    <2> HIDE DEF values
    <2>5. QED
      BY <2>2, <2>3, <2>4, ValuesKeep
  <1>2. CASE Reread
    <2>1. PICK answers :
            Set("values", (app.values \ {Selected}) \cup WithValue(Selected, answers))
      BY <1>2 DEF Reread
    <2> DEFINE values == (app.values \ {Selected}) \cup WithValue(Selected, answers)
    <2>2. app' = [app EXCEPT !.row = app.row, !.values = values]
      BY <2>1 DEF Set, TuiInv, AppOK, IsApp
    <2>3. \A v \in values : v \in app.values \/ v[1] = app.cur
      BY FieldIsRow, ValueIsOfOpen DEF Selected
    <2> HIDE DEF values
    <2>4. QED
      BY <1>2, <2>2, <2>3, ValuesKeep DEF Reread
  <1>3. CASE PumpSubscription
    <2> DEFINE values == app.values \cup
                 {<<app.sub.device, app.sub.tab, i>> : i \in DOMAIN Tabs[app.sub.tab]}
    <2>1. app' = [app EXCEPT !.row = app.row, !.values = values] /\ app.sub # NoTui
      BY <1>3 DEF PumpSubscription, Set, TuiInv, AppOK, IsApp
    <2>2. \A v \in values : v \in app.values \/ (app.cur # NoTui => v[1] = app.cur)
      BY <2>1 DEF TuiInv, AppOK, OpenOK
    <2> HIDE DEF values
    <2>3. QED
      BY <1>3, <2>1, <2>2, ValuesKeep DEF PumpSubscription
  <1>4. QED
    BY <1>1, <1>2, <1>3
(* The summary of a device that is opened, or shown again.                 *)
LEMMA SummaryKeeps ==
    ASSUME TuiInv, NEW a, IsApp(a), EditorOK(a), PathOK(a), LoginOK(a), a.pending = NoTui,
           a.quit = app.quit, a.prompt = app.prompt,
           \A v \in a.values : a.cur # NoTui => v[1] = a.cur,
           SummaryAsked(a), UNCHANGED <<listed, mapSession, behind, astray>>
    PROVE  TuiInv'
  <1>1. PICK answers \in BOOLEAN :
          app' = Summary(a, answers) /\ unheard' = (unheard \/ ~answers)
    BY DEF SummaryAsked
  <1>2. /\ IsApp(app') /\ app'.cur = a.cur /\ app'.rows = NoTui /\ app'.sub = NoTui
        /\ app'.info \in {NoTui, a.cur} /\ app'.pending = NoTui /\ app'.values = a.values
        /\ app'.editor = a.editor /\ app'.path = a.path /\ app'.login = a.login
        /\ app'.quit = a.quit /\ app'.prompt = a.prompt
        /\ answers => app'.serial = a.cur
    BY <1>1 DEF Summary, IsApp
  <1>3. AppOK(app')
    BY <1>2 DEF AppOK, RowsOK, OpenOK, PendingOK, EditorOK, PathOK, LoginOK
  <1>4. (unheard' <=> unheard \/ ~answers) /\ unheard' \in BOOLEAN
    BY <1>1
  <1>5. HistoryOK'
    BY <1>2, <1>4 DEF TuiInv, HistoryOK, SerialOK
  <1>6. QED
    BY <1>3, <1>5 DEF TuiInv

LEMMA ShowsKeeps ==
    ASSUME NEW a, NEW t, NEW answers, IsApp(a), EditorOK(a), PathOK(a), LoginOK(a),
           a.pending = NoTui, a.tab = t, a.cur # NoTui, a.info \in {NoTui, a.cur}
    PROVE  /\ AppOK(Shows(a, a.cur, t, answers))
           /\ Shows(a, a.cur, t, answers).cur = a.cur
           /\ Shows(a, a.cur, t, answers).serial = a.serial
           /\ Shows(a, a.cur, t, answers).quit = a.quit
           /\ Shows(a, a.cur, t, answers).prompt = a.prompt
  <1> DEFINE new == Shows(a, a.cur, t, answers)
  <1>1. /\ IsApp(new) /\ new.cur = a.cur /\ new.rows = RowsOf(a.cur, t) /\ new.tab = t
        /\ new.sub \in {RowsOf(a.cur, t), NoTui} /\ new.values \in {{<<a.cur, t, 1>>}, {}}
        /\ new.info = a.info /\ new.pending = NoTui /\ new.editor = a.editor
        /\ new.path = a.path /\ new.login = a.login /\ new.serial = a.serial
        /\ new.quit = a.quit /\ new.prompt = a.prompt
    <2> DEFINE rows == RowsOf(a.cur, t)
               row == IF Tabs[t] # <<>> THEN 1 ELSE 0
               sub == IF Tabs[t] # <<>> THEN RowsOf(a.cur, t) ELSE NoTui
               values == IF Tabs[t] # <<>> /\ answers THEN {<<a.cur, t, 1>>} ELSE {}
    <2>1. new = [a EXCEPT !.rows = rows, !.row = row, !.sub = sub, !.values = values]
      BY DEF Shows
    <2>2. sub \in {RowsOf(a.cur, t), NoTui} /\ values \in {{<<a.cur, t, 1>>}, {}}
      OBVIOUS
    <2> HIDE DEF new, rows, row, sub, values
    <2>3. /\ IsApp(new) /\ new.cur = a.cur /\ new.rows = rows /\ new.tab = t /\ new.sub = sub
          /\ new.values = values /\ new.info = a.info /\ new.pending = NoTui
          /\ new.editor = a.editor /\ new.path = a.path /\ new.login = a.login
          /\ new.serial = a.serial /\ new.quit = a.quit /\ new.prompt = a.prompt
      BY <2>1 DEF IsApp
    <2>4. QED
      BY <2>2, <2>3 DEF rows
  <1> HIDE DEF new
  <1>2. AppOK(new)
    BY <1>1 DEF AppOK, RowsOK, OpenOK, PendingOK, EditorOK, PathOK, LoginOK, RowsOf
  <1>3. QED
    BY <1>1, <1>2 DEF new

LEMMA AsksKeeps ==
    ASSUME NEW a, NEW t, IsApp(a), OpenOK(a), EditorOK(a), PathOK(a), LoginOK(a),
           a.tab = t, a.cur # NoTui
    PROVE  /\ AppOK(Asks(a, t)) /\ Asks(a, t).cur = a.cur /\ Asks(a, t).serial = a.serial
           /\ Asks(a, t).quit = a.quit /\ Asks(a, t).prompt = a.prompt
  <1> DEFINE new == Asks(a, t)
  <1>1. /\ IsApp(new) /\ new.cur = a.cur /\ new.rows = NoTui /\ new.tab = t
        /\ new.sub = a.sub /\ new.values = a.values /\ new.info = a.info
        /\ new.pending = [device |-> a.cur, tab |-> t, is |-> "running"]
        /\ new.editor = a.editor /\ new.path = a.path /\ new.login = a.login
        /\ new.serial = a.serial /\ new.quit = a.quit /\ new.prompt = a.prompt
    <2> DEFINE pending == [device |-> a.cur, tab |-> t, is |-> "running"]
    <2>1. new = [a EXCEPT !.rows = NoTui, !.row = 0, !.pending = pending]
      BY DEF Asks
    <2> HIDE DEF new, pending
    <2>2. /\ IsApp(new) /\ new.cur = a.cur /\ new.rows = NoTui /\ new.tab = t
          /\ new.sub = a.sub /\ new.values = a.values /\ new.info = a.info
          /\ new.pending = pending /\ new.editor = a.editor /\ new.path = a.path
          /\ new.login = a.login /\ new.serial = a.serial /\ new.quit = a.quit
          /\ new.prompt = a.prompt
      BY <2>1 DEF IsApp
    <2>3. QED
      BY <2>2 DEF pending
  <1> HIDE DEF new
  <1>2. AppOK(new)
    BY <1>1 DEF AppOK, RowsOK, OpenOK, PendingOK, EditorOK, PathOK, LoginOK
  <1>3. QED
    BY <1>1, <1>2 DEF new

LEMMA SwitchTabKeeps ==
    ASSUME TuiInv, NEW a, NEW t, SwitchTab(a, t), IsApp(a), OpenOK(a), EditorOK(a), PathOK(a),
           LoginOK(a), a.cur = app.cur, a.cur # NoTui, a.serial = app.serial,
           a.quit = app.quit, a.prompt = app.prompt,
           a.pending = NoTui \/ (t # "summary" /\ t \notin a.loaded),
           UNCHANGED <<listed, mapSession, behind, astray>>
    PROVE  TuiInv'
  <1> DEFINE b == [a EXCEPT !.tab = t]
  <1>1. \/ t = "summary" /\ SummaryAsked(b)
        \/ /\ t # "summary" /\ t \in a.loaded /\ UNCHANGED unheard
           /\ \E answers \in BOOLEAN : app' = Shows(b, a.cur, t, answers)
        \/ app' = Asks(b, t) /\ UNCHANGED unheard
    BY DEF SwitchTab
  <1>2. /\ IsApp(b) /\ b.tab = t /\ b.cur = a.cur /\ b.info = a.info /\ b.values = a.values
        /\ b.sub = a.sub /\ b.pending = a.pending /\ b.editor = a.editor /\ b.path = a.path
        /\ b.login = a.login /\ b.serial = a.serial /\ b.quit = a.quit /\ b.prompt = a.prompt
    BY DEF IsApp
  <1> HIDE DEF b
  <1>3. OpenOK(b) /\ EditorOK(b) /\ PathOK(b) /\ LoginOK(b)
    BY <1>2 DEF OpenOK, EditorOK, PathOK, LoginOK
  <1>4. CASE t = "summary" /\ SummaryAsked(b)
    BY <1>2, <1>3, <1>4, SummaryKeeps DEF OpenOK
  <1>5. CASE /\ t # "summary" /\ t \in a.loaded /\ UNCHANGED unheard
             /\ \E answers \in BOOLEAN : app' = Shows(b, a.cur, t, answers)
    <2>1. PICK answers \in BOOLEAN : app' = Shows(b, b.cur, t, answers)
      BY <1>2, <1>5
    <2>2. b.info \in {NoTui, b.cur} /\ b.pending = NoTui
      BY <1>2, <1>3, <1>5 DEF OpenOK
    <2>3. /\ AppOK(app') /\ app'.cur = b.cur /\ app'.serial = b.serial
          /\ app'.quit = b.quit /\ app'.prompt = b.prompt
      BY <1>2, <1>3, <2>1, <2>2, ShowsKeeps
    <2>4. QED
      BY <1>2, <1>5, <2>3, ViewKeeps
  <1>6. CASE app' = Asks(b, t) /\ UNCHANGED unheard
    <2>1. /\ AppOK(app') /\ app'.cur = b.cur /\ app'.serial = b.serial
          /\ app'.quit = b.quit /\ app'.prompt = b.prompt
      BY <1>2, <1>3, <1>6, AsksKeeps
    <2>2. QED
      BY <1>2, <1>6, <2>1, ViewKeeps
  <1>7. QED
    BY <1>1, <1>4, <1>5, <1>6

(* Whose the keys are: nobody's but the rows' while rows are shown alone.  *)
LEMMA OwnerBrowses ==
    ASSUME Owner \in {"devices", "fields"}
    PROVE  /\ ~app.quit /\ app.prompt = NoTui /\ app.path = NoTui /\ app.editor = NoTui
           /\ app.login = NoTui /\ app.pending = NoTui
  BY DEF Owner

LEMMA FocusOwns == TuiInv => app.focus \notin {"prompt", "path", "editor", "login", "pending"}
  <1>1. TuiInv => app.focus \in {"devices", "fields"}
    BY DEF TuiInv, AppOK, IsApp
  <1>2. QED
    BY <1>1

LEMMA OwnerAwaits ==
    ASSUME TuiInv, Owner = "pending"
    PROVE  app.path = NoTui /\ app.editor = NoTui /\ app.login = NoTui /\ app.pending # NoTui
  <1>1. app.focus # "pending"
    BY FocusOwns
  <1>2. app.path = NoTui
    BY DEF Owner
  <1>3. app.editor = NoTui
    BY DEF Owner
  <1>4. app.login = NoTui
    BY DEF Owner
  <1>5. app.pending # NoTui
    BY <1>1 DEF Owner
  <1>6. QED
    BY <1>2, <1>3, <1>4, <1>5

LEMMA OwnerEdits == ASSUME TuiInv, Owner = "editor" PROVE app.editor # NoTui
  <1>1. app.focus # "editor"
    BY FocusOwns
  <1>2. QED
    BY <1>1 DEF Owner

LEMMA OwnerLogsIn == ASSUME TuiInv, Owner = "login" PROVE app.login # NoTui
  <1>1. app.focus # "login"
    BY FocusOwns
  <1>2. QED
    BY <1>1 DEF Owner

LEMMA OwnerMaps == ASSUME TuiInv, Owner = "path" PROVE app.path # NoTui /\ ~app.quit
  <1>1. app.focus # "path"
    BY FocusOwns
  <1>2. app.path # NoTui
    BY <1>1 DEF Owner
  <1>3. ~app.quit
    BY DEF Owner
  <1>4. QED
    BY <1>2, <1>3

LEMMA OwnerIsAsked == ASSUME Owner = "prompt" PROVE ~app.quit
  BY DEF Owner

(* What happens between the keys.                                          *)
LEMMA PollPendingKeeps == ASSUME TuiInv, PollPending PROVE TuiInv'
  <1>1. /\ app.pending # NoTui /\ UNCHANGED <<listed, mapSession, behind, unheard, astray>>
        /\ app.pending.device = app.cur /\ app.pending.tab = app.tab /\ app.cur # NoTui
        /\ app.rows = NoTui
    BY DEF PollPending, TuiInv, AppOK, PendingOK
  <1>2. CASE \E answers \in BOOLEAN :
               app' = Shows([app EXCEPT !.pending = NoTui, !.loaded = @ \cup {app.pending.tab}],
                            app.pending.device, app.pending.tab, answers)
    <2> DEFINE loaded == app.loaded \cup {app.pending.tab}
               a == [app EXCEPT !.pending = NoTui, !.loaded = loaded]
    <2>0. IsApp(app) /\ a = [app EXCEPT !.pending = NoTui, !.loaded = loaded]
      BY DEF TuiInv, AppOK
    <2> HIDE DEF loaded, a
    <2>1. /\ IsApp(a) /\ a.pending = NoTui /\ a.tab = app.tab /\ a.cur = app.cur
          /\ a.info = app.info /\ a.editor = app.editor /\ a.path = app.path
          /\ a.login = app.login /\ a.serial = app.serial /\ a.quit = app.quit
          /\ a.prompt = app.prompt
      BY <2>0 DEF IsApp
    <2>2. PICK answers \in BOOLEAN : app' = Shows(a, app.pending.device, app.pending.tab, answers)
      BY <1>2 DEF loaded, a
    <2>3. /\ EditorOK(a) /\ PathOK(a) /\ LoginOK(a) /\ a.info \in {NoTui, a.cur}
      BY <1>1, <2>1 DEF TuiInv, AppOK, OpenOK, EditorOK, PathOK, LoginOK
    <2>4. app' = Shows(a, a.cur, app.tab, answers)
      BY <1>1, <2>1, <2>2
    <2>5. /\ AppOK(app') /\ app'.cur = a.cur /\ app'.serial = a.serial
          /\ app'.quit = a.quit /\ app'.prompt = a.prompt
      BY <1>1, <2>1, <2>3, <2>4, ShowsKeeps
    <2>6. QED
      BY <1>1, <2>1, <2>5, ViewKeeps
  <1>3. CASE app' = [app EXCEPT !.pending = NoTui, !.focus = "devices"]
    <2>1. /\ IsApp(app') /\ app'.pending = NoTui
          /\ UNCHANGED <<app.cur, app.info, app.serial, app.tab, app.rows, app.values, app.sub,
                         app.editor, app.login, app.path, app.prompt, app.quit>>
      BY <1>3 DEF TuiInv, AppOK, IsApp
    <2>2. AppOK(app')
      BY <2>1 DEF TuiInv, AppOK, RowsOK, OpenOK, PendingOK, EditorOK, PathOK, LoginOK
    <2>3. QED
      BY <1>1, <2>1, <2>2, ViewKeeps
  <1>4. QED
    BY <1>2, <1>3 DEF PollPending

LEMMA BetweenKeeps == ASSUME TuiInv, Between PROVE TuiInv'
  <1>1. ASSUME NEW d \in Browsed, NoteAlive(d) PROVE TuiInv'
    <2>1. listed' \in Seq(Browsed)
      BY <1>1, AppendProperties DEF NoteAlive, TuiInv
    <2>2. UNCHANGED <<app, mapSession, behind, unheard, astray>>
      BY <1>1 DEF NoteAlive
    <2>3. QED
      BY <2>1, <2>2 DEF TuiInv, HistoryOK
  <1>2. ASSUME NEW is, WorkerEnds(is) PROVE TuiInv'
    <2>1. /\ app.pending # NoTui /\ app' = [app EXCEPT !.pending = [app.pending EXCEPT !.is = is]]
          /\ UNCHANGED <<listed, mapSession, behind, unheard, astray>>
      BY <1>2 DEF WorkerEnds
    <2>2. /\ [app.pending EXCEPT !.is = is] = [device |-> app.cur, tab |-> app.tab, is |-> is]
          /\ app.cur # NoTui /\ app.rows = NoTui
      BY <2>1 DEF TuiInv, AppOK, PendingOK
    <2> DEFINE pending == [app.pending EXCEPT !.is = is]
    <2> HIDE DEF pending
    <2>3. /\ IsApp(app') /\ app'.pending = pending
          /\ UNCHANGED <<app.cur, app.info, app.serial, app.tab, app.rows, app.values, app.sub,
                         app.editor, app.login, app.path, app.prompt, app.quit>>
      BY <2>1 DEF TuiInv, AppOK, IsApp, pending
    <2>4. PendingOK(app')
      BY <2>2, <2>3 DEF PendingOK, pending
    <2>5. AppOK(app')
      BY <2>3, <2>4 DEF TuiInv, AppOK, RowsOK, OpenOK, EditorOK, PathOK, LoginOK
    <2>6. QED
      BY <2>1, <2>3, <2>5, ViewKeeps
  <1>3. QED
    BY <1>1, <1>2, PollPendingKeeps, ReadingKeys DEF Between

(* Devices and tabs are opened and left.                                   *)
LEMMA NavigationKeeps ==
    ASSUME TuiInv, OpenHighlighted \/ CycleTab \/ BackToDevices \/ CancelPending
    PROVE  TuiInv'
  <1>1. CASE OpenHighlighted
    <2> DEFINE cur == listed[app.dev]
               a == [app EXCEPT !.cur = cur, !.loaded = {}, !.values = {}, !.focus = "fields"]
    <2>0. /\ IsApp(app)
          /\ a = [app EXCEPT !.cur = cur, !.loaded = {}, !.values = {}, !.focus = "fields"]
      BY DEF TuiInv, AppOK
    <2> HIDE DEF cur, a
    <2>1. /\ IsApp(a) /\ a.pending = app.pending /\ a.editor = app.editor /\ a.path = app.path
          /\ a.login = app.login /\ a.quit = app.quit /\ a.prompt = app.prompt /\ a.values = {}
      BY <2>0 DEF IsApp
    <2>2. SummaryAsked(a) /\ UNCHANGED <<listed, mapSession, behind, astray>>
      BY <1>1 DEF OpenHighlighted, cur, a
    <2>3. app.pending = NoTui /\ app.editor = NoTui /\ app.path = NoTui /\ app.login = NoTui
      BY <1>1, OwnerBrowses DEF OpenHighlighted
    <2>4. QED
      BY <2>1, <2>2, <2>3, SummaryKeeps DEF EditorOK, PathOK, LoginOK
  <1>2. CASE CycleTab
    <2>1. PICK t : SwitchTab(app, t)
      BY <1>2 DEF CycleTab
    <2>2. app.cur # NoTui /\ UNCHANGED <<listed, mapSession, behind, astray>> /\ app.pending = NoTui
      BY <1>2, OwnerBrowses DEF CycleTab
    <2>3. QED
      BY <2>1, <2>2, SwitchTabKeeps DEF TuiInv, AppOK
  <1>3. CASE BackToDevices
    <2>1. /\ app.editor = NoTui /\ app.path = NoTui /\ app.login = NoTui
          /\ UNCHANGED <<listed, mapSession, behind, unheard, astray>>
      BY <1>3, OwnerBrowses DEF BackToDevices
    <2>2. /\ IsApp(app') /\ app'.cur = NoTui /\ app'.rows = NoTui /\ app'.pending = NoTui
          /\ UNCHANGED <<app.serial, app.editor, app.login, app.path, app.prompt, app.quit>>
      BY <1>3 DEF BackToDevices, TuiInv, AppOK, IsApp
    <2>3. AppOK(app')
      BY <2>1, <2>2 DEF AppOK, RowsOK, OpenOK, PendingOK, EditorOK, PathOK, LoginOK
    <2>4. QED
      BY <2>1, <2>2, <2>3, ViewKeeps
  <1>4. CASE CancelPending
    <2>1. /\ app.editor = NoTui /\ app.path = NoTui /\ app.login = NoTui /\ app.pending # NoTui
          /\ UNCHANGED <<listed, mapSession, behind, unheard, astray>>
      BY <1>4, OwnerAwaits DEF CancelPending
    <2>2. /\ IsApp(app') /\ app'.cur = NoTui /\ app'.pending = NoTui /\ app.rows = NoTui
          /\ UNCHANGED <<app.serial, app.rows, app.editor, app.login, app.path, app.prompt, app.quit>>
      BY <1>4, <2>1 DEF CancelPending, TuiInv, AppOK, IsApp, PendingOK
    <2>3. AppOK(app')
      BY <2>1, <2>2 DEF AppOK, RowsOK, OpenOK, PendingOK, EditorOK, PathOK, LoginOK
    <2>4. QED
      BY <2>1, <2>2, <2>3, ViewKeeps
  <1>5. QED
    BY <1>1, <1>2, <1>3, <1>4

(* Writing a row of the open device.                                       *)
LEMMA WriteRowKeeps ==
    ASSUME TuiInv, NEW a, NEW f, AppOK(a), WriteRow(a, f), IsRow(f), f[1] = a.cur,
           a.cur = app.cur, a.serial = app.serial, a.quit = app.quit, a.prompt = app.prompt,
           UNCHANGED <<listed, mapSession, behind, unheard>>
    PROVE  TuiInv'
  <1>1. CASE a.cur = NoTui
    <2>1. app' = a /\ UNCHANGED astray
      BY <1>1 DEF WriteRow
    <2>2. QED
      BY <2>1, ViewKeeps
  <1>2. CASE a.cur # NoTui
    <2>1. PICK ok \in BOOLEAN :
            app' = [a EXCEPT !.values = @ \cup IF ok THEN {<<a.cur>> \o Tail(f)} ELSE {}]
      BY <1>2 DEF WriteRow
    <2>2. astray' = (astray \/ a.cur # f[1])
      BY <1>2 DEF WriteRow
    <2>3. astray' <=> astray
      BY <2>2
    <2>4. UNCHANGED astray
      BY <2>2, <2>3 DEF TuiInv, HistoryOK
    <2> DEFINE values == a.values \cup IF ok THEN {<<a.cur>> \o Tail(f)} ELSE {}
    <2>5. \A v \in values : v \in a.values \/ v[1] = a.cur
      BY DEF IsRow
    <2>6. app' = [a EXCEPT !.values = values]
      BY <2>1
    <2> HIDE DEF values
    <2>7. /\ IsApp(app') /\ app'.values = values /\ app'.cur = a.cur /\ app'.info = a.info
          /\ app'.serial = a.serial /\ app'.tab = a.tab /\ app'.rows = a.rows /\ app'.sub = a.sub
          /\ app'.pending = a.pending /\ app'.editor = a.editor /\ app'.login = a.login
          /\ app'.path = a.path /\ app'.prompt = a.prompt /\ app'.quit = a.quit
      BY <2>6 DEF AppOK, IsApp
    <2>8. AppOK(app')
      BY <2>5, <2>7 DEF AppOK, RowsOK, OpenOK, PendingOK, EditorOK, PathOK, LoginOK
    <2>9. QED
      BY <2>4, <2>7, <2>8, ViewKeeps
  <1>3. QED
    BY <1>1, <1>2

(* A step that changes the editors alone leaves the view as it should be.  *)
LEMMA EditorsKeep ==
    ASSUME TuiInv, IsApp(app'), EditorOK(app'), PathOK(app'), LoginOK(app'),
           UNCHANGED <<app.cur, app.info, app.tab, app.rows, app.values, app.sub, app.pending>>
    PROVE  AppOK(app')
  BY DEF TuiInv, AppOK, RowsOK, OpenOK, PendingOK

LEMMA OpenRow ==
    ASSUME TuiInv, HasRows
    PROVE  IsRow(Selected) /\ Selected[1] = app.cur /\ app.cur # NoTui
  <1>1. app.rows.device = app.cur /\ app.cur # NoTui
    BY DEF TuiInv, AppOK, RowsOK, HasRows
  <1>2. QED
    BY <1>1, FieldIsRow DEF Selected

(* The editor of a field.                                                  *)
LEMMA SetEditorKeeps ==
    ASSUME TuiInv, NEW editor, app' = [app EXCEPT !.editor = editor],
           editor # NoTui => IsRow(editor.field) /\ editor.field[1] = app.cur,
           UNCHANGED <<listed, mapSession, behind, unheard, astray>>
    PROVE  TuiInv'
  <1>1. /\ IsApp(app') /\ app'.editor = editor
        /\ UNCHANGED <<app.cur, app.info, app.serial, app.tab, app.rows, app.values, app.sub,
                       app.pending, app.login, app.path, app.prompt, app.quit>>
    BY DEF TuiInv, AppOK, IsApp
  <1>2. EditorOK(app') /\ PathOK(app') /\ LoginOK(app')
    BY <1>1 DEF TuiInv, AppOK, EditorOK, PathOK, LoginOK
  <1>3. AppOK(app')
    BY <1>1, <1>2, EditorsKeep
  <1>4. QED
    BY <1>1, <1>3, ViewKeeps

LEMMA EditingKeys ==
    ASSUME TuiInv, BeginEdit \/ CommitEdit \/ CancelEdit
    PROVE  TuiInv'
  <1>1. CASE BeginEdit
    <2> DEFINE editor == [field |-> Selected, kind |-> Kind]
    <2>1. IsRow(Selected) /\ Selected[1] = app.cur
      BY <1>1, OpenRow DEF BeginEdit
    <2>2. UNCHANGED <<listed, mapSession, behind, unheard>>
      BY <1>1 DEF BeginEdit
    <2>3. \/ WriteRow(app, Selected)
          \/ Set("editor", editor) /\ UNCHANGED astray
          \/ UNCHANGED <<app, astray>>
      BY <1>1 DEF BeginEdit
    <2>4. CASE WriteRow(app, Selected)
      BY <2>1, <2>2, <2>4, WriteRowKeeps DEF TuiInv
    <2>5. CASE Set("editor", editor) /\ UNCHANGED astray
      <3>1. editor.field = Selected
        OBVIOUS
      <3>2. app' = [app EXCEPT !.editor = editor] /\ UNCHANGED astray
        BY <2>5 DEF Set
      <3> HIDE DEF editor
      <3>3. QED
        BY <2>1, <2>2, <3>1, <3>2, SetEditorKeeps
    <2>6. CASE UNCHANGED <<app, astray>>
      BY <2>2, <2>6 DEF TuiInv, HistoryOK
    <2>7. QED
      BY <2>3, <2>4, <2>5, <2>6
  <1>2. CASE CommitEdit
    <2> DEFINE closed == [app EXCEPT !.editor = NoTui]
    <2>1. app.editor # NoTui /\ UNCHANGED <<listed, mapSession, behind, unheard>>
      BY <1>2, OwnerEdits DEF CommitEdit
    <2>2. IsRow(app.editor.field) /\ app.editor.field[1] = app.cur
      BY <2>1 DEF TuiInv, AppOK, EditorOK
    <2>3. WriteRow(closed, app.editor.field) \/ (app' = closed /\ UNCHANGED astray)
      BY <1>2 DEF CommitEdit
    <2>4. CASE app' = closed /\ UNCHANGED astray
      BY <2>1, <2>4, SetEditorKeeps
    <2>5. CASE WriteRow(closed, app.editor.field)
      <3>1. /\ IsApp(closed) /\ closed.cur = app.cur /\ closed.info = app.info
            /\ closed.serial = app.serial /\ closed.tab = app.tab /\ closed.rows = app.rows
            /\ closed.values = app.values /\ closed.sub = app.sub /\ closed.pending = app.pending
            /\ closed.editor = NoTui /\ closed.login = app.login /\ closed.path = app.path
            /\ closed.prompt = app.prompt /\ closed.quit = app.quit
        BY DEF TuiInv, AppOK, IsApp
      <3> HIDE DEF closed
      <3>2. AppOK(closed)
        BY <3>1 DEF TuiInv, AppOK, RowsOK, OpenOK, PendingOK, EditorOK, PathOK, LoginOK
      <3>3. QED
        BY <2>1, <2>2, <2>5, <3>1, <3>2, WriteRowKeeps
    <2>6. QED
      BY <2>3, <2>4, <2>5
  <1>3. CASE CancelEdit
    BY <1>3, SetEditorKeeps DEF CancelEdit, Set
  <1>4. QED
    BY <1>1, <1>2, <1>3

(* Logging in.                                                             *)
LEMMA SetLoginKeeps ==
    ASSUME TuiInv, NEW login, app' = [app EXCEPT !.login = login],
           login # NoTui =>
             login.device # NoTui /\ login = [device |-> login.device, stage |-> login.stage],
           UNCHANGED <<listed, mapSession, behind, unheard, astray>>
    PROVE  TuiInv'
  <1>1. /\ IsApp(app') /\ app'.login = login
        /\ UNCHANGED <<app.cur, app.info, app.serial, app.tab, app.rows, app.values, app.sub,
                       app.pending, app.editor, app.path, app.prompt, app.quit>>
    BY DEF TuiInv, AppOK, IsApp
  <1>2. EditorOK(app') /\ PathOK(app') /\ LoginOK(app')
    BY <1>1 DEF TuiInv, AppOK, EditorOK, PathOK, LoginOK
  <1>3. AppOK(app')
    BY <1>1, <1>2, EditorsKeep
  <1>4. QED
    BY <1>1, <1>3, ViewKeeps

LEMMA CommitLoginKeeps == ASSUME TuiInv, CommitLogin PROVE TuiInv'
  <1> DEFINE closed == [app EXCEPT !.login = NoTui]
             renewed == [closed EXCEPT !.loaded = {}, !.values = {}, !.sub = NoTui]
             reset == [renewed EXCEPT !.rows = NoTui, !.row = 0]
  <1>1. app.login # NoTui /\ UNCHANGED <<listed, mapSession, behind, astray>>
    BY OwnerLogsIn DEF CommitLogin
  <1>2. \/ app' = closed /\ UNCHANGED unheard
        \/ /\ app.login.device = app.cur /\ app.tab = "summary" /\ UNCHANGED unheard
           /\ \E answers \in BOOLEAN :
                app' = [renewed EXCEPT !.info = IF answers THEN app.cur ELSE NoTui]
        \/ app.login.device = app.cur /\ app.tab # "summary" /\ SwitchTab(reset, app.tab)
    BY DEF CommitLogin
  <1>3. renewed = [app EXCEPT !.login = NoTui, !.loaded = {}, !.values = {}, !.sub = NoTui]
    OBVIOUS
  <1>4. CASE app' = closed /\ UNCHANGED unheard
    BY <1>1, <1>4, SetLoginKeeps
  <1> HIDE DEF closed, renewed
  <1>5. /\ IsApp(renewed) /\ renewed.cur = app.cur /\ renewed.info = app.info
        /\ renewed.serial = app.serial /\ renewed.tab = app.tab /\ renewed.rows = app.rows
        /\ renewed.values = {} /\ renewed.sub = NoTui /\ renewed.pending = app.pending
        /\ renewed.editor = app.editor /\ renewed.login = NoTui /\ renewed.path = app.path
        /\ renewed.prompt = app.prompt /\ renewed.quit = app.quit /\ renewed.loaded = {}
    BY <1>3 DEF TuiInv, AppOK, IsApp
  <1>6. CASE /\ app.login.device = app.cur /\ app.tab = "summary" /\ UNCHANGED unheard
             /\ \E answers \in BOOLEAN :
                  app' = [renewed EXCEPT !.info = IF answers THEN app.cur ELSE NoTui]
    <2>1. PICK info \in {NoTui, app.cur} : app' = [renewed EXCEPT !.info = info]
      BY <1>6
    <2>2. /\ IsApp(app') /\ app'.info = info /\ app'.values = {} /\ app'.sub = NoTui
          /\ app'.login = NoTui
          /\ UNCHANGED <<app.cur, app.serial, app.tab, app.rows, app.pending, app.editor,
                         app.path, app.prompt, app.quit>>
      BY <1>5, <2>1 DEF IsApp
    <2>3. AppOK(app')
      BY <2>2 DEF TuiInv, AppOK, RowsOK, OpenOK, PendingOK, EditorOK, PathOK, LoginOK
    <2>4. QED
      BY <1>1, <1>6, <2>2, <2>3, ViewKeeps
  <1>7. CASE app.login.device = app.cur /\ app.tab # "summary" /\ SwitchTab(reset, app.tab)
    <2>1. app.cur # NoTui
      BY <1>1, <1>7 DEF TuiInv, AppOK, LoginOK
    <2>2. reset = [renewed EXCEPT !.rows = NoTui, !.row = 0]
      OBVIOUS
    <2> HIDE DEF reset
    <2>3. /\ IsApp(reset) /\ reset.cur = app.cur /\ reset.info = app.info
          /\ reset.serial = app.serial /\ reset.values = {} /\ reset.sub = NoTui
          /\ reset.editor = app.editor /\ reset.login = NoTui /\ reset.path = app.path
          /\ reset.prompt = app.prompt /\ reset.quit = app.quit /\ reset.loaded = {}
      BY <1>5, <2>2 DEF IsApp
    <2>4. OpenOK(reset) /\ EditorOK(reset) /\ PathOK(reset) /\ LoginOK(reset)
      BY <2>3 DEF TuiInv, AppOK, OpenOK, EditorOK, PathOK, LoginOK
    <2>5. app.tab \notin reset.loaded
      BY <2>3
    <2>6. QED
      BY <1>1, <1>7, <2>1, <2>3, <2>4, <2>5, SwitchTabKeeps
  <1>8. QED
    BY <1>2, <1>4, <1>6, <1>7

LEMMA LoginKeys ==
    ASSUME TuiInv, OpenLogin \/ PickLevel \/ CommitLogin \/ CancelLogin
    PROVE  TuiInv'
  <1>1. CASE OpenLogin
    <2> DEFINE whose == IF app.cur # NoTui THEN app.cur ELSE listed[app.dev]
               login == [device |-> whose, stage |-> "pick"]
    <2>1. whose # NoTui
      BY <1>1, TuiAssumption DEF OpenLogin, TuiInv
    <2>2. app' = [app EXCEPT !.login = login]
      BY <1>1 DEF OpenLogin, Set
    <2> HIDE DEF whose
    <2>3. login.device = whose /\ login = [device |-> login.device, stage |-> login.stage]
      OBVIOUS
    <2> HIDE DEF login
    <2>4. QED
      BY <1>1, <2>1, <2>2, <2>3, SetLoginKeeps DEF OpenLogin
  <1>2. CASE PickLevel
    <2> DEFINE login == [app.login EXCEPT !.stage = "password"]
    <2>1. app' = [app EXCEPT !.login = login]
      BY <1>2 DEF PickLevel
    <2>2. app.login # NoTui
      BY <1>2, OwnerLogsIn DEF PickLevel
    <2>3. /\ login.device # NoTui
          /\ login = [device |-> login.device, stage |-> login.stage]
      BY <2>2 DEF TuiInv, AppOK, LoginOK
    <2> HIDE DEF login
    <2>4. QED
      BY <1>2, <2>1, <2>3, SetLoginKeeps DEF PickLevel
  <1>3. CASE CancelLogin
    BY <1>3, SetLoginKeeps DEF CancelLogin, Set
  <1>4. QED
    BY <1>1, <1>2, <1>3, CommitLoginKeeps

(* The path of a row that is to be mapped.                                 *)
LEMMA PathView ==
    ASSUME TuiInv, NEW path, app' = [app EXCEPT !.path = path],
           path # NoTui => app.cur # NoTui /\ IsEditor(path) /\ path.field[1] = app.cur
    PROVE  AppOK(app') /\ UNCHANGED <<app.cur, app.serial, app.quit, app.prompt>>
  <1>1. /\ IsApp(app') /\ app'.path = path
        /\ UNCHANGED <<app.cur, app.info, app.serial, app.tab, app.rows, app.values, app.sub,
                       app.pending, app.editor, app.login, app.prompt, app.quit>>
    BY DEF TuiInv, AppOK, IsApp
  <1>2. EditorOK(app') /\ PathOK(app') /\ LoginOK(app')
    BY <1>1 DEF TuiInv, AppOK, EditorOK, PathOK, LoginOK
  <1>3. QED
    BY <1>1, <1>2, EditorsKeep

LEMMA SetPathKeeps ==
    ASSUME TuiInv, NEW path, Set("path", path),
           path # NoTui => app.cur # NoTui /\ IsEditor(path) /\ path.field[1] = app.cur,
           UNCHANGED <<listed, mapSession, behind, unheard, astray>>
    PROVE  TuiInv'
  <1>1. app' = [app EXCEPT !.path = path]
    BY DEF Set
  <1>2. AppOK(app') /\ UNCHANGED <<app.cur, app.serial, app.quit, app.prompt>>
    BY <1>1, PathView
  <1>3. QED
    BY <1>2, ViewKeeps

LEMMA PathIsOfOpen ==
    ASSUME TuiInv, Owner = "path"
    PROVE  app.cur # NoTui /\ IsEditor(app.path) /\ app.path.field[1] = app.cur /\ ~app.quit
  BY OwnerMaps DEF TuiInv, AppOK, PathOK

LEMMA PathKeys ==
    ASSUME TuiInv,
           BeginMap \/ TypePath \/ OpenNotify \/ SetTruth \/ BackToPath \/ CancelMap
    PROVE  TuiInv'
  <1>1. ASSUME NEW ed, EditPath(ed), Owner = "path", IsEditor(ed), ed.field = app.path.field
        PROVE  TuiInv'
    <2>1. Set("path", ed) /\ UNCHANGED <<listed, mapSession, behind, unheard, astray>>
      BY <1>1 DEF EditPath
    <2>2. app.cur # NoTui /\ ed.field[1] = app.cur
      BY <1>1, PathIsOfOpen
    <2>3. QED
      BY <1>1, <2>1, <2>2, SetPathKeeps
  <1>2. CASE BeginMap
    <2> DEFINE labels == Kind = "choice"
               known == Entries(app.serial, Selected) # {}
               Ed(path) == [field |-> Selected, labels |-> labels, path |-> path, truth |-> FALSE,
                            existing |-> known, stage |-> "path", offered |-> FALSE]
    <2>1. PICK path \in Paths : Set("path", Ed(path))
      BY <1>2 DEF BeginMap
    <2>2. app.cur # NoTui /\ Selected[1] = app.cur
      BY <1>2, OpenRow DEF BeginMap
    <2>3. UNCHANGED <<listed, mapSession, behind, unheard, astray>>
      BY <1>2 DEF BeginMap
    <2> HIDE DEF labels, known
    <2>4. IsEditor(Ed(path)) /\ Ed(path).field = Selected
      BY DEF IsEditor
    <2> HIDE DEF Ed
    <2>5. QED
      BY <2>1, <2>2, <2>3, <2>4, SetPathKeeps
  <1>3. CASE TypePath \/ OpenNotify \/ SetTruth \/ BackToPath
    <2>1. Owner = "path"
      BY <1>3 DEF TypePath, OpenNotify, SetTruth, BackToPath, AtStage
    <2>2. IsEditor(app.path)
      BY <2>1, PathIsOfOpen
    <2>3. ASSUME NEW ed, EditPath(ed),
                 \/ \E path : ed = [app.path EXCEPT !.path = path]
                 \/ ed = [app.path EXCEPT !.stage = "notify", !.offered = TRUE]
                 \/ \E complete : ed = [app.path EXCEPT !.truth = complete]
                 \/ ed = [app.path EXCEPT !.stage = "path"]
          PROVE  TuiInv'
      <3>1. IsEditor(ed) /\ ed.field = app.path.field
        BY <2>2, <2>3 DEF IsEditor
      <3>2. QED
        BY <1>1, <2>1, <2>3, <3>1
    <2>4. QED
      BY <1>3, <2>3 DEF TypePath, OpenNotify, SetTruth, BackToPath
  <1>4. CASE CancelMap
    <2>1. Set("path", NoTui) /\ UNCHANGED <<listed, mapSession, behind, unheard, astray>>
      BY <1>4 DEF CancelMap
    <2>2. QED
      BY <2>1, SetPathKeeps
  <1>5. QED
    BY <1>2, <1>3, <1>4

(* A change of the mapping: the file falls behind, and the program knows.  *)
LEMMA MappingKeeps ==
    ASSUME TuiInv, AppOK(app'), UNCHANGED <<app.cur, app.serial, app.quit>>, ~app.quit,
           NEW map, NEW dirty, mapSession' = [mapSession EXCEPT !.map = map, !.dirty = dirty],
           mapSession.dirty \/ map # mapSession.map => dirty,
           ~unheard => FiledOK(map),
           Behind, UNCHANGED <<listed, unheard, astray>>
    PROVE  TuiInv'
  <1>1. IsSession(mapSession') /\ mapSession'.map = map /\ mapSession'.dirty = dirty
    BY DEF TuiInv, IsSession
  <1>2. (behind' <=> behind \/ map # mapSession.map) /\ behind' \in BOOLEAN
    BY <1>1 DEF Behind, TuiInv, HistoryOK
  <1>3. behind' => mapSession'.dirty
    BY <1>1, <1>2 DEF TuiInv, HistoryOK
  <1>4. ~unheard' => SerialOK(app') /\ FiledOK(mapSession'.map)
    BY <1>1 DEF TuiInv, HistoryOK, SerialOK
  <1>5. ~app'.quit
    OBVIOUS
  <1>6. HistoryOK'
    BY <1>2, <1>3, <1>4, <1>5 DEF TuiInv, HistoryOK
  <1>7. QED
    BY <1>1, <1>6 DEF TuiInv

LEMMA CommitMapKeeps == ASSUME TuiInv, CommitMap PROVE TuiInv'
  <1> DEFINE offered == app.path.offered \/ app.path.stage = "notify"
             ed == [app.path EXCEPT !.offered = offered]
             f == ed.field
             old == Entries(app.serial, f)
             entry == [serial |-> app.serial, of |-> f[1], field |-> Tail(f)]
  <1>1. /\ app.cur # NoTui /\ IsEditor(app.path) /\ app.path.field[1] = app.cur /\ ~app.quit
    BY PathIsOfOpen DEF CommitMap
  <1>2. Behind /\ UNCHANGED <<listed, unheard, astray>>
    BY DEF CommitMap
  <1>3. \/ Set("path", NoTui) /\ UNCHANGED mapSession
        \/ Set("path", ed) /\ UNCHANGED mapSession
        \/ Set("path", [ed EXCEPT !.stage = "truth"]) /\ UNCHANGED mapSession
        \/ Set("path", [ed EXCEPT !.stage = "notify", !.offered = TRUE]) /\ UNCHANGED mapSession
        \/ /\ Set("path", NoTui)
           /\ mapSession' = [mapSession EXCEPT !.map = (@ \ old) \cup {entry}, !.dirty = TRUE]
    BY DEF CommitMap
  <1> HIDE DEF offered
  <1>4. ed = [app.path EXCEPT !.offered = offered]
    OBVIOUS
  <1>5. ASSUME NEW path, Set("path", path),
               path # NoTui => IsEditor(path) /\ path.field[1] = app.cur
        PROVE  AppOK(app') /\ UNCHANGED <<app.cur, app.serial, app.quit, app.prompt>>
    BY <1>1, <1>5, PathView DEF Set
  <1> HIDE DEF ed
  <1>6. IsEditor(ed) /\ ed.field = app.path.field
    BY <1>1, <1>4 DEF IsEditor
  <1>7. ASSUME NEW path, Set("path", path), UNCHANGED mapSession,
               path # NoTui => IsEditor(path) /\ path.field[1] = app.cur
        PROVE  TuiInv'
    <2>1. AppOK(app') /\ UNCHANGED <<app.cur, app.serial, app.quit, app.prompt>>
      BY <1>5, <1>7
    <2>2. behind' <=> behind
      BY <1>2, <1>7 DEF Behind
    <2>3. UNCHANGED behind
      BY <1>2, <1>7, <2>2 DEF Behind, TuiInv, HistoryOK
    <2>4. QED
      BY <1>2, <1>7, <2>1, <2>3, ViewKeeps
  <1>8. CASE Set("path", NoTui) /\ UNCHANGED mapSession
    BY <1>7, <1>8
  <1>9. CASE Set("path", ed) /\ UNCHANGED mapSession
    BY <1>1, <1>6, <1>7, <1>9
  <1>10. CASE Set("path", [ed EXCEPT !.stage = "truth"]) /\ UNCHANGED mapSession
    <2> DEFINE next == [ed EXCEPT !.stage = "truth"]
    <2>1. next = [ed EXCEPT !.stage = "truth"]
      OBVIOUS
    <2>2. Set("path", next) /\ UNCHANGED mapSession
      BY <1>10
    <2> HIDE DEF next
    <2>3. IsEditor(next) /\ next.field = ed.field
      BY <1>6, <2>1 DEF IsEditor
    <2>4. QED
      BY <1>1, <1>6, <1>7, <2>2, <2>3
  <1>11. CASE /\ Set("path", [ed EXCEPT !.stage = "notify", !.offered = TRUE])
              /\ UNCHANGED mapSession
    <2> DEFINE next == [ed EXCEPT !.stage = "notify", !.offered = TRUE]
    <2>1. next = [ed EXCEPT !.stage = "notify", !.offered = TRUE]
      OBVIOUS
    <2>2. Set("path", next) /\ UNCHANGED mapSession
      BY <1>11
    <2> HIDE DEF next
    <2>3. IsEditor(next) /\ next.field = ed.field
      BY <1>6, <2>1 DEF IsEditor
    <2>4. QED
      BY <1>1, <1>6, <1>7, <2>2, <2>3
  <1>12. CASE /\ Set("path", NoTui)
              /\ mapSession' = [mapSession EXCEPT !.map = (@ \ old) \cup {entry}, !.dirty = TRUE]
    <2> DEFINE map == (mapSession.map \ old) \cup {entry}
    <2>1. AppOK(app') /\ UNCHANGED <<app.cur, app.serial, app.quit, app.prompt>>
      BY <1>5, <1>12
    <2>2. entry.serial = app.serial /\ entry.of = app.cur
      BY <1>1, <1>6
    <2>3. mapSession' = [mapSession EXCEPT !.map = map, !.dirty = TRUE]
      BY <1>12
    <2> HIDE DEF entry, old
    <2>4. ~unheard => FiledOK(map)
      BY <1>1, <2>2 DEF TuiInv, HistoryOK, SerialOK, FiledOK
    <2> HIDE DEF map
    <2>5. QED
      BY <1>1, <1>2, <2>1, <2>3, <2>4, MappingKeeps
  <1>13. QED
    BY <1>3, <1>8, <1>9, <1>10, <1>11, <1>12

LEMMA MappingKeys ==
    ASSUME TuiInv, UnmapSelected \/ ApplyToArticle
    PROVE  TuiInv'
  <1>1. CASE UnmapSelected
    <2> DEFINE old == Entries(app.serial, Selected)
               map == mapSession.map \ old
               dirty == mapSession.dirty \/ old # {}
    <2>1. mapSession' = [mapSession EXCEPT !.map = map, !.dirty = dirty]
      BY <1>1 DEF UnmapSelected
    <2>2. Behind /\ UNCHANGED <<listed, app, unheard, astray>> /\ ~app.quit
      BY <1>1, OwnerBrowses DEF UnmapSelected
    <2>3. mapSession.dirty \/ map # mapSession.map => dirty
      OBVIOUS
    <2>4. ~unheard => FiledOK(map)
      BY DEF TuiInv, HistoryOK, FiledOK
    <2>5. AppOK(app')
      BY <2>2 DEF TuiInv
    <2> HIDE DEF map, dirty
    <2>6. QED
      BY <2>1, <2>2, <2>3, <2>4, <2>5, MappingKeeps
  <1>2. CASE ApplyToArticle
    <2> DEFINE source == {e \in mapSession.map : e.serial = app.serial}
               targets == Range(listed) \ {app.serial}
               Copy(t) == {[serial |-> t, of |-> t, field |-> e.field] :
                               e \in {e \in source : e.field[1] = "monitoring"}}
               Copies(known) == UNION {Copy(t) : t \in known}
               Kept(copies) == {e \in mapSession.map :
                                  ~(\E c \in copies : c.serial = e.serial /\ c.field = e.field)}
    <2>1. PICK known \in SUBSET targets \ {{}} :
            mapSession' = [mapSession EXCEPT !.map = Kept(Copies(known)) \cup Copies(known),
                                             !.dirty = TRUE]
      BY <1>2 DEF ApplyToArticle
    <2> DEFINE map == Kept(Copies(known)) \cup Copies(known)
    <2>2. mapSession' = [mapSession EXCEPT !.map = map, !.dirty = TRUE]
      BY <2>1
    <2>3. FiledOK(Copies(known))
      BY DEF FiledOK
    <2>4. Kept(Copies(known)) \subseteq mapSession.map
      OBVIOUS
    <2> HIDE DEF Kept, Copies
    <2>5. ~unheard => FiledOK(map)
      BY <2>3, <2>4 DEF TuiInv, HistoryOK, FiledOK
    <2>6. Behind /\ UNCHANGED <<listed, app, unheard, astray>> /\ ~app.quit
      BY <1>2, OwnerBrowses DEF ApplyToArticle
    <2>7. AppOK(app')
      BY <2>6 DEF TuiInv
    <2> HIDE DEF map
    <2>8. QED
      BY <2>2, <2>5, <2>6, <2>7, MappingKeeps
  <1>3. QED
    BY <1>1, <1>2

(* The end: what is not in the file is known not to be.                    *)
LEMMA QuitKeeps ==
    ASSUME TuiInv, NEW prompt, NEW quit, app' = [app EXCEPT !.prompt = prompt, !.quit = quit]
    PROVE  AppOK(app') /\ app'.prompt = prompt /\ app'.quit = quit
           /\ UNCHANGED <<app.cur, app.serial>>
  <1>1. /\ IsApp(app') /\ app'.prompt = prompt /\ app'.quit = quit
        /\ UNCHANGED <<app.cur, app.info, app.serial, app.tab, app.rows, app.values, app.sub,
                       app.pending, app.editor, app.login, app.path>>
    BY DEF TuiInv, AppOK, IsApp
  <1>2. EditorOK(app') /\ PathOK(app') /\ LoginOK(app')
    BY <1>1 DEF TuiInv, AppOK, EditorOK, PathOK, LoginOK
  <1>3. QED
    BY <1>1, <1>2, EditorsKeep

LEMMA SaveKeeps ==
    ASSUME TuiInv, NEW ok, Save(ok)
    PROVE  /\ IsSession(mapSession') /\ mapSession'.map = mapSession.map
           /\ behind' \in BOOLEAN /\ (behind' => mapSession'.dirty)
           /\ (ok => ~behind')
  BY DEF Save, TuiInv, IsSession, HistoryOK

LEMMA EndKeys ==
    ASSUME TuiInv, SaveMapping \/ QuitChecked \/ ChooseQuit
    PROVE  TuiInv'
  <1>1. ASSUME NEW ok, Save(ok), AppOK(app'), UNCHANGED <<app.cur, app.serial>>,
               UNCHANGED <<listed, unheard, astray>>,
               behind' /\ app'.quit => app'.prompt = "discard"
        PROVE  TuiInv'
    <2>1. /\ IsSession(mapSession') /\ mapSession'.map = mapSession.map
          /\ behind' \in BOOLEAN /\ (behind' => mapSession'.dirty)
      BY <1>1, SaveKeeps
    <2>2. ~unheard' => SerialOK(app') /\ FiledOK(mapSession'.map)
      BY <1>1, <2>1 DEF TuiInv, HistoryOK, SerialOK
    <2>3. HistoryOK'
      BY <1>1, <2>1, <2>2 DEF TuiInv, HistoryOK
    <2>4. QED
      BY <1>1, <2>1, <2>3 DEF TuiInv
  <1>2. CASE SaveMapping
    <2>1. PICK ok \in BOOLEAN : Save(ok)
      BY <1>2 DEF SaveMapping
    <2>2. ~app.quit /\ UNCHANGED <<listed, app, unheard, astray>>
      BY <1>2, OwnerBrowses DEF SaveMapping, Browsing
    <2>3. AppOK(app')
      BY <2>2 DEF TuiInv
    <2>4. QED
      BY <1>1, <2>1, <2>2, <2>3
  <1>3. CASE QuitChecked
    <2>1. ~app.quit
      BY <1>3 DEF QuitChecked, Browsing, Owner
    <2>2. UNCHANGED <<listed, mapSession, behind, unheard, astray>>
      BY <1>3 DEF QuitChecked
    <2>3. CASE mapSession.dirty
      <3>1. app' = [app EXCEPT !.prompt = "write", !.quit = app.quit]
        BY <1>3, <2>3 DEF QuitChecked, TuiInv, AppOK, IsApp
      <3>2. AppOK(app') /\ UNCHANGED <<app.cur, app.serial>> /\ app'.quit = app.quit
        BY <3>1, QuitKeeps
      <3>3. HistoryOK'
        BY <2>1, <2>2, <3>2 DEF TuiInv, HistoryOK, SerialOK
      <3>4. QED
        BY <2>2, <3>2, <3>3 DEF TuiInv
    <2>4. CASE ~mapSession.dirty
      <3>1. app' = [app EXCEPT !.prompt = app.prompt, !.quit = TRUE]
        BY <1>3, <2>4 DEF QuitChecked, TuiInv, AppOK, IsApp
      <3>2. AppOK(app') /\ UNCHANGED <<app.cur, app.serial>>
        BY <3>1, QuitKeeps
      <3>3. HistoryOK'
        BY <2>2, <2>4, <3>2 DEF TuiInv, HistoryOK, SerialOK
      <3>4. QED
        BY <2>2, <3>2, <3>3 DEF TuiInv
    <2>5. QED
      BY <2>3, <2>4
  <1>4. CASE ChooseQuit
    <2>1. ~app.quit /\ UNCHANGED <<listed, unheard, astray>>
      BY <1>4, OwnerIsAsked DEF ChooseQuit
    <2>2. CASE Save(TRUE) /\ app' = [app EXCEPT !.prompt = NoTui, !.quit = TRUE]
      BY <1>1, <2>1, <2>2, QuitKeeps, SaveKeeps
    <2>3. CASE app' = [app EXCEPT !.prompt = NoTui] /\ Save(FALSE)
      <3>1. app' = [app EXCEPT !.prompt = NoTui, !.quit = app.quit]
        BY <2>3 DEF TuiInv, AppOK, IsApp
      <3>2. QED
        BY <1>1, <2>1, <2>3, <3>1, QuitKeeps
    <2>4. CASE app' = [app EXCEPT !.prompt = "discard", !.quit = TRUE] /\ Save(FALSE)
      BY <1>1, <2>1, <2>4, QuitKeeps
    <2>5. QED
      BY <1>4, <2>2, <2>3, <2>4 DEF ChooseQuit
  <1>5. QED
    BY <1>2, <1>3, <1>4

LEMMA TuiNextKeeps == TuiInv /\ [TuiNext]_tuiVars => TuiInv'
  <1> SUFFICES ASSUME TuiInv, [TuiNext]_tuiVars PROVE TuiInv'
    OBVIOUS
  <1>1. CASE Keys
    BY <1>1, PlainKeys, ReadingKeys, NavigationKeeps, EditingKeys, LoginKeys, PathKeys,
       CommitMapKeeps, MappingKeys, EndKeys DEF Keys
  <1>2. CASE Between
    BY <1>2, BetweenKeeps
  <1>3. CASE UNCHANGED tuiVars
    BY <1>3 DEF tuiVars, TuiInv, HistoryOK
  <1>4. QED
    BY <1>1, <1>2, <1>3 DEF TuiNext

(* Whatever keys are pressed, whichever discoveries end, fail or are given *)
(* up in between, and however many devices and tabs there are: what the    *)
(* screen shows is of the open device and tab, a write goes to the device  *)
(* of the row that was edited, entries are filed under the serial of their *)
(* device as long as each opened one has said who it is, and no change of  *)
(* the mapping is lost without having been discarded.                      *)
THEOREM EditsReachTheirDevice == TuiSpec => []WhatIsShownIsEdited
  <1>1. TuiInv => WhatIsShownIsEdited
    BY DEF TuiInv, AppOK, RowsOK, OpenOK, HistoryOK, FiledOK, WhatIsShownIsEdited, OneDeviceShown
  <1>2. QED
    BY InitialTui, TuiNextKeeps, <1>1, PTL DEF TuiSpec

-----------------------------------------------------------------------------
(* Signal K.  Arithmetic: ratios have one form in lowest terms.            *)

(* The natural numbers are well founded: a set of them that is not empty   *)
(* has a least element.                                                    *)
LEMMA LeastOf ==
  ASSUME NEW q \in Nat, NEW T, T \subseteq 1..q, T # {}
  PROVE  \E x \in T : \A y \in T : x <= y
  <1> DEFINE U == {1..d : d \in T}
  <1>1. IsFiniteSet(1..q)
    BY FS_Interval
  <1>2. IsWellFoundedOn(StrictSubsetOrdering(1..q), FiniteSubsetsOf(1..q))
    BY FS_StrictSubsetOrderingWellFounded
  <1>3. \A d \in T : 1..d \in FiniteSubsetsOf(1..q)
    <2> TAKE d \in T
    <2>1. 1..d \subseteq 1..q
      OBVIOUS
    <2>2. IsFiniteSet(1..d)
      BY <1>1, <2>1, FS_Subset
    <2>3. QED
      BY <2>1, <2>2 DEF FiniteSubsetsOf
  <1>4. U \subseteq FiniteSubsetsOf(1..q) /\ U # {}
    BY <1>3
  <1>5. PICK u \in U : \A v \in U : <<v, u>> \notin StrictSubsetOrdering(1..q)
    <2> HIDE DEF U
    <2>1. QED
      BY <1>2, <1>4, WFMin
  <1>6. PICK x \in T : u = 1..x
    OBVIOUS
  <1>7. ASSUME NEW y \in T, y < x PROVE FALSE
    <2>1. 1..y \in U
      OBVIOUS
    <2>2. 1..y \subseteq 1..x /\ 1..y # 1..x
      <3>1. x \in 1..x /\ x \notin 1..y
        BY <1>7
      <3>2. QED BY <1>7, <3>1
    <2>3. <<1..y, 1..x>> \in StrictSubsetOrdering(1..q)
      <3>1. 1..y \in SUBSET (1..q) /\ 1..x \in SUBSET (1..q)
        OBVIOUS
      <3>2. QED BY <2>2, <3>1 DEF StrictSubsetOrdering
    <2>4. QED
      BY <1>5, <1>6, <2>1, <2>3
  <1>8. QED
    BY <1>7

(* Division without remainder.                                             *)
LEMMA DivMul ==
  ASSUME NEW a \in Int, NEW q \in Nat \ {0}, a % q = 0
  PROVE  a = q * (a \div q) /\ a \div q \in Int
  OBVIOUS

LEMMA MulDiv ==
  ASSUME NEW n \in Int, NEW q \in Nat \ {0}
  PROVE  (q * n) % q = 0 /\ (q * n) \div q = n
  <1> DEFINE a == q * n
             k == a \div q
             r == a % q
  <1>1. a \in Int
    OBVIOUS
  <1>2. k \in Int /\ r \in 0..(q - 1) /\ a = (q * k) + r
    <2> HIDE DEF a
    <2> QED
      BY <1>1
  <1>3. q * (n - k) = r
    <2> HIDE DEF k, r
    <2> QED
      BY <1>2
  <1>4. n - k = 0
    <2> HIDE DEF k, r
    <2>1. CASE n - k >= 1
      <3>1. q * (n - k) >= q
        BY <1>2, <2>1
      <3>2. QED
        BY <1>2, <1>3, <3>1
    <2>2. CASE n - k <= -1
      <3>1. q * (n - k) <= -q
        BY <1>2, <2>2
      <3>2. QED
        BY <1>2, <1>3, <3>1
    <2>3. QED
      BY <1>2, <2>1, <2>2
  <1>5. k = n /\ r = 0
    <2> HIDE DEF k, r
    <2>1. k = n
      BY <1>2, <1>4
    <2>2. QED
      BY <1>3, <1>4, <2>1
  <1>6. QED
    BY <1>5

(* A factor can be cancelled.                                              *)
LEMMA Cancel ==
  ASSUME NEW a \in Int, NEW b \in Int, NEW q \in Nat \ {0}, q * a = q * b
  PROVE  a = b
  <1>1. q * (a - b) = 0
    OBVIOUS
  <1>2. CASE a - b >= 1
    <2>1. q * (a - b) >= q
      BY <1>2
    <2> QED
      BY <1>1, <2>1
  <1>3. CASE a - b <= -1
    <2>1. q * (a - b) <= -q
      BY <1>3
    <2> QED
      BY <1>1, <2>1
  <1>4. QED
    BY <1>2, <1>3

(* The least denominator of a ratio is one of those it can be written      *)
(* with.                                                                   *)
LEMMA DenIs ==
  ASSUME NEW p \in Int, NEW q \in Nat \ {0}
  PROVE  /\ Den(p, q) \in 1..q /\ (p * Den(p, q)) % q = 0
         /\ \A e \in 1..q : (p * e) % q = 0 => Den(p, q) <= e
  <1> DEFINE T == Denominators(p, q)
  <1>1. (p * q) % q = 0
    <2>1. (q * p) % q = 0 /\ q * p = p * q
      BY MulDiv
    <2>2. QED
      BY <2>1
  <1>2. q \in T /\ T \subseteq 1..q
    BY <1>1 DEF Denominators
  <1>3. \E x \in T : \A y \in T : x <= y
    <2> HIDE DEF T
    <2> QED
      BY <1>2, LeastOf
  <1>4. Den(p, q) \in T /\ \A e \in T : Den(p, q) <= e
    BY <1>3 DEF Den
  <1>5. QED
    BY <1>4 DEF Denominators

(* A ratio written in lowest terms is the ratio.                           *)
LEMMA RatioIs ==
  ASSUME NEW p \in Int, NEW q \in Nat \ {0}, NEW r, r = Ratio(p, q)
  PROVE  r \in Rationals /\ r[1] * q = p * r[2]
  <1> DEFINE d == Den(p, q)
             n == (p * d) \div q
  <1>1. d \in 1..q /\ (p * d) % q = 0
    BY DenIs
  <1>2. p * d \in Int
    BY <1>1
  <1>3. p * d = q * n /\ n \in Int
    BY <1>1, <1>2, DivMul
  <1>4. r = <<n, d>>
    BY DEF Ratio
  <1>5. n * q = p * d
    <2> HIDE DEF n, d
    <2> QED
      BY <1>3
  <1>6. d \in Nat \ {0}
    BY <1>1
  <1>7. QED
    <2> HIDE DEF n, d
    <2> QED
      BY <1>3, <1>4, <1>5, <1>6 DEF Rationals

(* The least denominator divides every other.                              *)
LEMMA DenDivides ==
  ASSUME NEW p \in Int, NEW q \in Nat \ {0}, NEW x \in Int, NEW y \in Nat \ {0},
         p * y = x * q, NEW e \in Nat \ {0}, (x * e) % y = 0
  PROVE  (p * e) % q = 0
  <1> DEFINE n == (x * e) \div y
  <1>1. x * e = y * n /\ n \in Int
    <2>1. x * e \in Int
      OBVIOUS
    <2>2. QED
      BY <2>1, DivMul
  <1>2. y * (p * e) = y * (q * n)
    <2> HIDE DEF n
    <2>1. y * (p * e) = (p * y) * e
      OBVIOUS
    <2>2. (x * q) * e = q * (x * e)
      OBVIOUS
    <2>3. q * (y * n) = y * (q * n)
      BY <1>1
    <2>4. (p * y) * e = (x * q) * e
      OBVIOUS
    <2>5. q * (x * e) = q * (y * n)
      BY <1>1
    <2>6. QED
      BY <2>1, <2>2, <2>3, <2>4, <2>5, Zenon
  <1>3. p * e = q * n
    <2> HIDE DEF n
    <2>1. p * e \in Int /\ q * n \in Int
      BY <1>1
    <2>2. QED
      BY <1>2, <2>1, Cancel, Zenon
  <1>4. (q * n) % q = 0
    BY <1>1, MulDiv
  <1>5. QED
    BY <1>3, <1>4

LEMMA DenAtMost ==
  ASSUME NEW p \in Int, NEW q \in Nat \ {0}, NEW x \in Int, NEW y \in Nat \ {0}, p * y = x * q,
         NEW e, e = Den(x, y)
  PROVE  Den(p, q) <= e
  <1>1. e \in 1..y /\ (x * e) % y = 0
    BY DenIs
  <1>2. e \in Nat \ {0}
    BY <1>1
  <1>3. (p * e) % q = 0
    <2>1. \A d \in Nat \ {0} : (x * d) % y = 0 => (p * d) % q = 0
      BY DenDivides
    <2>2. QED
      BY <1>1, <1>2, <2>1
  <1>4. Den(p, q) \in 1..q /\ \A c \in 1..q : (p * c) % q = 0 => Den(p, q) <= c
    BY DenIs
  <1>5. CASE e \in 1..q
    BY <1>3, <1>4, <1>5
  <1>6. CASE e \notin 1..q
    <2>1. e >= q
      BY <1>2, <1>6
    <2>2. QED
      BY <1>2, <1>4, <2>1
  <1>7. QED
    BY <1>5, <1>6

(* Equal ratios are written the same way.                                  *)
LEMMA RatioSame ==
  ASSUME NEW p \in Int, NEW q \in Nat \ {0}, NEW x \in Int, NEW y \in Nat \ {0}, p * y = x * q
  PROVE  Ratio(p, q) = Ratio(x, y)
  <1>1. x * q = p * y
    OBVIOUS
  <1>2. Den(p, q) \in Int /\ Den(x, y) \in Int
    BY DenIs
  <1>3. Den(p, q) = Den(x, y)
    <2>1. Den(p, q) <= Den(x, y)
      BY DenAtMost
    <2>2. Den(x, y) <= Den(p, q)
      BY <1>1, DenAtMost
    <2>3. QED
      BY <1>2, <2>1, <2>2
  <1> DEFINE d == Den(p, q)
             n == (p * d) \div q
             m == (x * d) \div y
  <1>4. d \in Nat \ {0} /\ (p * d) % q = 0 /\ (x * d) % y = 0
    <2>1. Den(p, q) \in 1..q /\ (p * Den(p, q)) % q = 0
      BY DenIs
    <2>2. (x * Den(x, y)) % y = 0
      BY DenIs
    <2>3. QED
      BY <1>3, <2>1, <2>2
  <1>5. p * d = q * n /\ n \in Int /\ x * d = y * m /\ m \in Int
    <2> HIDE DEF d
    <2>1. p * d \in Int /\ x * d \in Int
      BY <1>4
    <2>2. QED
      BY <1>4, <2>1, DivMul
  <1>6. n = m
    <2> HIDE DEF d, n, m
    <2>1. q * (y * n) = q * (y * m)
      <3>1. q * (y * n) = y * (q * n)
        BY <1>5
      <3>2. y * (p * d) = d * (p * y)
        BY <1>4
      <3>3. d * (x * q) = q * (x * d)
        BY <1>4
      <3>4. QED
        BY <1>5, <3>1, <3>2, <3>3
    <2>2. y * n \in Int /\ y * m \in Int
      BY <1>5
    <2>3. y * n = y * m
      BY <2>1, <2>2, Cancel
    <2>4. QED
      BY <1>5, <2>3, Cancel
  <1>7. QED
    BY <1>3, <1>6 DEF Ratio

LEMMA RatioIsLowest ==
  ASSUME NEW p \in Int, NEW q \in Nat \ {0}, NEW r, r = Ratio(p, q)
  PROVE  IsLowest(r)
  <1>1. r \in Rationals /\ r[1] * q = p * r[2]
    BY RatioIs
  <1>2. r[1] \in Int /\ r[2] \in Nat \ {0}
    BY <1>1 DEF Rationals
  <1>3. Ratio(r[1], r[2]) = r
    BY <1>1, <1>2, RatioSame
  <1>4. QED
    BY <1>1, <1>3 DEF IsLowest

-----------------------------------------------------------------------------
(* Conversions and their inverses.                                         *)

(* Scaling is undone by the inverse scale, and shifting by the shift back. *)
LEMMA ScaleBack ==
  ASSUME NEW d1 \in Int, NEW u1 \in Int, NEW w1 \in Int,
         NEW d2 \in Nat \ {0}, NEW u2 \in Nat \ {0}, NEW w2 \in Nat \ {0},
         NEW s1 \in Nat \ {0}, NEW s2 \in Nat \ {0},
         u1 * (d2 * s1) = (d1 * s2) * u2, w1 * (u2 * s2) = (u1 * s1) * w2
  PROVE  w1 * d2 = d1 * w2
  <1>1. (u2 * s2) * (w1 * d2) = d2 * (w1 * (u2 * s2))
    OBVIOUS
  <1>2. d2 * (w1 * (u2 * s2)) = d2 * ((u1 * s1) * w2)
    OBVIOUS
  <1>3. d2 * ((u1 * s1) * w2) = w2 * (u1 * (d2 * s1))
    OBVIOUS
  <1>4. w2 * (u1 * (d2 * s1)) = w2 * ((d1 * s2) * u2)
    OBVIOUS
  <1>5. w2 * ((d1 * s2) * u2) = (u2 * s2) * (d1 * w2)
    OBVIOUS
  <1>6. (u2 * s2) * (w1 * d2) = (u2 * s2) * (d1 * w2)
    BY <1>1, <1>2, <1>3, <1>4, <1>5, Zenon
  <1>7. u2 * s2 \in Nat \ {0} /\ w1 * d2 \in Int /\ d1 * w2 \in Int
    OBVIOUS
  <1>8. QED
    <2>1. \A a, b \in Int : (u2 * s2) * a = (u2 * s2) * b => a = b
      BY <1>7, Cancel, Zenon
    <2>2. QED
      BY <1>6, <1>7, <2>1, Zenon

LEMMA ShiftBack ==
  ASSUME NEW d1 \in Int, NEW x1 \in Int, NEW o1 \in Int, NEW n1 \in Int, NEW w1 \in Int,
         NEW d2 \in Nat \ {0}, NEW x2 \in Nat \ {0}, NEW o2 \in Nat \ {0}, NEW w2 \in Nat \ {0},
         d1 * (x2 * o2) = ((x1 * o2) + (n1 * x2)) * d2, w1 * d2 = d1 * w2, n1 = -o1
  PROVE  ((w1 * o2) + (o1 * w2)) * x2 = x1 * (w2 * o2)
  <1>1. d2 * (w1 * (x2 * o2)) = (x2 * o2) * (w1 * d2)
    OBVIOUS
  <1>2. (x2 * o2) * (w1 * d2) = (x2 * o2) * (d1 * w2)
    OBVIOUS
  <1>3. (x2 * o2) * (d1 * w2) = w2 * (d1 * (x2 * o2))
    OBVIOUS
  <1>4. w2 * (d1 * (x2 * o2)) = w2 * (((x1 * o2) + (n1 * x2)) * d2)
    OBVIOUS
  <1>5. w2 * (((x1 * o2) + (n1 * x2)) * d2) = d2 * (w2 * ((x1 * o2) + (n1 * x2)))
    OBVIOUS
  <1>6. d2 * (w1 * (x2 * o2)) = d2 * (w2 * ((x1 * o2) + (n1 * x2)))
    BY <1>1, <1>2, <1>3, <1>4, <1>5, Zenon
  <1>7. w1 * (x2 * o2) \in Int /\ w2 * ((x1 * o2) + (n1 * x2)) \in Int
    OBVIOUS
  <1>8. w1 * (x2 * o2) = w2 * ((x1 * o2) + (n1 * x2))
    BY <1>6, <1>7, Cancel, Zenon
  <1>9. w2 * ((x1 * o2) + (n1 * x2)) = (x1 * (w2 * o2)) - ((o1 * w2) * x2)
    OBVIOUS
  <1>10. ((w1 * o2) + (o1 * w2)) * x2 = (w1 * (x2 * o2)) + ((o1 * w2) * x2)
    OBVIOUS
  <1>11. QED
    BY <1>8, <1>9, <1>10

(* A conversion has a positive scale, so it can be undone.                 *)
IsConversion(conv) ==
  /\ conv.scale \in (Nat \ {0}) \X (Nat \ {0})
  /\ conv.offset \in Rationals

LEMMA RatioTyped ==
  ASSUME NEW p \in Int, NEW q \in Nat \ {0}, NEW r, r = Ratio(p, q)
  PROVE  r[1] \in Int /\ r[2] \in Nat \ {0} /\ r[1] * q = p * r[2]
  BY RatioIs DEF Rationals

LEMMA ShiftedBack ==
  ASSUME NEW x \in Rationals, NEW o \in Rationals, NEW w \in Rationals, NEW d \in Rationals,
         d[1] * (x[2] * o[2]) = ((x[1] * o[2]) + ((-o[1]) * x[2])) * d[2], w[1] * d[2] = d[1] * w[2]
  PROVE  ((w[1] * o[2]) + (o[1] * w[2])) * x[2] = x[1] * (w[2] * o[2])
  <1> DEFINE x1 == x[1]  x2 == x[2]  o1 == o[1]  o2 == o[2]  n1 == -o1
             w1 == w[1]  w2 == w[2]  d1 == d[1]  d2 == d[2]
  <1>1. /\ x1 \in Int /\ o1 \in Int /\ w1 \in Int /\ d1 \in Int
        /\ x2 \in Nat \ {0} /\ o2 \in Nat \ {0} /\ w2 \in Nat \ {0} /\ d2 \in Nat \ {0}
    BY DEF Rationals
  <1>2. d1 * (x2 * o2) = ((x1 * o2) + (n1 * x2)) * d2 /\ w1 * d2 = d1 * w2
    OBVIOUS
  <1> HIDE DEF x1, x2, o1, o2, w1, w2, d1, d2
  <1>3. n1 \in Int /\ n1 = -o1
    BY <1>1
  <1> HIDE DEF n1
  <1>4. ((w1 * o2) + (o1 * w2)) * x2 = x1 * (w2 * o2)
    BY <1>1, <1>2, <1>3, ShiftBack
  <1>5. QED
    BY <1>4 DEF x1, x2, o1, o2, w1, w2

(* A PUT is converted to the device's unit by undoing the conversion of    *)
(* what is shown.                                                          *)
LEMMA ConversionsUndo ==
  ASSUME NEW conv, IsConversion(conv), NEW x, IsLowest(x)
  PROVE  Unapply(conv, x) \in Rationals /\ Apply(conv, Unapply(conv, x)) = x
  <1> DEFINE s1 == conv.scale[1]  s2 == conv.scale[2]
             o == conv.offset
  <1>1. /\ s1 \in Nat \ {0} /\ s2 \in Nat \ {0} /\ o[1] \in Int /\ o[2] \in Nat \ {0}
        /\ x[1] \in Int /\ x[2] \in Nat \ {0}
    BY DEF IsConversion, IsLowest, Rationals
  <1>2. x \in Rationals /\ o \in Rationals
    BY DEF IsConversion, IsLowest
  <1> DEFINE dp == (x[1] * o[2]) + ((-o[1]) * x[2])
             dq == x[2] * o[2]
             d == Ratio(dp, dq)
             up == d[1] * s2
             uq == d[2] * s1
             u == Ratio(up, uq)
             wp == u[1] * s1
             wq == u[2] * s2
             w == Ratio(wp, wq)
             rp == (w[1] * o[2]) + (o[1] * w[2])
             rq == w[2] * o[2]
  <1>3. Unapply(conv, x) = u /\ Apply(conv, u) = Ratio(rp, rq)
    BY DEF Unapply, Apply, Minus, Plus, Times
  <1> HIDE DEF s1, s2, o
  <1>4. dp \in Int /\ dq \in Nat \ {0}
    BY <1>1
  <1>5. d[1] \in Int /\ d[2] \in Nat \ {0} /\ d[1] * dq = dp * d[2]
    <2> HIDE DEF dp, dq
    <2> QED
      BY <1>4, RatioTyped
  <1>6. d \in Rationals
    <2> HIDE DEF dp, dq
    <2> QED
      BY <1>4, RatioIs
  <1> HIDE DEF d
  <1>7. up \in Int /\ uq \in Nat \ {0}
    BY <1>1, <1>5
  <1>8. u \in Rationals /\ u[1] \in Int /\ u[2] \in Nat \ {0} /\ u[1] * uq = up * u[2]
    <2> HIDE DEF up, uq
    <2> QED
      BY <1>7, RatioTyped, RatioIs
  <1> HIDE DEF u
  <1>9. wp \in Int /\ wq \in Nat \ {0}
    BY <1>1, <1>8
  <1>10. w[1] \in Int /\ w[2] \in Nat \ {0} /\ w[1] * wq = wp * w[2]
    <2> HIDE DEF wp, wq
    <2> QED
      BY <1>9, RatioTyped
  <1>11. w \in Rationals /\ d \in Rationals
    <2> HIDE DEF wp, wq
    <2> QED
      BY <1>9, <1>6, RatioIs
  <1> HIDE DEF w
  <1>12. w[1] * d[2] = d[1] * w[2]
    <2>1. u[1] * (d[2] * s1) = (d[1] * s2) * u[2] /\ w[1] * (u[2] * s2) = (u[1] * s1) * w[2]
      BY <1>8, <1>10
    <2> HIDE DEF up, uq, wp, wq, dp, dq
    <2>2. \A a1, b1, c1 \in Int, a2, b2, c2 \in Nat \ {0} :
            b1 * (a2 * s1) = (a1 * s2) * b2 /\ c1 * (b2 * s2) = (b1 * s1) * c2 => c1 * a2 = a1 * c2
      BY <1>1, ScaleBack
    <2>3. QED
      BY <1>5, <1>8, <1>10, <2>1, <2>2
  <1>13. rp * x[2] = x[1] * rq
    <2>1. d[1] * (x[2] * o[2]) = ((x[1] * o[2]) + ((-o[1]) * x[2])) * d[2]
      BY <1>5
    <2>2. ((w[1] * o[2]) + (o[1] * w[2])) * x[2] = x[1] * (w[2] * o[2])
      BY <1>12, <1>11, <1>2, <2>1, ShiftedBack
    <2>3. QED
      BY <2>2
  <1>14. rp \in Int /\ rq \in Nat \ {0}
    BY <1>1, <1>10
  <1>15. Ratio(rp, rq) = Ratio(x[1], x[2])
    <2> HIDE DEF rp, rq
    <2> QED
      BY <1>1, <1>13, <1>14, RatioSame
  <1>16. QED
    BY <1>3, <1>8, <1>15 DEF IsLowest

(* What is shown is written one way, and so is compared as it is.          *)
LEMMA AppliedIsLowest ==
  ASSUME NEW conv, IsConversion(conv), NEW v \in Rationals
  PROVE  IsLowest(Apply(conv, v))
  <1> DEFINE s1 == conv.scale[1]  s2 == conv.scale[2]
             o1 == conv.offset[1] o2 == conv.offset[2]
  <1>1. /\ s1 \in Nat \ {0} /\ s2 \in Nat \ {0} /\ o1 \in Int /\ o2 \in Nat \ {0}
        /\ v[1] \in Int /\ v[2] \in Nat \ {0}
    BY DEF IsConversion, Rationals
  <1> DEFINE w == Ratio(v[1] * s1, v[2] * s2)
             rp == (w[1] * o2) + (o1 * w[2])
             rq == w[2] * o2
  <1>2. Apply(conv, v) = Ratio(rp, rq)
    BY DEF Apply, Plus, Times
  <1> HIDE DEF s1, s2, o1, o2
  <1>3. w[1] \in Int /\ w[2] \in Nat \ {0}
    <2> DEFINE wp == v[1] * s1
               wq == v[2] * s2
    <2>1. wp \in Int /\ wq \in Nat \ {0}
      BY <1>1
    <2> HIDE DEF wp, wq
    <2>2. Ratio(wp, wq)[1] \in Int /\ Ratio(wp, wq)[2] \in Nat \ {0}
      BY <2>1, RatioTyped
    <2>3. QED
      BY <2>2 DEF wp, wq
  <1> HIDE DEF w
  <1>4. rp \in Int /\ rq \in Nat \ {0}
    BY <1>1, <1>3
  <1>5. IsLowest(Ratio(rp, rq))
    <2> HIDE DEF rp, rq
    <2> QED
      BY <1>4, RatioIsLowest
  <1>6. QED
    BY <1>2, <1>5

-----------------------------------------------------------------------------
(* Plans.                                                                  *)

IsTable(truth) == DOMAIN truth \subseteq Labels /\ \A l \in DOMAIN truth : truth[l] \in BOOLEAN
IsPlan(plan) == IsConversion(plan.conv) /\ plan.invert \in BOOLEAN /\ IsTable(plan.truth)

(* Every conversion of units.rs can be undone.                             *)
LEMMA SiIsConversion ==
  ASSUME NEW unit, HasSi(unit)
  PROVE  IsConversion(ToSi(unit).conv)
  <1> DEFINE u == Normalize(unit)
  <1>1. u \in SiUnits
    BY DEF HasSi
  <1>2. \A p, q \in Nat \ {0} : IsConversion(Conv(p, q))
    BY DEF IsConversion, Conv, Rationals
  <1>3. \A w : \A p, q \in Nat \ {0} : IsConversion(Si(w, p, q).conv)
    BY <1>2 DEF Si
  <1>4. CASE u = "degC"
    <2>1. ToSi(unit).conv = [scale |-> <<1, 1>>, offset |-> <<5463, 20>>]
      BY <1>4, SMT DEF ToSi
    <2>2. QED
      BY <2>1, SMT DEF IsConversion, Rationals
  <1>5. CASE u # "degC"
    <2>1. \E w : \E p, q \in Nat \ {0} : ToSi(unit) = Si(w, p, q)
      BY <1>5, SMT DEF ToSi
    <2>2. QED
      BY <1>3, <2>1
  <1>6. QED
    BY <1>4, <1>5

LEMMA IdentityIsConversion == IsConversion(Identity)
  BY DEF Identity, Conv, IsConversion, Rationals

(* Completing a table of labels gives a table.                             *)
LEMMA TablesAreTyped ==
  ASSUME NEW options \in Seq(Labels), NEW truth, IsTable(truth), NEW t \in Completed(truth, options)
  PROVE  IsTable(t)
  <1>1. ToSet(options) \subseteq Labels
    BY DEF ToSet
  <1>2. CASE truth = NoTruth
    <2>1. t \in TruthDefault(options)
      BY <1>2 DEF Completed
    <2>2. t = [l \in ToSet(options) |-> TRUE \in TruthOf(l)]
      BY <2>1 DEF TruthDefault
    <2>3. QED
      BY <1>1, <2>2 DEF IsTable
  <1>3. CASE truth # NoTruth
    <2> DEFINE told == DOMAIN truth \cup {l \in ToSet(options) : ~\E k \in DOMAIN truth : Same(k, l)}
    <2>1. t = [l \in told |-> IF l \in DOMAIN truth THEN truth[l] ELSE TRUE \in TruthOf(l)]
      BY <1>3 DEF Completed
    <2>2. told \subseteq Labels
      BY <1>1 DEF IsTable
    <2>3. \A l \in told : t[l] \in BOOLEAN
      <3>1. ASSUME NEW l \in told, l \in DOMAIN truth
            PROVE  t[l] \in BOOLEAN
        BY <2>1, <3>1 DEF IsTable
      <3>2. ASSUME NEW l \in told, l \notin DOMAIN truth
            PROVE  t[l] \in BOOLEAN
        <4> HIDE DEF told
        <4>1. t[l] = IF l \in DOMAIN truth THEN truth[l] ELSE TRUE \in TruthOf(l)
          BY <2>1, Zenon
        <4>2. t[l] = (TRUE \in TruthOf(l))
          BY <3>2, <4>1, Zenon
        <4>3. (TRUE \in TruthOf(l)) \in BOOLEAN
          OBVIOUS
        <4>4. QED
          BY <4>2, <4>3, Zenon
      <3>3. QED
        BY <3>1, <3>2
    <2>4. DOMAIN t = told
      BY <2>1
    <2>5. QED
      BY <2>2, <2>3, <2>4 DEF IsTable
  <1>4. QED
    BY <1>2, <1>3

(* Every plan an entry can give converts, negates or not, and has a table. *)
LEMMA PlansAreTyped ==
  ASSUME NEW f, f.options \in Seq(Labels), NEW e, IsEntry(e)
  PROVE  /\ Plan(f, e).refused = None => IsPlan(Plan(f, e))
         /\ IsPlan(PlanForPut(f, e))
  <1>1. IsTable(e.truth) /\ e.invert \in BOOLEAN
    BY DEF IsEntry, IsTable
  <1> DEFINE asks == LeafIsBoolean(e.path) /\ f.options # <<>> /\ ~Unlabeled(f.options)
             truths == IF asks THEN Completed(e.truth, f.options) ELSE {e.truth}
             truth == CHOOSE t \in truths : TRUE
             conv == IF HasSi(f.unit) THEN ToSi(f.unit).conv ELSE Identity
  <1>2. IsConversion(conv)
    BY SiIsConversion, IdentityIsConversion
  <1>3. truths # {} => IsTable(truth)
    <2>1. \A t \in truths : IsTable(t)
      BY <1>1, TablesAreTyped
    <2>2. truths # {} => truth \in truths
      <3> HIDE DEF truths
      <3> QED
        OBVIOUS
    <2>3. QED
      BY <2>1, <2>2
  <1>4. None = "none"
    BY DEF None
  <1>5. ASSUME Plan(f, e).refused = None
        PROVE  IsPlan(Plan(f, e))
    <2>1. truths # {} /\ \E unit : Plan(f, e) = PlanIs(conv, unit, truth, e.invert)
      BY <1>5 DEF Plan, Refused, None
    <2>2. PICK unit : Plan(f, e) = PlanIs(conv, unit, truth, e.invert)
      BY <2>1
    <2> HIDE DEF truths, truth, conv
    <2>3. QED
      BY <1>1, <1>2, <1>3, <2>1, <2>2 DEF IsPlan, PlanIs
  <1>6. IsPlan(Unplanned)
    BY IdentityIsConversion DEF IsPlan, Unplanned, PlanIs, NoTruth, IsTable
  <1>7. QED
    BY <1>5, <1>6 DEF PlanForPut

-----------------------------------------------------------------------------
(* Labels and truths.                                                      *)

(* Negating twice is none.                                                 *)
LEMMA XorUndoes ==
  ASSUME NEW a \in BOOLEAN, NEW b \in BOOLEAN
  PROVE  Xor(a, b) \in BOOLEAN /\ Xor(Xor(a, b), b) = a
  BY Zenon DEF Xor

(* The option taken of several labels is one of them, and there is one if  *)
(* a label is an option.                                                   *)
LEMMA FirstOptionIs ==
  ASSUME NEW f, f.options \in Seq(Labels), NEW S, NEW v \in FirstOption(f, S)
  PROVE  v \in Nat /\ v + 1 \in DOMAIN f.options /\ f.options[v + 1] \in S
  BY DEF FirstOption

LEMMA FirstOptionExists ==
  ASSUME NEW f, f.options \in Seq(Labels), NEW S, NEW i \in DOMAIN f.options, f.options[i] \in S
  PROVE  FirstOption(f, S) # {}
  <1> DEFINE at == {j \in DOMAIN f.options : f.options[j] \in S}
             n == Len(f.options)
  <1>1. at \subseteq 1..n /\ at # {} /\ n \in Nat
    OBVIOUS
  <1>2. PICK j \in at : \A k \in at : j <= k
    <2> HIDE DEF at, n
    <2> QED
      BY <1>1, LeastOf
  <1>3. j - 1 \in FirstOption(f, S)
    BY <1>2 DEF FirstOption
  <1>4. QED
    BY <1>3

LEMMA TrueIsMember ==
  ASSUME NEW b \in BOOLEAN, NEW S
  PROVE  S = {b} => (TRUE \in S) = b
  <1>1. SUFFICES ASSUME S = {b} PROVE (TRUE \in S) = b
    OBVIOUS
  <1>2. TRUE \in {b} <=> b
    BY Zenon
  <1>3. TRUE \in S <=> b
    BY <1>1, <1>2
  <1>4. QED
    BY <1>3, Zenon

(* An option whose label is in the table is shown by the truth of any key  *)
(* that is the label but for case.                                         *)
LEMMA SwitchedOption ==
  ASSUME NEW f, f.options \in Seq(Labels), f.kind = "enum", ~Unlabeled(f.options),
         NEW plan, IsPlan(plan), plan.truth # NoTruth, ~TwoMinded(plan),
         NEW v \in Int, v + 1 \in DOMAIN f.options,
         NEW b \in BOOLEAN, b \in TruthOfLabel(plan, Label(f, v))
  PROVE  Encode(f, v, plan) = Bool(Xor(b, plan.invert))
  <1> DEFINE label == Label(f, v)
  <1>1. PICK k \in KeysOf(plan, label) : plan.truth[k] = b
    BY Zenon DEF TruthOfLabel
  <1>2. KeysOf(plan, label) \subseteq DOMAIN plan.truth
    BY DEF KeysOf
  <1>3. FirstKey(plan, label) # {}
    <2>1. CASE \E l \in KeysOf(plan, label) : l[2]
      BY <2>1, Zenon DEF FirstKey
    <2>2. CASE ~\E l \in KeysOf(plan, label) : l[2]
      BY <1>1, <2>2, Zenon DEF FirstKey
    <2>3. QED
      BY <2>1, <2>2
  <1>4. \A l \in FirstKey(plan, label) : plan.truth[l] = b
    <2> TAKE l \in FirstKey(plan, label)
    <2>1. l \in KeysOf(plan, label)
      BY DEF FirstKey
    <2>2. Same(l, k)
      <3>1. Same(l, label) /\ Same(k, label)
        BY <1>1, <2>1 DEF KeysOf
      <3>2. QED
        BY <3>1 DEF Same
    <2>3. QED
      BY <1>1, <1>2, <2>1, <2>2, Zenon DEF TwoMinded
  <1>5. TruthShown(plan, label) = {b}
    BY <1>3, <1>4, Zenon DEF TruthShown
  <1>6. Encode(f, v, plan) = Bool(Xor(TRUE \in TruthShown(plan, label), plan.invert))
    <2>1. Labelled(f, v)
      BY DEF Labelled
    <2>2. TruthShown(plan, label) # {}
      BY <1>5
    <2>3. QED
      BY <2>1, <2>2, Zenon DEF Encode
  <1>7. (TRUE \in TruthShown(plan, label)) = b
    BY <1>5, TrueIsMember, Zenon
  <1>8. QED
    BY <1>6, <1>7, Zenon

(* What a field of each kind may hold, and what may be asked of it.        *)
IsValue(f, v) ==
  /\ f.kind = "float" => v \in Rationals \/ v = NaN
  /\ f.kind = "boolean" => v \in BOOLEAN
  /\ f.kind = "enum" => v \in Int

(* What a PUT is decoded to is a value of the field.                       *)
LEMMA DecodedIsValue ==
  ASSUME NEW f, f.options \in Seq(Labels), NEW plan, IsPlan(plan), NEW json, IsJson(json),
         NEW v \in Decode(f, json, plan)
  PROVE  IsValue(f, v)
  <1>1. CASE f.kind = "float"
    <2>1. ~AsSwitch(f, plan)
      BY <1>1 DEF AsSwitch
    <2>2. json.type = "number" /\ v = Unapply(plan.conv, json.is)
      BY <1>1, <2>1 DEF Decode
    <2>3. IsLowest(json.is)
      BY <2>2 DEF IsJson
    <2>4. v \in Rationals
      BY <2>2, <2>3, ConversionsUndo DEF IsPlan
    <2>5. QED
      BY <1>1, <2>4 DEF IsValue
  <1>2. CASE f.kind = "boolean"
    <2>1. AsSwitch(f, plan)
      BY <1>2 DEF AsSwitch
    <2>2. v \in {Xor(b, plan.invert) : b \in AsBool(json)}
      BY <1>2, <2>1 DEF Decode, DecodeSwitch
    <2>3. v \in BOOLEAN
      BY <2>2, Zenon DEF Xor
    <2>4. QED
      BY <1>2, <2>3 DEF IsValue
  <1>3. CASE f.kind = "enum"
    <2>1. ASSUME AsSwitch(f, plan) PROVE v \in Int
      <3> DEFINE want == {Xor(b, plan.invert) : b \in AsBool(json)}
      <3>1. v \in DecodeSwitch(f, json, plan)
        BY <1>3, <2>1 DEF Decode
      <3>2. \/ v \in {OnOrOff(b) : b \in want}
            \/ \E b \in want : v \in FirstOption(f, LabelsFor(f, b, plan))
        <4>1. CASE Unlabeled(f.options)
          <5>1. DecodeSwitch(f, json, plan) = {OnOrOff(b) : b \in want}
            BY <1>3, <4>1, Zenon DEF DecodeSwitch
          <5>2. QED
            BY <3>1, <5>1, Zenon
        <4>2. CASE ~Unlabeled(f.options)
          <5>1. DecodeSwitch(f, json, plan)
                  = UNION {FirstOption(f, LabelsFor(f, b, plan)) : b \in want}
            BY <1>3, <4>2, Zenon DEF DecodeSwitch
          <5>2. QED
            BY <3>1, <5>1, Zenon
        <4>3. QED
          BY <4>1, <4>2
      <3>3. QED
        BY <3>2, FirstOptionIs DEF OnOrOff
    <2>2. ASSUME ~AsSwitch(f, plan) PROVE v \in Int
      <3>1. \/ v \in FirstOption(f, {l \in ToSet(f.options) : Same(l, json.is)})
            \/ v \in 0..Len(f.options)
        BY <1>3, <2>2 DEF Decode
      <3>2. QED
        BY <3>1, FirstOptionIs
    <2>3. QED
      BY <1>3, <2>1, <2>2 DEF IsValue
  <1>4. QED
    BY <1>1, <1>2, <1>3 DEF IsValue

LEMMA AsksBooleans ==
  ASSUME NEW json, IsJson(json), NEW b \in AsBool(json)
  PROVE  b \in BOOLEAN
  <1>1. CASE json.type = "boolean"
    <2>1. AsBool(json) = {json.is}
      BY <1>1 DEF AsBool
    <2>2. json.is \in BOOLEAN
      BY <1>1 DEF IsJson
    <2>3. QED
      BY <2>1, <2>2, Zenon
  <1>2. CASE json.type = "number"
    <2>1. b \in {json.is[1] # 0}
      BY <1>2, Zenon DEF AsBool
    <2>2. QED
      BY <2>1, Zenon
  <1>3. CASE json.type = "string"
    <2>1. b \in {TRUE} \/ b \in {FALSE}
      BY <1>3, Zenon DEF AsBool
    <2>2. QED
      BY <2>1, Zenon
  <1>4. QED
    BY <1>1, <1>2, <1>3 DEF IsJson

-----------------------------------------------------------------------------
(* A PUT, and what it is published as.                                     *)

(* How an option is shown, without labels and with.                        *)
LEMMA UnlabeledOption ==
  ASSUME NEW f, f.kind = "enum", Unlabeled(f.options), NEW plan,
         NEW v \in Int, v + 1 \in DOMAIN f.options
  PROVE  Encode(f, v, plan) = Bool(Xor(v # 0, plan.invert))
  BY Zenon DEF Encode, Labelled

LEMMA LabelledOption ==
  ASSUME NEW f, f.kind = "enum", NEW plan, ~AsSwitch(f, plan), NEW v \in Int
  PROVE  Encode(f, v, plan) = IF v + 1 \in DOMAIN f.options THEN Str(Lower(f.options[v + 1]))
                              ELSE NoJson
  BY Zenon DEF Encode, Labelled, Label, AsSwitch

(* Which of its options an output without labels takes.                    *)
LEMMA OnIsNotZero ==
  ASSUME NEW b \in BOOLEAN
  PROVE  OnOrOff(b) \in {0, 1} /\ (OnOrOff(b) # 0) = b
  <1>1. OnOrOff(b) \in {0, 1} /\ (OnOrOff(b) # 0 <=> b)
    BY DEF OnOrOff
  <1> DEFINE off == OnOrOff(b)
  <1> HIDE DEF off
  <1>2. off # 0 <=> b
    BY <1>1 DEF off
  <1>3. (off # 0) = b
    BY <1>2, Zenon
  <1>4. QED
    BY <1>1, <1>3 DEF off

(* What is accepted is then published as what it asked for.                *)
LEMMA PutIsPublished ==
  ASSUME NEW f, f.options \in Seq(Labels), NEW plan, IsPlan(plan), NEW json, IsJson(json),
         NEW v \in Decode(f, json, plan), ~TwoMinded(plan), ~NeverOn(f)
  PROVE  Encode(f, v, plan) \in Asked(f, plan, json)
  <1>1. IsValue(f, v)
    BY DecodedIsValue
  <1>2. plan.invert \in BOOLEAN /\ \A b \in AsBool(json) : b \in BOOLEAN
    BY AsksBooleans DEF IsPlan
  <1>3. CASE f.kind = "float"
    <2>1. ~AsSwitch(f, plan)
      BY <1>3 DEF AsSwitch
    <2>2. json.type = "number" /\ v = Unapply(plan.conv, json.is)
      BY <1>3, <2>1 DEF Decode
    <2>3. IsLowest(json.is) /\ json = Number(json.is)
      BY <2>2 DEF IsJson
    <2>4. v \in Rationals /\ Apply(plan.conv, v) = json.is
      BY <2>2, <2>3, ConversionsUndo DEF IsPlan
    <2>5. v # NaN
      BY <2>4 DEF Rationals, NaN
    <2>6. Encode(f, v, plan) = Number(Apply(plan.conv, v))
      BY <1>3, <2>5 DEF Encode
    <2>7. Asked(f, plan, json) = {json}
      BY <1>3, <2>1 DEF Asked
    <2>8. QED
      BY <2>3, <2>4, <2>6, <2>7
  <1>4. CASE AsSwitch(f, plan)
    <2>1. Asked(f, plan, json) = {Bool(b) : b \in AsBool(json)}
      BY <1>4, Zenon DEF Asked, AsSwitch
    <2>2. ASSUME NEW b \in AsBool(json), Encode(f, v, plan) = Bool(Xor(Xor(b, plan.invert), plan.invert))
          PROVE  Encode(f, v, plan) \in Asked(f, plan, json)
      <3>1. Xor(Xor(b, plan.invert), plan.invert) = b
        BY <1>2, XorUndoes, Zenon
      <3>2. QED
        BY <2>1, <2>2, <3>1, Zenon
    <2> DEFINE want == {Xor(b, plan.invert) : b \in AsBool(json)}
    <2>3. v \in DecodeSwitch(f, json, plan)
      BY <1>4 DEF Decode, AsSwitch
    <2>4. CASE f.kind = "boolean"
      <3>1. DecodeSwitch(f, json, plan) = want
        BY <2>4, Zenon DEF DecodeSwitch
      <3>2. PICK b \in AsBool(json) : v = Xor(b, plan.invert)
        BY <2>3, <3>1, Zenon
      <3>3. Encode(f, v, plan) = Bool(Xor(v, plan.invert))
        BY <2>4, Zenon DEF Encode
      <3>4. QED
        BY <2>2, <3>2, <3>3, Zenon
    <2>5. CASE f.kind = "enum" /\ Unlabeled(f.options)
      <3>1. DecodeSwitch(f, json, plan) = {OnOrOff(b) : b \in want}
        BY <2>5, Zenon DEF DecodeSwitch
      <3>2. PICK b \in AsBool(json) : v = OnOrOff(Xor(b, plan.invert))
        BY <2>3, <3>1, Zenon
      <3>3. Xor(b, plan.invert) \in BOOLEAN
        BY <1>2, XorUndoes
      <3> DEFINE w == Xor(b, plan.invert)
      <3> HIDE DEF w
      <3>4. w \in BOOLEAN /\ v = OnOrOff(w)
        BY <3>2, <3>3 DEF w
      <3>5. v \in {0, 1} /\ (v # 0) = w
        BY <3>4, OnIsNotZero, Zenon
      <3>6. v \in Int /\ v + 1 \in DOMAIN f.options
        <4>1. Len(f.options) # 1
          BY <2>5, Zenon DEF NeverOn
        <4>2. f.options # <<>>
          BY <2>5, Zenon DEF Unlabeled
        <4>3. v \in {0, 1}
          BY <3>5
        <4> DEFINE n == Len(f.options)
        <4>4. n \in Nat /\ n # 0 /\ n # 1 /\ DOMAIN f.options = 1..n
          BY <4>1, <4>2
        <4> HIDE DEF n
        <4>5. QED
          BY <4>3, <4>4
      <3>7. Encode(f, v, plan) = Bool(Xor(v # 0, plan.invert))
        BY <2>5, <3>6, UnlabeledOption, Zenon
      <3>8. Encode(f, v, plan) = Bool(Xor(w, plan.invert))
        BY <3>5, <3>7, Zenon
      <3>9. QED
        BY <2>2, <3>8, Zenon DEF w
    <2>6. CASE f.kind = "enum" /\ ~Unlabeled(f.options)
      <3>1. DecodeSwitch(f, json, plan) = UNION {FirstOption(f, LabelsFor(f, b, plan)) : b \in want}
        BY <2>6, Zenon DEF DecodeSwitch
      <3>2. PICK b \in AsBool(json) : v \in FirstOption(f, LabelsFor(f, Xor(b, plan.invert), plan))
        BY <2>3, <3>1, Zenon
      <3>3. Xor(b, plan.invert) \in BOOLEAN
        BY <1>2, XorUndoes
      <3>4. v \in Int /\ v + 1 \in DOMAIN f.options
            /\ f.options[v + 1] \in LabelsFor(f, Xor(b, plan.invert), plan)
        BY <3>2, FirstOptionIs
      <3>5. Xor(b, plan.invert) \in TruthOfLabel(plan, Label(f, v))
        BY <3>4, Zenon DEF LabelsFor, Label
      <3>6. plan.truth # NoTruth
        BY <1>4, <2>6 DEF AsSwitch
      <3>7. Encode(f, v, plan) = Bool(Xor(Xor(b, plan.invert), plan.invert))
        BY <2>6, <3>3, <3>4, <3>5, <3>6, SwitchedOption, Zenon
      <3>8. QED
        BY <2>2, <3>7, Zenon
    <2>7. QED
      BY <1>4, <2>4, <2>5, <2>6 DEF AsSwitch
  <1>5. CASE f.kind = "enum" /\ ~AsSwitch(f, plan)
    <2>1. v \in Int
      BY <1>1, <1>5 DEF IsValue
    <2>2. CASE json.type = "string"
      <3>1. v \in FirstOption(f, {l \in ToSet(f.options) : Same(l, json.is)})
        BY <1>5, <2>2 DEF Decode
      <3>2. v + 1 \in DOMAIN f.options /\ Same(f.options[v + 1], json.is)
        BY <3>1, FirstOptionIs
      <3>3. Encode(f, v, plan) = Str(Lower(json.is))
        BY <1>5, <2>1, <3>2, LabelledOption DEF Same
      <3>4. Asked(f, plan, json) = {Str(Lower(json.is))}
        BY <1>5, <2>2 DEF Asked
      <3>5. QED
        BY <3>3, <3>4
    <2>3. CASE json.type = "number"
      <3>1. /\ v \in 0..Len(f.options) /\ json.is = <<v, 1>>
            /\ v < Len(f.options) \/ (v = 0 /\ f.options = <<>>)
        BY <1>5, <2>3 DEF Decode
      <3>2. Asked(f, plan, json)
              = {IF f.options = <<>> THEN NoJson ELSE Str(Lower(f.options[v + 1]))}
        BY <1>5, <2>3, <3>1 DEF Asked
      <3>3. CASE f.options = <<>>
        <4>1. v + 1 \notin DOMAIN f.options
          BY <3>3
        <4>2. QED
          BY <1>5, <2>1, <3>2, <3>3, <4>1, LabelledOption
      <3>4. CASE f.options # <<>>
        <4>1. v + 1 \in DOMAIN f.options
          BY <3>1, <3>4
        <4>2. QED
          BY <1>5, <2>1, <3>2, <3>4, <4>1, LabelledOption
      <3>5. QED
        BY <3>3, <3>4
    <2>4. QED
      BY <1>5, <2>2, <2>3 DEF Decode
  <1>6. CASE f.kind = "text"
    <2>1. ~AsSwitch(f, plan)
      BY <1>6 DEF AsSwitch
    <2>2. json.type = "string" /\ v = json.is
      BY <1>6, <2>1 DEF Decode
    <2>3. json = Str(json.is)
      BY <2>2 DEF IsJson
    <2>4. Encode(f, v, plan) = IF json.is[1] = "" THEN NoJson ELSE json
      BY <1>6, <2>2, <2>3 DEF Encode
    <2>5. Asked(f, plan, json) = IF json.is[1] = "" THEN {NoJson} ELSE {json}
      BY <1>6, <2>1 DEF Asked
    <2>6. QED
      BY <2>4, <2>5
  <1>7. CASE f.kind \notin {"float", "boolean", "enum", "text"}
    BY <1>7 DEF Decode, AsSwitch
  <1>8. QED
    BY <1>3, <1>4, <1>5, <1>6, <1>7 DEF AsSwitch

-----------------------------------------------------------------------------
(* What is shown, PUT back.                                                *)

(* What is shown of an enum by a table is taken back for an option that    *)
(* shows the same.                                                         *)
LEMMA SwitchedAgain ==
  ASSUME NEW f, f.options \in Seq(Labels), NEW plan, IsPlan(plan), NEW v, IsValue(f, v),
         f.kind = "enum", ~Unlabeled(f.options), plan.truth # NoTruth, ~TwoMinded(plan),
         Encode(f, v, plan) # NoJson
  PROVE  \E u \in Decode(f, Encode(f, v, plan), plan) : Encode(f, u, plan) = Encode(f, v, plan)
  <1>1. v \in Int /\ v + 1 \in DOMAIN f.options
    <2>1. Labelled(f, v)
      BY Zenon DEF Encode
    <2>2. QED
      BY <2>1 DEF Labelled, IsValue
  <1> DEFINE label == Label(f, v)
  <1>2. TruthShown(plan, label) # {}
    <2>1. ASSUME TruthShown(plan, label) = {} PROVE Encode(f, v, plan) = NoJson
      BY <2>1, Zenon DEF Encode
    <2>2. QED
      BY <2>1
  <1>3. PICK b \in TruthShown(plan, label) : TRUE
    BY <1>2
  <1>4. b \in BOOLEAN /\ b \in TruthOfLabel(plan, label)
    <2>1. PICK k \in FirstKey(plan, label) : b = plan.truth[k]
      BY <1>3, Zenon DEF TruthShown
    <2>2. k \in KeysOf(plan, label) /\ k \in DOMAIN plan.truth
      BY <2>1 DEF FirstKey, KeysOf
    <2>3. plan.truth[k] \in BOOLEAN
      BY <2>2 DEF IsPlan, IsTable
    <2>4. QED
      BY <2>1, <2>2, <2>3, Zenon DEF TruthOfLabel
  <1>5. Encode(f, v, plan) = Bool(Xor(b, plan.invert))
    BY <1>1, <1>4, SwitchedOption, Zenon
  <1> DEFINE j == Bool(Xor(b, plan.invert))
  <1>6. PICK u \in FirstOption(f, LabelsFor(f, b, plan)) : TRUE
    <2>1. f.options[v + 1] \in LabelsFor(f, b, plan)
      <3>1. f.options[v + 1] \in ToSet(f.options)
        BY <1>1 DEF ToSet
      <3>2. QED
        BY <1>4, <3>1, Zenon DEF LabelsFor, Label
    <2>2. QED
      BY <1>1, <2>1, FirstOptionExists
  <1>7. u \in Decode(f, j, plan)
    <2>1. plan.invert \in BOOLEAN
      BY DEF IsPlan
    <2>2. Xor(Xor(b, plan.invert), plan.invert) = b
      BY <1>4, <2>1, XorUndoes, Zenon
    <2>3. AsBool(j) = {Xor(b, plan.invert)}
      BY DEF AsBool, Bool
    <2>4. DecodeSwitch(f, j, plan)
            = UNION {FirstOption(f, LabelsFor(f, c, plan))
                       : c \in {Xor(d, plan.invert) : d \in AsBool(j)}}
      BY Zenon DEF DecodeSwitch
    <2>5. u \in DecodeSwitch(f, j, plan)
      <3>1. b \in {Xor(d, plan.invert) : d \in AsBool(j)}
        BY <2>2, <2>3, Zenon
      <3> DEFINE want == {Xor(d, plan.invert) : d \in AsBool(j)}
      <3> HIDE DEF want, j
      <3>2. DecodeSwitch(f, j, plan) = UNION {FirstOption(f, LabelsFor(f, c, plan)) : c \in want}
        BY <2>4, Zenon DEF want
      <3>3. b \in want
        BY <3>1, Zenon DEF want
      <3>4. QED
        BY <1>6, <3>2, <3>3, Zenon
    <2>6. AsSwitch(f, plan)
      BY Zenon DEF AsSwitch
    <2>7. QED
      BY <2>5, <2>6, Zenon DEF Decode
  <1>8. u \in Int /\ u + 1 \in DOMAIN f.options /\ f.options[u + 1] \in LabelsFor(f, b, plan)
    BY <1>6, FirstOptionIs
  <1>9. b \in TruthOfLabel(plan, Label(f, u))
    BY <1>8, Zenon DEF LabelsFor, Label
  <1>10. Encode(f, u, plan) = j
    BY <1>4, <1>8, <1>9, SwitchedOption, Zenon
  <1>11. QED
    BY <1>5, <1>7, <1>10, Zenon

(* And so for every kind of field.                                         *)
LEMMA ShowsAgain ==
  ASSUME NEW f, f.options \in Seq(Labels), NEW plan, IsPlan(plan), NEW v, IsValue(f, v),
         f.kind # "time", ~TwoMinded(plan), Encode(f, v, plan) # NoJson
  PROVE  \E u \in Decode(f, Encode(f, v, plan), plan) : Encode(f, u, plan) = Encode(f, v, plan)
  <1>1. CASE f.kind = "float"
    <2>1. v # NaN /\ Encode(f, v, plan) = Number(Apply(plan.conv, v))
      BY <1>1 DEF Encode
    <2>2. v \in Rationals
      BY <1>1, <2>1 DEF IsValue
    <2> DEFINE x == Apply(plan.conv, v)
               u == Unapply(plan.conv, x)
    <2>3. IsLowest(x)
      BY <2>2, AppliedIsLowest DEF IsPlan
    <2>4. u \in Rationals /\ Apply(plan.conv, u) = x
      BY <2>3, ConversionsUndo DEF IsPlan
    <2>5. u # NaN
      BY <2>4 DEF Rationals, NaN
    <2>6. ~AsSwitch(f, plan)
      BY <1>1 DEF AsSwitch
    <2>7. u \in Decode(f, Number(x), plan)
      BY <1>1, <2>6 DEF Decode, Number
    <2>8. Encode(f, u, plan) = Number(x)
      BY <1>1, <2>4, <2>5 DEF Encode
    <2>9. QED
      BY <2>1, <2>7, <2>8
  <1>2. plan.invert \in BOOLEAN
    BY DEF IsPlan
  <1>3. CASE f.kind = "boolean"
    <2>1. v \in BOOLEAN
      BY <1>3 DEF IsValue
    <2> DEFINE j == Bool(Xor(v, plan.invert))
    <2>2. Encode(f, v, plan) = j
      BY <1>3, Zenon DEF Encode
    <2>3. AsBool(j) = {Xor(v, plan.invert)}
      BY DEF AsBool, Bool
    <2>4. Xor(Xor(v, plan.invert), plan.invert) = v
      BY <1>2, <2>1, XorUndoes, Zenon
    <2>5. v \in DecodeSwitch(f, j, plan)
      BY <1>3, <2>3, <2>4, Zenon DEF DecodeSwitch
    <2>6. v \in Decode(f, j, plan)
      BY <1>3, <2>5, Zenon DEF Decode, AsSwitch
    <2>7. QED
      BY <2>2, <2>6, Zenon
  <1>4. CASE f.kind = "enum" /\ Unlabeled(f.options)
    <2>1. v \in Int /\ v + 1 \in DOMAIN f.options
      <3>1. Labelled(f, v)
        BY <1>4, Zenon DEF Encode
      <3>2. QED
        BY <1>4, <3>1 DEF Labelled, IsValue
    <2>2. Encode(f, v, plan) = Bool(Xor(v # 0, plan.invert))
      BY <1>4, <2>1, UnlabeledOption, Zenon
    <2> DEFINE on == (v # 0)
    <2>3. on \in BOOLEAN
      BY Zenon
    <2>4. PICK u : u = OnOrOff(on)
      BY Zenon
    <2>5. u \in Int /\ u + 1 \in DOMAIN f.options
      <3>1. CASE v = 0
        <4>1. u = 0
          BY <2>4, <3>1 DEF OnOrOff
        <4>2. QED
          BY <2>1, <3>1, <4>1
      <3>2. CASE v # 0
        <4>1. u = 1
          BY <2>4, <3>2 DEF OnOrOff
        <4>2. v \in 1..Len(f.options) /\ Len(f.options) \in Nat /\ v # Len(f.options)
          BY <2>1, <3>2
        <4>3. QED
          BY <4>1, <4>2
      <3>3. QED
        BY <3>1, <3>2
    <2> HIDE DEF on
    <2>6. (u # 0) = on
      BY <2>3, <2>4, OnIsNotZero, Zenon
    <2> DEFINE j == Bool(Xor(on, plan.invert))
    <2>7. Encode(f, u, plan) = j
      <3>1. Encode(f, u, plan) = Bool(Xor(u # 0, plan.invert))
        BY <1>4, <2>5, UnlabeledOption, Zenon
      <3>2. QED
        BY <2>6, <3>1, Zenon
    <2>8. u \in Decode(f, j, plan)
      <3>1. AsBool(j) = {Xor(on, plan.invert)}
        BY DEF AsBool, Bool
      <3>2. Xor(Xor(on, plan.invert), plan.invert) = on
        BY <1>2, <2>3, XorUndoes, Zenon
      <3>3. DecodeSwitch(f, j, plan)
              = {OnOrOff(b) : b \in {Xor(d, plan.invert) : d \in AsBool(j)}}
        BY <1>4, Zenon DEF DecodeSwitch
      <3>4. u \in DecodeSwitch(f, j, plan)
        BY <2>4, <3>1, <3>2, <3>3, Zenon
      <3>5. QED
        BY <1>4, <3>4, Zenon DEF Decode, AsSwitch
    <2>9. QED
      BY <2>2, <2>7, <2>8, Zenon DEF on
  <1>5. CASE f.kind = "enum" /\ ~Unlabeled(f.options) /\ plan.truth # NoTruth
    BY <1>5, SwitchedAgain, Zenon
  <1>6. CASE f.kind = "enum" /\ ~Unlabeled(f.options) /\ plan.truth = NoTruth
    <2>1. ~AsSwitch(f, plan) /\ v \in Int
      BY <1>6 DEF AsSwitch, IsValue
    <2>2. v + 1 \in DOMAIN f.options /\ Encode(f, v, plan) = Str(Lower(f.options[v + 1]))
      BY <1>6, <2>1, LabelledOption, Zenon
    <2> DEFINE word == Lower(f.options[v + 1])
               alike == {l \in ToSet(f.options) : Same(l, word)}
    <2>3. f.options[v + 1] \in alike
      BY <2>2 DEF ToSet, Same, Lower
    <2>4. PICK u \in FirstOption(f, alike) : TRUE
      <3> HIDE DEF alike
      <3> QED
        BY <2>2, <2>3, FirstOptionExists
    <2>5. u \in Int /\ u + 1 \in DOMAIN f.options /\ f.options[u + 1] \in alike
      BY <2>4, FirstOptionIs
    <2>6. Lower(f.options[u + 1]) = word
      BY <2>5 DEF Same, Lower
    <2>7. Encode(f, u, plan) = Str(word)
      BY <1>6, <2>1, <2>5, <2>6, LabelledOption, Zenon
    <2>8. u \in Decode(f, Str(word), plan)
      <3>1. Str(word).type = "string" /\ Str(word).is = word
        BY DEF Str
      <3>2. QED
        BY <1>6, <2>1, <2>4, <3>1, Zenon DEF Decode
    <2>9. QED
      BY <2>2, <2>7, <2>8, Zenon
  <1>7. CASE f.kind = "text"
    <2>1. Encode(f, v, plan) = Str(v)
      BY <1>7 DEF Encode
    <2>2. ~AsSwitch(f, plan)
      BY <1>7 DEF AsSwitch
    <2>3. v \in Decode(f, Str(v), plan)
      BY <1>7, <2>2 DEF Decode, Str
    <2>4. QED
      BY <2>1, <2>3
  <1>8. CASE f.kind \notin {"float", "boolean", "time", "enum", "text"}
    BY <1>8 DEF Encode
  <1>9. QED
    BY <1>1, <1>3, <1>4, <1>5, <1>6, <1>7, <1>8

-----------------------------------------------------------------------------
(* Entries and values.                                                     *)

(* What is proposed is a path and whether it is negated. *)
IsProposal(p) == p = Proposal(p.path, p.invert) /\ p.invert \in BOOLEAN
NegatesOrNot(S) == \A r \in S : r.invert \in BOOLEAN

LEMMA RowsNegateOrNot ==
  ASSUME NEW classes, NEW category, NEW rows
  PROVE  NegatesOrNot(Rows(classes, category, rows))
  <1> SUFFICES ASSUME NEW x \in Rows(classes, category, rows) PROVE x.invert \in BOOLEAN
    BY DEF NegatesOrNot
  <1>1. PICK r \in rows : x.invert = (Len(r) = 4)
    BY DEF Rows
  <1>2. QED
    BY <1>1, Zenon

LEMMA SuggestionRowsNegateOrNot == NegatesOrNot(SuggestionRows)
  <1>1. NegatesOrNot(BatteryRows)
    BY RowsNegateOrNot, Zenon DEF BatteryRows
  <1>2. NegatesOrNot(CombiRows)
    <2>1. \E c1, k1, r1, c2, k2, r2 : CombiRows = Rows(c1, k1, r1) \cup Rows(c2, k2, r2)
      BY Zenon DEF CombiRows
    <2>2. QED
      BY <2>1, RowsNegateOrNot, Zenon DEF NegatesOrNot
  <1>3. NegatesOrNot(ConverterRows)
    BY RowsNegateOrNot, Zenon DEF ConverterRows
  <1>4. NegatesOrNot(RegulatorRows)
    BY RowsNegateOrNot, Zenon DEF RegulatorRows
  <1>5. NegatesOrNot(InterfaceRows)
    BY RowsNegateOrNot, Zenon DEF InterfaceRows
  <1>6. NegatesOrNot(TransformerRows)
    BY RowsNegateOrNot, Zenon DEF TransformerRows
  <1>7. QED
    BY <1>1, <1>2, <1>3, <1>4, <1>5, <1>6, Zenon DEF SuggestionRows, NegatesOrNot

(* What the tools suggest, look up, build and seed are proposals.          *)
LEMMA SuggestionsAreProposals ==
  ASSUME NEW class, NEW instance, NEW f, NEW p \in Suggest(class, instance, f)
  PROVE  IsProposal(p)
  <1>1. \/ \E r \in SuggestionRows : p = Proposal(Electrical(r.category, instance) \o r.at, r.invert)
        \/ p = Proposal(Electrical("switches", instance) \o <<f.name.segment, "state">>, FALSE)
    BY Zenon DEF Suggest
  <1>2. ASSUME NEW path, NEW b \in BOOLEAN, p = Proposal(path, b) PROVE IsProposal(p)
    <2>1. p.path = path /\ p.invert = b
      BY <1>2, Zenon DEF Proposal
    <2>2. QED
      BY <1>2, <2>1, Zenon DEF IsProposal
  <1>3. FALSE \in BOOLEAN
    BY Zenon
  <1>4. QED
    BY <1>1, <1>2, <1>3, SuggestionRowsNegateOrNot, Zenon DEF NegatesOrNot

LEMMA LookupsAreProposals ==
  ASSUME NEW article, NEW firmware, NEW id, NEW instance,
         NEW p \in Lookup(article, firmware, id, instance)
  PROVE  IsProposal(p)
  <1> DEFINE Of(table) == IF id \in DOMAIN table THEN {table[id]} ELSE {}
             model == Catalog[article]
             exact == IF firmware \in DOMAIN model.firmware THEN Of(model.firmware[firmware]) ELSE {}
             found == IF exact # {} THEN exact ELSE Of(model.any)
  <1>1. article \in DOMAIN Catalog
    BY Zenon DEF Lookup
  <1>2. PICK e \in found : p = Proposal(ReplaceAll(e.path, "{instance}", instance), e.invert)
    BY <1>1, Zenon DEF Lookup
  <1>3. ASSUME NEW table, InvertsAreBoolean(table), NEW x \in Of(table) PROVE x.invert \in BOOLEAN
    <2>1. id \in DOMAIN table /\ x = table[id]
      BY Zenon
    <2>2. QED
      BY <1>3, <2>1, Zenon DEF InvertsAreBoolean
  <1>4. /\ InvertsAreBoolean(model.any)
        /\ \A w \in DOMAIN model.firmware : InvertsAreBoolean(model.firmware[w])
    BY <1>1, SignalKAssumption, Zenon
  <1>5. e \in Of(model.any)
        \/ (firmware \in DOMAIN model.firmware /\ e \in Of(model.firmware[firmware]))
    <2> HIDE DEF Of
    <2> QED
      BY <1>2, Zenon
  <1>6. e.invert \in BOOLEAN
    <2> HIDE DEF Of, model
    <2> QED
      BY <1>3, <1>4, <1>5, Zenon
  <1>7. p.path = ReplaceAll(e.path, "{instance}", instance) /\ p.invert = e.invert
    BY <1>2, Zenon DEF Proposal
  <1>8. QED
    BY <1>2, <1>6, <1>7, Zenon DEF IsProposal

LEMMA BestAreProposals ==
  ASSUME NEW d, NEW instance, NEW f, NEW p \in SuggestBest(d, instance, f)
  PROVE  IsProposal(p)
  BY LookupsAreProposals, SuggestionsAreProposals, Zenon DEF SuggestBest

LEMMA SuggestedAreProposals ==
  ASSUME NEW d, NEW instance, NEW mapped, NEW f, NEW p \in SuggestOrBuild(d, instance, mapped, f)
  PROVE  IsProposal(p)
  <1>1. CASE p \in SuggestBest(d, instance, f)
    BY <1>1, BestAreProposals
  <1>2. CASE \E node : p \in Built(node, f)
    <2>1. PICK path : p = Proposal(path, FALSE)
      BY <1>2, Zenon DEF Built
    <2>2. p.path = path /\ p.invert = FALSE
      BY <2>1, Zenon DEF Proposal
    <2>3. FALSE \in BOOLEAN
      BY Zenon
    <2>4. QED
      BY <2>1, <2>2, <2>3, Zenon DEF IsProposal
  <1>3. QED
    BY <1>1, <1>2, Zenon DEF SuggestOrBuild

LEMMA SeedsAreProposals ==
  ASSUME NEW d, NEW i \in DOMAIN SeedMapping(d)
  PROVE  IsProposal(SeedMapping(d)[i]) /\ i \in {f.id : f \in d.fields}
  <1> DEFINE own == {f \in d.fields : f.menu = "Monitoring" /\ SuggestBest(d, DeviceInstance(d), f) # {}}
             For(f) == CHOOSE p \in SuggestBest(d, DeviceInstance(d), f) : TRUE
             first == {f \in own : \A g \in own : For(g).path = For(f).path => g.id >= f.id}
             Of(j) == For(CHOOSE f \in first : f.id = j)
  <1>1. SeedMapping(d) = [j \in {f.id : f \in first} |-> Of(j)]
    BY Zenon DEF SeedMapping
  <1>2. first \subseteq own /\ own \subseteq d.fields
    OBVIOUS
  <1>3. \A f \in own : IsProposal(For(f))
    BY BestAreProposals, Zenon
  <1> HIDE DEF first, For
  <1>4. i \in {f.id : f \in first} /\ SeedMapping(d)[i] = Of(i)
    BY <1>1, Zenon
  <1>5. (CHOOSE f \in first : f.id = i) \in first
    BY <1>4, Zenon
  <1> HIDE DEF own
  <1>6. QED
    BY <1>2, <1>3, <1>4, <1>5, Zenon

(* An accepted proposal is an entry.                                       *)
LEMMA EntriesAreEntries ==
  ASSUME NEW p, IsProposal(p), NEW path
  PROVE  IsEntry(Entry(p)) /\ IsEntry(Entry([p EXCEPT !.path = path]))
  <1>1. ASSUME NEW r, r.invert \in BOOLEAN PROVE IsEntry(Entry(r))
    <2>1. Entry(r).invert = r.invert /\ Entry(r).truth = <<>> /\ Entry(r).path = r.path
      BY DEF Entry, NoTruth
    <2>2. Entry(r) = [path |-> Entry(r).path, invert |-> Entry(r).invert, truth |-> Entry(r).truth]
      BY <2>1, Zenon DEF Entry, NoTruth
    <2>3. DOMAIN Entry(r).truth = {}
      BY <2>1
    <2>4. QED
      BY <1>1, <2>1, <2>2, <2>3 DEF IsEntry
  <1>2. [p EXCEPT !.path = path].invert = p.invert
    <2> DEFINE a == p.path
               b == p.invert
    <2>1. p = [path |-> a, invert |-> b]
      BY Zenon DEF IsProposal, Proposal
    <2> HIDE DEF a, b
    <2>2. p.invert = b /\ [p EXCEPT !.path = path].invert = b
      BY <2>1
    <2>3. QED
      BY <2>2
  <1>3. p.invert \in BOOLEAN /\ [p EXCEPT !.path = path].invert \in BOOLEAN
    BY <1>2 DEF IsProposal
  <1> DEFINE q == [p EXCEPT !.path = path]
  <1> HIDE DEF q
  <1>4. p.invert \in BOOLEAN /\ q.invert \in BOOLEAN
    BY <1>3 DEF q
  <1>5. IsEntry(Entry(p)) /\ IsEntry(Entry(q))
    BY <1>1, <1>4
  <1>6. QED
    BY <1>5 DEF q

(* The values a device may have.                                           *)
LEMMA ValuesAreValues ==
  ASSUME NEW f, f.options \in Seq(Labels), NEW v \in ValuesOf(f)
  PROVE  IsValue(f, v)
  <1>1. CASE f.kind = "float"
    BY <1>1, SignalKAssumption DEF ValuesOf, IsValue
  <1>2. CASE f.kind = "boolean"
    <2>1. v \in BOOLEAN
      BY <1>2 DEF ValuesOf
    <2>2. QED
      BY <1>2, <2>1 DEF IsValue
  <1>3. CASE f.kind = "enum"
    BY <1>3 DEF ValuesOf, IsValue
  <1>4. QED
    BY <1>1, <1>2, <1>3 DEF IsValue

-----------------------------------------------------------------------------
(* The invariant: the entries are entries of fields of the device, nothing *)
(* is shown without one, and what was put and what is shown read back.     *)

(* What a PUT published of a field with entry e is what was asked; and     *)
(* what the path shows can be PUT back.                                    *)
ReadsBack(f, e, json, published) ==
  LET plan == PlanForPut(f, e)
  IN TwoMinded(plan) \/ NeverOn(f) \/ published \in Asked(f, plan, json)

Repeats(f, e, json) ==
  LET plan == Plan(f, e)
  IN json # NoJson /\ f.kind # "time" /\ plan.refused = None =>
       TwoMinded(plan) \/ \E v \in Decode(f, json, plan) : Encode(f, v, plan) = json

SignalKInv ==
  /\ device \in Models
  /\ DOMAIN entries \subseteq Ids /\ \A i \in DOMAIN entries : IsEntry(entries[i])
  /\ shown = [i \in Ids |-> shown[i]]
  /\ \A i \in Ids : i \notin DOMAIN entries => shown[i] = NoJson
  /\ \A i \in DOMAIN entries : Repeats(FieldOf(i), entries[i], shown[i])
  /\ put.made => /\ put.id \in DOMAIN entries
                 /\ ReadsBack(FieldOf(put.id), entries[put.id], put.json, put.published)

(* Fields of the devices to start from.                                    *)
LEMMA FieldsAreTyped ==
  ASSUME device \in Models, NEW i \in Ids
  PROVE  /\ FieldOf(i).options \in Seq(Labels)
         /\ \A e \in HandEntries[FieldOf(i).kind] : IsEntry(e)
  <1>1. FieldOf(i) \in device.fields
    BY Zenon DEF FieldOf, Ids
  <1>2. QED
    BY <1>1, SignalKAssumption, Zenon

(* A path that shows nothing, and one that shows a value of its field.     *)
LEMMA NothingRepeats ==
  ASSUME NEW f, NEW e
  PROVE  Repeats(f, e, NoJson)
  BY DEF Repeats

LEMMA EncodedRepeats ==
  ASSUME NEW f, f.options \in Seq(Labels), NEW e, IsEntry(e), NEW v, IsValue(f, v)
  PROVE  Repeats(f, e, Encode(f, v, Plan(f, e)))
  <1> DEFINE plan == Plan(f, e)
             json == Encode(f, v, plan)
  <1> SUFFICES ASSUME json # NoJson, f.kind # "time", plan.refused = None, ~TwoMinded(plan)
               PROVE  \E u \in Decode(f, json, plan) : Encode(f, u, plan) = json
    BY Zenon DEF Repeats
  <1>1. IsPlan(plan)
    BY PlansAreTyped
  <1> HIDE DEF plan
  <1>2. QED
    BY <1>1, ShowsAgain

(* A field that is given an entry shows nothing, and the others are as     *)
(* they were.                                                              *)
LEMMA MappedAgain ==
  ASSUME SignalKInv, NEW id \in Ids, NEW e, IsEntry(e), NEW by, Map(id, e, by)
  PROVE  SignalKInv'
  <1> DEFINE new == [i \in {id} |-> e]
  <1>1. entries' = Over(new, entries) /\ DOMAIN new = {id} /\ new[id] = e
    BY DEF Map
  <1>2. device' = device /\ Ids' = Ids /\ \A i : FieldOf(i)' = FieldOf(i)
    BY Zenon DEF Map, Ids, FieldOf
  <1>3. shown' = [shown EXCEPT ![id] = NoJson] /\ ~put'.made
    BY DEF Map, NoPut
  <1> HIDE DEF new
  <1>4. /\ DOMAIN entries' = DOMAIN entries \cup {id}
        /\ entries'[id] = e
        /\ \A i \in DOMAIN entries : i # id => entries'[i] = entries[i]
    BY <1>1 DEF Over
  <1>5. /\ DOMAIN shown = Ids /\ DOMAIN shown' = Ids /\ shown'[id] = NoJson
        /\ \A i \in Ids : i # id => shown'[i] = shown[i]
    BY <1>3 DEF SignalKInv
  <1>6. DOMAIN entries' \subseteq Ids' /\ \A i \in DOMAIN entries' : IsEntry(entries'[i])
    BY <1>2, <1>4 DEF SignalKInv
  <1>7. shown' = [i \in Ids' |-> shown'[i]]
    BY <1>2, <1>3, <1>5 DEF SignalKInv
  <1>8. \A i \in Ids' : i \notin DOMAIN entries' => shown'[i] = NoJson
    BY <1>2, <1>4, <1>5 DEF SignalKInv
  <1>9. \A i \in DOMAIN entries' : Repeats(FieldOf(i)', entries'[i], shown'[i])
    BY <1>2, <1>4, <1>5, NothingRepeats, Zenon DEF SignalKInv
  <1>10. QED
    BY <1>2, <1>3, <1>6, <1>7, <1>8, <1>9, Zenon DEF SignalKInv

(* Each of the steps.                                                      *)
LEMMA SignalKStep ==
  ASSUME SignalKInv, [SignalKNext]_signalKVars
  PROVE  SignalKInv'
  <1>1. CASE SeedAll
    <2> DEFINE seeds == SeedMapping(device)
    <2>1. device' = device /\ Ids' = Ids /\ \A i : FieldOf(i)' = FieldOf(i)
      BY <1>1, Zenon DEF SeedAll, Ids, FieldOf
    <2>2. DOMAIN entries = {} /\ shown' = shown /\ put' = put
      <3>1. entries = <<>> /\ shown' = shown /\ put' = put
        BY <1>1, Zenon DEF SeedAll
      <3>2. QED
        BY <3>1
    <2>3. entries' = [i \in DOMAIN seeds |-> Entry(seeds[i])]
      BY <1>1, Zenon DEF SeedAll
    <2>4. \A i \in DOMAIN seeds : IsProposal(seeds[i]) /\ i \in Ids
      BY SeedsAreProposals, Zenon DEF Ids
    <2> HIDE DEF seeds
    <2>5. DOMAIN entries' = DOMAIN seeds /\ \A i \in DOMAIN seeds : entries'[i] = Entry(seeds[i])
      BY <2>3
    <2>6. DOMAIN entries' \subseteq Ids' /\ \A i \in DOMAIN entries' : IsEntry(entries'[i])
      BY <2>1, <2>4, <2>5, EntriesAreEntries
    <2>7. \A i \in Ids : shown'[i] = NoJson
      BY <2>2 DEF SignalKInv
    <2>8. \A i \in DOMAIN entries' : Repeats(FieldOf(i)', entries'[i], shown'[i])
      BY <2>1, <2>6, <2>7, NothingRepeats, Zenon
    <2>9. ~put'.made
      BY <2>2, Zenon DEF SignalKInv
    <2>10. shown' = [i \in Ids' |-> shown'[i]]
      BY <2>1, <2>2, Zenon DEF SignalKInv
    <2>11. QED
      BY <2>1, <2>6, <2>7, <2>8, <2>9, <2>10, Zenon DEF SignalKInv
  <1>2. ASSUME NEW id \in Ids, Propose(id) PROVE SignalKInv'
    <2>1. PICK p \in SuggestOrBuild(device, DeviceInstance(device), entries, FieldOf(id)) :
                 Map(id, Entry([p EXCEPT !.path = Unique(p.path, id, entries)]),
                     Tier(FieldOf(id), DeviceInstance(device)))
      BY <1>2, Zenon DEF Propose
    <2>2. IsEntry(Entry([p EXCEPT !.path = Unique(p.path, id, entries)]))
      BY SuggestedAreProposals, EntriesAreEntries, Zenon
    <2>3. QED
      BY <2>1, <2>2, MappedAgain, Zenon
  <1>3. ASSUME NEW id \in Ids, TypeEntry(id) PROVE SignalKInv'
    <2>1. PICK e \in HandEntries[FieldOf(id).kind] : Map(id, e, "human")
      BY <1>3 DEF TypeEntry
    <2>2. device \in Models
      BY DEF SignalKInv
    <2>3. IsEntry(e)
      BY <2>2, FieldsAreTyped, Zenon
    <2>4. QED
      BY <2>1, <2>3, MappedAgain, Zenon
  <1>4. ASSUME NEW id \in Ids, Unmap(id) PROVE SignalKInv'
    <2>1. device' = device /\ Ids' = Ids /\ \A i : FieldOf(i)' = FieldOf(i)
      BY <1>4, Zenon DEF Unmap, Ids, FieldOf
    <2>2. /\ DOMAIN entries' = DOMAIN entries \ {id}
          /\ \A i \in DOMAIN entries' : entries'[i] = entries[i]
      BY <1>4 DEF Unmap, Restrict
    <2>3. shown' = [shown EXCEPT ![id] = NoJson] /\ ~put'.made
      BY <1>4 DEF Unmap, NoPut
    <2>4. /\ DOMAIN shown = Ids /\ DOMAIN shown' = Ids /\ shown'[id] = NoJson
          /\ \A i \in Ids : i # id => shown'[i] = shown[i]
      BY <2>3 DEF SignalKInv
    <2>5. DOMAIN entries' \subseteq Ids' /\ \A i \in DOMAIN entries' : IsEntry(entries'[i])
      BY <2>1, <2>2 DEF SignalKInv
    <2>6. shown' = [i \in Ids' |-> shown'[i]]
      BY <2>1, <2>3, <2>4 DEF SignalKInv
    <2>7. \A i \in Ids' : i \notin DOMAIN entries' => shown'[i] = NoJson
      BY <2>1, <2>2, <2>4 DEF SignalKInv
    <2>8. \A i \in DOMAIN entries' : Repeats(FieldOf(i)', entries'[i], shown'[i])
      BY <2>1, <2>2, <2>4, Zenon DEF SignalKInv
    <2>9. QED
      BY <2>1, <2>3, <2>5, <2>6, <2>7, <2>8, Zenon DEF SignalKInv
  <1>5. ASSUME NEW id \in Ids, Publish(id) PROVE SignalKInv'
    <2> DEFINE f == FieldOf(id)
               plan == Plan(f, entries[id])
    <2>1. /\ UNCHANGED <<device, entries>> /\ id \in DOMAIN entries /\ ~put'.made
          /\ Ids' = Ids /\ \A i : FieldOf(i)' = FieldOf(i)
      BY <1>5 DEF Publish, NoPut, Ids, FieldOf
    <2>2. PICK v \in ValuesOf(f) : shown' = [shown EXCEPT ![id] = Encode(f, v, plan)]
      BY <1>5, Zenon DEF Publish
    <2>3. f.options \in Seq(Labels) /\ IsEntry(entries[id])
      BY <2>1, FieldsAreTyped, Zenon DEF SignalKInv
    <2>4. Repeats(f, entries[id], Encode(f, v, plan))
      BY <2>3, ValuesAreValues, EncodedRepeats, Zenon
    <2>4b. PICK json : json = Encode(f, v, plan)
      OBVIOUS
    <2>4a. Repeats(f, entries[id], json)
      BY <2>4, <2>4b, Zenon
    <2>5. /\ DOMAIN shown = Ids /\ DOMAIN shown' = Ids /\ shown'[id] = json
          /\ \A i \in Ids : i # id => shown'[i] = shown[i]
      BY <2>2, <2>4b DEF SignalKInv
    <2>6. shown' = [i \in Ids' |-> shown'[i]]
      BY <2>1, <2>2, <2>4b, <2>5 DEF SignalKInv
    <2>7. \A i \in Ids' : i \notin DOMAIN entries' => shown'[i] = NoJson
      BY <2>1, <2>5 DEF SignalKInv
    <2>8. \A i \in DOMAIN entries' : Repeats(FieldOf(i)', entries'[i], shown'[i])
      BY <2>1, <2>4a, <2>5, Zenon DEF SignalKInv
    <2>9. QED
      BY <2>1, <2>6, <2>7, <2>8, Zenon DEF SignalKInv
  <1>6. ASSUME NEW id \in Ids, Put(id) PROVE SignalKInv'
    <2> DEFINE f == FieldOf(id)
               e == entries[id]
               plan == PlanForPut(f, e)
    <2>1. /\ UNCHANGED <<device, entries>> /\ id \in DOMAIN entries
          /\ Ids' = Ids /\ \A i : FieldOf(i)' = FieldOf(i)
      BY <1>6 DEF Put, Ids, FieldOf
    <2>15. PICK json \in Jsons : \E v \in Decode(f, json, plan) :
             put' = [id |-> id, json |-> json, published |-> Encode(f, v, plan), made |-> TRUE]
      BY <1>6, Zenon DEF Put
    <2>2. PICK v \in Decode(f, json, plan) :
            put' = [id |-> id, json |-> json, published |-> Encode(f, v, plan), made |-> TRUE]
      BY <2>15
    <2>3. f.options \in Seq(Labels) /\ IsEntry(e)
      BY <2>1, FieldsAreTyped, Zenon DEF SignalKInv
    <2>4. IsPlan(plan) /\ IsJson(json) /\ IsValue(f, v)
      <3>1. IsPlan(plan) /\ IsJson(json)
        BY <2>3, PlansAreTyped, SignalKAssumption, Zenon
      <3> HIDE DEF f, plan
      <3>2. QED
        BY <2>3, <3>1, DecodedIsValue, Zenon DEF f
    <2> DEFINE published == Encode(f, v, plan)
    <2>5. ReadsBack(f, e, json, published)
      <3>1. ASSUME ~TwoMinded(plan), ~NeverOn(f) PROVE published \in Asked(f, plan, json)
        BY <2>3, <2>4, <3>1, PutIsPublished, Zenon
      <3>2. QED
        BY <3>1, Zenon DEF ReadsBack
    <2>6. Plan(f, e).refused = None => Repeats(f, e, published)
      BY <2>3, <2>4, EncodedRepeats, Zenon DEF PlanForPut
    <2>7. /\ put'.id = id /\ put'.json = json /\ put'.published = published
      BY <2>2
    <2>8. \/ Repeats(f, e, published) /\ shown' = [shown EXCEPT ![id] = published]
          \/ shown' = shown
      BY <1>6, <2>6, <2>7, Zenon DEF Put
    <2> HIDE DEF published
    <2>9. /\ DOMAIN shown = Ids
          /\ \A i \in Ids : i # id => shown'[i] = shown[i]
          /\ shown'[id] = shown[id] \/ Repeats(f, e, shown'[id])
      <3> HIDE DEF f, e
      <3> QED
        BY <2>8 DEF SignalKInv
    <2>10. shown' = [i \in Ids' |-> shown'[i]]
      <3> HIDE DEF f, e
      <3> QED
        BY <2>1, <2>8, <2>9 DEF SignalKInv
    <2>11. \A i \in Ids' : i \notin DOMAIN entries' => shown'[i] = NoJson
      BY <2>1, <2>9, Zenon DEF SignalKInv
    <2>12. \A i \in DOMAIN entries' : Repeats(FieldOf(i)', entries'[i], shown'[i])
      BY <2>1, <2>9, Zenon DEF SignalKInv
    <2>13. /\ put'.id \in DOMAIN entries'
           /\ ReadsBack(FieldOf(put.id)', entries'[put'.id], put'.json, put'.published)
      <3>1. FieldOf(put.id)' = f
        BY <2>1, <2>7, Zenon DEF FieldOf
      <3>2. QED
        BY <2>1, <2>5, <2>7, <3>1, Zenon
    <2>14. QED
      BY <2>1, <2>10, <2>11, <2>12, <2>13, Zenon DEF SignalKInv
  <1>7. ASSUME NEW source \in Sources, CopyFrom(source) PROVE SignalKInv'
    <2> DEFINE new == Copied(source)
    <2>1. device' = device /\ Ids' = Ids /\ \A i : FieldOf(i)' = FieldOf(i)
      BY <1>7, Zenon DEF CopyFrom, Ids, FieldOf
    <2>2. /\ entries' = Over(new, entries) /\ ~put'.made
          /\ shown' = [i \in Ids |-> IF i \in DOMAIN new THEN NoJson ELSE shown[i]]
      BY <1>7 DEF CopyFrom, NoPut
    <2>3. DOMAIN new \subseteq Ids /\ \A i \in DOMAIN new : IsEntry(new[i])
      <3> DEFINE From(e) == IF HasNode(e.path) THEN InstanceOf(e.path) ELSE source.instance
                 At(i) == Retarget(source.entries[i].path, From(source.entries[i]),
                                   DeviceInstance(device))
                 have == {i \in DOMAIN source.entries : i \in Ids /\ At(i) # source.entries[i].path}
      <3>1. new = [i \in have |-> [source.entries[i] EXCEPT !.path = At(i)]]
        BY Zenon DEF Copied
      <3>2. have \subseteq Ids /\ \A i \in have : IsEntry(source.entries[i])
        BY SignalKAssumption, Zenon
      <3>3. ASSUME NEW e, IsEntry(e), NEW path PROVE IsEntry([e EXCEPT !.path = path])
        <4> DEFINE a == e.path
                   b == e.invert
                   t == e.truth
        <4>1. /\ e = [path |-> a, invert |-> b, truth |-> t] /\ b \in BOOLEAN
              /\ DOMAIN t \subseteq Labels /\ \A l \in DOMAIN t : t[l] \in BOOLEAN
          BY <3>3, Zenon DEF IsEntry
        <4> HIDE DEF a, b, t
        <4>2. PICK r : r = [path |-> path, invert |-> b, truth |-> t]
          OBVIOUS
        <4>3. r = [e EXCEPT !.path = path]
          BY <4>1, <4>2
        <4>4. r.invert = b /\ r.truth = t /\ r.path = path
          BY <4>2
        <4>5. IsEntry(r)
          BY <4>1, <4>2, <4>4, Zenon DEF IsEntry
        <4>6. QED
          BY <4>3, <4>5
      <3> HIDE DEF have, At, new
      <3>4. QED
        BY <3>1, <3>2, <3>3, Zenon
    <2> HIDE DEF new
    <2>4. /\ DOMAIN entries' = DOMAIN entries \cup DOMAIN new
          /\ \A i \in DOMAIN new : entries'[i] = new[i]
          /\ \A i \in DOMAIN entries : i \notin DOMAIN new => entries'[i] = entries[i]
      BY <2>2 DEF Over
    <2>5. DOMAIN entries' \subseteq Ids' /\ \A i \in DOMAIN entries' : IsEntry(entries'[i])
      BY <2>1, <2>3, <2>4, Zenon DEF SignalKInv
    <2>6. \A i \in Ids : shown'[i] = IF i \in DOMAIN new THEN NoJson ELSE shown[i]
      BY <2>2, Zenon
    <2>7. shown' = [i \in Ids' |-> shown'[i]]
      BY <2>1, <2>2, Zenon
    <2>8. \A i \in Ids' : i \notin DOMAIN entries' => shown'[i] = NoJson
      BY <2>1, <2>4, <2>6, Zenon DEF SignalKInv
    <2>9. \A i \in DOMAIN entries' : Repeats(FieldOf(i)', entries'[i], shown'[i])
      <3> TAKE i \in DOMAIN entries'
      <3>1. i \in Ids
        BY <2>1, <2>5
      <3>2. CASE i \in DOMAIN new
        BY <2>6, <3>1, <3>2, NothingRepeats, Zenon
      <3>3. CASE i \notin DOMAIN new
        BY <2>1, <2>4, <2>6, <3>1, <3>3, Zenon DEF SignalKInv
      <3>4. QED
        BY <3>2, <3>3
    <2>10. QED
      BY <2>1, <2>2, <2>5, <2>7, <2>8, <2>9, Zenon DEF SignalKInv
  <1>8. CASE UNCHANGED signalKVars
    BY <1>8, Zenon DEF signalKVars, SignalKInv, Ids, FieldOf
  <1>9. QED
    BY <1>1, <1>2, <1>3, <1>4, <1>5, <1>6, <1>7, <1>8, Zenon DEF SignalKNext

(* A PUT that is accepted is published as what it asked for, and what a    *)
(* path shows can be PUT back and shows the same again: signalk.rs encode  *)
(* and decode undo each other under every plan an entry can give.          *)
THEOREM WhatIsPutIsShown == SignalKSpec => []PutsReadBack
  <1>1. SignalKInit => SignalKInv
    <2> SUFFICES ASSUME SignalKInit PROVE SignalKInv
      OBVIOUS
    <2>1. DOMAIN entries = {} /\ ~put.made /\ \A i \in Ids : shown[i] = NoJson
      BY DEF SignalKInit, NoPut
    <2>2. device \in Models /\ shown = [i \in Ids |-> shown[i]]
      <3>1. device \in Models /\ shown = [i \in Ids |-> NoJson]
        BY Zenon DEF SignalKInit
      <3>2. QED
        BY <3>1, Zenon
    <2>3. QED
      BY <2>1, <2>2, Zenon DEF SignalKInv
  <1>2. SignalKInv => PutsReadBack
    BY Zenon DEF SignalKInv, PutsReadBack, ReadsBack, Repeats
  <1>3. QED
    BY <1>1, <1>2, SignalKStep, PTL DEF SignalKSpec
=============================================================================
