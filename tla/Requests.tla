------------------------------ MODULE Requests ------------------------------
(***************************************************************************)
(* How a discovery asks a device: the request half of                      *)
(* runtime/discovery.rs over the request table of runtime/waiter.rs.       *)
(*                                                                         *)
(* Every primitive of the code is one kind of question: batches of keys    *)
(* that are asked one after the other, each batch as often as tries says;  *)
(* a patient question keeps the keys that stayed unanswered registered,    *)
(* and collects what came for them at its end.                             *)
(*                                                                         *)
(* There are no clocks: a wait may time out whenever the slot is empty,    *)
(* and a slow device answers after that, all it was asked, in order.       *)
(***************************************************************************)
EXTENDS Naturals, Sequences

CONSTANTS
    Keys,         \* the requests, and what each is known by
    None,         \* Option::None
    Absent,       \* no slot
    MaxTroubles   \* bound: answers that come late, or not at all

VARIABLES
    slots,    \* the request table
    flying,   \* requests the device has not answered yet, in order
    ask,      \* the question being asked
    got,      \* the answers to it
    troubles  \* history: answers that came late, or not at all

Table == INSTANCE Waiter WITH Fields <- Keys, Values <- {}

\* For comparison: the position in a list or a string is left out.
KeyWithoutPosition(request) ==
    IF request[1] \in {"group03", "prop26", "str"} THEN [request EXCEPT ![3] = 1] ELSE request

\* An answer carries no token: it is known by what it repeats of the request.
Key(request) == request

NoQuestion ==
    [stage |-> "over", batches |-> <<>>, tries |-> 0, patient |-> FALSE,
     attempt |-> 0, open |-> <<>>, missed |-> <<>>, late |-> <<>>]

RequestsInit ==
    /\ Table!WaiterInit
    /\ flying = <<>>
    /\ ask = NoQuestion
    /\ got = [k \in Keys |-> None]
    /\ troubles = 0

Over == ask.stage = "over"

\* Begin a question: nothing of an earlier one is an answer to it.
Ask(batches, tries, patient) ==
    /\ ask' = IF batches = <<>> THEN NoQuestion
              ELSE [stage |-> "send", batches |-> Tail(batches), tries |-> tries,
                    patient |-> patient, attempt |-> 1, open |-> Head(batches),
                    missed |-> <<>>, late |-> <<>>]
    /\ got' = [k \in Keys |-> None]

OneByOne(keys) == [i \in DOMAIN keys |-> <<keys[i]>>]

-----------------------------------------------------------------------------
(* The device. *)

Trouble == troubles < MaxTroubles /\ troubles' = troubles + 1

AnswerWith(reply) ==
    /\ flying # <<>>
    /\ Table!Deliver(Key(Head(flying)), reply)
    /\ flying' = Tail(flying)
    /\ UNCHANGED <<ask, got, troubles>>

\* It never answers what it does not know, and its answers can get lost.
NoAnswer(silent) ==
    /\ flying # <<>>
    /\ IF Head(flying) \in silent THEN UNCHANGED troubles ELSE Trouble
    /\ flying' = Tail(flying)
    /\ UNCHANGED <<slots, ask, got>>

-----------------------------------------------------------------------------
(* Sending and waiting. *)

RegisterAll(keys) ==
    slots' = [k \in Keys |-> IF k \in keys THEN None ELSE slots[k]]

KeysOf(requests) == {Key(requests[i]) : i \in DOMAIN requests}

\* For comparison: what may still come late is registered anew.
SendAndRenew ==
    /\ ask.stage = "send"
    /\ RegisterAll(KeysOf(ask.open \o ask.late))
    /\ flying' = flying \o ask.open
    /\ ask' = [ask EXCEPT !.stage = "wait"]
    /\ UNCHANGED <<got, troubles>>

\* Register what is open, then send it all.
Send ==
    /\ ask.stage = "send"
    /\ RegisterAll(KeysOf(ask.open))
    /\ flying' = flying \o ask.open
    /\ ask' = [ask EXCEPT !.stage = "wait"]
    /\ UNCHANGED <<got, troubles>>

\* Before each sending the scheduler gets a turn, which may fetch the string
\* behind a text of its own, with a key a discovery may use too. Told in time,
\* it leaves no trace; too late, its answer is heard by whoever waits next.
Between(key) ==
    /\ ask.stage = "send"
    /\ Trouble
    /\ Table!Remove(key)
    /\ flying' = Append(flying, key)
    /\ UNCHANGED <<ask, got>>

Waiting(stage, list) == ask.stage = stage /\ list # <<>>

Take(request) ==
    /\ Table!Answered(Key(request))
    /\ got' = [got EXCEPT ![request] = slots[Key(request)]]
    /\ Table!Remove(Key(request))
    /\ UNCHANGED troubles

\* To give up on an answer that is on its way is a trouble.
GiveUp(request) ==
    /\ ~Table!Answered(Key(request))
    /\ IF Key(request) \in KeysOf(flying) THEN Trouble ELSE UNCHANGED troubles
    /\ UNCHANGED got

TakeReply ==
    /\ Waiting("wait", ask.open)
    /\ Take(Head(ask.open))
    /\ ask' = [ask EXCEPT !.open = Tail(@)]
    /\ UNCHANGED flying

\* The last attempt of a patient question leaves the key registered.
Keeps == ask.patient /\ ask.attempt = ask.tries

MissReply ==
    /\ Waiting("wait", ask.open)
    /\ GiveUp(Head(ask.open))
    /\ IF Keeps THEN UNCHANGED slots ELSE Table!Remove(Key(Head(ask.open)))
    /\ ask' = [ask EXCEPT !.open = Tail(@), !.missed = Append(@, Head(ask.open))]
    /\ UNCHANGED flying

\* What was missed is sent again; else on to the next batch, and in the end to
\* what may have come late.
NextSending ==
    LET late == IF ask.patient THEN ask.late \o ask.missed ELSE <<>>
    IN  /\ ask.stage = "wait" /\ ask.open = <<>>
        /\ ask' = CASE ask.missed # <<>> /\ ask.attempt < ask.tries ->
                         [ask EXCEPT !.stage = "send", !.attempt = @ + 1,
                                     !.open = ask.missed, !.missed = <<>>]
                    [] ask.batches # <<>>
                       /\ ~(ask.missed # <<>> /\ ask.attempt < ask.tries) ->
                         [ask EXCEPT !.stage = "send", !.attempt = 1,
                                     !.batches = Tail(@), !.open = Head(ask.batches),
                                     !.missed = <<>>, !.late = late]
                    [] OTHER ->
                         [ask EXCEPT !.stage = "late", !.open = <<>>, !.missed = <<>>,
                                     !.late = late]
        /\ UNCHANGED <<slots, flying, got, troubles>>

\* For comparison: what is not there yet is left registered.
CollectSome ==
    /\ Waiting("late", ask.late)
    /\ \/ Take(Head(ask.late))
       \/ GiveUp(Head(ask.late)) /\ UNCHANGED slots
    /\ ask' = [ask EXCEPT !.late = Tail(@)]
    /\ UNCHANGED flying

\* What came late is taken, every key unregistered.
CollectLate ==
    /\ Waiting("late", ask.late)
    /\ \/ Take(Head(ask.late))
       \/ GiveUp(Head(ask.late)) /\ Table!Remove(Key(Head(ask.late)))
    /\ ask' = [ask EXCEPT !.late = Tail(@)]
    /\ UNCHANGED flying

EndQuestion ==
    /\ ask.stage = "late" /\ ask.late = <<>>
    /\ ask' = NoQuestion
    /\ UNCHANGED <<slots, flying, got, troubles>>

RequestStep ==
    \/ Send \/ TakeReply \/ MissReply \/ NextSending
    \/ CollectLate \/ EndQuestion

-----------------------------------------------------------------------------
(* Properties. *)

Sent == IF ask.stage = "wait" THEN KeysOf(ask.open) ELSE {}
Kept == KeysOf(IF ask.stage = "wait" /\ Keeps THEN ask.late \o ask.missed ELSE ask.late)

\* The request table holds exactly the keys somebody still means to look at:
\* a key kept for a late answer is not taken away by a later request of the
\* same discovery or of the scheduler's turns in between, and none is left
\* behind, by whatever answers come late, twice or not at all.
SlotsAreAwaited == {k \in Keys : Table!Registered(k)} = Sent \cup Kept

\* An answer that has reached the request table is used: its slot is only
\* emptied into the answers of the question, never by asking again.
AnswersAreUsed ==
    [][\A k \in Keys :
          Table!Answered(k) =>
              \/ Table!Answered(k)'
              \/ \E request \in Keys : Key(request) = k /\ got'[request] = slots[k]]_<<slots, got>>
=============================================================================
