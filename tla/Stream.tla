------------------------------- MODULE Stream -------------------------------
(***************************************************************************)
(* The delta stream of the Signal K daemon (bin/masterbus-signalk.rs): the *)
(* thread that accepts clients, and the main loop that turns updates into  *)
(* values, unit metadata and notifications and writes them to every        *)
(* client.  What a client has been told is kept beside its socket.  A      *)
(* field stands for its path; what is published of it is in SignalK, and   *)
(* which fields are published is in Daemon.                                *)
(***************************************************************************)
EXTENDS Integers, FiniteSets

CONSTANTS Viewers,         \* clients of the stream; one may come back
          Metered,         \* fields whose path has a unit
          Alarmed,         \* fields whose labels raise notifications
          MaxActivations   \* bound

Published == Metered \cup Alarmed
States == {"normal", "alarm"}
Nothing == [f \in Alarmed |-> "none"]

VARIABLES
  client,      \* each client: how far it has got, and what it has been told
  fresh,       \* those counted since the main loop looked: connections # connections_seen
  static,      \* static_batch: which activation's names, and the metadata added to it
  updates,     \* the last value waiting on the subscription, of each field
  active,      \* Active: what is published, the metadata and notifications sent
  poll,        \* the main loop: the step, and what it is about to send
  slipped      \* history: clients that came in through one of the gaps told below

streamVars == <<client, fresh, static, updates, active, poll, slipped>>

Away == [step |-> "away", names |-> 0, meta |-> {}, bare |-> FALSE,
         shown |-> Nothing, told |-> Nothing]
NoBatch == [values |-> {}, meta |-> {}, shown |-> Nothing, told |-> Nothing]

StreamInit ==
  /\ client = [c \in Viewers |-> Away] /\ fresh = {}
  /\ static = [names |-> 0, meta |-> {}]
  /\ updates = [f \in Published |-> "none"]
  /\ active = [emit |-> {}, metaSent |-> {}, notified |-> Nothing]
  /\ poll = [step |-> "changes", have |-> FALSE, batch |-> NoBatch]
  /\ slipped = {}

Clients == {c \in Viewers : client[c].step = "in"}

-----------------------------------------------------------------------------
(* The accept thread takes one client at a time: it counts it, replays the *)
(* static batch to it, and hands it to the main loop.                      *)

Accepting == {c \in Viewers : client[c].step \in {"counted", "greeted"}}

Count(c) ==
  /\ Accepting = {} /\ client[c].step = "away"
  /\ client' = [client EXCEPT ![c] = [Away EXCEPT !.step = "counted"]]
  /\ fresh' = fresh \cup {c} /\ slipped' = slipped \ {c}
  /\ UNCHANGED <<static, updates, active, poll>>

Greet(c) ==
  /\ client[c].step = "counted"
  /\ client' = [client EXCEPT ![c].step = "greeted", ![c].names = static.names,
                              ![c].meta = static.meta]
  /\ UNCHANGED <<fresh, static, updates, active, poll, slipped>>

HandOver(c) ==
  /\ client[c].step = "greeted"
  /\ client' = [client EXCEPT ![c].step = "in"]
  /\ UNCHANGED <<fresh, static, updates, active, poll, slipped>>

-----------------------------------------------------------------------------
(* The main loop.                                                          *)

Poll(step) == poll.step = step
Then(step) == poll' = [poll EXCEPT !.step = step]

Update(f) ==
  /\ f \in active.emit
  /\ \E state \in IF f \in Alarmed THEN States ELSE {"normal"} :
       updates' = [updates EXCEPT ![f] = state]
  /\ UNCHANGED <<client, fresh, static, active, poll, slipped>>

(* retain_mut: whoever cannot be written to is dropped.                    *)
WriteAll(after) ==
  \E gone \in SUBSET Clients :
    client' = [c \in Viewers |-> CASE c \in gone -> Away
                                   [] c \in Clients \ gone -> after[c]
                                   [] OTHER -> client[c]]

(* activate: a new set of fields is published.  Everything is sent anew,   *)
(* and the static batch is that of the new fields' devices.                *)
NewNames == static.names + 1

Restream(emit) ==
  /\ Poll("changes") /\ static.names < MaxActivations
  /\ static' = [names |-> NewNames, meta |-> {}]
  /\ active' = [emit |-> emit, metaSent |-> {}, notified |-> Nothing]
  /\ updates' = [f \in Published |-> IF f \in emit THEN updates[f] ELSE "none"]
  /\ Then("publish")
  /\ UNCHANGED <<client, fresh, slipped>>

Named == [c \in Viewers |-> [client[c] EXCEPT !.names = static.names]]

(* The first gap: a client that was greeted with the batch before this one *)
(* and is not yet among the clients.                                       *)
SendNames ==
  /\ Poll("publish")
  /\ WriteAll(Named)
  /\ slipped' = slipped \cup {c \in Accepting : client[c].step = "greeted"
                                                /\ client[c].names # static.names}
  /\ Then("look")
  /\ UNCHANGED <<fresh, static, updates, active>>

NothingChanged ==
  /\ Poll("changes")
  /\ Then("look")
  /\ UNCHANGED <<client, fresh, static, updates, active, slipped>>

Look ==
  /\ Poll("look")
  /\ poll' = [poll EXCEPT !.step = "drain", !.have = Clients # {}]
  /\ UNCHANGED <<client, fresh, static, updates, active, slipped>>

(* For comparison: what was sent before a client came counts as sent to it. *)
SeesNobody == active.notified

(* A client not seen before has not seen the notifications.                *)
Sees == IF fresh # {} THEN Nothing ELSE active.notified

(* The updates since the last pass: the last of each, the unit of a path   *)
(* not seen before, a notification of a state not sent before; nothing of  *)
(* it if nobody listened.                                                  *)
Drain ==
  /\ Poll("drain")
  /\ LET due == {f \in Published : updates[f] # "none"}
         changed == {f \in due \cap Alarmed : updates[f] # Sees[f]}
         Of(some) == [f \in Alarmed |-> IF f \in some THEN updates[f] ELSE "none"]
         batch == [values |-> due, meta |-> (due \cap Metered) \ active.metaSent,
                   shown |-> Of(due), told |-> Of(changed)]
     IN IF poll.have /\ due # {}
        THEN /\ poll' = [poll EXCEPT !.step = "extend", !.batch = batch]
             /\ active' = [active EXCEPT !.metaSent = @ \cup batch.meta,
                             !.notified = [f \in Alarmed |->
                                             IF f \in changed THEN updates[f] ELSE Sees[f]]]
        ELSE Then("changes") /\ active' = [active EXCEPT !.notified = Sees]
  /\ fresh' = {} /\ updates' = [f \in Published |-> "none"]
  /\ UNCHANGED <<client, static, slipped>>

(* New metadata is kept for clients that come later.                       *)
Extend ==
  /\ Poll("extend")
  /\ static' = [static EXCEPT !.meta = @ \cup poll.batch.meta]
  /\ Then("send")
  /\ UNCHANGED <<client, fresh, updates, active, slipped>>

(* What a client knows after a batch, of the values those that were sent   *)
(* since the main loop saw it come.                                        *)
Informed ==
  LET b == poll.batch
      Latest(new, old) == [f \in Alarmed |-> IF new[f] = "none" THEN old[f] ELSE new[f]]
  IN [c \in Viewers |-> [client[c] EXCEPT
        !.meta = @ \cup b.meta,
        !.bare = @ \/ (b.values \cap Metered) \ (client[c].meta \cup b.meta) # {},
        !.shown = IF c \in fresh THEN @ ELSE Latest(b.shown, @),
        !.told = Latest(b.told, @)]]

(* The other gaps: a client that was greeted before the metadata was kept, *)
(* or that the main loop has seen come, and is not yet among the clients.  *)
Misses(c) ==
  \/ client[c].step = "greeted" /\ ~(static.meta \subseteq client[c].meta)
  \/ c \notin fresh /\ poll.batch.told # Nothing

Send ==
  /\ Poll("send")
  /\ WriteAll(Informed)
  /\ slipped' = slipped \cup {c \in Accepting : Misses(c)}
  /\ poll' = [poll EXCEPT !.step = "changes", !.batch = NoBatch]
  /\ UNCHANGED <<fresh, static, updates, active>>

StreamNext ==
  \/ \E c \in Viewers : Count(c) \/ Greet(c) \/ HandOver(c)
  \/ \E f \in Published : Update(f)
  \/ \E emit \in SUBSET Published : Restream(emit)
  \/ SendNames \/ NothingChanged \/ Look \/ Drain \/ Extend \/ Send

StreamSpec == StreamInit /\ [][StreamNext]_streamVars

-----------------------------------------------------------------------------

(* Every client that has come in through none of the gaps knows the names  *)
(* of the devices published, has had the unit of each path before or with  *)
(* the path's first value, and knows the notification state that goes with *)
(* the last value it was sent, whenever it connected and however often the *)
(* mapping was activated anew (bin/masterbus-signalk.rs:69-72, 497-501).   *)
ClientsAreTold ==
  \A c \in Clients \ slipped :
    /\ ~client[c].bare
    /\ \A f \in Alarmed : client[c].shown[f] \in {"none", client[c].told[f]}
    /\ ~Poll("publish") => client[c].names = static.names
=============================================================================
