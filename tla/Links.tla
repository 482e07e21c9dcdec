------------------------------- MODULE Links --------------------------------
(***************************************************************************)
(* The way to the wire: a USB link that is opened again when it goes away  *)
(* (transport/reconnect.rs over usb.rs), shared with other processes       *)
(* through a relay (transport/relay.rs).                                   *)
(*                                                                         *)
(* The receive half of the link runs on the relay's receiving thread.      *)
(* Frames are the numbers 1, 2, ... in the order the wire brings them; what *)
(* is sent changes nothing here (with the slot empty it is dropped).       *)
(***************************************************************************)
EXTENDS Naturals, Sequences

CONSTANTS Clients,      \* processes that may join the relay
          Retry,        \* how often a lost link is looked for
          SocketRoom,   \* frames a client's socket holds unread
          MaxClock, MaxFrames, MaxChanges   \* bounds

VARIABLES
  clock,
  port,          \* the link: "in", "out", or "failing" (it opens, and fails at once)
  changes,       \* how often that changed
  rx, txSlot,    \* whether the receive half holds a link, and the slot a transmit half
  linkUp,        \* LinkState, what link_connected says
  rxStep,        \* where recv is: receive, empty_slot, tell_lost, fill_slot, tell_back
  nextTry, opened,
  frames,        \* frames the wire has brought
  client,        \* each client's connection
  relay,         \* "up", or "gone" with its process
  announced      \* whether relay.json is there (it outlives the process)

linkVars == <<clock, port, changes, rx, txSlot, linkUp, rxStep, nextTry, opened,
              frames, client, relay, announced>>
wireVars == <<rx, txSlot, linkUp, rxStep, nextTry, opened>>
relayVars == <<frames, client, relay, announced>>

Apart == [stage |-> "apart", listed |-> FALSE, socket |-> <<>>, got |-> <<>>, link |-> FALSE]

LinksInit ==
  /\ clock \in {0, Retry}       \* the link was opened just now, or a while ago
  /\ port = "in" /\ changes = 0
  /\ rx = TRUE /\ txSlot = TRUE /\ linkUp = TRUE
  /\ rxStep = "receive" /\ nextTry = 0 /\ opened = 0
  /\ frames = 0 /\ client = [c \in Clients |-> Apart]
  /\ relay = "up" /\ announced \in BOOLEAN

Later(a, b) == IF a >= b THEN a ELSE b

-----------------------------------------------------------------------------
(* Reconnecting's receive half. *)

(* What to do when a receive fails: close both halves, say so, and look for *)
(* the link again, but never sooner than Retry after it was last opened.    *)
NextTryAfterLoss == Later(opened + Retry, clock)

LinkLost ==
  /\ rxStep = "receive" /\ rx /\ port # "in"
  /\ rx' = FALSE /\ rxStep' = "empty_slot"
  /\ UNCHANGED <<clock, port, changes, txSlot, linkUp, nextTry, opened,
                 frames, client, relay, announced>>

EmptySlot ==
  /\ rxStep = "empty_slot" /\ txSlot' = FALSE /\ rxStep' = "tell_lost"
  /\ UNCHANGED <<clock, port, changes, rx, linkUp, nextTry, opened>>
  /\ UNCHANGED relayVars

TellLost ==
  /\ rxStep = "tell_lost" /\ linkUp' = FALSE /\ rxStep' = "receive"
  /\ nextTry' = NextTryAfterLoss
  /\ UNCHANGED <<clock, port, changes, rx, txSlot, opened>>
  /\ UNCHANGED relayVars

Reopen ==
  /\ rxStep = "receive" /\ ~rx /\ clock >= nextTry
  /\ \/ /\ port \in {"in", "failing"}
        /\ rx' = TRUE /\ rxStep' = "fill_slot"
        /\ opened' = clock /\ UNCHANGED nextTry
     \/ /\ port = "out" /\ nextTry' = clock + Retry
        /\ UNCHANGED <<rx, rxStep, opened>>
  /\ UNCHANGED <<clock, port, changes, txSlot, linkUp>> /\ UNCHANGED relayVars

FillSlot ==
  /\ rxStep = "fill_slot" /\ txSlot' = TRUE /\ rxStep' = "tell_back"
  /\ UNCHANGED <<clock, port, changes, rx, linkUp, nextTry, opened>>
  /\ UNCHANGED relayVars

(* For comparison: nobody is told. *)
BackUntold ==
  /\ rxStep = "tell_back" /\ rxStep' = "receive"
  /\ UNCHANGED <<clock, port, changes, rx, txSlot, linkUp, nextTry, opened>>
  /\ UNCHANGED relayVars
TellBack ==
  /\ rxStep = "tell_back" /\ linkUp' = TRUE /\ rxStep' = "receive"
  /\ UNCHANGED <<clock, port, changes, rx, txSlot, nextTry, opened>>
  /\ UNCHANGED relayVars

(* Someone pulls the link out, puts it back, or resets it.                  *)
PortChanges ==
  /\ changes < MaxChanges /\ changes' = changes + 1
  /\ port' \in {"in", "out", "failing"} \ {port}
  /\ (port' = "in") => ~rx       \* a hang-up is noticed before the link is back
  /\ UNCHANGED clock /\ UNCHANGED wireVars /\ UNCHANGED relayVars

(* Nothing depends on the time before the link has changed. *)
LinkClock ==
  /\ changes > 0 /\ clock < MaxClock /\ clock' = clock + 1
  /\ UNCHANGED <<port, changes>> /\ UNCHANGED wireVars /\ UNCHANGED relayVars

-----------------------------------------------------------------------------
(* The relay. *)

(* A frame off the wire goes to the owner's own engine and to every client  *)
(* on the list. A client whose socket is full for the write timeout,        *)
(* or closed, is taken off the list; the daemon keeps its connection.       *)
Writable(c) == client[c].stage # "left" /\ Len(client[c].socket) < SocketRoom
(* For comparison: a client that cannot keep up stays on the list. *)
HearWhenRoom(c, n) ==
  IF ~client[c].listed THEN client[c]
  ELSE IF Writable(c) THEN [client[c] EXCEPT !.socket = Append(@, n)] ELSE client[c]
Hear(c, n) ==
  IF ~client[c].listed THEN client[c]
  ELSE IF Writable(c) THEN [client[c] EXCEPT !.socket = Append(@, n)]
       ELSE [client[c] EXCEPT !.listed = FALSE]

WireBrings ==
  /\ rxStep = "receive" /\ rx /\ port = "in" /\ relay = "up" /\ frames < MaxFrames
  /\ frames' = frames + 1
  /\ client' = [c \in Clients |-> Hear(c, frames')]
  /\ UNCHANGED <<clock, port, changes, relay, announced>> /\ UNCHANGED wireVars

(* find and connect: the announcement is followed to the relay, which wants *)
(* its token first; one left behind by a daemon that has stopped leads      *)
(* nowhere, and the client opens a transport of its own.                    *)
Find(c) ==
  /\ client[c] = Apart
  /\ \/ /\ announced /\ relay = "up"
        /\ \E rightToken \in BOOLEAN :
             client' = [client EXCEPT ![c].stage = IF rightToken THEN "accepted" ELSE "refused"]
     \/ /\ ~(announced /\ relay = "up")
        /\ client' = [client EXCEPT ![c].stage = "alone"]
  /\ UNCHANGED <<clock, port, changes, frames, relay, announced>>
  /\ UNCHANGED wireVars

(* serve_client: "OK" was written; the client goes on the list after that,  *)
(* and its frames are put on the wire from then on.                         *)
Joins(c) ==
  /\ client[c].stage = "accepted" /\ relay = "up"
  /\ client' = [client EXCEPT ![c].stage = "joined", ![c].listed = TRUE, ![c].link = TRUE]
  /\ UNCHANGED <<clock, port, changes, frames, relay, announced>>
  /\ UNCHANGED wireVars

ClientReads(c) ==       \* pump, one frame
  /\ client[c].stage = "joined" /\ client[c].socket # <<>>
  /\ client' = [client EXCEPT ![c].socket = Tail(@),
                             ![c].got = Append(@, Head(client[c].socket))]
  /\ UNCHANGED <<clock, port, changes, frames, relay, announced>>
  /\ UNCHANGED wireVars

ClientLosesRelay(c) ==  \* pump, at the end of the stream
  /\ client[c].stage = "joined" /\ client[c].socket = <<>> /\ relay = "gone" /\ client[c].link
  /\ client' = [client EXCEPT ![c].link = FALSE]
  /\ UNCHANGED <<clock, port, changes, frames, relay, announced>>
  /\ UNCHANGED wireVars

ClientLeaves(c) ==
  /\ client[c].stage = "joined"
  /\ client' = [client EXCEPT ![c].stage = "left", ![c].socket = <<>>, ![c].link = FALSE]
  /\ UNCHANGED <<clock, port, changes, frames, relay, announced>>
  /\ UNCHANGED wireVars

RelayGoes ==
  /\ relay = "up" /\ relay' = "gone"
  /\ UNCHANGED <<clock, port, changes, frames, client, announced>>
  /\ UNCHANGED wireVars

LinkSteps == LinkLost \/ EmptySlot \/ TellLost \/ Reopen \/ FillSlot \/ TellBack
LinksNext ==
  \/ LinkSteps \/ PortChanges \/ LinkClock \/ WireBrings \/ RelayGoes
  \/ \E c \in Clients : Find(c) \/ Joins(c) \/ ClientReads(c) \/ ClientLosesRelay(c)
                         \/ ClientLeaves(c)

(* The engine's reader keeps receiving, so the receive half keeps looking   *)
(* for a lost link; time passes; a client's pump thread runs.               *)
LinksFairness == WF_linkVars(LinkSteps) /\ WF_linkVars(LinkClock)
                 /\ \A c \in Clients : WF_linkVars(ClientReads(c)) /\ WF_linkVars(ClientLosesRelay(c))

LinksSpec == LinksInit /\ [][LinksNext]_linkVars /\ LinksFairness

-----------------------------------------------------------------------------
(* A link that is there and stays there is opened again while the clock     *)
(* runs, its transmit half with it, and is then said to be connected        *)
(* (Rx::recv, reconnect.rs:103-146).                                        *)
LinkComesBack ==
  [](((port = "in") /\ (clock + Retry < MaxClock))
     => <>(port # "in" \/ (rx /\ txSlot /\ linkUp)))

(* What a client of the relay hears has no hole: it is a run of the wire's  *)
(* frames, however slow it is, and ends where it was taken off the list     *)
(* (share, relay.rs:74-84; pump, relay.rs:258-264).                         *)
RelayRunsUnbroken ==
  \A c \in Clients : LET heard == client[c].got \o client[c].socket
                     IN \A i \in 1..(Len(heard) - 1) : heard[i + 1] = heard[i] + 1
=============================================================================
