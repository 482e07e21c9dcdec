------------------------------- MODULE Waiter -------------------------------
(***************************************************************************)
(* runtime/waiter.rs: the table that correlates an answer heard by the     *)
(* reader thread with the request the scheduler thread waits for.          *)
(* MasterBus answers carry no token, so a request is known only by its     *)
(* key, and the key here is the field that is read.                        *)
(*                                                                         *)
(* Each operator is one critical section of the table's mutex.             *)
(***************************************************************************)
EXTENDS Readings

CONSTANT Absent  \* no slot: the key is not in the map

VARIABLE slots  \* slots[f]: Absent, None (registered, empty) or the answer

Registered(f) == slots[f] # Absent

\* A slot that wait_any would report: it holds an answer.
Answered(f) == slots[f] \notin {Absent, None}

WaiterInit == slots = [f \in Fields |-> Absent]

\* register: a fresh slot, whatever the old one held.
Register(f) == slots' = [slots EXCEPT ![f] = None]

\* deliver: kept only if somebody registered the key; a later answer
\* replaces an earlier one that was not collected yet.
Deliver(f, answer) ==
    slots' = IF Registered(f) THEN [slots EXCEPT ![f] = answer] ELSE slots

\* The end of wait, with an answer or without: the key is removed.
Remove(f) == slots' = [slots EXCEPT ![f] = Absent]
=============================================================================
