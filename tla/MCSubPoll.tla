----------------------------- MODULE MCSubPoll -----------------------------
(* Small installations for checking SubPoll with TLC. *)
EXTENDS SubPoll

\* Two fields of one device.
OneDevice == [f \in Fields |-> "charger"]

\* The first subscription wants both of the charger's fields, the second
\* one that it shares.
Overlapping == [s \in Subs |-> IF s = 1 THEN {1, 2} ELSE {2}]

\* One field for each subscription.
Separate == [s \in Subs |-> {s}]

\* One subscription for both.
Both == [s \in Subs |-> {1, 2}]

OftenAndSeldom == [s \in Subs |-> IF s = 1 THEN 1 ELSE 2]
=============================================================================
