---------------------------- MODULE LaggingView ----------------------------
(***************************************************************************)
(* What the engine promises about values, without saying how: the device   *)
(* changes its fields as it likes, and a caller or a subscriber is told    *)
(* values the field really had, possibly late, possibly skipping some, but *)
(* in the order in which the device had them.                              *)
(***************************************************************************)
EXTENDS Naturals, Sequences

CONSTANTS
    Fields,
    Values,
    None

VARIABLES
    held,  \* held[f]: every value the field has had, the present one last
    told   \* told[f]: the reading handed out last, or None

ToldAt(f) == IF told[f] = None THEN 0 ELSE told[f].at

Init ==
    /\ held \in [Fields -> {<<v>> : v \in Values}]
    /\ told = [f \in Fields |-> None]

Change(f, v) ==
    /\ held' = [held EXCEPT ![f] = Append(@, v)]
    /\ UNCHANGED told

\* Tell somebody a value at least as recent as the last one told.
Tell(f, k) ==
    /\ k \in DOMAIN held[f]
    /\ k >= ToldAt(f)
    /\ told' = [told EXCEPT ![f] = [val |-> held[f][k], at |-> k]]
    /\ UNCHANGED held

Next ==
    \E f \in Fields :
        \/ \E v \in Values : Change(f, v)
        \/ \E k \in DOMAIN held[f] : Tell(f, k)

Spec == Init /\ [][Next]_<<held, told>>
=============================================================================
