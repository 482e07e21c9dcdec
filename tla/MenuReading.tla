---------------------------- MODULE MenuReading ----------------------------
(***************************************************************************)
(* What reading a menu from a device amounts to, without the requests: the *)
(* groups the device counts are taken one by one, each is listed or left   *)
(* out, and the menu is whole if no listed group lacks its field count.    *)
(***************************************************************************)
EXTENDS Naturals

CONSTANT MaxGroups

VARIABLES
    busy,     \* whether a menu is being read
    left,     \* groups still to be taken
    some,     \* whether any group is listed
    counted   \* whether every listed group's fields were counted

menu == <<busy, left, some, counted>>

Init == ~busy /\ left = 0 /\ ~some /\ ~counted

Begin ==
    /\ ~busy
    /\ busy' = TRUE
    /\ left' \in 0 .. MaxGroups
    /\ some' = FALSE /\ counted' = TRUE

ListGroup ==
    /\ busy /\ left > 0
    /\ left' = left - 1
    /\ some' = TRUE
    /\ counted' \in BOOLEAN /\ (counted' => counted)
    /\ UNCHANGED busy

\* A group that repeats the one before it ends the menu.
LeaveOutGroup ==
    /\ busy /\ left > 0
    /\ \/ left' = left - 1
       \/ some /\ left' = 0
    /\ UNCHANGED <<busy, some, counted>>

End ==
    /\ busy /\ left = 0
    /\ busy' = FALSE
    /\ UNCHANGED <<left, some, counted>>

\* The program stopped.
Abandon == Init'

Forget == ~busy /\ Init'

Next == Begin \/ ListGroup \/ LeaveOutGroup \/ End \/ Abandon \/ Forget

Spec == Init /\ [][Next]_menu
=============================================================================
