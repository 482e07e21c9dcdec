------------------------------ MODULE MCSchema ------------------------------
(* Small installations for checking Schema with TLC. *)
EXTENDS Schema

OneTab == <<"Monitoring">>
=============================================================================
