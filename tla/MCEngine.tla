------------------------------ MODULE MCEngine ------------------------------
(***************************************************************************)
(* The parts of the library around the scheduler, each on its own: in a    *)
(* behaviour one of them runs and the others stay as they were at first,   *)
(* where none of their fair actions is enabled.                            *)
(***************************************************************************)
EXTENDS Engine, Links, Codec

VARIABLE part

vars == <<engineVars, linkVars, codecVars, part>>

Init ==
  /\ part \in {"engine", "links", "codec"}
  /\ EngineInit
  /\ LinksInit /\ (part # "links" => announced /\ clock = 0)
  /\ CodecInit /\ (part # "codec" => /\ question.ask = "heartbeat"
                                    /\ question.addr = CHOOSE a \in Addrs : TRUE)

Next ==
  \/ part = "engine" /\ EngineNext /\ UNCHANGED <<linkVars, codecVars, part>>
  \/ part = "links" /\ LinksNext /\ UNCHANGED <<engineVars, codecVars, part>>
  \/ part = "codec" /\ CodecNext /\ UNCHANGED <<engineVars, linkVars, part>>

Spec == Init /\ [][Next]_vars /\ EngineFairness /\ LinksFairness
=============================================================================
