------------------------------- MODULE MCSession -------------------------------
(* Model checking of two parts of a channel that share no state, a part at a      *)
(* time: the requests of the sidecar, and who has the floor.                      *)
EXTENDS Sidecar, TurnTaking

VARIABLE part

sessionVars == <<sidecarVars, vars, part>>

SessionInit ==
  /\ SidecarInit /\ Init
  /\ part \in {"sidecar", "floor"} /\ (part = "sidecar" => active = "model")

SessionNext ==
  \/ part = "sidecar" /\ SidecarNext /\ UNCHANGED <<vars, part>>
  \/ part = "floor" /\ Next /\ UNCHANGED <<sidecarVars, part>>

\* No task of the sidecar is there to step if it is not its turn.
FairSession ==
  /\ SessionInit /\ [][SessionNext]_sessionVars
  /\ SidecarFairness /\ WF_vars(part = "floor" /\ OutputLoop)
===============================================================================
