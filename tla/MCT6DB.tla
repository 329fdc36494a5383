------------------------------- MODULE MCT6DB -------------------------------
(***************************************************************************)
(* T6DB for TLC: the number of processes killed and of timeouts is bounded *)
(* by counters, as MaxTx bounds the transactions.                          *)
(***************************************************************************)
EXTENDS T6DBInv

CONSTANTS
  MaxKills, MaxRestarts, MaxTimeouts,
  c1, c2, bad

VARIABLES kills, restarts, timeouts

mcVars == <<vars, kills, restarts, timeouts>>

MCInit ==
  /\ Init
  /\ kills = 0 /\ restarts = 0 /\ timeouts = 0

\* In this step the coordinator hangs up on a live session.
HangsUp == \E p \in P_Id : csock[p] = "open" /\ csock'[p] = "closed"

MCNext ==
  \/ /\ NormalNext
     /\ timeouts' = timeouts + IF HangsUp THEN 1 ELSE 0
     /\ timeouts' <= MaxTimeouts
     /\ UNCHANGED <<kills, restarts>>
  \/ /\ \E p \in P_Id : Kill(p)
     /\ kills < MaxKills
     /\ kills' = kills + 1
     /\ UNCHANGED <<restarts, timeouts>>
  \/ /\ \E p \in P_Id : Run(p)
     /\ UNCHANGED <<kills, restarts, timeouts>>
  \/ /\ KillCoordinator
     /\ restarts < MaxRestarts
     /\ restarts' = restarts + 1
     /\ UNCHANGED <<kills, timeouts>>

MCSpec == MCInit /\ [][MCNext]_mcVars
MCFairSpec == MCSpec /\ Fairness
=============================================================================
