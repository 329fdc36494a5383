------------------------------ MODULE MCParts ------------------------------
(***************************************************************************)
(* Four parts that have no state in common, checked in one run: the lock   *)
(* and its queue, the solver, the front end of T6DB, a connection of the   *)
(* proxy.  The first state says which part runs; the others stay in their  *)
(* initial states, so the run has the behaviours of each part and no       *)
(* product of them.  A part that may end then stays as it is, and anything *)
(* else that stops is a deadlock.                                          *)
(***************************************************************************)
EXTENDS CpLock, MCDancingLinks, MCFrontend, MCProxy

CONSTANTS p1, p2, p3, c1, c2, a, b
MCProducers == {p1, p2, p3}
MCConsumers == {c1, c2}
MCValues    == {a, b}

VARIABLE part
partVars == <<part, vars, dlVars, frontVars, proxyVars>>

PartsInit ==
  /\ part \in {"lock", "solver", "frontend", "proxy"}
  /\ Init /\ DlInit /\ FrontInit /\ ProxyInit
  /\ part # "solver" => board = CHOOSE s \in SmallBoards : TRUE
  /\ part # "proxy"  => request = CHOOSE s \in SomeRequested : TRUE

\* The solver has returned, nobody calls the coordinator, the connection is closed.
Rest ==
  \/ part = "solver" /\ dpc = "done"
  \/ part = "frontend" /\ phase = "accept" /\ backlog = <<>>
  \/ part = "proxy" /\ ppc = "closed"

PartsNext ==
  \/ part = "lock"     /\ Next      /\ UNCHANGED <<part, dlVars, frontVars, proxyVars>>
  \/ part = "solver"   /\ DlNext    /\ UNCHANGED <<part, vars, frontVars, proxyVars>>
  \/ part = "frontend" /\ FrontNext /\ UNCHANGED <<part, vars, dlVars, proxyVars>>
  \/ part = "proxy"    /\ ProxyNext /\ UNCHANGED <<part, vars, dlVars, frontVars>>
  \/ Rest /\ UNCHANGED partVars

\* The fairness of the part that runs.
PartsFairness ==
  /\ Fairness
  /\ []<>(part # "solver") \/ DlFairness
  /\ WF_frontVars(part = "frontend" /\ Working)
  /\ WF_proxyVars(part = "proxy" /\ socket_worker)

PartsSpec == PartsInit /\ [][PartsNext]_partVars /\ PartsFairness
=============================================================================
