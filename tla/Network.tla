------------------------------ MODULE Network ------------------------------
(***************************************************************************)
(* The TCP sessions between the coordinator and each participant: Network  *)
(* (include/network.hpp, network.cc) over the vendored ossSocket.          *)
(*                                                                         *)
(* A participant listens only while it waits for a coordinator: reaccept   *)
(* closes the listening socket once it has accepted.  So there is at most  *)
(* one connection per participant, and a coordinator that gave a session   *)
(* up cannot reach the participant before the participant has given it up  *)
(* as well.  The coordinator has at most one request in flight per         *)
(* session, so each direction of a session holds at most one message.      *)
(***************************************************************************)
EXTENDS Logger

VARIABLES
  csock,  \* [p] coordinator's end: "closed", "open", or "broken" (the peer died)
  psock,  \* [p] participant's end: "down" (no process), "listen", "attached"
  req,    \* [p] request the participant has not handled yet
  rep     \* [p] reply the coordinator has not read yet

netVars == <<csock, psock, req, rep>>

NetTypeOK ==
  /\ csock \in [P_Id -> {"closed", "open", "broken"}]
  /\ psock \in [P_Id -> {"down", "listen", "attached"}]
  /\ req \in [P_Id -> Request \cup {NoMsg}]
  /\ rep \in [P_Id -> Reply \cup {NoReply}]

NetInit ==
  /\ csock = [p \in P_Id |-> "closed"]
  /\ psock \in [P_Id -> {"down", "listen"}]
  /\ req = [p \in P_Id |-> NoMsg]
  /\ rep = [p \in P_Id |-> NoReply]

\* Network::reconnect meets Network::reaccept.
Connect(p) ==
  /\ psock[p] = "listen"
  /\ csock' = [csock EXCEPT ![p] = "open"]
  /\ psock' = [psock EXCEPT ![p] = "attached"]
  /\ req' = [req EXCEPT ![p] = NoMsg]
  /\ rep' = [rep EXCEPT ![p] = NoReply]

\* The first half of sendAndRecv.  Sending into a dead session loses the message.
SendRequest(p, m) ==
  /\ req' = IF csock[p] = "open" THEN [req EXCEPT ![p] = m] ELSE req
  /\ UNCHANGED <<csock, psock, rep>>

\* The second half of sendAndRecv, when the reply arrives in time.
RecvReply(p) ==
  /\ rep[p] # NoReply
  /\ rep' = [rep EXCEPT ![p] = NoReply]
  /\ UNCHANGED <<csock, psock, req>>

\* sendAndRecv fails: the peer is gone or, when the network may delay a packet
\* beyond NETWORK_TIMEOUT, nothing has arrived.  The coordinator closes its end;
\* what it has sent may still reach the participant.
GiveUp(p, mayTimeout) ==
  /\ \/ csock[p] # "open"
     \/ mayTimeout /\ rep[p] = NoReply
  /\ csock' = [csock EXCEPT ![p] = "closed"]
  /\ rep' = [rep EXCEPT ![p] = NoReply]
  /\ UNCHANGED <<psock, req>>

\* Network::send of the participant, after it has taken its request.
Answer(p, r) ==
  /\ req' = [req EXCEPT ![p] = NoMsg]
  /\ rep' = IF csock[p] = "open" THEN [rep EXCEPT ![p] = r] ELSE rep
  /\ UNCHANGED <<csock, psock>>

\* The participant reads the end of the stream (KV_NETWORK_CLOSE); a reset can
\* make it lose a request it had not read.
ReadEof(p) ==
  /\ psock[p] = "attached" /\ csock[p] # "open"
  /\ psock' = [psock EXCEPT ![p] = "listen"]
  /\ req' = [req EXCEPT ![p] = NoMsg]
  /\ UNCHANGED <<csock, rep>>

\* The participant's process dies; a reply it had sent can still be read.
PeerDies(p) ==
  /\ psock' = [psock EXCEPT ![p] = "down"]
  /\ csock' = IF csock[p] = "open" THEN [csock EXCEPT ![p] = "broken"] ELSE csock
  /\ req' = [req EXCEPT ![p] = NoMsg]
  /\ UNCHANGED rep

\* The coordinator's process dies: all its ends close.
AllClosed ==
  /\ csock' = [p \in P_Id |-> "closed"]
  /\ rep' = [p \in P_Id |-> NoReply]
  /\ UNCHANGED <<psock, req>>
=============================================================================
