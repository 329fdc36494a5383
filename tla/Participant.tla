---------------------------- MODULE Participant ----------------------------
(***************************************************************************)
(* A T6DB participant (participant.cc): one thread that serves the         *)
(* requests of the coordinator in order, keeps the log and the database in *)
(* memory, and goes back to accepting when the coordinator hangs up.       *)
(*                                                                         *)
(* A commit runs eventParser on the database and, in the same branch,      *)
(* writes the log and advances _TXID, so the database is the effect of the *)
(* logged commands and needs no variable of its own.                       *)
(***************************************************************************)
EXTENDS Network

VARIABLES
  ptxid,  \* [p] Participant::_TXID, the id the next transaction must have
  plog    \* [p] Participant::_lg, the command logged under each id

pVars == <<ptxid, plog>>

EmptyLog == [t \in TxIds |-> NoCmd]

ParticipantTypeOK ==
  /\ ptxid \in [P_Id -> TXID_START..(MaxTx + 1)]
  /\ plog \in [P_Id -> DbImage]

ParticipantInit ==
  /\ ptxid = [p \in P_Id |-> TXID_START]
  /\ plog = [p \in P_Id |-> EmptyLog]

\* eventParser of a SET or DEL; only a wrong number of arguments fails.
EventParser(cmd) == IF cmd \in BadCmds THEN ErrReply ELSE OkReply

\* The commit branch of pWorker, when eventParser accepts the command.
Applies(p, m) ==
  /\ m.id >= TXID_START
  /\ m.id = ptxid[p] /\ m.st = LOG_COMMIT
  /\ EventParser(m.ev) # ErrReply

\* What pWorker returns for request m.
PWorker(p, m) ==
  IF m.id = SUPER_TXID THEN DbReply(plog[p])
  ELSE IF m.id = RECOVERY_TXID THEN TxReply(ptxid[p] - 1)
  ELSE IF m.id = ASK_DATA_TXID
  THEN IF m.arg >= ptxid[p]
       THEN EmptyReply ELSE LogReply(Log(m.arg, LOG_COMMIT, plog[p][m.arg]))
  ELSE IF m.id # ptxid[p] THEN ErrReply
  ELSE IF m.st = LOG_PRE THEN PreReply ELSE EventParser(m.ev)

\* Working: receive, pWorker, send.
Serve(p) ==
  /\ psock[p] = "attached" /\ req[p] # NoMsg
  /\ Answer(p, PWorker(p, req[p]))
  /\ IF Applies(p, req[p])
     THEN /\ plog' = [plog EXCEPT ![p][req[p].id] = req[p].ev]
          /\ ptxid' = [ptxid EXCEPT ![p] = @ + 1]
     ELSE UNCHANGED pVars

\* Working fails with KV_NETWORK_CLOSE and Launch calls keepAlive again.
Reaccept(p) == ReadEof(p) /\ UNCHANGED pVars

\* The process is killed: the log and the database are in memory only.
Crash(p) ==
  /\ psock[p] # "down"
  /\ PeerDies(p)
  /\ ptxid' = [ptxid EXCEPT ![p] = TXID_START]
  /\ plog' = [plog EXCEPT ![p] = EmptyLog]

\* The process is started: Init, then keepAlive.
Start(p) ==
  /\ psock[p] = "down"
  /\ psock' = [psock EXCEPT ![p] = "listen"]
  /\ UNCHANGED <<csock, req, rep, pVars>>
=============================================================================
