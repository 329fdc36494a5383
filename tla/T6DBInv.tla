------------------------------ MODULE T6DBInv ------------------------------
(***************************************************************************)
(* The inductive invariant behind InSync (T6DB.tla), with every fault the  *)
(* model has: killed processes, a restarted coordinator, late replies.     *)
(*                                                                         *)
(* InSync speaks of the moments when nobody holds _workingMutex.  To get   *)
(* from one such moment to the next, IInv follows a command or a recovery  *)
(* through its phases: which slots are in use, what the requests and       *)
(* replies in flight say, and by how much each participant's transaction   *)
(* id may differ from what the coordinator believes.                       *)
(***************************************************************************)
EXTENDS T6DB

WHolds == wpc \in {"vote", "commit", "ask", "get"}
RHolds == rpc \in {"table", "leader", "ask", "data", "push", "pushed", "finish"}

\* Who holds which mutex is a matter of where the two threads are.
MutexInv ==
  /\ workMtx = "W" <=> WHolds
  /\ workMtx = "R" <=> RHolds
  /\ recMtx = "R" <=> RHolds \/ rpc = "lockW"

\* The slots of p are used only for the phase under way, for the request of
\* that phase; a thread that waits for a reply has taken its task.
TaskInv(p) ==
  task[p] # NoMsg =>
    \/ wpc = "vote" /\ task[p] = Log(txid, LOG_PRE, NoCmd)
    \/ wpc = "commit" /\ task[p] = Log(txid, LOG_COMMIT, wcmd)
    \/ wpc = "get" /\ p = widx /\ task[p] = Log(SUPER_TXID, LOG_COMMIT, NoCmd)
    \/ rpc = "data" /\ p = rLeader /\ task[p] = AskLog(rMin)

RetInv(p) ==
  ~Vacant(ret[p]) =>
    /\ task[p] = NoMsg
    /\ \/ wpc \in {"vote", "commit"}
       \/ wpc = "get" /\ p = widx
       \/ rpc = "data" /\ p = rLeader
    /\ ret[p].rc # "ok" => pstate[p] # "WORKING"

RTaskInv(p) ==
  rtask[p] # NoMsg =>
    \/ rpc = "table" /\ rtask[p] = Log(RECOVERY_TXID, LOG_PRE, NoCmd)
    \/ rpc = "pushed" /\ p = rIdx /\ rtask[p] = rLog

RRetInv(p) ==
  ~Vacant(rret[p]) =>
    /\ rtask[p] = NoMsg
    /\ rpc = "table" \/ (rpc = "pushed" /\ p = rIdx)

SlotInv ==
  \A p \in P_Id :
    /\ TaskInv(p) /\ RetInv(p) /\ RTaskInv(p) /\ RRetInv(p)
    /\ pw[p] = "wait" => task[p] # NoMsg /\ Vacant(ret[p])
    /\ pr[p] = "wait" => rtask[p] # NoMsg /\ Vacant(rret[p]) /\ PRecoveryDue(p)

\* The session of p belongs to the thread its state says; what is in flight in a
\* live session is the one request that thread waits for, or its reply.
SessionInv ==
  \A p \in P_Id :
    /\ csock[p] = "closed" <=> pstate[p] = "WAITING" /\ ka[p] = "watch"
    /\ ka[p] = "connected" => pstate[p] = "WAITING"
    /\ pw[p] = "wait" => pstate[p] = "WORKING"
    /\ rep[p] # NoReply => pw[p] = "wait" \/ pr[p] = "wait"
    /\ csock[p] = "open" /\ req[p] # NoMsg =>
         /\ rep[p] = NoReply
         /\ \/ pw[p] = "wait" /\ req[p] = task[p]
            \/ pr[p] = "wait" /\ req[p] = rtask[p]

\* The work thread, and the two ranges of the recovery thread's variables.
FromP == rpc \in {"ask", "data"} \/ (rpc \in {"push", "pushed"} /\ rFrom = "P")

PhaseInv ==
  /\ wpc \in {"vote", "commit"} => txid <= MaxTx /\ wcmd \in Cmds
  /\ rpc \in {"wait", "lockR", "lockW", "table"} => rMin < txid
  /\ rpc = "leader" => rMin >= TXID_START /\ rMin <= txid
  /\ FromP => /\ rMin >= TXID_START /\ rMin <= txid /\ txid <= rMax + 1
              /\ rMin <= rMax + 1
              /\ rpc # "ask" => rMin <= rMax
              /\ rLeader \in P_Id
              /\ \A p \in P_Id : maxTx[p] <= rMax
  /\ rpc \in {"push", "pushed"} =>
       /\ rLog \in Request /\ rLog.st = LOG_COMMIT
       /\ rLog.id >= TXID_START /\ rLog.id < txid
       /\ rFrom = "P" => rLog.id = rMin
  /\ rpc \notin {"push", "pushed"} => rFrom = "P"

\* maxTxidTB while it is in use: an entry belongs to a participant in recovery.
Counting == rpc \in {"leader", "ask", "data", "push", "pushed", "finish"}

TableInv ==
  /\ rpc \in {"wait", "lockR", "lockW"} => \A p \in P_Id : maxTx[p] = 0
  /\ rpc = "table" => \A p \in P_Id : maxTx[p] # 0 => maxTx[p] = 1 /\ rret[p].rc = "ok"
  /\ Counting => \A p \in P_Id :
       maxTx[p] # 0 => maxTx[p] >= TXID_START - 1 /\ pstate[p] = "RECOVERY"
  /\ rpc = "table" => \A p \in P_Id :
       rret[p].rc = "ok" => pstate[p] = "RECOVERY"
  /\ RHolds => \A p \in P_Id : pstate[p] # "TEMP"
  /\ rpc = "table" => \A p \in P_Id : pstate[p] # "WORKING"

\* What the replies in flight say, phase by phase.
TxAnswer(r) == r.kind = "txid" /\ r = TxReply(r.txid) /\ r.txid \in (TXID_START - 1)..MaxTx
LogAnswer(r) == r.kind = "log" /\ r.log \in Request /\ r.log.id = rMin /\ r.log.st = LOG_COMMIT

AnswerInv ==
  \A p \in P_Id :
    /\ wpc = "commit" =>
         /\ pw[p] = "wait" /\ rep[p] # NoReply => rep[p] = EventParser(wcmd)
         /\ ret[p].rc = "ok" => ret[p].data = EventParser(wcmd)
    /\ rpc = "data" /\ p = rLeader =>
         /\ pw[p] = "wait" /\ rep[p] # NoReply => LogAnswer(rep[p])
         /\ ret[p].rc = "ok" => LogAnswer(ret[p].data)
    /\ rpc = "table" =>
         /\ pr[p] = "wait" /\ rep[p] # NoReply => TxAnswer(rep[p])
         /\ rret[p].rc = "ok" => TxAnswer(rret[p].data)
    /\ rpc = "pushed" /\ pr[p] = "wait" /\ rep[p] # NoReply => rep[p] \in {OkReply, ErrReply}

\* By how much p's own id is ahead, for a participant with a live session.
SyncInv ==
  \A p \in P_Id : csock[p] = "open" =>
    /\ pstate[p] = "WORKING" /\ ~RHolds =>
         ptxid[p] = IF wpc = "commit" /\ (rep[p] = OkReply \/ ret[p] = Got(OkReply))
                    THEN txid + 1 ELSE txid
    /\ pstate[p] = "WORKING" /\ RHolds =>
         IF FromP THEN p = rLeader /\ ptxid[p] = rMax + 1
                  ELSE ptxid[p] = txid /\ (rpc = "leader" => AheadP = {})
    /\ rpc = "table" =>
         /\ pr[p] = "wait" /\ rep[p] # NoReply => rep[p].txid = ptxid[p] - 1
         /\ rret[p].rc = "ok" => rret[p].data.txid = ptxid[p] - 1
    /\ Counting /\ maxTx[p] # 0 =>
         ptxid[p] = maxTx[p] + (IF rep[p] = OkReply THEN 2 ELSE 1)

TmpInv == ~RHolds => tmpNum = Cardinality(Temp)

IInv ==
  /\ TypeOK /\ MutexInv /\ SlotInv /\ SessionInv /\ PhaseInv /\ TableInv
  /\ AnswerInv /\ SyncInv /\ CLogCommitted /\ TmpInv

-----------------------------------------------------------------------------
\* A coordinator that does not work, and is not recovering either, has nobody at work: it
\* has not come to its first recovery.
IdleInv == cstate = "C_RECOVERY" /\ ~Recovering => \A p \in P_Id : pstate[p] # "WORKING"

\* What a participant that stays in the working state answers to a vote and to a GET, and
\* that those a GET has asked in vain are out: with every fault of the model.
SurvivorInv ==
  /\ wpc = "vote" => \A p \in P_Id :
       /\ pw[p] = "wait" /\ rep[p] # NoReply => rep[p] = PreReply
       /\ ret[p].rc = "ok" => ret[p].data = PreReply
  /\ wpc = "get" =>
       /\ pw[widx] = "wait" /\ rep[widx] # NoReply => rep[widx].kind = "db"
       /\ ret[widx].rc = "ok" => ret[widx].data.kind = "db"
  /\ wpc \in {"ask", "get"} => \A p \in P_Id : p < widx => pstate[p] # "WORKING"
=============================================================================
