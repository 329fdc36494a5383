---------------------------- MODULE T6DBHistory ----------------------------
(***************************************************************************)
(* The inductive invariant behind LogsAgree, NewestAdopted and             *)
(* ImplementsStore (T6DB.tla), on top of IInv.                             *)
(*                                                                         *)
(* HInv is about a punctual system: no reply comes later than              *)
(* NETWORK_TIMEOUT and, if the coordinator may be killed, every            *)
(* participant that runs is connected before its first recovery.  What a   *)
(* participant holds then includes the commit that is on its way to it,    *)
(* so nothing changes when that commit is executed.                        *)
(***************************************************************************)
EXTENDS T6DBInv

Punctual == ~NetFaults /\ (CoordCrash => StartWait)

\* The request on its way to p is a commit that p will execute.
Pending(p) == req[p] # NoMsg /\ Applies(p, req[p])

\* p has executed c under the id t, or will.
Holds(p, t, c) ==
  \/ t < ptxid[p] /\ plog[p][t] = c
  \/ Pending(p) /\ req[p].id = t /\ req[p].ev = c

\* Before the recovery thread starts, the coordinator has done nothing.
SleepInv ==
  rpc = "sleep" => cstate = "C_RECOVERY" /\ txid = TXID_START /\ wpc \in {"idle", "reply"}

\* Who has died, or (once the first recovery has started) has no session, has nothing: a
\* session is given up only when its participant has died.
Fresh(p) ==
  /\ psock[p] # "attached" /\ req[p] = NoMsg
  /\ ptxid[p] = TXID_START /\ plog[p] = EmptyLog

FreshInv ==
  \A p \in P_Id :
    /\ psock[p] = "down" \/ csock[p] = "broken" => Fresh(p)
    /\ csock[p] # "open" => Fresh(p) \/ (CoordCrash /\ rpc = "sleep")
    /\ csock[p] = "open" => psock[p] = "attached"

\* The logs have no gap, and what is to be committed is a command.
LogInv ==
  /\ \A p \in P_Id, t \in TxIds : plog[p][t] # NoCmd <=> t < ptxid[p]
  /\ \A t \in TxIds : t < txid => clog[t].cmd \in Cmds
  /\ \A p \in P_Id : Pending(p) => req[p].ev \in Cmds

\* Nobody holds two commands under one id, nor another than the coordinator has committed.
AgreeInv ==
  /\ \A p, q \in P_Id, t \in TxIds, c, d \in Cmds : Holds(p, t, c) /\ Holds(q, t, d) => c = d
  /\ \A p \in P_Id, t \in TxIds, c \in Cmds : t < txid /\ Holds(p, t, c) => clog[t].cmd = c

\* p is ahead of a coordinator that has been killed, and its recovery will take that in.
Unsettled(p) ==
  \/ /\ rpc \in {"entry", "wait", "lockR", "lockW"} /\ cstate = "C_RECOVERY"
     /\ wpc \in {"idle", "reply"} /\ pstate[p] = "TEMP"
  \/ rpc = "table" /\ pstate[p] = "RECOVERY"
  \/ rpc = "leader" /\ maxTx[p] # 0
  \/ FromP /\ (maxTx[p] # 0 \/ (p = rLeader /\ pstate[p] = "WORKING"))

\* Who is ahead of the coordinator has the command that is being committed, or is ahead of
\* a coordinator that has been killed.
AheadInv ==
  \A p \in P_Id, t \in TxIds, c \in Cmds :
    t >= txid /\ Holds(p, t, c) =>
      \/ wpc = "commit" /\ t = txid /\ c = wcmd /\ pstate[p] = "WORKING"
      \/ CoordCrash /\ rpc = "sleep"
      \/ CoordCrash /\ t < ptxid[p] /\ Unsettled(p)

\* Nobody even says that it is ahead of a coordinator that is never killed.
LevelInv ==
  ~CoordCrash => \A p \in P_Id :
    /\ rpc = "table" =>
         /\ pr[p] = "wait" /\ rep[p] # NoReply => rep[p].txid < txid
         /\ rret[p].rc = "ok" => rret[p].data.txid < txid
    /\ Counting => maxTx[p] < txid

\* The record under _TXID is the command's while it runs; who is in recovery answers the
\* query; what recovery sends is what the coordinator has under that id.
RecordInv ==
  /\ wpc \in {"vote", "commit"} => clog[txid].cmd = wcmd
  /\ rpc = "table" => \A p \in P_Id :
       pstate[p] = "RECOVERY" => Vacant(rret[p]) \/ rret[p].rc = "ok"
  /\ rpc \in {"push", "pushed"} => clog[rLog.id].cmd = rLog.ev
  /\ FromP => CoordCrash

\* A record l from the leader's log is what everybody holds under its id.
TrueRecord(l) ==
  /\ l.ev \in Cmds
  /\ l.id < txid => clog[l.id].cmd = l.ev
  /\ \A q \in P_Id, c \in Cmds : Holds(q, l.id, c) => c = l.ev

LeaderInv ==
  rpc = "data" =>
    /\ pw[rLeader] = "wait" /\ rep[rLeader] # NoReply => TrueRecord(rep[rLeader].log)
    /\ ret[rLeader].rc = "ok" => TrueRecord(ret[rLeader].data.log)

\* A GET is answered with the committed commands.
GetInv ==
  wpc = "get" =>
    /\ pw[widx] = "wait" /\ rep[widx] # NoReply => rep[widx] = DbReply(CommittedDb)
    /\ ret[widx].rc = "ok" => ret[widx].data = DbReply(CommittedDb)

\* The work thread has a command except when it is idle; it asks for a GET only.
CallInv ==
  /\ wpc = "idle" <=> wcmd = NoCmd
  /\ wpc \in {"ask", "get"} => wcmd = Get

HInv ==
  /\ SleepInv /\ FreshInv /\ LogInv /\ AgreeInv /\ AheadInv /\ LevelInv /\ RecordInv
  /\ LeaderInv /\ GetInv /\ CallInv
=============================================================================
