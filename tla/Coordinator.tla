---------------------------- MODULE Coordinator ----------------------------
(***************************************************************************)
(* The T6DB coordinator (coordinator.cc) with its threads:                 *)
(*   work        one thread: takes a client's command, runs it with        *)
(*               _workingMutex held, answers                               *)
(*   recovery    one thread: brings participants up to date and puts them  *)
(*               into the working state                                    *)
(*   keepAlive, pWorking, pRecovery   one of each per participant          *)
(* A thread hands work to pWorking and pRecovery through one-slot          *)
(* producer/consumer locks (cpLock(1), lock.hpp): a slot is vacant or      *)
(* holds the value; a producer waits for a vacant slot, a consumer for a   *)
(* value.  The slot of a task stays occupied until the answer is written.  *)
(* A slot of answers is a return code, and the reply of the last exchange, *)
(* which a consumer and a skipped task leave where it is.                  *)
(*                                                                         *)
(* Where the work thread pushes one task to every participant and then     *)
(* collects every answer, the pushes are one step and the collection is    *)
(* one step: each touches the slots of one participant only, so it         *)
(* commutes with everything the other participants' threads do.            *)
(***************************************************************************)
EXTENDS Network

CONSTANTS
  NetFaults,   \* TRUE: a reply may come later than NETWORK_TIMEOUT
  StartWait    \* TRUE: sleep(2) in Launch is long enough for every running
               \* participant to be connected before the first recovery

ASSUME SwitchAssumption == NetFaults \in BOOLEAN /\ StartWait \in BOOLEAN

VARIABLES
  txid,     \* _TXID
  clog,     \* _lg: [id] the command and its state, or NoEntry
  cstate,   \* _cstate
  pstate,   \* [p] _pstate
  tmpNum,   \* _tmpNum
  maxTx,    \* [p] maxTxidTB, 0 when there is no entry
  workMtx, recMtx,             \* holder of _workingMutex and of _recoveryMutex
  task, ret, rtask, rret,      \* the slots, [p]
  ka, pw, pr,                  \* [p] where keepAlive, pWorking, pRecovery are
  wpc, wcmd, wres, widx,       \* work thread: place, command, answer, loop index
  rpc, rMin, rMax, rLeader, rFrom, rIdx, rLog   \* recovery thread

coreVars == <<txid, clog, cstate, pstate, tmpNum, maxTx>>
mutexes == <<workMtx, recMtx>>
wSlots == <<task, ret>>
rSlots == <<rtask, rret>>
threads == <<ka, pw, pr>>
wVars == <<wpc, wcmd, wres, widx>>
rVars == <<rpc, rMin, rMax, rLeader, rFrom, rIdx, rLog>>
cVars == <<coreVars, mutexes, wSlots, rSlots, threads, wVars, rVars>>

Free == "free"
\* rc: whether the slot holds an answer, and which code (_pworkingRet, _precoveryRet);
\* data: the reply (_pworkingDataRet, _preoveryDataRet).
Ret == [rc : {"empty", "skip", "net", "ok"}, data : Reply]
Unused == [rc |-> "empty", data |-> EmptyReply]
Vacant(r) == r.rc = "empty"
Taken(r) == [rc |-> "empty", data |-> r.data]
Skip(r) == [rc |-> "skip", data |-> r.data]        \* RET_SKIP: the old reply stays
Failed == [rc |-> "net", data |-> EmptyReply]      \* an error of sendAndRecv
Got(data) == [rc |-> "ok", data |-> data]          \* KV_OK with the reply
NoEntry == [st |-> "none", cmd |-> NoCmd]
Entry(st, cmd) == [st |-> st, cmd |-> cmd]
EntryType == [st : {"none", LOG_PRE, LOG_COMMIT}, cmd : Cmds \cup {NoCmd}]

CoordinatorTypeOK ==
  /\ txid \in TXID_START..(MaxTx + 1)
  /\ clog \in [TxIds -> EntryType]
  /\ cstate \in {"C_RECOVERY", "C_WORKING"}
  /\ pstate \in [P_Id -> {"WAITING", "TEMP", "RECOVERY", "WORKING"}]
  /\ tmpNum \in 0..PNum
  /\ maxTx \in [P_Id -> {0, 1} \cup (TXID_START - 1)..MaxTx]
  /\ workMtx \in {Free, "W", "R"} /\ recMtx \in {Free, "R"}
  /\ task \in [P_Id -> Request \cup {NoMsg}]
  /\ rtask \in [P_Id -> Request \cup {NoMsg}]
  /\ ret \in [P_Id -> Ret] /\ rret \in [P_Id -> Ret]
  /\ ka \in [P_Id -> {"watch", "connected"}]
  /\ pw \in [P_Id -> {"idle", "wait"}] /\ pr \in [P_Id -> {"idle", "wait"}]
  /\ wpc \in {"idle", "lock", "vote", "commit", "ask", "get", "reply"}
  /\ wcmd \in Cmds \cup {NoCmd, Get, Junk}
  /\ wres \in Reply /\ widx \in 1..PNum
  /\ rpc \in {"sleep", "entry", "wait", "lockR", "lockW", "table", "leader", "ask",
              "data", "push", "pushed", "finish", "done"}
  /\ rMin \in (TXID_START - 1)..(MaxTx + 1)
  /\ rMax \in (TXID_START - 1)..MaxTx
  /\ rLeader \in {0} \cup P_Id
  /\ rFrom \in {"P", "C"} /\ rIdx \in P_Id
  /\ rLog \in Request \cup {NoMsg}

CoordinatorInit ==
  /\ txid = TXID_START
  /\ clog = [t \in TxIds |-> NoEntry]
  /\ cstate = "C_RECOVERY"
  /\ pstate = [p \in P_Id |-> "WAITING"]
  /\ tmpNum = 0
  /\ maxTx = [p \in P_Id |-> 0]
  /\ workMtx = Free /\ recMtx = Free
  /\ task = [p \in P_Id |-> NoMsg] /\ rtask = [p \in P_Id |-> NoMsg]
  /\ ret = [p \in P_Id |-> Unused] /\ rret = [p \in P_Id |-> Unused]
  /\ ka = [p \in P_Id |-> "watch"]
  /\ pw = [p \in P_Id |-> "idle"] /\ pr = [p \in P_Id |-> "idle"]
  /\ wpc = "idle" /\ wcmd = NoCmd /\ wres = ErrReply /\ widx = 1
  /\ rpc = "sleep" /\ rMin = TXID_START - 1 /\ rMax = TXID_START - 1 /\ rLeader = 0
  /\ rFrom = "P" /\ rIdx = 1 /\ rLog = NoMsg

-----------------------------------------------------------------------------
(* keepAlive(p) *)

\* The participant is out: connect to it again.
KeepAliveConnect(p) ==
  /\ ka[p] = "watch" /\ pstate[p] = "WAITING"
  /\ Connect(p)
  /\ ka' = [ka EXCEPT ![p] = "connected"]
  /\ UNCHANGED <<coreVars, mutexes, wSlots, rSlots, pw, pr, wVars, rVars>>

\* Mutant: the participant is put to work at once.
KeepAliveWorking(p) ==
  /\ ka[p] = "connected" /\ recMtx = Free
  /\ pstate' = [pstate EXCEPT ![p] = "WORKING"]
  /\ tmpNum' = tmpNum + 1
  /\ ka' = [ka EXCEPT ![p] = "watch"]
  /\ UNCHANGED <<txid, clog, cstate, maxTx, mutexes, wSlots, rSlots, pw, pr, wVars, rVars, netVars>>

\* With _recoveryMutex: announce it to the recovery thread.
KeepAliveTemp(p) ==
  /\ ka[p] = "connected" /\ recMtx = Free
  /\ pstate' = [pstate EXCEPT ![p] = "TEMP"]
  /\ tmpNum' = tmpNum + 1
  /\ ka' = [ka EXCEPT ![p] = "watch"]
  /\ UNCHANGED <<txid, clog, cstate, maxTx, mutexes, wSlots, rSlots, pw, pr, wVars, rVars, netVars>>

-----------------------------------------------------------------------------
(* pWorking(p) *)

PWorkingSkip(p) ==
  /\ pw[p] = "idle" /\ task[p] # NoMsg /\ Vacant(ret[p])
  /\ pstate[p] # "WORKING"
  /\ ret' = [ret EXCEPT ![p] = Skip(@)]
  /\ task' = [task EXCEPT ![p] = NoMsg]
  /\ UNCHANGED <<coreVars, mutexes, rSlots, threads, wVars, rVars, netVars>>

PWorkingSend(p) ==
  /\ pw[p] = "idle" /\ task[p] # NoMsg /\ Vacant(ret[p])
  /\ pstate[p] = "WORKING"
  /\ SendRequest(p, task[p])
  /\ pw' = [pw EXCEPT ![p] = "wait"]
  /\ UNCHANGED <<coreVars, mutexes, wSlots, rSlots, ka, pr, wVars, rVars>>

PWorkingRecv(p) ==
  /\ pw[p] = "wait"
  /\ RecvReply(p)
  /\ ret' = [ret EXCEPT ![p] = Got(rep[p])]
  /\ task' = [task EXCEPT ![p] = NoMsg]
  /\ pw' = [pw EXCEPT ![p] = "idle"]
  /\ UNCHANGED <<coreVars, mutexes, rSlots, ka, pr, wVars, rVars>>

\* Any error of sendAndRecv: close the session and have keepAlive reconnect.
PWorkingFail(p) ==
  /\ pw[p] = "wait"
  /\ GiveUp(p, NetFaults)
  /\ pstate' = [pstate EXCEPT ![p] = "WAITING"]
  /\ ret' = [ret EXCEPT ![p] = Failed]
  /\ task' = [task EXCEPT ![p] = NoMsg]
  /\ pw' = [pw EXCEPT ![p] = "idle"]
  /\ UNCHANGED <<txid, clog, cstate, tmpNum, maxTx, mutexes, rSlots, ka, pr, wVars, rVars>>

-----------------------------------------------------------------------------
(* pRecovery(p) *)

\* A log record is for p only when it is the next one p misses.
PRecoveryDue(p) ==
  /\ pstate[p] = "RECOVERY"
  /\ rtask[p].id >= TXID_START => rtask[p].id = maxTx[p] + 1

PRecoverySkip(p) ==
  /\ pr[p] = "idle" /\ rtask[p] # NoMsg /\ Vacant(rret[p])
  /\ ~PRecoveryDue(p)
  /\ rret' = [rret EXCEPT ![p] = Skip(@)]
  /\ rtask' = [rtask EXCEPT ![p] = NoMsg]
  /\ UNCHANGED <<coreVars, mutexes, wSlots, threads, wVars, rVars, netVars>>

PRecoverySend(p) ==
  /\ pr[p] = "idle" /\ rtask[p] # NoMsg /\ Vacant(rret[p])
  /\ PRecoveryDue(p)
  /\ SendRequest(p, rtask[p])
  /\ pr' = [pr EXCEPT ![p] = "wait"]
  /\ UNCHANGED <<coreVars, mutexes, wSlots, rSlots, ka, pw, wVars, rVars>>

\* The entry of p in maxTxidTB goes up with every request p did not refuse, the
\* query included; RTable overwrites it after the query with p's answer.
PRecoveryRecv(p) ==
  /\ pr[p] = "wait"
  /\ RecvReply(p)
  /\ maxTx' = IF rep[p] # ErrReply
              THEN [maxTx EXCEPT ![p] = @ + 1] ELSE maxTx
  /\ rret' = [rret EXCEPT ![p] = Got(rep[p])]
  /\ rtask' = [rtask EXCEPT ![p] = NoMsg]
  /\ pr' = [pr EXCEPT ![p] = "idle"]
  /\ UNCHANGED <<txid, clog, cstate, pstate, tmpNum, mutexes, wSlots, ka, pw, wVars, rVars>>

PRecoveryFail(p) ==
  /\ pr[p] = "wait"
  /\ GiveUp(p, NetFaults)
  /\ pstate' = [pstate EXCEPT ![p] = "WAITING"]
  /\ maxTx' = [maxTx EXCEPT ![p] = 0]
  /\ rret' = [rret EXCEPT ![p] = Failed]
  /\ rtask' = [rtask EXCEPT ![p] = NoMsg]
  /\ pr' = [pr EXCEPT ![p] = "idle"]
  /\ UNCHANGED <<txid, clog, cstate, tmpNum, mutexes, wSlots, ka, pw, wVars, rVars>>

-----------------------------------------------------------------------------
(* The work thread: Working, UpdateDB, Request *)

\* Mutant: the mutex is kept.
AnsweredKeepsLock(r) ==
  /\ wpc' = "reply" /\ wres' = r /\ UNCHANGED workMtx
  /\ UNCHANGED <<wcmd, widx>>

\* The end of a command: _workingMutex is released and the answer is sent.
Answered(r) ==
  /\ wpc' = "reply" /\ wres' = r /\ workMtx' = Free
  /\ UNCHANGED <<wcmd, widx>>

\* Nothing readable was sent, or a recovery is under way: -ERROR.
WRefuse(c) ==
  /\ wpc = "idle"
  /\ cstate # "C_WORKING" \/ c = Junk
  /\ wpc' = "reply" /\ wcmd' = c /\ wres' = ErrReply
  /\ UNCHANGED <<widx, coreVars, mutexes, wSlots, rSlots, threads, rVars, netVars>>

WAdmit(c) ==
  /\ wpc = "idle"
  /\ cstate = "C_WORKING"
  /\ wpc' = "lock" /\ wcmd' = c
  /\ UNCHANGED <<wres, widx, coreVars, mutexes, wSlots, rSlots, threads, rVars, netVars>>

\* UpdateDB logs the command and asks every participant to vote.
WStartUpdate ==
  /\ wpc = "lock" /\ workMtx = Free /\ wcmd \in Cmds
  /\ txid <= MaxTx
  /\ \A p \in P_Id : task[p] = NoMsg
  /\ workMtx' = "W" /\ wpc' = "vote"
  /\ clog' = [clog EXCEPT ![txid] = Entry(LOG_PRE, wcmd)]
  /\ task' = [p \in P_Id |-> Log(txid, LOG_PRE, NoCmd)]
  /\ UNCHANGED <<txid, cstate, pstate, tmpNum, maxTx, recMtx, ret, rSlots, threads,
                 wcmd, wres, widx, rVars, netVars>>

\* Request starts with the first participant.
WStartGet ==
  /\ wpc = "lock" /\ workMtx = Free /\ wcmd = Get
  /\ workMtx' = "W" /\ wpc' = "ask" /\ widx' = 1
  /\ UNCHANGED <<coreVars, recMtx, wSlots, rSlots, threads, wcmd, wres, rVars, netVars>>

\* An unknown command; also, beyond the bound MaxTx, any update.
WRejected ==
  /\ wpc = "lock" /\ workMtx = Free
  /\ wcmd = Junk \/ (wcmd \in Cmds /\ txid > MaxTx)
  /\ Answered(ErrReply)
  /\ UNCHANGED <<coreVars, recMtx, wSlots, rSlots, threads, rVars, netVars>>

\* Mutant: the state of the record is not changed.
chageLogStateNot(t, s) == clog

chageLogState(t, s) == [clog EXCEPT ![t].st = s]

AllAnswered == \A p \in P_Id : ~Vacant(ret[p])

\* One vote is enough.
WVotes ==
  /\ wpc = "vote" /\ AllAnswered
  /\ ret' = [p \in P_Id |-> Taken(ret[p])]
  /\ IF \E p \in P_Id : ret[p] = Got(PreReply)
     THEN /\ task' = [p \in P_Id |-> Log(txid, LOG_COMMIT, wcmd)]
          /\ wpc' = "commit"
          /\ UNCHANGED <<wcmd, wres, widx, workMtx>>
     ELSE Answered(ErrReply) /\ UNCHANGED task
  /\ UNCHANGED <<coreVars, recMtx, rSlots, threads, rVars, netVars>>

\* One participant that has executed the command is enough; the last one answers.
Committed(p) == ret[p].rc = "ok" /\ ret[p] # Got(ErrReply)

WCommits ==
  /\ wpc = "commit" /\ AllAnswered
  /\ ret' = [p \in P_Id |-> Taken(ret[p])]
  /\ LET done == {p \in P_Id : Committed(p)} IN
     \/ \E p \in done :
          /\ \A q \in done : q <= p
          /\ clog' = chageLogState(txid, LOG_COMMIT)
          /\ txid' = txid + 1
          /\ Answered(ret[p].data)
     \/ done = {} /\ Answered(ErrReply) /\ UNCHANGED <<clog, txid>>
  /\ UNCHANGED <<cstate, pstate, tmpNum, maxTx, recMtx, task, rSlots, threads, rVars, netVars>>

WAskGet ==
  /\ wpc = "ask" /\ task[widx] = NoMsg
  /\ task' = [task EXCEPT ![widx] = Log(SUPER_TXID, LOG_COMMIT, NoCmd)]
  /\ wpc' = "get"
  /\ UNCHANGED <<coreVars, mutexes, ret, rSlots, threads, wcmd, wres, widx, rVars, netVars>>

\* Mutant: the other participants are not asked.
WGottenOnce ==
  /\ wpc = "get" /\ ~Vacant(ret[widx])
  /\ ret' = [ret EXCEPT ![widx] = Taken(@)]
  /\ Answered(IF ret[widx].rc = "ok" THEN ret[widx].data ELSE ErrReply)
  /\ UNCHANGED <<coreVars, recMtx, task, rSlots, threads, rVars, netVars>>

\* Mutant: the reply is taken whatever the return code says.
WGottenStale ==
  /\ wpc = "get" /\ ~Vacant(ret[widx])
  /\ ret' = [ret EXCEPT ![widx] = Taken(@)]
  /\ IF ret[widx].data # EmptyReply
     THEN Answered(ret[widx].data)
     ELSE IF widx < PNum
     THEN wpc' = "ask" /\ widx' = widx + 1 /\ UNCHANGED <<wcmd, wres, workMtx>>
     ELSE Answered(ErrReply)
  /\ UNCHANGED <<coreVars, recMtx, task, rSlots, threads, rVars, netVars>>

\* The first participant with an answer decides; the next one is asked otherwise.
WGotten ==
  /\ wpc = "get" /\ ~Vacant(ret[widx])
  /\ ret' = [ret EXCEPT ![widx] = Taken(@)]
  /\ IF ret[widx].rc = "ok" /\ ret[widx] # Got(EmptyReply)
     THEN Answered(ret[widx].data)
     ELSE IF widx < PNum
     THEN wpc' = "ask" /\ widx' = widx + 1 /\ UNCHANGED <<wcmd, wres, workMtx>>
     ELSE Answered(ErrReply)
  /\ UNCHANGED <<coreVars, recMtx, task, rSlots, threads, rVars, netVars>>

\* sendResult, and on to the next client.
WReply ==
  /\ wpc = "reply"
  /\ wpc' = "idle" /\ wcmd' = NoCmd /\ wres' = ErrReply /\ widx' = 1
  /\ UNCHANGED <<coreVars, mutexes, wSlots, rSlots, threads, rVars, netVars>>

WorkStep ==
  \/ WStartUpdate \/ WStartGet \/ WRejected \/ WVotes \/ WCommits
  \/ WAskGet \/ WGotten \/ WReply

-----------------------------------------------------------------------------
(* The recovery thread: Recovery, recoveryFromP, recoveryFromC *)

rOther == <<clog, txid, tmpNum, wSlots, wVars, threads, netVars>>

\* Launch starts the thread after sleep(2); if StartWait, every
\* running participant has been connected by then.
RStart ==
  /\ rpc = "sleep"
  /\ StartWait => \A p \in P_Id : psock[p] # "down" => pstate[p] = "TEMP"
  /\ rpc' = "entry"
  /\ UNCHANGED <<coreVars, mutexes, wSlots, rSlots, threads, wVars, netVars,
                 rMin, rMax, rLeader, rFrom, rIdx, rLog>>

\* minID is read here, before the wait, though clients may commit meanwhile.
REnter ==
  /\ rpc = "entry"
  /\ rMin' = txid - 1
  /\ maxTx' = [p \in P_Id |-> 0]
  /\ rpc' = "wait"
  /\ UNCHANGED <<rOther, cstate, pstate, mutexes, rSlots, rMax, rLeader, rFrom, rIdx, rLog>>

RWake ==
  /\ rpc = "wait" /\ tmpNum # 0
  /\ cstate' = "C_RECOVERY"
  /\ rpc' = "lockR"
  /\ UNCHANGED <<rOther, pstate, maxTx, mutexes, rSlots, rMin, rMax, rLeader, rFrom, rIdx, rLog>>

RLockRecovery ==
  /\ rpc = "lockR" /\ recMtx = Free
  /\ recMtx' = "R"
  /\ rpc' = "lockW"
  /\ UNCHANGED <<rOther, cstate, pstate, maxTx, workMtx, rSlots,
                 rMin, rMax, rLeader, rFrom, rIdx, rLog>>

\* Mutant: _workingMutex is not taken.
RLockNothing ==
  /\ rpc = "lockW"
  /\ \A p \in P_Id : rtask[p] = NoMsg
  /\ pstate' = [p \in P_Id |-> IF pstate[p] \in {"TEMP", "WORKING"} THEN "RECOVERY" ELSE pstate[p]]
  /\ rtask' = [p \in P_Id |-> Log(RECOVERY_TXID, LOG_PRE, NoCmd)]
  /\ rpc' = "table"
  /\ UNCHANGED <<rOther, cstate, maxTx, mutexes, rret, rMin, rMax, rLeader, rFrom, rIdx, rLog>>

\* With both mutexes: every connected participant is put into recovery and asked
\* for its last transaction id.
RLockWorking ==
  /\ rpc = "lockW" /\ workMtx = Free
  /\ \A p \in P_Id : rtask[p] = NoMsg
  /\ workMtx' = "R"
  /\ pstate' = [p \in P_Id |-> IF pstate[p] \in {"TEMP", "WORKING"} THEN "RECOVERY" ELSE pstate[p]]
  /\ rtask' = [p \in P_Id |-> Log(RECOVERY_TXID, LOG_PRE, NoCmd)]
  /\ rpc' = "table"
  /\ UNCHANGED <<rOther, cstate, maxTx, recMtx, rret, rMin, rMax, rLeader, rFrom, rIdx, rLog>>

\* Mutant: one participant that is up to date is enough.
ConsistentOne(ids) == ids = {} \/ txid - 1 \in ids

Consistent(ids) == ids \subseteq {txid - 1}

\* Build the table of last ids; unless all are up to date, bring them up to date.
RTable ==
  /\ rpc = "table" /\ \A p \in P_Id : ~Vacant(rret[p])
  /\ rret' = [p \in P_Id |-> Taken(rret[p])]
  /\ maxTx' = [p \in P_Id |->
                 IF rret[p].rc = "ok" /\ rret[p] # Got(EmptyReply)
                 THEN rret[p].data.txid ELSE maxTx[p]]
  /\ LET ids == {maxTx'[p] : p \in P_Id} \ {0} IN
     IF Consistent(ids)
     THEN rpc' = "finish" /\ UNCHANGED rMin
     ELSE \E m \in ids \cup {rMin} :
            /\ \A i \in ids \cup {rMin} : m <= i
            /\ rpc' = "leader" /\ rMin' = m + 1
  /\ UNCHANGED <<rOther, cstate, pstate, mutexes, rtask, rMax, rLeader, rFrom, rIdx, rLog>>

\* getRecoveryLeader: those ahead of the coordinator, and the first of them with
\* the highest id.
\* Mutant: one transaction ahead is not ahead.
AheadPByTwo == {p \in P_Id : maxTx[p] > txid}

AheadP == {p \in P_Id : maxTx[p] > txid - 1}

Leads(p) ==
  /\ p \in AheadP
  /\ \A q \in AheadP : maxTx[q] < maxTx[p] \/ (maxTx[q] = maxTx[p] /\ p <= q)

\* A participant knows more than the coordinator: it becomes the leader.
RLead(p) ==
  /\ rpc = "leader" /\ Leads(p)
  /\ rLeader' = p
  /\ rMax' = maxTx[p]
  /\ pstate' = [pstate EXCEPT ![p] = "WORKING"]
  /\ maxTx' = [maxTx EXCEPT ![p] = 0]
  /\ rpc' = "ask"
  /\ UNCHANGED <<rOther, cstate, mutexes, rSlots, rMin, rFrom, rIdx, rLog>>

\* Mutant: always the first record.
CLogRecordFirst(t) == Log(t, clog[TXID_START].st, clog[TXID_START].cmd)

CLogRecord(t) == Log(t, clog[t].st, clog[t].cmd)

\* Otherwise recoveryFromC sends the coordinator's own log, from the start.
RFromC ==
  /\ rpc = "leader" /\ AheadP = {}
  /\ IF txid > TXID_START
     THEN rpc' = "push" /\ rFrom' = "C" /\ rIdx' = 1 /\ rLog' = CLogRecord(TXID_START)
     ELSE rpc' = "finish" /\ UNCHANGED <<rFrom, rIdx, rLog>>
  /\ UNCHANGED <<rOther, coreVars, mutexes, rSlots, rMin, rMax, rLeader>>

\* recoveryFromP: ask the leader for record minID.
RAsk ==
  /\ rpc = "ask" /\ rMin <= rMax
  /\ task[rLeader] = NoMsg
  /\ task' = [task EXCEPT ![rLeader] = AskLog(rMin)]
  /\ rpc' = "data"
  /\ UNCHANGED <<coreVars, mutexes, ret, rSlots, threads, wVars, netVars,
                 rMin, rMax, rLeader, rFrom, rIdx, rLog>>

RAskedAll ==
  /\ rpc = "ask" /\ rMin > rMax
  /\ rpc' = "leader"
  /\ UNCHANGED <<coreVars, mutexes, wSlots, rSlots, threads, wVars, netVars,
                 rMin, rMax, rLeader, rFrom, rIdx, rLog>>

\* The leader's record is adopted if it is the next one; no answer: a new leader.
RData ==
  /\ rpc = "data" /\ ~Vacant(ret[rLeader])
  /\ ret' = [ret EXCEPT ![rLeader] = Taken(@)]
  /\ IF ret[rLeader].rc = "ok" /\ ret[rLeader] # Got(EmptyReply)
     THEN LET l == ret[rLeader].data.log IN
          /\ IF l.id = txid
             THEN /\ clog' = [clog EXCEPT ![l.id] = Entry(l.st, l.ev)]
                  /\ txid' = txid + 1
             ELSE UNCHANGED <<clog, txid>>
          /\ rpc' = "push" /\ rFrom' = "P" /\ rIdx' = 1 /\ rLog' = l
     ELSE rpc' = "leader" /\ UNCHANGED <<clog, txid, rFrom, rIdx, rLog>>
  /\ UNCHANGED <<cstate, pstate, tmpNum, maxTx, mutexes, task, rSlots, threads, wVars, netVars,
                 rMin, rMax, rLeader>>

\* Send a record to participant rIdx, and wait until pRecovery is done with it.
RPush ==
  /\ rpc = "push" /\ rtask[rIdx] = NoMsg
  /\ rtask' = [rtask EXCEPT ![rIdx] = rLog]
  /\ rpc' = "pushed"
  /\ UNCHANGED <<coreVars, mutexes, wSlots, rret, threads, wVars, netVars,
                 rMin, rMax, rLeader, rFrom, rIdx, rLog>>

RPushed ==
  /\ rpc = "pushed" /\ ~Vacant(rret[rIdx])
  /\ rret' = [rret EXCEPT ![rIdx] = Taken(@)]
  /\ \/ /\ rIdx < PNum
        /\ rpc' = "push" /\ rIdx' = rIdx + 1 /\ UNCHANGED <<rMin, rFrom, rLog>>
     \/ /\ rIdx = PNum /\ rFrom = "P"
        /\ rpc' = "ask" /\ rMin' = rMin + 1 /\ rIdx' = 1 /\ rLog' = NoMsg
        /\ UNCHANGED rFrom
     \/ /\ rIdx = PNum /\ rFrom = "C" /\ rLog.id + 1 < txid
        /\ rpc' = "push" /\ rIdx' = 1 /\ rLog' = CLogRecord(rLog.id + 1)
        /\ UNCHANGED <<rMin, rFrom>>
     \/ /\ rIdx = PNum /\ rFrom = "C" /\ rLog.id + 1 >= txid
        /\ rpc' = "finish" /\ rIdx' = 1 /\ rLog' = NoMsg /\ rFrom' = "P" /\ UNCHANGED rMin
  /\ UNCHANGED <<coreVars, mutexes, wSlots, rtask, threads, wVars, netVars, rMax, rLeader>>

\* Mutant: the counter is not reset.
RFinishKeepsCount ==
  /\ rpc = "finish"
  /\ pstate' = [p \in P_Id |-> IF maxTx[p] = txid - 1 THEN "WORKING" ELSE pstate[p]]
  /\ workMtx' = Free /\ recMtx' = Free
  /\ rpc' = "done"
  /\ rMin' = TXID_START - 1 /\ rMax' = TXID_START - 1 /\ rLeader' = 0
  /\ UNCHANGED <<txid, clog, cstate, tmpNum, maxTx, wSlots, rSlots, threads, wVars, netVars,
                 rFrom, rIdx, rLog>>

\* Whoever has the coordinator's last id works; the mutexes are released.
RFinish ==
  /\ rpc = "finish"
  /\ pstate' = [p \in P_Id |-> IF maxTx[p] = txid - 1 THEN "WORKING" ELSE pstate[p]]
  /\ tmpNum' = 0
  /\ workMtx' = Free /\ recMtx' = Free
  /\ rpc' = "done"
  /\ rMin' = TXID_START - 1 /\ rMax' = TXID_START - 1 /\ rLeader' = 0
  /\ UNCHANGED <<txid, clog, cstate, maxTx, wSlots, rSlots, threads, wVars, netVars,
                 rFrom, rIdx, rLog>>

\* Only now is _cstate set; a participant may already wait in the temp state.
RDone ==
  /\ rpc = "done"
  /\ cstate' = "C_WORKING"
  /\ rpc' = "entry"
  /\ UNCHANGED <<rOther, pstate, maxTx, mutexes, rSlots, rMin, rMax, rLeader, rFrom, rIdx, rLog>>

RecoveryStep ==
  \/ REnter \/ RWake \/ RLockRecovery \/ RLockWorking \/ RTable \/ (\E p \in P_Id : RLead(p)) \/ RFromC
  \/ RAsk \/ RAskedAll \/ RData \/ RPush \/ RPushed \/ RFinish \/ RDone

-----------------------------------------------------------------------------
KeepAlive(p) == KeepAliveConnect(p) \/ KeepAliveTemp(p)
PWorking(p) == PWorkingSkip(p) \/ PWorkingSend(p) \/ PWorkingRecv(p) \/ PWorkingFail(p)
PRecovery(p) == PRecoverySkip(p) \/ PRecoverySend(p) \/ PRecoveryRecv(p) \/ PRecoveryFail(p)

\* The coordinator's process is killed and started again: everything is Init.
Restart ==
  /\ txid' = TXID_START
  /\ clog' = [t \in TxIds |-> NoEntry]
  /\ cstate' = "C_RECOVERY"
  /\ pstate' = [p \in P_Id |-> "WAITING"]
  /\ tmpNum' = 0
  /\ maxTx' = [p \in P_Id |-> 0]
  /\ workMtx' = Free /\ recMtx' = Free
  /\ task' = [p \in P_Id |-> NoMsg] /\ rtask' = [p \in P_Id |-> NoMsg]
  /\ ret' = [p \in P_Id |-> Unused] /\ rret' = [p \in P_Id |-> Unused]
  /\ ka' = [p \in P_Id |-> "watch"]
  /\ pw' = [p \in P_Id |-> "idle"] /\ pr' = [p \in P_Id |-> "idle"]
  /\ wpc' = "idle" /\ wcmd' = NoCmd /\ wres' = ErrReply /\ widx' = 1
  /\ rpc' = "sleep" /\ rMin' = TXID_START - 1 /\ rMax' = TXID_START - 1 /\ rLeader' = 0
  /\ rFrom' = "P" /\ rIdx' = 1 /\ rLog' = NoMsg
  /\ AllClosed
=============================================================================
