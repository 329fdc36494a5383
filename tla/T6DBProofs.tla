----------------------------- MODULE T6DBProofs -----------------------------
(***************************************************************************)
(* What holds in every reachable state of T6DB, for any number of          *)
(* participants, any commands and any bound on the transaction ids, with   *)
(* processes killed and started, the coordinator restarted and replies     *)
(* arriving late or never; and, at the end, what holds if they do not.     *)
(*                                                                         *)
(* None of the invariants of T6DB.tla is inductive: IInv is (T6DBInv.tla). *)
(* The first part has facts about the messages, records and results of     *)
(* T6DB, which are cited so that the sets can stay unexpanded, and one     *)
(* lemma per action that preserves IInv (its name and "Step"), in the      *)
(* order of the code, preceded by what it needs for the conjuncts that     *)
(* take an argument; the second the theorems that IInv implies.            *)
(*                                                                         *)
(* The third part is about what the participants have executed, in a       *)
(* punctual system: no reply comes later than NETWORK_TIMEOUT and, if the  *)
(* coordinator may be killed, sleep(2) is long enough for every running    *)
(* participant.  HInv (T6DBHistory.tla) is inductive on top of IInv, again *)
(* with one lemma per action (its name and "History").  Most steps let     *)
(* nobody gain anything (NothingGained); only two do, the sending of a     *)
(* commit by pWorking and that of a record by pRecovery.                   *)
(***************************************************************************)
EXTENDS T6DBInv, T6DBHistory, FiniteSetTheorems, TLAPS

-----------------------------------------------------------------------------
(* Messages, records, results *)

\* The replies.
LEMMA ReplyFacts ==
  /\ PreReply \in Reply /\ OkReply \in Reply /\ ErrReply \in Reply /\ EmptyReply \in Reply
  /\ NoReply \notin Reply
  /\ \A t \in (TXID_START - 1)..MaxTx : TxReply(t) \in Reply
  /\ \A l \in Request : LogReply(l) \in Reply
  /\ \A d \in DbImage : DbReply(d) \in Reply
  /\ \A c \in Cmds \cup {NoCmd} : EventParser(c) \in {OkReply, ErrReply}
  BY DEF Reply, NoReply, PreReply, OkReply, ErrReply, EmptyReply, TxReply, LogReply, DbReply,
         EventParser

\* The results that pWorking and pRecovery leave in their slots.
LEMMA RetFacts ==
  /\ Unused \in Ret /\ Failed \in Ret
  /\ \A d \in Reply : Got(d) \in Ret
  /\ \A r \in Ret : Taken(r) \in Ret /\ Skip(r) \in Ret
  /\ \A r \in Ret : r.rc = "ok" => r.data \in Reply /\ r = Got(r.data)
  /\ Unused.rc = "empty" /\ Failed.rc = "net"
  /\ \A r : Taken(r).rc = "empty" /\ Skip(r).rc = "skip"
  /\ \A d : Got(d).rc = "ok" /\ Got(d).data = d
<1>1. Unused \in Ret /\ Failed \in Ret
  BY ReplyFacts DEF Ret, Unused, Failed
<1>2. \A d \in Reply : Got(d) \in Ret
  BY DEF Ret, Got
<1>3. \A r \in Ret : Taken(r) \in Ret /\ Skip(r) \in Ret
  BY DEF Ret, Taken, Skip
<1>4. \A r \in Ret : r.rc = "ok" => r.data \in Reply /\ r = Got(r.data)
  BY DEF Ret, Got
<1>5. Unused.rc = "empty" /\ Failed.rc = "net"
  BY DEF Unused, Failed
<1>6. \A r : Taken(r).rc = "empty" /\ Skip(r).rc = "skip"
  BY DEF Taken, Skip
<1>7. \A d : Got(d).rc = "ok" /\ Got(d).data = d
  BY DEF Got
<1>. QED BY <1>1, <1>2, <1>3, <1>4, <1>5, <1>6, <1>7

\* The transaction ids.
LEMMA TxFacts ==
  /\ \A t \in TxIds : t \in Nat /\ t >= TXID_START /\ t <= MaxTx
  /\ \A t \in Int : t >= TXID_START /\ t <= MaxTx => t \in TxIds
  BY LoggerAssumption DEF TxIds, TXID_START

\* The requests.
LEMMA RequestFacts ==
  /\ NoMsg \notin Request
  /\ Log(RECOVERY_TXID, LOG_PRE, NoCmd) \in Request
  /\ Log(SUPER_TXID, LOG_COMMIT, NoCmd) \in Request
  /\ \A t \in TxIds : AskLog(t) \in Request /\ AskLog(t).id = ASK_DATA_TXID /\ AskLog(t).arg = t
  /\ \A t \in TxIds, s \in {LOG_PRE, LOG_COMMIT}, c \in Cmds \cup {NoCmd} : Log(t, s, c) \in Request
  /\ \A m \in Request : /\ m.id \in Nat /\ (m.id >= TXID_START => m.id \in TxIds)
                        /\ m.id < TXID_START => m.id \in {SUPER_TXID, RECOVERY_TXID, ASK_DATA_TXID}
                        /\ m.id = ASK_DATA_TXID => m.arg \in TxIds
                        /\ m.st \in {LOG_PRE, LOG_COMMIT} /\ m.ev \in Cmds \cup {NoCmd}
<1> USE TxFacts DEF Request, TXID_START, SUPER_TXID, RECOVERY_TXID, ASK_DATA_TXID, Log, AskLog
<1>2. /\ Log(RECOVERY_TXID, LOG_PRE, NoCmd) \in Request
      /\ Log(SUPER_TXID, LOG_COMMIT, NoCmd) \in Request
  OBVIOUS
<1>3. \A t \in TxIds : AskLog(t) \in Request /\ AskLog(t).id = ASK_DATA_TXID /\ AskLog(t).arg = t
  OBVIOUS
<1>4. \A t \in TxIds, s \in {LOG_PRE, LOG_COMMIT}, c \in Cmds \cup {NoCmd} : Log(t, s, c) \in Request
  OBVIOUS
<1>5. ASSUME NEW m \in Request
      PROVE  /\ m.id \in Nat /\ (m.id >= TXID_START => m.id \in TxIds)
             /\ m.id < TXID_START => m.id \in {SUPER_TXID, RECOVERY_TXID, ASK_DATA_TXID}
             /\ m.id = ASK_DATA_TXID => m.arg \in TxIds
             /\ m.st \in {LOG_PRE, LOG_COMMIT} /\ m.ev \in Cmds \cup {NoCmd}
  <2>1. CASE \E t \in TxIds : m = AskLog(t)
    BY <2>1
  <2>2. CASE m \in [id : {SUPER_TXID, RECOVERY_TXID} \cup TxIds, st : {LOG_PRE, LOG_COMMIT},
                    ev : Cmds \cup {NoCmd}, arg : {0}]
    BY <2>2
  <2>. QED BY <2>1, <2>2
<1>6. NoMsg \notin Request
  <2>1. NoMsg.id = -1
    BY DEF NoMsg
  <2>. QED BY <2>1, <1>5
<1>. QED BY <1>2, <1>3, <1>4, <1>5, <1>6

\* The fields of a record, and that they determine it.
LEMMA LogFacts ==
  \A t, s, c : /\ Log(t, s, c).id = t /\ Log(t, s, c).st = s /\ Log(t, s, c).ev = c
               /\ Log(t, s, c) # NoMsg
  BY DEF Log, NoMsg

\* Whatever pWorker is asked, it answers with a reply.
LEMMA WorkerFacts ==
  ASSUME NEW p \in P_Id, NEW m \in Request, ParticipantTypeOK
  PROVE  PWorker(p, m) \in Reply
<1> USE LoggerAssumption, ReplyFacts, RequestFacts, TxFacts DEF SUPER_TXID, RECOVERY_TXID, ASK_DATA_TXID
<1>1. CASE m.id = SUPER_TXID
  BY <1>1 DEF PWorker, ParticipantTypeOK
<1>2. CASE m.id = RECOVERY_TXID
  <2>1. ptxid[p] - 1 \in (TXID_START - 1)..MaxTx
    BY DEF ParticipantTypeOK, TXID_START
  <2>. QED BY <2>1, <1>2 DEF PWorker
<1>3. CASE m.id = ASK_DATA_TXID
  <2>1. m.arg \in TxIds /\ plog[p][m.arg] \in Cmds \cup {NoCmd}
    BY <1>3 DEF ParticipantTypeOK, DbImage
  <2>2. Log(m.arg, LOG_COMMIT, plog[p][m.arg]) \in Request
    BY <2>1
  <2>. QED BY <1>3, <2>2 DEF PWorker
<1>4. CASE m.id \notin {SUPER_TXID, RECOVERY_TXID, ASK_DATA_TXID}
  BY <1>4 DEF PWorker
<1>. QED BY <1>1, <1>2, <1>3, <1>4

\* Changing the state of a record of the coordinator's log.
LEMMA ChangeFacts ==
  ASSUME NEW t \in TxIds, NEW s \in {LOG_PRE, LOG_COMMIT}, clog \in [TxIds -> EntryType]
  PROVE  /\ chageLogState(t, s) \in [TxIds -> EntryType] /\ chageLogState(t, s)[t].st = s
         /\ \A u \in TxIds : u # t => chageLogState(t, s)[u] = clog[u]
<1>1. [clog[t] EXCEPT !.st = s] \in EntryType /\ [clog[t] EXCEPT !.st = s].st = s
  BY DEF EntryType
<1>2. chageLogState(t, s) = [clog EXCEPT ![t] = [clog[t] EXCEPT !.st = s]]
  BY DEF chageLogState
<1>. QED BY <1>1, <1>2

\* Writing a record to the coordinator's log.
LEMMA EntryFacts ==
  ASSUME NEW t \in TxIds, NEW s \in {LOG_PRE, LOG_COMMIT}, NEW c \in Cmds \cup {NoCmd},
         clog \in [TxIds -> EntryType]
  PROVE  /\ [clog EXCEPT ![t] = Entry(s, c)] \in [TxIds -> EntryType]
         /\ [clog EXCEPT ![t] = Entry(s, c)][t].st = s
         /\ \A u \in TxIds : u # t => [clog EXCEPT ![t] = Entry(s, c)][u] = clog[u]
<1>1. Entry(s, c) \in EntryType /\ Entry(s, c).st = s
  BY DEF Entry, EntryType
<1>. QED BY <1>1

\* Which answers are which.
LEMMA AnswerFacts ==
  /\ \A r : TxAnswer(r) \/ LogAnswer(r) => r # EmptyReply
  /\ PreReply # OkReply /\ ErrReply # OkReply 
  /\ \A d : DbReply(d) # OkReply
  /\ \A t : TxReply(t) # OkReply /\ (t \in (TXID_START - 1)..MaxTx => TxAnswer(TxReply(t)))
  /\ \A t : TxReply(t).txid = t
  /\ \A l : LogReply(l) # OkReply
  /\ \A l \in Request : l.id = rMin /\ l.st = LOG_COMMIT => LogAnswer(LogReply(l))
<1>1. EmptyReply.kind = ""
  BY DEF EmptyReply
<1>2. \A r : TxAnswer(r) \/ LogAnswer(r) => r.kind # ""
  BY DEF TxAnswer, LogAnswer
<1>3. \A r : TxAnswer(r) \/ LogAnswer(r) => r # EmptyReply
  BY <1>1, <1>2
<1>4. OkReply.kind = "OK" /\ PreReply.kind = "PRE" /\ ErrReply.kind = "ERROR" 
  BY DEF OkReply, PreReply, ErrReply
<1>5. \A d : DbReply(d).kind = "db"
  BY DEF DbReply
<1>6. \A t : TxReply(t).kind = "txid" /\ TxReply(t).txid = t
  BY DEF TxReply
<1>7. \A l : LogReply(l).kind = "log" /\ LogReply(l).log = l
  BY DEF LogReply
<1>8. \A t : (t \in (TXID_START - 1)..MaxTx => TxAnswer(TxReply(t)))
  BY <1>6 DEF TxAnswer
<1>9. \A l \in Request : l.id = rMin /\ l.st = LOG_COMMIT => LogAnswer(LogReply(l))
  BY <1>7 DEF LogAnswer
<1>10. PreReply # OkReply /\ ErrReply # OkReply
  BY <1>4
<1>11. (\A d : DbReply(d) # OkReply) /\ (\A t : TxReply(t) # OkReply) /\ (\A l : LogReply(l) # OkReply)
  BY <1>4, <1>5, <1>6, <1>7
<1>. QED BY <1>3, <1>6, <1>8, <1>9, <1>10, <1>11

\* Temp is counted correctly.
LEMMA TempFinite == IsFiniteSet(Temp) /\ Cardinality(Temp) \in 0..PNum
<1>1. IsFiniteSet(P_Id) /\ Cardinality(P_Id) = PNum
  BY FS_Interval, LoggerAssumption DEF P_Id
<1>2. Temp \subseteq P_Id
  BY DEF Temp
<1>. QED BY <1>1, <1>2, FS_Subset, FS_CardinalityType, LoggerAssumption

\* A thread waits for a reply only in the phases that hand it tasks, and a reply
\* is on its way only to a thread that waits.
LEMMA QuietSession ==
  ASSUME IInv, NEW p \in P_Id
  PROVE  /\ rpc \notin {"table", "pushed"} => pr[p] # "wait"
         /\ ~Vacant(rret[p]) => pr[p] # "wait"
         /\ RHolds /\ rpc # "data" => pw[p] # "wait"
         /\ pr[p] # "wait" /\ pw[p] # "wait" => rep[p] # OkReply
         /\ ~(WHolds /\ RHolds)
         /\ pw[p] = "wait" /\ rep[p] # NoReply => Vacant(ret[p])
  BY RequestFacts, ReplyFacts DEF IInv, SlotInv, TaskInv, RTaskInv, SessionInv, MutexInv, WHolds, RHolds, Free

\* The answers on their way, and those in the slots, are no others than before.
NoNewAnswers ==
  \A p \in P_Id :
    /\ pw'[p] = "wait" /\ rep'[p] # NoReply => pw[p] = "wait" /\ rep'[p] = rep[p]
    /\ ret'[p].rc = "ok" =>
         ret'[p] = ret[p] \/ (pw[p] = "wait" /\ rep[p] # NoReply /\ ret'[p].data = rep[p])

-----------------------------------------------------------------------------
(* The steps *)

USE DEF Vacant, vars, cVars, pVars, coreVars, mutexes, wSlots, rSlots, threads, wVars, rVars, rOther,
        netVars

-----------------------------------------------------------------------------
(* The work thread, and the client *)

\* A refused command touches nothing but the work thread.
LEMMA WRefuseStep ==
  ASSUME IInv, NEW c \in Cmds \cup {Get, Junk}, WRefuse(c), UNCHANGED pVars
  PROVE  IInv'
<1> USE LoggerAssumption, ReplyFacts, RetFacts, TxFacts, RequestFacts, LogFacts
<1>1. TypeOK /\ MutexInv /\ SlotInv /\ SessionInv /\ PhaseInv /\ TableInv
      /\ AnswerInv /\ SyncInv /\ CLogCommitted /\ TmpInv
  BY DEF IInv
<1>2. TypeOK' /\ MutexInv' /\ PhaseInv' /\ TableInv' /\ CLogCommitted' /\ TmpInv'
  BY <1>1 DEF WRefuse, TypeOK, CoordinatorTypeOK, ParticipantTypeOK, NetTypeOK, Free,
       MutexInv, WHolds, RHolds, PhaseInv, FromP, TableInv, Counting, CLogCommitted, TmpInv,
       Temp
<1>3. SlotInv' /\ SessionInv' /\ AnswerInv' /\ SyncInv'
  BY <1>1, SMTT(30) DEF WRefuse, TypeOK, CoordinatorTypeOK, NetTypeOK, Free, MutexInv, WHolds,
       RHolds, SlotInv, TaskInv, RetInv, RTaskInv, RRetInv, PRecoveryDue, SessionInv,
       PhaseInv, FromP, TableInv, Counting, AnswerInv, TxAnswer, LogAnswer, SyncInv, AheadP
<1>. QED BY <1>2, <1>3 DEF IInv

\* An admitted command waits for the mutex and touches nothing else.
LEMMA WAdmitStep ==
  ASSUME IInv, NEW c \in Cmds \cup {Get, Junk}, WAdmit(c), UNCHANGED pVars
  PROVE  IInv'
<1> USE LoggerAssumption, ReplyFacts, RetFacts, TxFacts, RequestFacts, LogFacts
<1>1. TypeOK /\ MutexInv /\ SlotInv /\ SessionInv /\ PhaseInv /\ TableInv
      /\ AnswerInv /\ SyncInv /\ CLogCommitted /\ TmpInv
  BY DEF IInv
<1>2. TypeOK' /\ MutexInv' /\ PhaseInv' /\ TableInv' /\ CLogCommitted' /\ TmpInv'
  BY <1>1 DEF WAdmit, TypeOK, CoordinatorTypeOK, ParticipantTypeOK, NetTypeOK, Free,
       MutexInv, WHolds, RHolds, PhaseInv, FromP, TableInv, Counting, CLogCommitted, TmpInv,
       Temp
<1>3. SlotInv' /\ SessionInv' /\ AnswerInv' /\ SyncInv'
  BY <1>1, SMTT(30) DEF WAdmit, TypeOK, CoordinatorTypeOK, NetTypeOK, Free, MutexInv, WHolds,
       RHolds, SlotInv, TaskInv, RetInv, RTaskInv, RRetInv, PRecoveryDue, SessionInv,
       PhaseInv, FromP, TableInv, Counting, AnswerInv, TxAnswer, LogAnswer, SyncInv, AheadP
<1>. QED BY <1>2, <1>3 DEF IInv

\* The work thread takes the mutex only when no slot is in use, so every task of the vote
\* is the one request of this phase.
LEMMA WStartUpdateStep ==
  ASSUME IInv, WStartUpdate, UNCHANGED pVars
  PROVE  IInv'
<1> USE LoggerAssumption, ReplyFacts, RetFacts, TxFacts, RequestFacts, LogFacts
<1>1. TypeOK /\ MutexInv /\ SlotInv /\ SessionInv /\ PhaseInv /\ TableInv
      /\ AnswerInv /\ SyncInv /\ CLogCommitted /\ TmpInv
  BY DEF IInv
<1>2. TypeOK'
  <2>1. txid \in TxIds /\ wcmd \in Cmds
    BY <1>1 DEF WStartUpdate, TypeOK, CoordinatorTypeOK, TXID_START
  <2>2. clog' \in [TxIds -> EntryType]
    BY <1>1, <2>1, EntryFacts DEF WStartUpdate, TypeOK, CoordinatorTypeOK
  <2>3. task' \in [P_Id -> Request \cup {NoMsg}]
    BY <2>1 DEF WStartUpdate
  <2>. QED BY <1>1, <2>2, <2>3 DEF WStartUpdate,
            TypeOK, CoordinatorTypeOK, ParticipantTypeOK, NetTypeOK
<1>3. MutexInv'
  BY <1>1 DEF WStartUpdate, MutexInv, WHolds, RHolds, TypeOK, CoordinatorTypeOK,
       ParticipantTypeOK, NetTypeOK, Entry, Free, TXID_START, P_Id
<1>4. SlotInv'
  BY <1>1 DEF WStartUpdate, SlotInv, TaskInv, RetInv, RTaskInv, RRetInv, PRecoveryDue, TypeOK,
       CoordinatorTypeOK, ParticipantTypeOK, NetTypeOK, MutexInv, WHolds, RHolds, Entry, Free,
       TXID_START, P_Id
<1>5. PhaseInv' /\ TableInv' /\ CLogCommitted' /\ TmpInv'
  BY <1>1 DEF WStartUpdate, TypeOK, CoordinatorTypeOK, Entry, Free, PhaseInv, FromP,
       TableInv, Counting, RHolds, CLogCommitted, TmpInv, Temp
<1>6. SessionInv' /\ AnswerInv' /\ SyncInv'
  BY <1>1, SMTT(30) DEF WStartUpdate, SessionInv, TypeOK, CoordinatorTypeOK, NetTypeOK, Entry,
       Free,
       PhaseInv, FromP, TableInv, Counting, RHolds, AnswerInv, TxAnswer, LogAnswer, SyncInv,
       AheadP
<1>. QED BY <1>2, <1>3, <1>4, <1>5, <1>6 DEF IInv

\* A GET takes the mutex; nothing is asked yet.
LEMMA WStartGetStep ==
  ASSUME IInv, WStartGet, UNCHANGED pVars
  PROVE  IInv'
<1> USE LoggerAssumption, ReplyFacts, RetFacts, TxFacts, RequestFacts, LogFacts
<1>1. TypeOK /\ MutexInv /\ SlotInv /\ SessionInv /\ PhaseInv /\ TableInv
      /\ AnswerInv /\ SyncInv /\ CLogCommitted /\ TmpInv
  BY DEF IInv
<1>2. MutexInv'
  BY <1>1 DEF WStartGet, MutexInv, WHolds, RHolds, TypeOK, CoordinatorTypeOK,
       ParticipantTypeOK, NetTypeOK, Free, TXID_START, P_Id
<1>3. TypeOK' /\ PhaseInv' /\ TableInv' /\ CLogCommitted' /\ TmpInv'
  BY <1>1 DEF WStartGet, TypeOK, CoordinatorTypeOK, ParticipantTypeOK, NetTypeOK, Free,
       PhaseInv, FromP, TableInv, Counting, RHolds, CLogCommitted, TmpInv, Temp
<1>4. SlotInv' /\ SessionInv' /\ AnswerInv' /\ SyncInv'
  BY <1>1, SMTT(30) DEF WStartGet, TypeOK, CoordinatorTypeOK, NetTypeOK, Free, SlotInv, TaskInv,
       RetInv, RTaskInv, RRetInv, PRecoveryDue, SessionInv, PhaseInv, FromP, TableInv,
       Counting, RHolds, AnswerInv, TxAnswer, LogAnswer, SyncInv, AheadP
<1>. QED BY <1>2, <1>3, <1>4 DEF IInv

\* A rejected command returns the mutex with the coordinator unchanged.
LEMMA WRejectedStep ==
  ASSUME IInv, WRejected, UNCHANGED pVars
  PROVE  IInv'
<1> USE LoggerAssumption, ReplyFacts, RetFacts, TxFacts, RequestFacts, LogFacts
<1>1. TypeOK /\ MutexInv /\ SlotInv /\ SessionInv /\ PhaseInv /\ TableInv
      /\ AnswerInv /\ SyncInv /\ CLogCommitted /\ TmpInv
  BY DEF IInv
<1>2. SyncInv'
  BY <1>1 DEF WRejected, Answered, SyncInv, RHolds, FromP, Counting, AheadP, TypeOK,
       CoordinatorTypeOK, ParticipantTypeOK, NetTypeOK, MutexInv, WHolds, Free, TXID_START,
       P_Id
<1>3. TypeOK' /\ MutexInv' /\ PhaseInv' /\ TableInv' /\ CLogCommitted' /\ TmpInv'
  BY <1>1 DEF WRejected, Answered, TypeOK, CoordinatorTypeOK, ParticipantTypeOK,
       NetTypeOK, Free, MutexInv, WHolds, RHolds, PhaseInv, FromP, TableInv, Counting,
       CLogCommitted, TmpInv, Temp
<1>4. SlotInv' /\ SessionInv' /\ AnswerInv'
  BY <1>1, SMTT(30) DEF WRejected, Answered, TypeOK, CoordinatorTypeOK, NetTypeOK, Free,
       MutexInv, WHolds, RHolds, SlotInv, TaskInv, RetInv, RTaskInv, RRetInv, PRecoveryDue,
       SessionInv, PhaseInv, FromP, TableInv, Counting, AnswerInv, TxAnswer, LogAnswer
<1>. QED BY <1>2, <1>3, <1>4 DEF IInv

\* The commit that is sent is a request.
LEMMA WVotesType ==
  ASSUME IInv, WVotes, UNCHANGED pVars
  PROVE  TypeOK'
<1> USE LoggerAssumption, ReplyFacts, RetFacts, TxFacts, RequestFacts
<1>1. txid \in TxIds /\ wcmd \in Cmds
  BY DEF IInv, TypeOK, CoordinatorTypeOK, PhaseInv, WVotes
<1>2. Log(txid, LOG_COMMIT, wcmd) \in Request
  BY <1>1
<1>3. task' \in [P_Id -> Request \cup {NoMsg}]
  BY <1>2 DEF WVotes, IInv, TypeOK, CoordinatorTypeOK
<1>. QED BY <1>3 DEF WVotes, Answered, IInv, TypeOK, CoordinatorTypeOK, ParticipantTypeOK,
     NetTypeOK

\* All answers are in, so no session is busy when the commits are handed out.
LEMMA WVotesStep ==
  ASSUME IInv, WVotes, UNCHANGED pVars
  PROVE  IInv'
<1> USE LoggerAssumption, ReplyFacts, RetFacts, TxFacts, RequestFacts, LogFacts
<1>1. TypeOK /\ MutexInv /\ SlotInv /\ SessionInv /\ PhaseInv /\ TableInv
      /\ AnswerInv /\ SyncInv /\ CLogCommitted /\ TmpInv
  BY DEF IInv
<1>2. MutexInv'
  BY <1>1 DEF WVotes, Answered, AllAnswered, MutexInv, WHolds, RHolds, TypeOK,
       CoordinatorTypeOK, ParticipantTypeOK, NetTypeOK, Free, TXID_START, P_Id
<1>3. SessionInv'
  BY <1>1, SMTT(30) DEF WVotes, Answered, AllAnswered, SessionInv, TypeOK, CoordinatorTypeOK,
       ParticipantTypeOK, NetTypeOK, MutexInv, WHolds, RHolds, SlotInv, TaskInv, RetInv,
       RTaskInv, RRetInv, PRecoveryDue, PhaseInv, FromP, TableInv, Counting, Free, TXID_START,
       P_Id
<1>4. AnswerInv'
  BY <1>1 DEF WVotes, Answered, AllAnswered, AnswerInv, TxAnswer, LogAnswer, TypeOK,
       CoordinatorTypeOK, ParticipantTypeOK, NetTypeOK, MutexInv, WHolds, RHolds, SlotInv,
       TaskInv, RetInv, RTaskInv, RRetInv, PRecoveryDue, SessionInv, Free, TXID_START, P_Id
<1>a. \A p \in P_Id : ret'[p].rc = "empty" /\ ret'[p] # Got(OkReply)
  BY <1>1 DEF WVotes
<1>5. SyncInv'
  BY <1>1, <1>a, SMTT(30) DEF WVotes, Answered, AllAnswered, SyncInv, RHolds, FromP, Counting, AheadP, TypeOK,
       CoordinatorTypeOK, ParticipantTypeOK, NetTypeOK, MutexInv, WHolds, SlotInv, TaskInv,
       RetInv, RTaskInv, RRetInv, PRecoveryDue, SessionInv, Free, TXID_START, P_Id
<1>6. SlotInv' /\ PhaseInv' /\ TableInv' /\ CLogCommitted' /\ TmpInv'
  BY <1>1 DEF WVotes, Answered, AllAnswered, SlotInv, TaskInv, RetInv, RTaskInv, RRetInv,
       PRecoveryDue, TypeOK, CoordinatorTypeOK, ParticipantTypeOK, NetTypeOK, Free, PhaseInv,
       FromP, TableInv, Counting, RHolds, CLogCommitted, TmpInv, Temp
<1>7. TypeOK'
  BY WVotesType
<1>. QED BY <1>2, <1>3, <1>4, <1>5, <1>6, <1>7 DEF IInv

\* The record that is committed is the next one.
LEMMA WCommitsLog ==
  ASSUME IInv, WCommits, UNCHANGED pVars
  PROVE  TypeOK' /\ CLogCommitted'
<1> USE LoggerAssumption, ReplyFacts, RetFacts, TxFacts, RequestFacts
<1>1. txid \in TxIds /\ txid + 1 \in TXID_START..(MaxTx + 1)
  BY DEF IInv, TypeOK, CoordinatorTypeOK, PhaseInv, WCommits, TXID_START
<1>2. CASE \E p \in P_Id : /\ Committed(p) /\ clog' = chageLogState(txid, LOG_COMMIT)
                           /\ txid' = txid + 1 /\ Answered(ret[p].data)
  <2>0. /\ clog' \in [TxIds -> EntryType] /\ clog'[txid].st = LOG_COMMIT
        /\ \A u \in TxIds : u # txid => clog'[u] = clog[u]
    <3>1. clog \in [TxIds -> EntryType]
      BY DEF IInv, TypeOK, CoordinatorTypeOK
    <3>2. clog' = chageLogState(txid, LOG_COMMIT)
      BY <1>2
    <3>. QED BY <1>1, <3>1, <3>2, ChangeFacts
  <2>1. clog' \in [TxIds -> EntryType]
    BY <2>0
  <2>2. wres' \in Reply
    BY <1>2 DEF Answered, Committed, IInv, TypeOK, CoordinatorTypeOK
  <2>3. CLogCommitted'
    <3>1. \A t \in TxIds : t < txid + 1 => t = txid \/ t < txid
      BY <1>1 DEF TxIds, TXID_START
    <3>2. txid' = txid + 1 /\ \A t \in TxIds : t < txid => clog[t].st = LOG_COMMIT
      BY <1>2 DEF IInv, CLogCommitted
    <3>3. \A t \in TxIds : t < txid' => clog'[t].st = LOG_COMMIT
      BY <1>1, <2>0, <3>1, <3>2
    <3>. QED BY <3>3 DEF CLogCommitted
  <2>a. ret' \in [P_Id -> Ret]
    BY DEF WCommits, IInv, TypeOK, CoordinatorTypeOK
  <2>4. TypeOK'
    BY <1>1, <1>2, <2>1, <2>2, <2>a DEF WCommits, Answered, IInv, TypeOK, CoordinatorTypeOK,
         ParticipantTypeOK, NetTypeOK
  <2>. QED BY <2>3, <2>4
<1>3. CASE Answered(ErrReply) /\ UNCHANGED <<clog, txid>>
  <2>1. CLogCommitted'
    BY <1>3 DEF IInv, CLogCommitted
  <2>2. TypeOK'
    BY <1>3 DEF WCommits, Answered, IInv, TypeOK, CoordinatorTypeOK, ParticipantTypeOK,
         NetTypeOK
  <2>. QED BY <2>1, <2>2
<1>. QED BY <1>2, <1>3 DEF WCommits

\* The coordinator counts a command as executed exactly when every working
\* participant with a live session has executed it.
LEMMA WCommitsSync ==
  ASSUME IInv, WCommits, UNCHANGED pVars
  PROVE  SyncInv'
<1>0. wpc' = "reply" /\ ~RHolds /\ ~RHolds' /\ rpc' = rpc /\ ~Counting' /\ WHolds
  BY QuietSession DEF WCommits, Answered, WHolds, RHolds, Counting, IInv, MutexInv, Free
<1>1. ASSUME NEW p \in P_Id, csock[p] = "open", pstate[p] = "WORKING" PROVE ptxid[p] = txid'
  <2>1. rep[p] # OkReply
    BY <1>0, QuietSession, ReplyFacts DEF WCommits, AllAnswered, RHolds, IInv, SessionInv,
         SlotInv
  <2>2. ptxid[p] = IF ret[p] = Got(OkReply) THEN txid + 1 ELSE txid
    BY <1>0, <1>1, <2>1 DEF WCommits, IInv, SyncInv
  <2>3. ret[p].rc = "ok" /\ ret[p] = Got(ret[p].data) /\ ret[p].data = EventParser(wcmd)
    BY <1>1, RetFacts DEF WCommits, AllAnswered, IInv, SlotInv, RetInv, AnswerInv, TypeOK,
         CoordinatorTypeOK
  <2>4. wcmd \in Cmds /\ EventParser(wcmd) \in {OkReply, ErrReply}
    BY ReplyFacts DEF IInv, PhaseInv, WCommits
  <2>5. OkReply # ErrReply
    BY DEF OkReply, ErrReply
  <2>6. CASE EventParser(wcmd) = OkReply
    <3>1. Committed(p)
      BY <2>3, <2>5, <2>6, RetFacts DEF Committed
    <3>2. txid' = txid + 1
      BY <3>1 DEF WCommits
    <3>. QED BY <2>2, <2>3, <2>6, <3>2
  <2>7. CASE EventParser(wcmd) = ErrReply
    <3>1. \A q \in P_Id : ~Committed(q)
      BY <2>7, RetFacts DEF Committed, WCommits, IInv, AnswerInv, TypeOK, CoordinatorTypeOK
    <3>2. txid' = txid
      BY <3>1 DEF WCommits
    <3>3. ret[p] # Got(OkReply)
      BY <2>3, <2>5, <2>7, RetFacts
    <3>. QED BY <2>2, <3>2, <3>3
  <2>. QED BY <2>4, <2>6, <2>7
<1>2. rpc # "table"
  BY <1>0 DEF RHolds
<1>. QED BY <1>0, <1>1, <1>2 DEF SyncInv, WCommits, Answered

\* The id advances exactly when a participant has executed the command, and then every
\* working participant with a live session has.
LEMMA WCommitsStep ==
  ASSUME IInv, WCommits, UNCHANGED pVars
  PROVE  IInv'
<1> USE LoggerAssumption, ReplyFacts, RetFacts, TxFacts, RequestFacts, LogFacts
<1>1. TypeOK /\ MutexInv /\ SlotInv /\ SessionInv /\ PhaseInv /\ TableInv
      /\ AnswerInv /\ SyncInv /\ CLogCommitted /\ TmpInv
  BY DEF IInv
<1>2. MutexInv'
  BY <1>1 DEF WCommits, Answered, AllAnswered, Committed, chageLogState, MutexInv, WHolds,
       RHolds, TypeOK, CoordinatorTypeOK, ParticipantTypeOK, NetTypeOK, AnswerInv,
       CLogCommitted, PhaseInv, Free, TXID_START, P_Id
<1>3. PhaseInv'
  <2>1. wpc' = "reply" /\ txid \in Int /\ txid' \in {txid, txid + 1} /\ rMin \in Int
    BY <1>1 DEF WCommits, Answered, TypeOK, CoordinatorTypeOK, TXID_START
  <2>2. ~RHolds
    BY <1>1 DEF WCommits, MutexInv, WHolds, RHolds
  <2>3. UNCHANGED <<rpc, rMin, rMax, rLeader, rFrom, rLog>>
    BY DEF WCommits
  <2>4. ~RHolds' /\ ~FromP'
    BY <2>2, <2>3 DEF RHolds, FromP
  <2>5. rpc' \in {"wait", "lockR", "lockW", "table"} => rMin' < txid'
    BY <1>1, <2>1, <2>3 DEF PhaseInv
  <2>6. rFrom' = "P"
    BY <1>1, <2>2, <2>3 DEF PhaseInv, RHolds
  <2>. QED BY <2>1, <2>4, <2>5, <2>6 DEF PhaseInv, RHolds
<1>4. TableInv' /\ TmpInv'
  BY <1>1 DEF WCommits, Answered, AllAnswered, Committed, chageLogState, TypeOK,
       CoordinatorTypeOK, CLogCommitted, PhaseInv, Free, TableInv, Counting, RHolds, TmpInv,
       Temp
<1>7. SlotInv' /\ SessionInv' /\ AnswerInv'
  BY <1>1, SMTT(30) DEF WCommits, Answered, AllAnswered, Committed, chageLogState, SlotInv,
       TaskInv, RetInv, RTaskInv, RRetInv, PRecoveryDue, TypeOK, CoordinatorTypeOK, NetTypeOK,
       AnswerInv, PhaseInv, Free, SessionInv, TableInv, Counting, RHolds, TxAnswer,
       LogAnswer
<1>5. TypeOK' /\ CLogCommitted'
  BY WCommitsLog
<1>6. SyncInv'
  BY WCommitsSync
<1>. QED BY <1>2, <1>3, <1>4, <1>5, <1>6, <1>7 DEF IInv

\* A GET uses the slot of one participant, which was empty.
LEMMA WAskGetStep ==
  ASSUME IInv, WAskGet, UNCHANGED pVars
  PROVE  IInv'
<1> USE LoggerAssumption, ReplyFacts, RetFacts, TxFacts, RequestFacts, LogFacts
<1>1. TypeOK /\ MutexInv /\ SlotInv /\ SessionInv /\ PhaseInv /\ TableInv
      /\ AnswerInv /\ SyncInv /\ CLogCommitted /\ TmpInv
  BY DEF IInv
<1>2. TypeOK'
  <2>1. task' \in [P_Id -> Request \cup {NoMsg}]
    BY <1>1 DEF WAskGet, TypeOK, CoordinatorTypeOK
  <2>. QED BY <1>1, <2>1 DEF WAskGet, TypeOK, CoordinatorTypeOK, ParticipantTypeOK, NetTypeOK
<1>4. SlotInv'
  <2>1. rpc # "data" /\ wpc = "ask" /\ wpc' = "get" /\ rpc' = rpc /\ widx' = widx
        /\ widx \in P_Id
    BY <1>1 DEF WAskGet, MutexInv, WHolds, RHolds, TypeOK, CoordinatorTypeOK, P_Id
  <2>2. \A p \in P_Id : task[p] = NoMsg /\ Vacant(ret[p]) /\ pw[p] # "wait"
    BY <1>1, <2>1 DEF SlotInv, TaskInv, RetInv
  <2>3. \A p \in P_Id : task'[p] # NoMsg
                          => p = widx /\ task'[p] = Log(SUPER_TXID, LOG_COMMIT, NoCmd)
    BY <1>1, <2>2 DEF WAskGet, TypeOK, CoordinatorTypeOK
  <2>4. ret' = ret /\ rtask' = rtask /\ rret' = rret /\ pw' = pw /\ pr' = pr /\ rIdx' = rIdx
        /\ rLog' = rLog /\ pstate' = pstate /\ maxTx' = maxTx
    BY DEF WAskGet
  <2>5. SUFFICES ASSUME NEW p \in P_Id
                 PROVE  /\ TaskInv(p)' /\ RetInv(p)' /\ RTaskInv(p)' /\ RRetInv(p)'
                        /\ (pr[p] = "wait" => rtask[p] # NoMsg /\ Vacant(rret[p])
                                              /\ PRecoveryDue(p))'
    BY <2>2, <2>4 DEF SlotInv
  <2>. QED BY <1>1, <2>1, <2>2, <2>3, <2>4 DEF SlotInv, TaskInv, RetInv, RTaskInv, RRetInv,
       PRecoveryDue
<1>3. MutexInv' /\ PhaseInv' /\ TableInv' /\ CLogCommitted' /\ TmpInv'
  BY <1>1 DEF WAskGet, MutexInv, WHolds, RHolds, TypeOK, CoordinatorTypeOK, Free,
       PhaseInv, FromP, TableInv, Counting, CLogCommitted, TmpInv, Temp
<1>5. SessionInv' /\ AnswerInv' /\ SyncInv'
  BY <1>1 DEF WAskGet, MutexInv, WHolds, RHolds, TypeOK, CoordinatorTypeOK, NetTypeOK,
       Free, SessionInv, PhaseInv, FromP, TableInv, Counting, AnswerInv, TxAnswer,
       LogAnswer, SyncInv, AheadP
<1>. QED BY <1>2, <1>3, <1>4, <1>5 DEF IInv

\* The slot of the participant asked is emptied before the next one is asked.
LEMMA WGottenStep ==
  ASSUME IInv, WGotten, UNCHANGED pVars
  PROVE  IInv'
<1> USE LoggerAssumption, ReplyFacts, RetFacts, TxFacts, RequestFacts, LogFacts
<1>1. TypeOK /\ MutexInv /\ SlotInv /\ SessionInv /\ PhaseInv /\ TableInv
      /\ AnswerInv /\ SyncInv /\ CLogCommitted /\ TmpInv
  BY DEF IInv
<1>2. TypeOK'
  <2>1. widx \in P_Id /\ (widx < PNum => widx + 1 \in 1..PNum)
    BY <1>1 DEF TypeOK, CoordinatorTypeOK, P_Id
  <2>2. ret' \in [P_Id -> Ret] /\ (ret[widx].rc = "ok" => ret[widx].data \in Reply)
    BY <1>1, <2>1 DEF WGotten, TypeOK, CoordinatorTypeOK
  <2>. QED BY <1>1, <2>1, <2>2 DEF WGotten, Answered,
            TypeOK, CoordinatorTypeOK, ParticipantTypeOK, NetTypeOK
<1>3. MutexInv'
  BY <1>1 DEF WGotten, Answered, MutexInv, WHolds, RHolds, TypeOK, CoordinatorTypeOK,
       ParticipantTypeOK, NetTypeOK, Free, TXID_START, P_Id
<1>4. PhaseInv' /\ TableInv' /\ CLogCommitted' /\ TmpInv'
  BY <1>1 DEF WGotten, Answered, TypeOK, CoordinatorTypeOK, Free, PhaseInv, FromP,
       TableInv, Counting, RHolds, CLogCommitted, TmpInv, Temp
<1>5. SlotInv' /\ SessionInv' /\ AnswerInv' /\ SyncInv'
  BY <1>1, SMTT(30) DEF WGotten, Answered, SlotInv, TaskInv, RetInv, RTaskInv, RRetInv,
       PRecoveryDue, TypeOK, CoordinatorTypeOK, NetTypeOK, Free, SessionInv, PhaseInv,
       FromP, TableInv, Counting, RHolds, AnswerInv, TxAnswer, LogAnswer, SyncInv, AheadP
<1>. QED BY <1>2, <1>3, <1>4, <1>5 DEF IInv

\* The answer is sent with no mutex held.
LEMMA WReplyStep ==
  ASSUME IInv, WReply, UNCHANGED pVars
  PROVE  IInv'
<1> USE LoggerAssumption, ReplyFacts, RetFacts, TxFacts, RequestFacts, LogFacts
<1>1. TypeOK /\ MutexInv /\ SlotInv /\ SessionInv /\ PhaseInv /\ TableInv
      /\ AnswerInv /\ SyncInv /\ CLogCommitted /\ TmpInv
  BY DEF IInv
<1>2. TypeOK' /\ MutexInv' /\ PhaseInv' /\ TableInv' /\ CLogCommitted' /\ TmpInv'
  BY <1>1 DEF WReply, TypeOK, CoordinatorTypeOK, ParticipantTypeOK, NetTypeOK, Free,
       MutexInv, WHolds, RHolds, PhaseInv, FromP, TableInv, Counting, CLogCommitted, TmpInv,
       Temp
<1>3. SlotInv' /\ SessionInv' /\ AnswerInv' /\ SyncInv'
  BY <1>1, SMTT(30) DEF WReply, TypeOK, CoordinatorTypeOK, NetTypeOK, Free, MutexInv, WHolds,
       RHolds, SlotInv, TaskInv, RetInv, RTaskInv, RRetInv, PRecoveryDue, SessionInv,
       PhaseInv, FromP, TableInv, Counting, AnswerInv, TxAnswer, LogAnswer, SyncInv, AheadP
<1>. QED BY <1>2, <1>3 DEF IInv

-----------------------------------------------------------------------------
(* The recovery thread *)

\* The recovery thread starts.
LEMMA RStartStep ==
  ASSUME IInv, RStart, UNCHANGED pVars
  PROVE  IInv'
<1> USE LoggerAssumption, ReplyFacts, RetFacts, TxFacts, RequestFacts, LogFacts
<1>1. TypeOK /\ MutexInv /\ SlotInv /\ SessionInv /\ PhaseInv /\ TableInv
      /\ AnswerInv /\ SyncInv /\ CLogCommitted /\ TmpInv
  BY DEF IInv
<1>2. TypeOK'
  BY <1>1 DEF RStart, TypeOK, CoordinatorTypeOK, ParticipantTypeOK, NetTypeOK
<1>3. MutexInv' /\ SlotInv' /\ SessionInv' /\ PhaseInv' /\ TableInv' /\ AnswerInv'
      /\ SyncInv' /\ CLogCommitted' /\ TmpInv'
  BY <1>1 DEF RStart, MutexInv, WHolds, RHolds, TypeOK, CoordinatorTypeOK, ParticipantTypeOK,
       NetTypeOK, Free, SlotInv, TaskInv, RetInv, RTaskInv, RRetInv, PRecoveryDue, SessionInv,
       PhaseInv, FromP, TableInv, Counting, AnswerInv, TxAnswer, LogAnswer, SyncInv, AheadP,
       CLogCommitted, TmpInv, Temp
<1>. QED BY <1>2, <1>3 DEF IInv

\* The id read before the wait is below the coordinator's, and stays so.
LEMMA REnterStep ==
  ASSUME IInv, REnter, UNCHANGED pVars
  PROVE  IInv'
<1> USE LoggerAssumption, ReplyFacts, RetFacts, TxFacts, RequestFacts, LogFacts
<1>1. TypeOK /\ MutexInv /\ SlotInv /\ SessionInv /\ PhaseInv /\ TableInv
      /\ AnswerInv /\ SyncInv /\ CLogCommitted /\ TmpInv
  BY DEF IInv
<1>2. TypeOK'
  <2>1. txid - 1 \in (TXID_START - 1)..(MaxTx + 1)
    BY <1>1 DEF TypeOK, CoordinatorTypeOK, TXID_START
  <2>. QED BY <1>1, <2>1 DEF REnter, TypeOK, CoordinatorTypeOK, ParticipantTypeOK, NetTypeOK
<1>3. MutexInv' /\ SlotInv' /\ SessionInv' /\ PhaseInv' /\ TableInv' /\ AnswerInv'
      /\ SyncInv' /\ CLogCommitted' /\ TmpInv'
  BY <1>1 DEF REnter, MutexInv, WHolds, RHolds, TypeOK, CoordinatorTypeOK, ParticipantTypeOK,
       NetTypeOK, Free, SlotInv, TaskInv, RetInv, RTaskInv, RRetInv, PRecoveryDue, SessionInv,
       PhaseInv, FromP, TableInv, Counting, AnswerInv, TxAnswer, LogAnswer, SyncInv, AheadP,
       CLogCommitted, TmpInv, Temp
<1>. QED BY <1>2, <1>3 DEF IInv

\* Recovery announces itself before it holds a mutex.
LEMMA RWakeStep ==
  ASSUME IInv, RWake, UNCHANGED pVars
  PROVE  IInv'
<1> USE LoggerAssumption, ReplyFacts, RetFacts, TxFacts, RequestFacts, LogFacts
<1>1. TypeOK /\ MutexInv /\ SlotInv /\ SessionInv /\ PhaseInv /\ TableInv
      /\ AnswerInv /\ SyncInv /\ CLogCommitted /\ TmpInv
  BY DEF IInv
<1>2. TypeOK' /\ MutexInv' /\ PhaseInv' /\ TableInv' /\ CLogCommitted' /\ TmpInv'
  BY <1>1 DEF RWake, TypeOK, CoordinatorTypeOK, ParticipantTypeOK, NetTypeOK, Free,
       MutexInv, WHolds, RHolds, PhaseInv, FromP, TableInv, Counting, CLogCommitted, TmpInv,
       Temp
<1>3. SlotInv' /\ SessionInv' /\ AnswerInv' /\ SyncInv'
  BY <1>1 DEF RWake, TypeOK, CoordinatorTypeOK, NetTypeOK, Free, MutexInv, WHolds, RHolds,
       SlotInv, TaskInv, RetInv, RTaskInv, RRetInv, PRecoveryDue, SessionInv, PhaseInv,
       FromP, TableInv, Counting, AnswerInv, TxAnswer, LogAnswer, SyncInv, AheadP
<1>. QED BY <1>2, <1>3 DEF IInv

\* With the recovery mutex alone nothing is frozen yet.
LEMMA RLockRecoveryStep ==
  ASSUME IInv, RLockRecovery, UNCHANGED pVars
  PROVE  IInv'
<1> USE LoggerAssumption, ReplyFacts, RetFacts, TxFacts, RequestFacts, LogFacts
<1>1. TypeOK /\ MutexInv /\ SlotInv /\ SessionInv /\ PhaseInv /\ TableInv
      /\ AnswerInv /\ SyncInv /\ CLogCommitted /\ TmpInv
  BY DEF IInv
<1>2. TypeOK' /\ SlotInv' /\ CLogCommitted'
  BY <1>1, SMTT(30) DEF RLockRecovery, TypeOK, CoordinatorTypeOK, ParticipantTypeOK, NetTypeOK,
       MutexInv, WHolds, RHolds, Free, TXID_START, P_Id, SlotInv, TaskInv, RetInv, RTaskInv,
       RRetInv, PRecoveryDue, CLogCommitted
<1>3. MutexInv' /\ SessionInv' /\ PhaseInv' /\ TableInv' /\ AnswerInv' /\ SyncInv' /\ TmpInv'
  BY <1>1 DEF RLockRecovery, MutexInv, WHolds, RHolds, TypeOK, CoordinatorTypeOK,
       ParticipantTypeOK, NetTypeOK, Free, SessionInv, PhaseInv, FromP, TableInv, Counting,
       AnswerInv, TxAnswer, LogAnswer, SyncInv, AheadP, TmpInv, Temp
<1>. QED BY <1>2, <1>3 DEF IInv

\* With both mutexes nobody is left in the working or the temp state, and every
\* recovery slot holds the query.
LEMMA RLockWorkingStep ==
  ASSUME IInv, RLockWorking, UNCHANGED pVars
  PROVE  IInv'
<1> USE LoggerAssumption, ReplyFacts, RetFacts, TxFacts, RequestFacts, LogFacts
<1>1. TypeOK /\ MutexInv /\ SlotInv /\ SessionInv /\ PhaseInv /\ TableInv
      /\ AnswerInv /\ SyncInv /\ CLogCommitted /\ TmpInv
  BY DEF IInv
<1>2. TypeOK' /\ SlotInv' /\ PhaseInv' /\ CLogCommitted' /\ TmpInv'
  BY <1>1, SMTT(30) DEF RLockWorking, TypeOK, CoordinatorTypeOK, ParticipantTypeOK, NetTypeOK,
       Free, SlotInv, TaskInv, RetInv, RTaskInv, RRetInv, PRecoveryDue, PhaseInv, FromP,
       CLogCommitted, TmpInv, RHolds, Temp
<1>3. MutexInv' /\ SessionInv'
  BY <1>1 DEF RLockWorking, MutexInv, WHolds, RHolds, TypeOK, CoordinatorTypeOK, Free,
       SessionInv, SlotInv, TaskInv
<1>4. TableInv' /\ AnswerInv' /\ SyncInv'
  BY <1>1, SMTT(30) DEF RLockWorking, MutexInv, WHolds, RHolds, TypeOK, CoordinatorTypeOK, Free,
       SessionInv, SlotInv, TaskInv, RRetInv, RTaskInv, FromP, TableInv, Counting, AnswerInv,
       TxAnswer, LogAnswer, SyncInv
<1>. QED BY <1>2, <1>3, <1>4 DEF IInv

\* The table holds the last ids of those that answered, and only those.
LEMMA RTableInv ==
  ASSUME IInv, RTable, UNCHANGED pVars
  PROVE  TypeOK' /\ MutexInv' /\ PhaseInv' /\ TableInv' /\ SyncInv'
<1>1. ASSUME NEW p \in P_Id
      PROVE  maxTx'[p] = IF rret[p].rc = "ok" THEN rret[p].data.txid ELSE 0
  <2>1. CASE rret[p].rc = "ok"
    <3>1. TxAnswer(rret[p].data)
      BY <2>1 DEF RTable, IInv, AnswerInv
    <3>2. rret[p] # Got(EmptyReply)
      BY <3>1, RetFacts, AnswerFacts
    <3>. QED BY <2>1, <3>2 DEF RTable
  <2>2. CASE rret[p].rc # "ok"
    <3>1. maxTx[p] = 0
      BY <2>2 DEF RTable, IInv, TableInv
    <3>. QED BY <2>2, <3>1 DEF RTable
  <2>. QED BY <2>1, <2>2
<1>2. \A p \in P_Id : maxTx'[p] # 0 => /\ maxTx'[p] \in (TXID_START - 1)..MaxTx
                                        /\ rret[p].rc = "ok" /\ pstate[p] = "RECOVERY"
  BY <1>1 DEF RTable, IInv, AnswerInv, TxAnswer, TableInv
<1>3. maxTx' \in [P_Id -> {0, 1} \cup (TXID_START - 1)..MaxTx]
  BY <1>2 DEF RTable
<1>4. /\ rMin \in Int /\ rMin >= TXID_START - 1 /\ rMin <= txid - 1 /\ txid \in Int
      /\ txid <= MaxTx + 1 /\ MaxTx \in Int
  BY LoggerAssumption DEF RTable, IInv, PhaseInv, TypeOK, CoordinatorTypeOK, TXID_START
<1>5. \/ rpc' = "finish" /\ rMin' = rMin
      \/ rpc' = "leader" /\ rMin' \in Int /\ rMin' >= TXID_START /\ rMin' <= txid
  <2>1. CASE rpc' = "finish" /\ UNCHANGED rMin
    BY <2>1
  <2>2. ASSUME NEW m \in ({maxTx'[p] : p \in P_Id} \ {0}) \cup {rMin},
               \A i \in ({maxTx'[p] : p \in P_Id} \ {0}) \cup {rMin} : m <= i,
               rpc' = "leader", rMin' = m + 1
        PROVE  rMin' \in Int /\ rMin' >= TXID_START /\ rMin' <= txid
    <3>1. m \in Int /\ m >= TXID_START - 1 /\ m <= rMin
      BY <1>2, <1>4, <2>2 DEF TXID_START
    <3>. QED BY <1>4, <2>2, <3>1 DEF TXID_START
  <2>. QED BY <2>1, <2>2 DEF RTable
<1>6. TypeOK'
  <2>1. rMin' \in (TXID_START - 1)..(MaxTx + 1)
    BY <1>4, <1>5 DEF TXID_START
  <2>. QED BY <1>3, <1>5, <2>1, RetFacts DEF RTable, IInv, TypeOK, CoordinatorTypeOK,
       ParticipantTypeOK, NetTypeOK
<1>7. MutexInv'
  BY <1>5 DEF RTable, IInv, MutexInv, WHolds, RHolds
<1>8. PhaseInv'
  BY <1>5 DEF RTable, IInv, PhaseInv, FromP
<1>9. TableInv'
  BY <1>2, <1>5 DEF RTable, IInv, TableInv, Counting, RHolds
<1>10. SyncInv'
  <2>1. RHolds /\ RHolds' /\ ~FromP /\ ~FromP'
    BY <1>5 DEF RTable, RHolds, FromP
  <2>2. \A p \in P_Id : rep[p] # OkReply
    BY <2>1, QuietSession DEF RTable
  <2>3. \A p \in P_Id : pstate[p] # "WORKING"
    BY DEF RTable, IInv, TableInv
  <2>4. ASSUME NEW p \in P_Id, csock[p] = "open", maxTx'[p] # 0
        PROVE  ptxid[p] = maxTx'[p] + 1
    BY <1>1, <1>2, <2>4 DEF RTable, IInv, SyncInv, TypeOK, ParticipantTypeOK, TXID_START
  <2>. QED BY <1>5, <2>1, <2>2, <2>3, <2>4 DEF SyncInv, RTable
<1>. QED BY <1>6, <1>7, <1>8, <1>9, <1>10

\* The table is complete; if all are up to date recovery ends, otherwise a leader is sought.
LEMMA RTableStep ==
  ASSUME IInv, RTable, UNCHANGED pVars
  PROVE  IInv'
<1> USE LoggerAssumption, ReplyFacts, RetFacts, TxFacts, RequestFacts, LogFacts
<1>1. TypeOK /\ MutexInv /\ SlotInv /\ SessionInv /\ PhaseInv /\ TableInv
      /\ AnswerInv /\ SyncInv /\ CLogCommitted /\ TmpInv
  BY DEF IInv
<1>2. SlotInv'
  BY <1>1 DEF RTable, Consistent, SlotInv, TaskInv, RetInv, RTaskInv, RRetInv, PRecoveryDue,
       TypeOK, CoordinatorTypeOK, ParticipantTypeOK, NetTypeOK, AnswerInv, TxAnswer, PhaseInv,
       TableInv, TxReply, Free
<1>3. SessionInv'
  BY <1>1 DEF RTable, Consistent, SessionInv, TypeOK, CoordinatorTypeOK, ParticipantTypeOK,
       NetTypeOK, AnswerInv, TxAnswer, PhaseInv, TableInv, TxReply, Free
<1>4. CLogCommitted'
  BY <1>1 DEF RTable, Consistent, CLogCommitted, TypeOK, CoordinatorTypeOK, ParticipantTypeOK,
       NetTypeOK, AnswerInv, TxAnswer, PhaseInv, TableInv, TxReply, Free
<1>5. TmpInv'
  BY <1>1 DEF RTable, Consistent, TmpInv, RHolds, Temp, TypeOK, CoordinatorTypeOK,
       ParticipantTypeOK, NetTypeOK, AnswerInv, TxAnswer, PhaseInv, TableInv, TxReply, Free
<1>6. AnswerInv'
  BY <1>1 DEF RTable, Consistent, AnswerInv, TxAnswer, LogAnswer, TypeOK, CoordinatorTypeOK,
       ParticipantTypeOK, NetTypeOK, MutexInv, WHolds, RHolds, SlotInv, TaskInv, RetInv,
       RTaskInv, RRetInv, PRecoveryDue, SessionInv, PhaseInv, TableInv, TxReply, Free,
       TXID_START, P_Id
<1>7. TypeOK' /\ MutexInv' /\ PhaseInv' /\ TableInv' /\ SyncInv'
  BY RTableInv
<1>. QED BY <1>2, <1>3, <1>4, <1>5, <1>6, <1>7 DEF IInv

\* The leader is ahead of the coordinator, and nobody is ahead of the leader.
LEMMA RLeadInv ==
  ASSUME IInv, NEW i \in P_Id, RLead(i), UNCHANGED pVars
  PROVE  PhaseInv' /\ SyncInv'
<1>1. /\ txid \in Int /\ rMin \in Int /\ \A p \in P_Id : maxTx[p] \in Int
      /\ rMin >= TXID_START /\ rMin <= txid
  BY LoggerAssumption DEF RLead, IInv, PhaseInv, TypeOK, CoordinatorTypeOK, TXID_START
<1>2. maxTx[i] > txid - 1 /\ maxTx[i] # 0
  BY <1>1 DEF RLead, Leads, AheadP, TXID_START
<1>3. \A q \in P_Id : maxTx[q] <= maxTx[i]
  BY <1>1, <1>2 DEF RLead, Leads, AheadP
<1>4. /\ rMax' = maxTx[i] /\ rLeader' = i /\ rpc' = "ask" /\ rFrom' = rFrom /\ rMin' = rMin
      /\ txid' = txid
      /\ \A p \in P_Id : maxTx'[p] = IF p = i THEN 0 ELSE maxTx[p]
      /\ \A p \in P_Id : pstate'[p] = IF p = i THEN "WORKING" ELSE pstate[p]
  BY DEF RLead, IInv, TypeOK, CoordinatorTypeOK
<1>5. PhaseInv'
  <2>1. \A p \in P_Id : maxTx'[p] <= rMax'
    BY <1>1, <1>2, <1>3, <1>4 DEF TXID_START
  <2>. QED BY <1>1, <1>2, <1>4, <2>1 DEF RLead, IInv, PhaseInv, FromP, TXID_START
<1>6. SyncInv'
  <2>1. RHolds /\ RHolds' /\ FromP' /\ Counting /\ Counting'
    BY <1>4 DEF RLead, RHolds, FromP, Counting
  <2>2. ASSUME NEW p \in P_Id, csock[p] = "open", pstate[p] = "WORKING" PROVE FALSE
    BY <2>1, <2>2 DEF RLead, Leads, FromP, IInv, SyncInv
  <2>3. rep[i] # OkReply
    BY <2>1, QuietSession DEF RLead
  <2>4. csock[i] = "open" => ptxid[i] = maxTx[i] + 1
    BY <1>2, <2>1, <2>3 DEF IInv, SyncInv
  <2>. QED BY <1>4, <2>1, <2>2, <2>4 DEF SyncInv, IInv, RLead
<1>. QED BY <1>5, <1>6

\* The leader alone works while its log is copied.
LEMMA RLeadStep ==
  ASSUME IInv, NEW i \in P_Id, RLead(i), UNCHANGED pVars
  PROVE  IInv'
<1> USE LoggerAssumption, ReplyFacts, RetFacts, TxFacts, RequestFacts, LogFacts
<1>1. TypeOK /\ MutexInv /\ SlotInv /\ SessionInv /\ PhaseInv /\ TableInv
      /\ AnswerInv /\ SyncInv /\ CLogCommitted /\ TmpInv
  BY DEF IInv
<1>2. TypeOK'
  <2>1. maxTx[i] \in (TXID_START - 1)..MaxTx
    BY <1>1 DEF RLead, Leads, AheadP, TypeOK, CoordinatorTypeOK, TXID_START
  <2>. QED BY <1>1, <2>1 DEF RLead, TypeOK, CoordinatorTypeOK, ParticipantTypeOK, NetTypeOK
<1>3. SlotInv'
  BY <1>1 DEF RLead, Leads, AheadP, SlotInv, TaskInv, RetInv, RTaskInv, RRetInv, PRecoveryDue,
       TypeOK, CoordinatorTypeOK, ParticipantTypeOK, NetTypeOK, MutexInv, WHolds, RHolds,
       SyncInv, FromP, Free, TXID_START, P_Id
<1>4. SessionInv'
  <2>1. maxTx[i] # 0
    BY <1>1 DEF RLead, Leads, AheadP, TypeOK, CoordinatorTypeOK, TXID_START
  <2>2. pstate[i] = "RECOVERY"
    BY <1>1, <2>1 DEF RLead, TableInv, Counting
  <2>3. /\ \A p \in P_Id : /\ pstate'[p] = "WAITING" <=> pstate[p] = "WAITING"
                           /\ pstate[p] = "WORKING" => pstate'[p] = "WORKING"
        /\ UNCHANGED <<csock, ka, pw, pr, req, rep, task, rtask>>
    BY <1>1, <2>2 DEF RLead, TypeOK, CoordinatorTypeOK
  <2>. QED BY <1>1, <2>3 DEF SessionInv
<1>5. MutexInv' /\ TableInv' /\ AnswerInv' /\ CLogCommitted' /\ TmpInv'
  BY <1>1 DEF RLead, Leads, AheadP, MutexInv, WHolds, RHolds, TypeOK, CoordinatorTypeOK,
       ParticipantTypeOK, NetTypeOK, SyncInv, FromP, Free, TableInv, Counting, AnswerInv,
       TxAnswer, LogAnswer, CLogCommitted, TmpInv, Temp
<1>6. PhaseInv' /\ SyncInv'
  BY RLeadInv
<1>. QED BY <1>2, <1>3, <1>4, <1>5, <1>6 DEF IInv

\* The first record of the coordinator can be sent.
LEMMA RFromCType ==
  ASSUME IInv, RFromC, UNCHANGED pVars
  PROVE  TypeOK'
<1> USE LoggerAssumption, ReplyFacts, RetFacts, TxFacts, RequestFacts
<1>1. txid > TXID_START => CLogRecord(TXID_START) \in Request
  <2>1. TXID_START \in TxIds
    BY DEF TXID_START
  <2>2. txid > TXID_START => clog[TXID_START].st = LOG_COMMIT
    BY <2>1 DEF IInv, CLogCommitted
  <2>3. clog[TXID_START].cmd \in Cmds \cup {NoCmd}
    BY <2>1 DEF IInv, TypeOK, CoordinatorTypeOK, EntryType
  <2>. QED BY <2>1, <2>2, <2>3 DEF CLogRecord
<1>2. 1 \in P_Id
  BY DEF P_Id
<1>. QED BY <1>1, <1>2 DEF RFromC, IInv, TypeOK, CoordinatorTypeOK, ParticipantTypeOK, NetTypeOK

\* When nobody is ahead the coordinator's own committed records are sent.
LEMMA RFromCStep ==
  ASSUME IInv, RFromC, UNCHANGED pVars
  PROVE  IInv'
<1> USE LoggerAssumption, ReplyFacts, RetFacts, TxFacts, RequestFacts, LogFacts
<1>1. TypeOK /\ MutexInv /\ SlotInv /\ SessionInv /\ PhaseInv /\ TableInv
      /\ AnswerInv /\ SyncInv /\ CLogCommitted /\ TmpInv
  BY DEF IInv
<1>2. PhaseInv'
  <2>1. TXID_START \in TxIds /\ txid \in Int
    BY <1>1 DEF TypeOK, CoordinatorTypeOK, TXID_START
  <2>2. txid > TXID_START => /\ rLog' = CLogRecord(TXID_START) /\ rLog'.id = TXID_START
                             /\ rLog'.st = LOG_COMMIT /\ rLog' # NoMsg
    BY <1>1, <2>1, LogFacts DEF RFromC, CLogRecord, CLogCommitted
  <2>3. txid > TXID_START => rLog' \in Request
    BY RFromCType, <2>1, <2>2, LogFacts DEF TypeOK, CoordinatorTypeOK, TXID_START
  <2>4. rpc' \in {"push", "finish"} /\ (rpc' = "push" => txid > TXID_START /\ rFrom' = "C")
    BY DEF RFromC
  <2>5. rpc' = "finish" => rFrom' = "P"
    BY <1>1, <2>1 DEF RFromC, PhaseInv
  <2>. QED BY <1>1, <2>1, <2>2, <2>3, <2>4, <2>5 DEF RFromC, PhaseInv, FromP
<1>3. MutexInv' /\ TableInv' /\ CLogCommitted' /\ TmpInv'
  BY <1>1 DEF RFromC, CLogRecord, MutexInv, WHolds, RHolds, TypeOK, CoordinatorTypeOK,
       CLogCommitted, Free, TableInv, Counting, FromP, TmpInv, Temp
<1>5. SlotInv' /\ SessionInv' /\ AnswerInv' /\ SyncInv'
  BY <1>1, SMTT(30) DEF RFromC, AheadP, CLogRecord, MutexInv, WHolds, RHolds, TypeOK,
       CoordinatorTypeOK, NetTypeOK, Free, SlotInv, TaskInv, RetInv, RTaskInv, RRetInv,
       PRecoveryDue, SessionInv, TableInv, Counting, AnswerInv, TxAnswer, LogAnswer,
       SyncInv, FromP
<1>4. TypeOK'
  BY RFromCType
<1>. QED BY <1>2, <1>3, <1>4, <1>5 DEF IInv

\* The leader is asked for the next record; its slot was empty.
LEMMA RAskStep ==
  ASSUME IInv, RAsk, UNCHANGED pVars
  PROVE  IInv'
<1> USE LoggerAssumption, ReplyFacts, RetFacts, TxFacts, RequestFacts, LogFacts
<1>1. TypeOK /\ MutexInv /\ SlotInv /\ SessionInv /\ PhaseInv /\ TableInv
      /\ AnswerInv /\ SyncInv /\ CLogCommitted /\ TmpInv
  BY DEF IInv
<1>2. TypeOK'
  <2>1. rLeader \in P_Id /\ rMin \in TxIds
    BY <1>1 DEF RAsk, PhaseInv, FromP, TypeOK, CoordinatorTypeOK, TXID_START
  <2>. QED BY <1>1, <2>1 DEF RAsk, TypeOK, CoordinatorTypeOK, ParticipantTypeOK, NetTypeOK
<1>4. SlotInv'
  BY <1>1 DEF RAsk, TypeOK, CoordinatorTypeOK, MutexInv, WHolds, RHolds, Free, SlotInv,
       TaskInv, RetInv, RTaskInv, RRetInv, PRecoveryDue, SessionInv, PhaseInv, FromP
<1>5. AnswerInv'
  BY <1>1 DEF RAsk, TypeOK, CoordinatorTypeOK, MutexInv, WHolds, RHolds, Free, SlotInv,
       TaskInv, RetInv, SessionInv, AnswerInv, TxAnswer, LogAnswer
<1>3. MutexInv' /\ SessionInv' /\ PhaseInv' /\ TableInv' /\ SyncInv' /\ CLogCommitted'
      /\ TmpInv'
  BY <1>1 DEF RAsk, MutexInv, WHolds, RHolds, TypeOK, CoordinatorTypeOK, ParticipantTypeOK,
       NetTypeOK, Free, SessionInv, PhaseInv, FromP, TableInv, Counting, SyncInv, AheadP,
       CLogCommitted, TmpInv, Temp
<1>. QED BY <1>2, <1>3, <1>4, <1>5 DEF IInv

\* When the whole log of the leader has been copied, the coordinator has reached it.
LEMMA RAskedAllSync ==
  ASSUME IInv, RAskedAll, UNCHANGED pVars
  PROVE  SyncInv'
<1>1. FromP /\ RHolds /\ RHolds' /\ ~FromP' /\ Counting /\ Counting'
  BY DEF RAskedAll, FromP, RHolds, Counting
<1>2. txid = rMax + 1 /\ txid \in Int
  BY <1>1, LoggerAssumption DEF RAskedAll, IInv, PhaseInv, TypeOK, CoordinatorTypeOK, TXID_START
<1>3. AheadP' = {}
  BY <1>1, <1>2, LoggerAssumption DEF AheadP, RAskedAll, IInv, PhaseInv, TypeOK,
       CoordinatorTypeOK, TXID_START
<1>. QED BY <1>1, <1>2, <1>3 DEF SyncInv, IInv, RAskedAll

\* The leader's log has been copied: a leader is sought again, and nobody is ahead.
LEMMA RAskedAllStep ==
  ASSUME IInv, RAskedAll, UNCHANGED pVars
  PROVE  IInv'
<1> USE LoggerAssumption, ReplyFacts, RetFacts, TxFacts, RequestFacts, LogFacts
<1>1. TypeOK /\ MutexInv /\ SlotInv /\ SessionInv /\ PhaseInv /\ TableInv
      /\ AnswerInv /\ SyncInv /\ CLogCommitted /\ TmpInv
  BY DEF IInv
<1>2. TypeOK' /\ MutexInv' /\ SlotInv' /\ SessionInv' /\ PhaseInv' /\ TableInv'
      /\ AnswerInv' /\ CLogCommitted' /\ TmpInv'
  BY <1>1 DEF RAskedAll, TypeOK, CoordinatorTypeOK, ParticipantTypeOK, NetTypeOK, Free,
       MutexInv, WHolds, RHolds, SlotInv, TaskInv, RetInv, RTaskInv, RRetInv, PRecoveryDue,
       SessionInv, PhaseInv, FromP, TableInv, Counting, AnswerInv, TxAnswer, LogAnswer,
       CLogCommitted, TmpInv, Temp
<1>3. SyncInv'
  BY RAskedAllSync
<1>. QED BY <1>2, <1>3 DEF IInv

\* The leader answers with the committed record it was asked for.
LEMMA RDataLog ==
  ASSUME IInv, RData, UNCHANGED pVars
  PROVE  TypeOK' /\ CLogCommitted'
<1> USE LoggerAssumption, ReplyFacts, RetFacts, TxFacts, RequestFacts
<1>0. rLeader \in P_Id /\ rMin >= TXID_START /\ rMin <= txid /\ txid \in Int /\ rMin \in Int
  BY DEF RData, IInv, PhaseInv, FromP, TypeOK, CoordinatorTypeOK, TXID_START
<1>1. CASE ret[rLeader].rc = "ok" /\ ret[rLeader] # Got(EmptyReply)
  <2> DEFINE l == ret[rLeader].data.log
  <2>1. l \in Request /\ l.id = rMin /\ l.st = LOG_COMMIT
    BY <1>0, <1>1 DEF RData, IInv, AnswerInv, LogAnswer
  <2>2. l.id \in TxIds /\ l.id \in Int /\ l.ev \in Cmds \cup {NoCmd}
    BY <1>0, <2>1
  <2> HIDE DEF l
  <2>3. /\ IF l.id = txid
           THEN /\ clog' = [clog EXCEPT ![l.id] = Entry(l.st, l.ev)]
                /\ txid' = txid + 1
           ELSE UNCHANGED <<clog, txid>>
        /\ rpc' = "push" /\ rFrom' = "P" /\ rIdx' = 1 /\ rLog' = l
    BY <1>1 DEF RData, l
  <2>4. clog' \in [TxIds -> EntryType]
    <3>1. clog \in [TxIds -> EntryType]
      BY DEF IInv, TypeOK, CoordinatorTypeOK
    <3>2. CASE l.id = txid
      <4>1. clog' = [clog EXCEPT ![l.id] = Entry(l.st, l.ev)]
        BY <2>3, <3>2
      <4>. QED BY <2>1, <2>2, <3>1, <4>1, EntryFacts
    <3>. QED BY <2>3, <3>1, <3>2
  <2>5. txid' \in TXID_START..(MaxTx + 1)
    BY <2>2, <2>3 DEF IInv, TypeOK, CoordinatorTypeOK, TXID_START
  <2>6. CLogCommitted'
    <3>1. clog \in [TxIds -> EntryType] /\ CLogCommitted
      BY DEF IInv, TypeOK, CoordinatorTypeOK
    <3>2. CASE l.id = txid
      <4>1. /\ clog'[txid].st = LOG_COMMIT
            /\ \A u \in TxIds : u # txid => clog'[u] = clog[u]
        BY <2>1, <2>2, <2>3, <3>1, <3>2, EntryFacts
      <4>2. txid' = txid + 1
        BY <2>3, <3>2
      <4>3. ASSUME NEW t \in TxIds, t < txid' PROVE clog'[t].st = LOG_COMMIT
        <5>0. t \in Int /\ t < txid + 1
          BY <4>2, <4>3, TxFacts
        <5>1. t = txid \/ t < txid
          BY <1>0, <5>0
        <5>. QED BY <3>1, <4>1, <5>1 DEF CLogCommitted
      <4>. QED BY <4>3 DEF CLogCommitted
    <3>. QED BY <2>3, <3>1, <3>2 DEF CLogCommitted
  <2>7. 1 \in P_Id
    BY DEF P_Id
  <2>8. TypeOK'
    BY <1>0, <2>1, <2>3, <2>4, <2>5, <2>7 DEF RData, IInv, TypeOK, CoordinatorTypeOK,
         ParticipantTypeOK, NetTypeOK
  <2>. QED BY <2>6, <2>8
<1>2. CASE ~(ret[rLeader].rc = "ok" /\ ret[rLeader] # Got(EmptyReply))
  <2>1. UNCHANGED <<clog, txid>>
    BY <1>2 DEF RData
  <2>2. CLogCommitted'
    BY <2>1 DEF IInv, CLogCommitted
  <2>3. TypeOK'
    BY <1>0, <1>2 DEF RData, IInv, TypeOK, CoordinatorTypeOK, ParticipantTypeOK, NetTypeOK
  <2>. QED BY <2>2, <2>3
<1>. QED BY <1>1, <1>2

\* A leader that does not answer is no longer in the working state.
LEMMA RDataSync ==
  ASSUME IInv, RData, UNCHANGED pVars
  PROVE  SyncInv'
<1>0. FromP /\ RHolds /\ RHolds' /\ Counting /\ Counting' /\ rLeader \in P_Id
  BY DEF RData, FromP, RHolds, Counting, IInv, PhaseInv
<1>1. CASE ret[rLeader].rc = "ok" /\ ret[rLeader] # Got(EmptyReply)
  BY <1>0, <1>1 DEF RData, FromP, SyncInv, IInv
<1>2. CASE ~(ret[rLeader].rc = "ok" /\ ret[rLeader] # Got(EmptyReply))
  <2>1. ret[rLeader].rc # "ok"
    <3> SUFFICES ASSUME ret[rLeader].rc = "ok" PROVE FALSE
      OBVIOUS
    <3>1. LogAnswer(ret[rLeader].data)
      BY <1>0 DEF RData, IInv, AnswerInv
    <3>. QED BY <1>0, <1>2, <3>1, RetFacts, AnswerFacts DEF IInv, TypeOK, CoordinatorTypeOK
  <2>2. pstate[rLeader] # "WORKING"
    BY <1>0, <2>1 DEF RData, IInv, SlotInv, RetInv
  <2>3. \A p \in P_Id : csock[p] = "open" => pstate[p] # "WORKING"
    BY <1>0, <2>2 DEF IInv, SyncInv
  <2>. QED BY <1>0, <1>2, <2>3 DEF RData, SyncInv, IInv
<1>. QED BY <1>1, <1>2

\* The record of the leader is the next one, or one the coordinator has; without an answer
\* the leader is dropped.
LEMMA RDataStep ==
  ASSUME IInv, RData, UNCHANGED pVars
  PROVE  IInv'
<1> USE LoggerAssumption, ReplyFacts, RetFacts, TxFacts, RequestFacts, LogFacts
<1>1. TypeOK /\ MutexInv /\ SlotInv /\ SessionInv /\ PhaseInv /\ TableInv
      /\ AnswerInv /\ SyncInv /\ CLogCommitted /\ TmpInv
  BY DEF IInv
<1>2. SlotInv'
  BY <1>1, SMTT(30) DEF RData, SlotInv, TaskInv, RetInv, RTaskInv, RRetInv, PRecoveryDue,
       TypeOK,
       CoordinatorTypeOK, ParticipantTypeOK, NetTypeOK, MutexInv, WHolds, RHolds, AnswerInv,
       LogAnswer, PhaseInv, FromP, Entry, Free, TXID_START, P_Id
<1>3. PhaseInv'
  <2>1. rLeader \in P_Id /\ rMin \in Int /\ rMax \in Int /\ txid \in Int
    BY <1>1 DEF RData, PhaseInv, FromP, TypeOK, CoordinatorTypeOK, TXID_START
  <2>2. CASE rpc' = "leader"
    BY <1>1, <2>1, <2>2 DEF RData, PhaseInv, FromP, MutexInv, WHolds, RHolds
  <2>3. CASE rpc' = "push"
    <3>1. LogAnswer(ret[rLeader].data) /\ rLog' = ret[rLeader].data.log /\ rFrom' = "P"
      BY <1>1, <2>1, <2>3 DEF RData, AnswerInv
    <3>2. rLog' \in Request /\ rLog'.id = rMin /\ rLog'.st = LOG_COMMIT
      BY <3>1 DEF LogAnswer
    <3>3. rMin >= TXID_START /\ rMin <= rMax /\ rMin <= txid /\ txid <= rMax + 1
      BY <1>1 DEF RData, PhaseInv, FromP
    <3>4. txid' = IF rMin = txid THEN txid + 1 ELSE txid
      BY <2>3, <3>1, <3>2 DEF RData
    <3>. QED BY <1>1, <2>1, <2>3, <3>1, <3>2, <3>3, <3>4 DEF RData, PhaseInv, FromP,
              MutexInv, WHolds, RHolds, Free, TXID_START
  <2>. QED BY <2>2, <2>3 DEF RData
<1>4. MutexInv' /\ TableInv' /\ TmpInv'
  BY <1>1 DEF RData, MutexInv, WHolds, RHolds, TypeOK, CoordinatorTypeOK, PhaseInv, FromP,
       Entry, Free, TableInv, Counting, TmpInv, Temp
<1>7. SessionInv' /\ AnswerInv'
  BY <1>1, SMTT(30) DEF RData, MutexInv, WHolds, RHolds, TypeOK, CoordinatorTypeOK, NetTypeOK,
       AnswerInv, LogAnswer, PhaseInv, FromP, Entry, Free, SessionInv, TableInv, Counting,
       TxAnswer
<1>5. TypeOK' /\ CLogCommitted'
  BY RDataLog
<1>6. SyncInv'
  BY RDataSync
<1>. QED BY <1>2, <1>3, <1>4, <1>5, <1>6, <1>7 DEF IInv

\* A record is handed to one participant, whose slot was empty.
LEMMA RPushStep ==
  ASSUME IInv, RPush, UNCHANGED pVars
  PROVE  IInv'
<1> USE LoggerAssumption, ReplyFacts, RetFacts, TxFacts, RequestFacts, LogFacts
<1>1. TypeOK /\ MutexInv /\ SlotInv /\ SessionInv /\ PhaseInv /\ TableInv
      /\ AnswerInv /\ SyncInv /\ CLogCommitted /\ TmpInv
  BY DEF IInv
<1>2. AnswerInv'
  BY <1>1 DEF RPush, AnswerInv, TxAnswer, LogAnswer, TypeOK, CoordinatorTypeOK,
       ParticipantTypeOK, NetTypeOK, MutexInv, WHolds, RHolds, SlotInv, TaskInv, RetInv,
       RTaskInv, RRetInv, PRecoveryDue, SessionInv, Free, TXID_START, P_Id
<1>3. TypeOK' /\ MutexInv' /\ SlotInv' /\ SessionInv' /\ PhaseInv' /\ TableInv' /\ SyncInv'
      /\ CLogCommitted' /\ TmpInv'
  BY <1>1 DEF RPush, TypeOK, CoordinatorTypeOK, ParticipantTypeOK, NetTypeOK, Free, MutexInv,
       WHolds, RHolds, SlotInv, TaskInv, RetInv, RTaskInv, RRetInv, PRecoveryDue, SessionInv,
       PhaseInv, FromP, TableInv, Counting, SyncInv, AheadP, CLogCommitted, TmpInv, Temp
<1>. QED BY <1>2, <1>3 DEF IInv

\* The record sent next, if any, is the committed one that follows.
LEMMA RPushedInv ==
  ASSUME IInv, RPushed, UNCHANGED pVars
  PROVE  TypeOK' /\ PhaseInv'
<1> USE LoggerAssumption, TxFacts, RequestFacts
<1>0. rLog \in Request /\ rLog.st = LOG_COMMIT /\ rLog.id >= TXID_START /\ rLog.id < txid
      /\ rLog.id \in TxIds /\ rIdx \in P_Id
  BY DEF RPushed, IInv, PhaseInv, TypeOK, CoordinatorTypeOK
<1>1. ASSUME rLog.id + 1 < txid
      PROVE  /\ CLogRecord(rLog.id + 1) \in Request
             /\ CLogRecord(rLog.id + 1).st = LOG_COMMIT
             /\ CLogRecord(rLog.id + 1).id = rLog.id + 1
  <2>1. rLog.id + 1 \in TxIds
    BY <1>0, <1>1 DEF IInv, TypeOK, CoordinatorTypeOK, TXID_START
  <2>2. clog[rLog.id + 1].st = LOG_COMMIT
    BY <1>1, <2>1 DEF IInv, CLogCommitted
  <2>3. clog[rLog.id + 1].cmd \in Cmds \cup {NoCmd}
    BY <2>1 DEF IInv, TypeOK, CoordinatorTypeOK, EntryType
  <2>. QED BY <2>1, <2>2, <2>3, LogFacts DEF CLogRecord
<1>2. 1 \in P_Id /\ (rIdx < PNum => rIdx + 1 \in P_Id)
  BY <1>0 DEF P_Id
<1>3. rret' \in [P_Id -> Ret]
  BY <1>0, RetFacts DEF RPushed, IInv, TypeOK, CoordinatorTypeOK
<1>4. rMin' \in (TXID_START - 1)..(MaxTx + 1)
  BY <1>0 DEF RPushed, IInv, TypeOK, CoordinatorTypeOK, PhaseInv, FromP, TXID_START
<1>5. rIdx' \in P_Id /\ rLog' \in Request \cup {NoMsg} /\ rFrom' \in {"P", "C"}
      /\ rpc' \in {"push", "ask", "finish"}
  BY <1>0, <1>1, <1>2 DEF RPushed, IInv, TypeOK, CoordinatorTypeOK
<1>6. TypeOK'
  BY <1>3, <1>4, <1>5 DEF RPushed, IInv, TypeOK, CoordinatorTypeOK, ParticipantTypeOK, NetTypeOK
<1>7. PhaseInv'
  <2>0. txid \in Int /\ rMin \in Int /\ rMax \in Int /\ rLog.id \in Int
    BY <1>0 DEF IInv, TypeOK, CoordinatorTypeOK, TXID_START
  <2>1. CASE rIdx < PNum /\ rpc' = "push" /\ rIdx' = rIdx + 1 /\ UNCHANGED <<rMin, rFrom, rLog>>
    BY <1>0, <2>0, <2>1 DEF RPushed, IInv, PhaseInv, FromP
  <2>2. CASE /\ rIdx = PNum /\ rFrom = "P"
             /\ rpc' = "ask" /\ rMin' = rMin + 1 /\ rIdx' = 1 /\ rLog' = NoMsg
             /\ UNCHANGED rFrom
    BY <1>0, <2>0, <2>2 DEF RPushed, IInv, PhaseInv, FromP, TXID_START
  <2>3. CASE /\ rIdx = PNum /\ rFrom = "C" /\ rLog.id + 1 < txid
             /\ rpc' = "push" /\ rIdx' = 1 /\ rLog' = CLogRecord(rLog.id + 1)
             /\ UNCHANGED <<rMin, rFrom>>
    BY <1>0, <1>1, <2>0, <2>3 DEF RPushed, IInv, PhaseInv, FromP, TXID_START
  <2>4. CASE /\ rIdx = PNum /\ rFrom = "C" /\ rLog.id + 1 >= txid
             /\ rpc' = "finish" /\ rIdx' = 1 /\ rLog' = NoMsg /\ rFrom' = "P"
             /\ UNCHANGED rMin
    BY <1>0, <2>0, <2>4 DEF RPushed, IInv, PhaseInv, FromP
  <2>. QED BY <2>1, <2>2, <2>3, <2>4 DEF RPushed
<1>. QED BY <1>6, <1>7

\* The next participant or the next record follows.
LEMMA RPushedStep ==
  ASSUME IInv, RPushed, UNCHANGED pVars
  PROVE  IInv'
<1> USE LoggerAssumption, ReplyFacts, RetFacts, TxFacts, RequestFacts, LogFacts
<1>1. TypeOK /\ MutexInv /\ SlotInv /\ SessionInv /\ PhaseInv /\ TableInv
      /\ AnswerInv /\ SyncInv /\ CLogCommitted /\ TmpInv
  BY DEF IInv
<1>2. MutexInv' /\ TableInv' /\ CLogCommitted' /\ TmpInv'
  BY <1>1 DEF RPushed, CLogRecord, MutexInv, WHolds, RHolds, TypeOK, CoordinatorTypeOK,
       CLogCommitted, FromP, PhaseInv, Free, TableInv, Counting, TmpInv, Temp
<1>4. SlotInv' /\ SessionInv' /\ AnswerInv' /\ SyncInv'
  BY <1>1, SMTT(30) DEF RPushed, CLogRecord, MutexInv, WHolds, RHolds, TypeOK,
       CoordinatorTypeOK,
       NetTypeOK, FromP, PhaseInv, Free, SlotInv, TaskInv, RetInv, RTaskInv, RRetInv,
       PRecoveryDue, SessionInv, TableInv, Counting, AnswerInv, TxAnswer, LogAnswer,
       SyncInv, AheadP
<1>3. TypeOK' /\ PhaseInv'
  BY RPushedInv
<1>. QED BY <1>2, <1>3, <1>4 DEF IInv

\* Whoever is put to work has the coordinator's last id.
LEMMA RFinishSync ==
  ASSUME IInv, RFinish, UNCHANGED pVars
  PROVE  SessionInv' /\ SyncInv'
<1>0. RHolds /\ ~RHolds' /\ Counting /\ ~Counting' /\ ~FromP /\ rpc' # "table" /\ ~WHolds
  BY QuietSession DEF RFinish, RHolds, Counting, FromP, IInv, MutexInv, Free
<1>1. txid \in Int /\ txid - 1 # 0
  BY DEF IInv, TypeOK, CoordinatorTypeOK, TXID_START
<1>2. \A p \in P_Id : maxTx[p] = txid - 1 => pstate[p] = "RECOVERY"
  BY <1>0, <1>1 DEF IInv, TableInv
<1>3. SessionInv'
  BY <1>2 DEF RFinish, IInv, SessionInv
<1>4. ASSUME NEW p \in P_Id, csock[p] = "open", pstate'[p] = "WORKING" PROVE ptxid[p] = txid
  <2>1. CASE maxTx[p] = txid - 1
    <3>1. rep[p] # OkReply
      BY <1>0, QuietSession DEF RFinish
    <3>. QED BY <1>0, <1>1, <1>4, <2>1, <3>1 DEF IInv, SyncInv
  <2>2. CASE maxTx[p] # txid - 1
    BY <1>0, <1>4, <2>2 DEF RFinish, IInv, SyncInv
  <2>. QED BY <2>1, <2>2
<1>5. wpc' # "commit"
  BY <1>0 DEF RFinish, WHolds
<1>6. SyncInv'
  BY <1>0, <1>4, <1>5 DEF RFinish, SyncInv
<1>. QED BY <1>3, <1>6

\* The counter is reset when nobody is in the temp state.
LEMMA RFinishTmp ==
  ASSUME IInv, RFinish, UNCHANGED pVars
  PROVE  TmpInv'
<1>1. tmpNum' = 0 /\ \A p \in P_Id : pstate'[p] # "TEMP"
  BY DEF RFinish, IInv, TableInv, RHolds
<1>2. Temp' = {}
  BY <1>1 DEF Temp
<1>. QED BY <1>1, <1>2, FS_EmptySet DEF TmpInv, Temp

\* Both mutexes are released with every working participant at the coordinator's id.
LEMMA RFinishStep ==
  ASSUME IInv, RFinish, UNCHANGED pVars
  PROVE  IInv'
<1> USE LoggerAssumption, ReplyFacts, RetFacts, TxFacts, RequestFacts, LogFacts
<1>1. TypeOK /\ MutexInv /\ SlotInv /\ SessionInv /\ PhaseInv /\ TableInv
      /\ AnswerInv /\ SyncInv /\ CLogCommitted /\ TmpInv
  BY DEF IInv
<1>2. MutexInv' /\ SlotInv'
  BY <1>1 DEF RFinish, MutexInv, WHolds, RHolds, TypeOK, CoordinatorTypeOK, ParticipantTypeOK,
       NetTypeOK, SyncInv, Free, TXID_START, P_Id, SlotInv, TaskInv, RetInv, RTaskInv,
       RRetInv, PRecoveryDue
<1>3. TypeOK' /\ CLogCommitted'
  BY <1>1 DEF RFinish, TypeOK, CoordinatorTypeOK, ParticipantTypeOK, NetTypeOK, CLogCommitted,
       TXID_START
<1>6. PhaseInv' /\ TableInv'
  BY <1>1 DEF RFinish, PhaseInv, FromP, TableInv, Counting, RHolds, MutexInv
<1>7. AnswerInv'
  BY <1>1 DEF RFinish, AnswerInv, TxAnswer, LogAnswer
<1>4. SessionInv' /\ SyncInv'
  BY RFinishSync
<1>5. TmpInv'
  BY RFinishTmp
<1>. QED BY <1>2, <1>3, <1>4, <1>5, <1>6, <1>7 DEF IInv

\* Commands are admitted again.
LEMMA RDoneStep ==
  ASSUME IInv, RDone, UNCHANGED pVars
  PROVE  IInv'
<1> USE LoggerAssumption, ReplyFacts, RetFacts, TxFacts, RequestFacts, LogFacts
<1>1. TypeOK /\ MutexInv /\ SlotInv /\ SessionInv /\ PhaseInv /\ TableInv
      /\ AnswerInv /\ SyncInv /\ CLogCommitted /\ TmpInv
  BY DEF IInv
<1>2. TypeOK' /\ MutexInv' /\ PhaseInv' /\ TableInv' /\ CLogCommitted' /\ TmpInv'
  BY <1>1 DEF RDone, TypeOK, CoordinatorTypeOK, ParticipantTypeOK, NetTypeOK, Free,
       MutexInv, WHolds, RHolds, PhaseInv, FromP, TableInv, Counting, CLogCommitted, TmpInv,
       Temp
<1>3. SlotInv' /\ SessionInv' /\ AnswerInv' /\ SyncInv'
  BY <1>1 DEF RDone, TypeOK, CoordinatorTypeOK, NetTypeOK, Free, MutexInv, WHolds, RHolds,
       SlotInv, TaskInv, RetInv, RTaskInv, RRetInv, PRecoveryDue, SessionInv, PhaseInv,
       FromP, TableInv, Counting, AnswerInv, TxAnswer, LogAnswer, SyncInv, AheadP
<1>. QED BY <1>2, <1>3 DEF IInv

-----------------------------------------------------------------------------
(* keepAlive, pWorking and pRecovery *)

\* A new session carries nothing, and its participant takes part in no phase.
LEMMA KeepAliveConnectStep ==
  ASSUME IInv, NEW i \in P_Id, KeepAliveConnect(i), UNCHANGED pVars
  PROVE  IInv'
<1> USE LoggerAssumption, ReplyFacts, RetFacts, TxFacts, RequestFacts, LogFacts
<1>1. TypeOK /\ MutexInv /\ SlotInv /\ SessionInv /\ PhaseInv /\ TableInv
      /\ AnswerInv /\ SyncInv /\ CLogCommitted /\ TmpInv
  BY DEF IInv
<1>2. SyncInv'
  <2>1. /\ pstate[i] = "WAITING" /\ rep'[i] = NoReply
        /\ \A p \in P_Id : p # i => csock'[p] = csock[p] /\ rep'[p] = rep[p]
        /\ UNCHANGED <<rpc, wpc, txid, ptxid, pstate, ret, rret, maxTx, rMax, rLeader,
                        rFrom, pr>>
    BY <1>1 DEF KeepAliveConnect, Connect, NetTypeOK, TypeOK
  <2>2. ~(Counting /\ maxTx[i] # 0) /\ ~(rpc = "table" /\ rret[i].rc = "ok")
    BY <1>1, <2>1 DEF TableInv
  <2>. QED BY <1>1, <2>1, <2>2 DEF SyncInv, RHolds, FromP, Counting, AheadP
<1>3. TypeOK' /\ MutexInv' /\ PhaseInv' /\ TableInv' /\ CLogCommitted' /\ TmpInv'
  BY <1>1 DEF KeepAliveConnect, Connect, TypeOK, CoordinatorTypeOK, ParticipantTypeOK,
       NetTypeOK, Free, MutexInv, WHolds, RHolds, PhaseInv, FromP, TableInv, Counting,
       CLogCommitted, TmpInv, Temp
<1>4. SlotInv' /\ SessionInv' /\ AnswerInv'
  BY <1>1, SMTT(30) DEF KeepAliveConnect, Connect, TypeOK, CoordinatorTypeOK, NetTypeOK, Free,
       MutexInv, WHolds, RHolds, SlotInv, TaskInv, RetInv, RTaskInv, RRetInv, PRecoveryDue,
       SessionInv, PhaseInv, FromP, TableInv, Counting, AnswerInv, TxAnswer, LogAnswer
<1>. QED BY <1>2, <1>3, <1>4 DEF IInv

\* A participant that is counted was not in the temp state before.
LEMMA KeepAliveTempCount ==
  ASSUME IInv, NEW i \in P_Id, KeepAliveTemp(i), UNCHANGED pVars
  PROVE  TmpInv' /\ TypeOK'
<1>1. i \notin Temp
  BY DEF KeepAliveTemp, IInv, SessionInv, Temp
<1>2. ~RHolds /\ ~RHolds'
  BY DEF KeepAliveTemp, IInv, MutexInv, RHolds, Free
<1>3. tmpNum = Cardinality(Temp)
  BY <1>2 DEF IInv, TmpInv, Temp
<1>4. Temp' = Temp \cup {i}
  BY DEF KeepAliveTemp, Temp, IInv, TypeOK, CoordinatorTypeOK
<1>5. Cardinality(Temp') = Cardinality(Temp) + 1
  BY <1>1, <1>4, TempFinite, FS_AddElement
<1>6. TmpInv'
  BY <1>3, <1>5 DEF TmpInv, Temp, KeepAliveTemp
<1>7. Cardinality(Temp') <= PNum
  <2>1. Temp' \subseteq P_Id /\ IsFiniteSet(P_Id) /\ Cardinality(P_Id) = PNum
    BY FS_Interval, LoggerAssumption DEF P_Id, Temp
  <2>. QED BY <2>1, FS_Subset
<1>8. tmpNum' \in 0..PNum
  BY <1>3, <1>5, <1>7, TempFinite, LoggerAssumption DEF KeepAliveTemp
<1>9. TypeOK'
  BY <1>8 DEF KeepAliveTemp, IInv, TypeOK, CoordinatorTypeOK, ParticipantTypeOK, NetTypeOK
<1>. QED BY <1>6, <1>9

\* A participant is counted when it enters the temp state.
LEMMA KeepAliveTempStep ==
  ASSUME IInv, NEW i \in P_Id, KeepAliveTemp(i), UNCHANGED pVars
  PROVE  IInv'
<1> USE LoggerAssumption, ReplyFacts, RetFacts, TxFacts, RequestFacts, LogFacts
<1>1. TypeOK /\ MutexInv /\ SlotInv /\ SessionInv /\ PhaseInv /\ TableInv
      /\ AnswerInv /\ SyncInv /\ CLogCommitted /\ TmpInv
  BY DEF IInv
<1>2. SlotInv' /\ TableInv'
  BY <1>1 DEF KeepAliveTemp, SlotInv, TaskInv, RetInv, RTaskInv, RRetInv, PRecoveryDue,
       TypeOK, CoordinatorTypeOK, ParticipantTypeOK, NetTypeOK, MutexInv, WHolds, RHolds,
       SessionInv, Free, TXID_START, P_Id, TableInv, Counting
<1>3. MutexInv' /\ PhaseInv' /\ CLogCommitted'
  BY <1>1 DEF KeepAliveTemp, MutexInv, WHolds, RHolds, TypeOK, CoordinatorTypeOK, Free,
       PhaseInv, FromP, Counting, CLogCommitted
<1>5. SessionInv' /\ AnswerInv' /\ SyncInv'
  BY <1>1, SMTT(30) DEF KeepAliveTemp, MutexInv, WHolds, RHolds, TypeOK, CoordinatorTypeOK,
       NetTypeOK, Free, SessionInv, PhaseInv, FromP, AnswerInv, TxAnswer, LogAnswer,
       SyncInv, Counting, AheadP
<1>4. TypeOK' /\ TmpInv'
  BY KeepAliveTempCount
<1>. QED BY <1>2, <1>3, <1>4, <1>5 DEF IInv

\* A participant that does not work is not asked.
LEMMA PWorkingSkipStep ==
  ASSUME IInv, NEW i \in P_Id, PWorkingSkip(i), UNCHANGED pVars
  PROVE  IInv'
<1> USE LoggerAssumption, ReplyFacts, RetFacts, TxFacts, RequestFacts, LogFacts
<1>1. TypeOK /\ MutexInv /\ SlotInv /\ SessionInv /\ PhaseInv /\ TableInv
      /\ AnswerInv /\ SyncInv /\ CLogCommitted /\ TmpInv
  BY DEF IInv
<1>2. TypeOK' /\ MutexInv' /\ PhaseInv' /\ TableInv' /\ CLogCommitted' /\ TmpInv'
  BY <1>1 DEF PWorkingSkip, TypeOK, CoordinatorTypeOK, ParticipantTypeOK, NetTypeOK, Free,
       MutexInv, WHolds, RHolds, PhaseInv, FromP, TableInv, Counting, CLogCommitted, TmpInv,
       Temp
<1>3. SlotInv' /\ SessionInv' /\ AnswerInv' /\ SyncInv'
  BY <1>1, SMTT(30) DEF PWorkingSkip, TypeOK, CoordinatorTypeOK, NetTypeOK, Free, MutexInv,
       WHolds, RHolds, SlotInv, TaskInv, RetInv, RTaskInv, RRetInv, PRecoveryDue, SessionInv,
       PhaseInv, FromP, TableInv, Counting, AnswerInv, TxAnswer, LogAnswer, SyncInv, AheadP
<1>. QED BY <1>2, <1>3 DEF IInv

\* The request in the session is the task in the slot; no reply is in it yet.
LEMMA PWorkingSendStep ==
  ASSUME IInv, NEW i \in P_Id, PWorkingSend(i), UNCHANGED pVars
  PROVE  IInv'
<1> USE LoggerAssumption, ReplyFacts, RetFacts, TxFacts, RequestFacts, LogFacts
<1>1. TypeOK /\ MutexInv /\ SlotInv /\ SessionInv /\ PhaseInv /\ TableInv
      /\ AnswerInv /\ SyncInv /\ CLogCommitted /\ TmpInv
  BY DEF IInv
<1>2. SessionInv'
  BY <1>1 DEF PWorkingSend, SendRequest, SessionInv, TypeOK, CoordinatorTypeOK,
       ParticipantTypeOK, NetTypeOK, MutexInv, WHolds, RHolds, SlotInv, TaskInv, RetInv,
       RTaskInv, RRetInv, PRecoveryDue, Free, TXID_START, P_Id
<1>3. AnswerInv'
  <2>1. (wpc = "commit" \/ rpc = "data") => pr[i] # "wait"
    BY QuietSession DEF WHolds, RHolds
  <2>2. (wpc = "commit" \/ rpc = "data") => rep[i] = NoReply
    BY <1>1, <2>1 DEF PWorkingSend, SessionInv
  <2>3. /\ \A p \in P_Id : p # i => pw'[p] = pw[p]
        /\ UNCHANGED <<wpc, rpc, wcmd, rep, ret, rret, pr, rLeader, rMin>>
    BY <1>1 DEF PWorkingSend, SendRequest, TypeOK, CoordinatorTypeOK
  <2>. QED BY <1>1, <2>2, <2>3 DEF AnswerInv, TxAnswer, LogAnswer
<1>4. TypeOK' /\ MutexInv' /\ SlotInv' /\ PhaseInv' /\ TableInv' /\ SyncInv'
      /\ CLogCommitted' /\ TmpInv'
  BY <1>1, SMTT(30) DEF PWorkingSend, SendRequest, TypeOK, CoordinatorTypeOK, ParticipantTypeOK,
       NetTypeOK, Free, MutexInv, WHolds, RHolds, SlotInv, TaskInv, RetInv, RTaskInv, RRetInv,
       PRecoveryDue, PhaseInv, FromP, TableInv, Counting, SyncInv, AheadP, CLogCommitted,
       TmpInv, Temp
<1>. QED BY <1>2, <1>3, <1>4 DEF IInv

\* An answer in the slot says what it said on its way.
LEMMA PWorkingRecvSync ==
  ASSUME IInv, NEW i \in P_Id, PWorkingRecv(i), UNCHANGED pVars
  PROVE  SyncInv'
<1>1. pstate[i] = "WORKING" /\ Vacant(ret[i]) /\ pr[i] # "wait"
  BY DEF PWorkingRecv, IInv, SlotInv, SessionInv, PRecoveryDue
<1>2. /\ \A p \in P_Id : ret'[p] = IF p = i THEN Got(rep[i]) ELSE ret[p]
      /\ \A p \in P_Id : rep'[p] = IF p = i THEN NoReply ELSE rep[p]
  BY DEF PWorkingRecv, RecvReply, IInv, TypeOK, CoordinatorTypeOK, NetTypeOK
<1>3. rep[i] = OkReply \/ ret[i] = Got(OkReply)
        <=> rep'[i] = OkReply \/ ret'[i] = Got(OkReply)
  BY <1>1, <1>2, RetFacts, ReplyFacts
<1>4. Counting => maxTx[i] = 0
  BY <1>1 DEF IInv, TableInv
<1>. QED BY <1>1, <1>2, <1>3, <1>4 DEF PWorkingRecv, RecvReply, IInv, SyncInv, RHolds, FromP,
     Counting, AheadP

\* The reply moves from the session to the slot.
LEMMA PWorkingRecvStep ==
  ASSUME IInv, NEW i \in P_Id, PWorkingRecv(i), UNCHANGED pVars
  PROVE  IInv'
<1> USE LoggerAssumption, ReplyFacts, RetFacts, TxFacts, RequestFacts, LogFacts
<1>1. TypeOK /\ MutexInv /\ SlotInv /\ SessionInv /\ PhaseInv /\ TableInv
      /\ AnswerInv /\ SyncInv /\ CLogCommitted /\ TmpInv
  BY DEF IInv
<1>2. TypeOK' /\ MutexInv' /\ PhaseInv' /\ TableInv' /\ CLogCommitted' /\ TmpInv'
  BY <1>1 DEF PWorkingRecv, RecvReply, TypeOK, CoordinatorTypeOK, ParticipantTypeOK,
       NetTypeOK, MutexInv, WHolds, RHolds, PhaseInv, FromP, TableInv, Counting,
       CLogCommitted, TmpInv, Temp
<1>4. SlotInv'
  BY <1>1 DEF PWorkingRecv, RecvReply, TypeOK, CoordinatorTypeOK, NetTypeOK, MutexInv,
       WHolds, RHolds, SlotInv, TaskInv, RetInv, RTaskInv, RRetInv, PRecoveryDue,
       SessionInv, AnswerInv, TxAnswer, LogAnswer
<1>5. SessionInv' /\ AnswerInv'
  BY <1>1, SMTT(30) DEF PWorkingRecv, RecvReply, TypeOK, CoordinatorTypeOK, NetTypeOK, MutexInv,
       WHolds, RHolds, SlotInv, TaskInv, RetInv, RTaskInv, RRetInv, PRecoveryDue,
       SessionInv, AnswerInv, TxAnswer, LogAnswer
<1>3. SyncInv'
  BY PWorkingRecvSync
<1>. QED BY <1>2, <1>3, <1>4, <1>5 DEF IInv

\* A participant that is given up while working was not counted.
LEMMA PWorkingFailTmp ==
  ASSUME IInv, NEW i \in P_Id, PWorkingFail(i), UNCHANGED pVars
  PROVE  TmpInv'
<1>1. pstate[i] = "WORKING"
  BY DEF PWorkingFail, IInv, SessionInv
<1>2. /\ \A p \in P_Id : pstate'[p] = "TEMP" <=> pstate[p] = "TEMP"
      /\ tmpNum' = tmpNum /\ rpc' = rpc
  BY <1>1 DEF PWorkingFail, IInv, TypeOK, CoordinatorTypeOK
<1>3. Temp' = Temp
  BY <1>2 DEF Temp
<1>. QED BY <1>2, <1>3 DEF TmpInv, IInv, RHolds, Temp

\* A participant that is given up is no longer working, and its session is closed.
LEMMA PWorkingFailStep ==
  ASSUME IInv, NEW i \in P_Id, PWorkingFail(i), UNCHANGED pVars
  PROVE  IInv'
<1> USE LoggerAssumption, ReplyFacts, RetFacts, TxFacts, RequestFacts, LogFacts
<1>1. TypeOK /\ MutexInv /\ SlotInv /\ SessionInv /\ PhaseInv /\ TableInv
      /\ AnswerInv /\ SyncInv /\ CLogCommitted /\ TmpInv
  BY DEF IInv
<1>2. SlotInv'
  BY <1>1 DEF PWorkingFail, GiveUp, SlotInv, TaskInv, RetInv, RTaskInv, RRetInv, PRecoveryDue,
       TypeOK, CoordinatorTypeOK, ParticipantTypeOK, NetTypeOK, MutexInv, WHolds, RHolds,
       Free, TXID_START, P_Id
<1>3. TableInv'
  BY <1>1 DEF PWorkingFail, GiveUp, TableInv, Counting, RHolds, TypeOK, CoordinatorTypeOK,
       ParticipantTypeOK, NetTypeOK, MutexInv, WHolds, SlotInv, TaskInv, RetInv, RTaskInv,
       RRetInv, PRecoveryDue, SessionInv, Free, TXID_START, P_Id
<1>4. TypeOK' /\ MutexInv' /\ PhaseInv' /\ CLogCommitted'
  BY <1>1 DEF PWorkingFail, GiveUp, TypeOK, CoordinatorTypeOK, ParticipantTypeOK,
       NetTypeOK, Free, MutexInv, WHolds, RHolds, PhaseInv, FromP, Counting, CLogCommitted
<1>6. SessionInv' /\ AnswerInv' /\ SyncInv'
  BY <1>1, SMTT(30) DEF PWorkingFail, GiveUp, TypeOK, CoordinatorTypeOK, NetTypeOK, Free,
       MutexInv,
       WHolds, RHolds, SessionInv, PhaseInv, FromP, AnswerInv, TxAnswer, LogAnswer, SyncInv,
       Counting, AheadP
<1>5. TmpInv'
  BY PWorkingFailTmp
<1>. QED BY <1>2, <1>3, <1>4, <1>5, <1>6 DEF IInv

\* A record that is not the next one of a participant is not sent to it.
LEMMA PRecoverySkipStep ==
  ASSUME IInv, NEW i \in P_Id, PRecoverySkip(i), UNCHANGED pVars
  PROVE  IInv'
<1> USE LoggerAssumption, ReplyFacts, RetFacts, TxFacts, RequestFacts, LogFacts
<1>1. TypeOK /\ MutexInv /\ SlotInv /\ SessionInv /\ PhaseInv /\ TableInv
      /\ AnswerInv /\ SyncInv /\ CLogCommitted /\ TmpInv
  BY DEF IInv
<1>2. TypeOK' /\ MutexInv' /\ PhaseInv' /\ TableInv' /\ CLogCommitted' /\ TmpInv'
  BY <1>1 DEF PRecoverySkip, TypeOK, CoordinatorTypeOK, ParticipantTypeOK, NetTypeOK,
       Free, MutexInv, WHolds, RHolds, PhaseInv, FromP, TableInv, Counting, CLogCommitted,
       TmpInv, Temp
<1>3. SlotInv' /\ SessionInv' /\ AnswerInv' /\ SyncInv'
  BY <1>1, SMTT(30) DEF PRecoverySkip, TypeOK, CoordinatorTypeOK, NetTypeOK, Free, MutexInv,
       WHolds, RHolds, SlotInv, TaskInv, RetInv, RTaskInv, RRetInv, PRecoveryDue, SessionInv,
       PhaseInv, FromP, TableInv, Counting, AnswerInv, TxAnswer, LogAnswer, SyncInv, AheadP
<1>. QED BY <1>2, <1>3 DEF IInv

\* The request in the session is the record in the slot; no reply is in it yet.
LEMMA PRecoverySendStep ==
  ASSUME IInv, NEW i \in P_Id, PRecoverySend(i), UNCHANGED pVars
  PROVE  IInv'
<1> USE LoggerAssumption, ReplyFacts, RetFacts, TxFacts, RequestFacts, LogFacts
<1>1. TypeOK /\ MutexInv /\ SlotInv /\ SessionInv /\ PhaseInv /\ TableInv
      /\ AnswerInv /\ SyncInv /\ CLogCommitted /\ TmpInv
  BY DEF IInv
<1>2. SessionInv'
  BY <1>1 DEF PRecoverySend, SendRequest, SessionInv, TypeOK, CoordinatorTypeOK, NetTypeOK,
       SlotInv, TaskInv, PRecoveryDue, RHolds, MutexInv, WHolds, RTaskInv
<1>4. AnswerInv'
  BY <1>1, SMTT(30) DEF PRecoverySend, SendRequest, TypeOK, CoordinatorTypeOK, NetTypeOK,
       AnswerInv, TxAnswer, LogAnswer, SessionInv, SlotInv, PRecoveryDue
<1>5. SyncInv'
  BY <1>1 DEF PRecoverySend, SendRequest, TypeOK, CoordinatorTypeOK, NetTypeOK, SyncInv,
       RHolds, FromP, Counting, AheadP, SessionInv, SlotInv, PRecoveryDue
<1>3. TypeOK' /\ MutexInv' /\ SlotInv' /\ PhaseInv' /\ TableInv' /\ CLogCommitted' /\ TmpInv'
  BY <1>1 DEF PRecoverySend, SendRequest, TypeOK, CoordinatorTypeOK, ParticipantTypeOK,
       NetTypeOK, Free, MutexInv, WHolds, RHolds, SlotInv, TaskInv, RetInv, RTaskInv, RRetInv,
       PRecoveryDue, PhaseInv, FromP, TableInv, Counting, CLogCommitted, TmpInv, Temp
<1>. QED BY <1>2, <1>3, <1>4, <1>5 DEF IInv

\* The entry of maxTxidTB goes up exactly when the participant's id did.
LEMMA PRecoveryRecvInv ==
  ASSUME IInv, NEW i \in P_Id, PRecoveryRecv(i), UNCHANGED pVars
  PROVE  TypeOK' /\ TableInv' /\ SyncInv'
<1>1. /\ rtask[i] # NoMsg /\ Vacant(rret[i]) /\ PRecoveryDue(i) /\ pstate[i] = "RECOVERY"
      /\ rep[i] # NoReply /\ rep[i] \in Reply
  BY ReplyFacts DEF PRecoveryRecv, RecvReply, IInv, SlotInv, PRecoveryDue, TypeOK, NetTypeOK
<1>2. /\ \A p \in P_Id : rret'[p] = IF p = i THEN Got(rep[i]) ELSE rret[p]
      /\ \A p \in P_Id : rep'[p] = IF p = i THEN NoReply ELSE rep[p]
      /\ \A p \in P_Id : p # i => maxTx'[p] = maxTx[p]
      /\ maxTx'[i] = IF rep[i] # ErrReply THEN maxTx[i] + 1 ELSE maxTx[i]
  BY DEF PRecoveryRecv, RecvReply, IInv, TypeOK, CoordinatorTypeOK, NetTypeOK
<1>3. CASE rpc = "table"
  <2>1. maxTx[i] = 0
    BY <1>1, <1>3, RetFacts DEF IInv, TableInv
  <2>2. rep[i] # ErrReply /\ TxAnswer(rep[i])
    BY <1>1, <1>3 DEF PRecoveryRecv, IInv, AnswerInv, TxAnswer, ErrReply
  <2>3. maxTx'[i] = 1
    BY <1>2, <2>1, <2>2
  <2>4. TypeOK'
    BY <1>1, <2>3, <2>2, RetFacts DEF PRecoveryRecv, RecvReply, IInv, TypeOK,
         CoordinatorTypeOK, ParticipantTypeOK, NetTypeOK
  <2>5. TableInv'
    BY <1>1, <1>2, <1>3, <2>3, RetFacts DEF PRecoveryRecv, IInv, TableInv, Counting, RHolds
  <2>6. csock[i] = "open" => rep[i].txid = ptxid[i] - 1
    BY <1>1, <1>3 DEF PRecoveryRecv, IInv, SyncInv
  <2>7. SyncInv'
    BY <1>1, <1>2, <1>3, <2>6, ReplyFacts, RetFacts DEF PRecoveryRecv, RecvReply, IInv,
         SyncInv, RHolds, Counting, FromP
  <2>. QED BY <2>4, <2>5, <2>7
<1>4. CASE rpc = "pushed"
  <2>1. /\ rtask[i] = rLog /\ rLog.id >= TXID_START
        /\ rLog.id = maxTx[i] + 1 /\ rLog.id \in TxIds /\ maxTx[i] \in Int
    BY <1>1, <1>4, RequestFacts DEF IInv, SlotInv, RTaskInv, PRecoveryDue, PhaseInv, TypeOK,
         CoordinatorTypeOK, TXID_START
  <2>2. maxTx[i] # 0 /\ maxTx[i] >= TXID_START - 1
    BY <2>1 DEF TXID_START
  <2>3. maxTx[i] + 1 \in {0, 1} \cup (TXID_START - 1)..MaxTx
    BY <2>1, TxFacts, LoggerAssumption DEF TXID_START
  <2>4. TypeOK'
    BY <1>1, <2>3, RetFacts DEF PRecoveryRecv, RecvReply, IInv, TypeOK, CoordinatorTypeOK,
         ParticipantTypeOK, NetTypeOK
  <2>5. maxTx'[i] >= TXID_START - 1
    BY <1>2, <2>1, <2>2 DEF TXID_START
  <2>6. TableInv'
    BY <1>1, <1>2, <1>4, <2>5 DEF PRecoveryRecv, IInv, TableInv, Counting, RHolds
  <2>7. rep[i] \in {OkReply, ErrReply}
    BY <1>1, <1>4 DEF PRecoveryRecv, IInv, AnswerInv
  <2>8. csock[i] = "open" => ptxid[i] = maxTx'[i] + 1
    BY <1>2, <1>4, <2>1, <2>2, <2>7, AnswerFacts DEF IInv, SyncInv, Counting
  <2>9. SyncInv'
    BY <1>1, <1>2, <1>4, <2>8, ReplyFacts DEF PRecoveryRecv, RecvReply, IInv, SyncInv, RHolds,
         Counting, FromP
  <2>. QED BY <2>4, <2>6, <2>9
<1>. QED BY <1>1, <1>3, <1>4 DEF IInv, SlotInv, RTaskInv

\* The reply moves to the slot and the table follows the participant.
LEMMA PRecoveryRecvStep ==
  ASSUME IInv, NEW i \in P_Id, PRecoveryRecv(i), UNCHANGED pVars
  PROVE  IInv'
<1> USE LoggerAssumption, ReplyFacts, RetFacts, TxFacts, RequestFacts, LogFacts
<1>1. TypeOK /\ MutexInv /\ SlotInv /\ SessionInv /\ PhaseInv /\ TableInv
      /\ AnswerInv /\ SyncInv /\ CLogCommitted /\ TmpInv
  BY DEF IInv
<1>2. PhaseInv'
  <2>1. ASSUME FromP PROVE maxTx'[i] <= rMax
    <3>1. rpc = "pushed" /\ rtask[i] = rLog /\ rLog.id = rMin /\ rLog.id = maxTx[i] + 1
      BY <1>1, <2>1, QuietSession DEF PRecoveryRecv, SlotInv, RTaskInv, PRecoveryDue, PhaseInv,
           FromP
    <3>2. maxTx[i] \in Int /\ rMin <= rMax /\ rMax \in Int /\ rMin \in Int
      BY <1>1, <2>1, <3>1 DEF PhaseInv, TypeOK, CoordinatorTypeOK, TXID_START
    <3>. QED BY <1>1, <3>1, <3>2 DEF PRecoveryRecv, TypeOK, CoordinatorTypeOK
  <2>2. /\ \A p \in P_Id : p # i => maxTx'[p] = maxTx[p]
        /\ UNCHANGED <<wpc, txid, wcmd, rpc, rMin, rMax, rLeader, rLog, rFrom>>
    BY <1>1 DEF PRecoveryRecv, TypeOK, CoordinatorTypeOK
  <2>. QED BY <1>1, <2>1, <2>2 DEF PhaseInv, FromP
<1>3. MutexInv' /\ CLogCommitted' /\ TmpInv'
  BY <1>1 DEF PRecoveryRecv, RecvReply, MutexInv, WHolds, RHolds, TypeOK,
       CoordinatorTypeOK, Free, CLogCommitted, TmpInv, Temp
<1>5. SlotInv' /\ SessionInv' /\ AnswerInv'
  BY <1>1, SMTT(30) DEF PRecoveryRecv, RecvReply, MutexInv, WHolds, RHolds, TypeOK,
       CoordinatorTypeOK, NetTypeOK, Free, SlotInv, TaskInv, RetInv, RTaskInv, RRetInv,
       PRecoveryDue, SessionInv, AnswerInv, TxAnswer, LogAnswer
<1>4. TypeOK' /\ TableInv' /\ SyncInv'
  BY PRecoveryRecvInv
<1>. QED BY <1>2, <1>3, <1>4, <1>5 DEF IInv

\* A participant that is given up has no entry in the table.
LEMMA PRecoveryFailStep ==
  ASSUME IInv, NEW i \in P_Id, PRecoveryFail(i), UNCHANGED pVars
  PROVE  IInv'
<1> USE LoggerAssumption, ReplyFacts, RetFacts, TxFacts, RequestFacts, LogFacts
<1>1. TypeOK /\ MutexInv /\ SlotInv /\ SessionInv /\ PhaseInv /\ TableInv
      /\ AnswerInv /\ SyncInv /\ CLogCommitted /\ TmpInv
  BY DEF IInv
<1>2. SessionInv'
  BY <1>1 DEF PRecoveryFail, GiveUp, SessionInv, TypeOK, CoordinatorTypeOK, ParticipantTypeOK,
       NetTypeOK, MutexInv, WHolds, RHolds, SlotInv, TaskInv, RetInv, RTaskInv, RRetInv,
       PRecoveryDue, Free, TXID_START, P_Id
<1>3. PhaseInv'
  BY <1>1 DEF PRecoveryFail, GiveUp, PhaseInv, FromP, TypeOK, CoordinatorTypeOK,
       ParticipantTypeOK, NetTypeOK, MutexInv, WHolds, RHolds, Free, TXID_START, P_Id
<1>4. SyncInv'
  BY <1>1, SMTT(30) DEF PRecoveryFail, GiveUp, SyncInv, RHolds, FromP, Counting, AheadP, TypeOK,
       CoordinatorTypeOK, ParticipantTypeOK, NetTypeOK, MutexInv, WHolds, Free, TXID_START,
       P_Id
<1>5. TmpInv'
  BY <1>1 DEF PRecoveryFail, GiveUp, TmpInv, RHolds, Temp, TypeOK, CoordinatorTypeOK,
       ParticipantTypeOK, NetTypeOK, MutexInv, WHolds, SlotInv, TaskInv, RetInv, RTaskInv,
       RRetInv, PRecoveryDue, SessionInv, Free, TXID_START, P_Id
<1>6. TypeOK' /\ MutexInv' /\ TableInv' /\ CLogCommitted'
  BY <1>1 DEF PRecoveryFail, GiveUp, TypeOK, CoordinatorTypeOK, ParticipantTypeOK,
       NetTypeOK, Free, MutexInv, WHolds, RHolds, TableInv, Counting, CLogCommitted
<1>7. SlotInv' /\ AnswerInv'
  BY <1>1, SMTT(30) DEF PRecoveryFail, GiveUp, TypeOK, CoordinatorTypeOK, NetTypeOK, Free,
       MutexInv,
       WHolds, RHolds, SlotInv, TaskInv, RetInv, RTaskInv, RRetInv, PRecoveryDue, TableInv,
       Counting, AnswerInv, TxAnswer, LogAnswer
<1>. QED BY <1>2, <1>3, <1>4, <1>5, <1>6, <1>7 DEF IInv

-----------------------------------------------------------------------------
(* The participants, and the faults *)

\* A participant answers with a reply, and logs within the bound.
LEMMA ServeType ==
  ASSUME IInv, NEW i \in P_Id, Serve(i), UNCHANGED cVars
  PROVE  TypeOK'
<1>1. req[i] \in Request /\ PWorker(i, req[i]) \in Reply
  BY WorkerFacts DEF Serve, IInv, TypeOK, NetTypeOK
<1>2. NetTypeOK'
  BY <1>1 DEF Serve, Answer, IInv, TypeOK, NetTypeOK
<1>3. ParticipantTypeOK'
  <2>1. CASE Applies(i, req[i])
    <3>1. ptxid[i] \in TxIds /\ req[i].ev \in Cmds \cup {NoCmd} /\ req[i].id \in TxIds
      BY <1>1, <2>1, RequestFacts DEF Applies
    <3>2. plog'[i] \in DbImage
      BY <2>1, <3>1 DEF Serve, IInv, TypeOK, ParticipantTypeOK, DbImage
    <3>3. ptxid'[i] \in TXID_START..(MaxTx + 1)
      BY <2>1, <3>1, TxFacts, LoggerAssumption DEF Serve, IInv, TypeOK, ParticipantTypeOK,
           TXID_START
    <3>. QED BY <2>1, <3>2, <3>3 DEF Serve, IInv, TypeOK, ParticipantTypeOK
  <2>2. CASE ~Applies(i, req[i])
    BY <2>2 DEF Serve, IInv, TypeOK, ParticipantTypeOK
  <2>. QED BY <2>1, <2>2
<1>. QED BY <1>2, <1>3 DEF IInv, TypeOK, CoordinatorTypeOK

\* What the answer to the request in a live session means, phase by phase.
LEMMA ServeAnswer ==
  ASSUME IInv, NEW i \in P_Id, Serve(i), csock[i] = "open"
  PROVE  /\ rep[i] = NoReply
         /\ \/ /\ pw[i] = "wait" /\ pr[i] # "wait" /\ wpc \in {"vote", "get"}
               /\ rep'[i] # OkReply /\ ptxid'[i] = ptxid[i]
            \/ /\ pw[i] = "wait" /\ pr[i] # "wait" /\ wpc = "commit"
               /\ rep'[i] = EventParser(wcmd)
               /\ ptxid'[i] = IF rep'[i] = OkReply THEN txid + 1 ELSE txid
            \/ /\ pw[i] = "wait" /\ pr[i] # "wait" /\ rpc = "data" /\ i = rLeader
               /\ LogAnswer(rep'[i]) /\ rep'[i] # OkReply /\ ptxid'[i] = ptxid[i]
            \/ /\ pr[i] = "wait" /\ pw[i] # "wait" /\ rpc = "table"
               /\ TxAnswer(rep'[i]) /\ rep'[i].txid = ptxid[i] - 1 /\ rep'[i] # OkReply
               /\ ptxid'[i] = ptxid[i]
            \/ /\ pr[i] = "wait" /\ pw[i] # "wait" /\ rpc = "pushed"
               /\ rep'[i] \in {OkReply, ErrReply}
               /\ ptxid'[i] = maxTx[i] + (IF rep'[i] = OkReply THEN 2 ELSE 1)
<1>0. /\ req[i] # NoMsg /\ rep[i] = NoReply /\ req[i] \in Request
      /\ \/ /\ pw[i] = "wait" /\ pr[i] # "wait"
            /\ req[i] = task[i] /\ pstate[i] = "WORKING" /\ Vacant(ret[i])
         \/ /\ pr[i] = "wait" /\ pw[i] # "wait"
            /\ req[i] = rtask[i] /\ PRecoveryDue(i) /\ pstate[i] = "RECOVERY"
  BY DEF Serve, IInv, SessionInv, SlotInv, PRecoveryDue, TypeOK, NetTypeOK
<1>1. /\ rep'[i] = PWorker(i, req[i])
      /\ ptxid'[i] = IF Applies(i, req[i]) THEN ptxid[i] + 1 ELSE ptxid[i]
  BY DEF Serve, Answer, pVars, IInv, TypeOK, NetTypeOK, ParticipantTypeOK
<1>2. ptxid[i] \in TXID_START..(MaxTx + 1) /\ ptxid[i] \in Int /\ txid \in Int
      /\ txid >= TXID_START
  BY LoggerAssumption DEF IInv, TypeOK, ParticipantTypeOK, CoordinatorTypeOK, TXID_START
<1>3. SUPER_TXID = 0 /\ RECOVERY_TXID = 1 /\ ASK_DATA_TXID = 2 /\ TXID_START = 5
      /\ LOG_PRE # LOG_COMMIT
  BY DEF SUPER_TXID, RECOVERY_TXID, ASK_DATA_TXID, TXID_START, LOG_PRE, LOG_COMMIT
<1>4. ~(WHolds /\ RHolds)
  BY DEF IInv, MutexInv
<1>5. ASSUME wpc = "vote", pw[i] = "wait", req[i] = Log(txid, LOG_PRE, NoCmd),
     pstate[i] = "WORKING", Vacant(ret[i])
      PROVE  rep'[i] # OkReply /\ ptxid'[i] = ptxid[i]
  <2>1. ptxid[i] = txid
    BY <1>0, <1>4, <1>5 DEF IInv, SyncInv, WHolds
  <2>2. PWorker(i, req[i]) = PreReply /\ ~Applies(i, req[i])
    BY <1>2, <1>3, <1>5, <2>1, LogFacts DEF PWorker, Applies
  <2>. QED BY <1>1, <2>2, AnswerFacts
<1>6. ASSUME wpc = "commit", pw[i] = "wait", req[i] = Log(txid, LOG_COMMIT, wcmd),
     pstate[i] = "WORKING", Vacant(ret[i])
      PROVE  /\ rep'[i] = EventParser(wcmd)
             /\ ptxid'[i] = IF rep'[i] = OkReply THEN txid + 1 ELSE txid
  <2>1. ptxid[i] = txid
    BY <1>0, <1>4, <1>6, ReplyFacts, RetFacts DEF IInv, SyncInv, WHolds
  <2>2. wcmd \in Cmds
    BY <1>6 DEF IInv, PhaseInv
  <2>3. PWorker(i, req[i]) = EventParser(wcmd) /\ (Applies(i,
       req[i]) <=> EventParser(wcmd) # ErrReply)
    BY <1>2, <1>3, <1>6, <2>1, LogFacts DEF PWorker, Applies
  <2>. QED BY <1>1, <1>2, <2>1, <2>2, <2>3, ReplyFacts, AnswerFacts
<1>7. ASSUME wpc = "get", pw[i] = "wait", req[i] = Log(SUPER_TXID, LOG_COMMIT, NoCmd)
      PROVE  rep'[i] # OkReply /\ ptxid'[i] = ptxid[i]
  <2>1. PWorker(i, req[i]) = DbReply(plog[i]) /\ ~Applies(i, req[i])
    BY <1>2, <1>3, <1>7, LogFacts DEF PWorker, Applies
  <2>. QED BY <1>1, <2>1, AnswerFacts
<1>8. ASSUME rpc = "data", i = rLeader, pw[i] = "wait", req[i] = AskLog(rMin),
     pstate[i] = "WORKING"
      PROVE  LogAnswer(rep'[i]) /\ rep'[i] # OkReply /\ ptxid'[i] = ptxid[i]
  <2>1. /\ ptxid[i] = rMax + 1 /\ rMin <= rMax /\ rMin >= TXID_START /\ rMax <= MaxTx
        /\ rMin \in Int /\ rMax \in Int
    BY <1>0, <1>8, LoggerAssumption DEF IInv, SyncInv, RHolds, FromP, PhaseInv, TypeOK,
         CoordinatorTypeOK, TXID_START
  <2>2. rMin \in TxIds /\ ~(rMin >= ptxid[i])
    BY <2>1, TxFacts, LoggerAssumption DEF TXID_START
  <2>3. AskLog(rMin).id = ASK_DATA_TXID /\ AskLog(rMin).arg = rMin
    BY <2>2, RequestFacts
  <2>4. PWorker(i, req[i]) = LogReply(Log(rMin, LOG_COMMIT, plog[i][rMin])) /\ ~Applies(i,
       req[i])
    BY <1>3, <1>8, <2>2, <2>3 DEF PWorker, Applies
  <2>5. Log(rMin, LOG_COMMIT, plog[i][rMin]) \in Request
    BY <2>2, RequestFacts DEF IInv, TypeOK, ParticipantTypeOK, DbImage
  <2>. QED BY <1>1, <2>4, <2>5, AnswerFacts, LogFacts
<1>9. ASSUME rpc = "table", pr[i] = "wait", req[i] = Log(RECOVERY_TXID, LOG_PRE, NoCmd)
      PROVE  /\ TxAnswer(rep'[i]) /\ rep'[i].txid = ptxid[i] - 1
             /\ rep'[i] # OkReply /\ ptxid'[i] = ptxid[i]
  <2>1. PWorker(i, req[i]) = TxReply(ptxid[i] - 1) /\ ~Applies(i, req[i])
    BY <1>3, <1>9, LogFacts DEF PWorker, Applies
  <2>2. ptxid[i] - 1 \in (TXID_START - 1)..MaxTx
    BY <1>2, LoggerAssumption DEF TXID_START
  <2>. QED BY <1>1, <2>1, <2>2, AnswerFacts
<1>10. ASSUME rpc = "pushed", pr[i] = "wait", req[i] = rtask[i], rtask[i] = rLog,
     PRecoveryDue(i)
       PROVE  /\ rep'[i] \in {OkReply, ErrReply}
              /\ ptxid'[i] = maxTx[i] + (IF rep'[i] = OkReply THEN 2 ELSE 1)
  <2>1. /\ rLog \in Request /\ rLog.st = LOG_COMMIT /\ rLog.id >= TXID_START
        /\ rLog.id = maxTx[i] + 1 /\ rLog.id \in Int /\ maxTx[i] \in Int
    BY <1>10, RequestFacts DEF IInv, PhaseInv, PRecoveryDue, TypeOK, CoordinatorTypeOK,
         TXID_START
  <2>2. ptxid[i] = maxTx[i] + 1
    BY <1>0, <1>3, <1>10, <2>1, ReplyFacts DEF IInv, SyncInv, Counting
  <2>3. PWorker(i, req[i]) = EventParser(rLog.ev) /\ (Applies(i,
       req[i]) <=> EventParser(rLog.ev) # ErrReply)
    BY <1>3, <1>10, <2>1, <2>2 DEF PWorker, Applies
  <2>4. EventParser(rLog.ev) \in {OkReply, ErrReply}
    BY <2>1, RequestFacts, ReplyFacts
  <2>. QED BY <1>1, <2>1, <2>2, <2>3, <2>4, AnswerFacts
<1>11. CASE pw[i] = "wait" /\ pr[i] # "wait" /\ req[i] = task[i] /\ pstate[i] = "WORKING"
       /\ Vacant(ret[i])
  BY <1>0, <1>5, <1>6, <1>7, <1>8, <1>11 DEF IInv, SlotInv, TaskInv
<1>12. CASE pr[i] = "wait" /\ pw[i] # "wait" /\ req[i] = rtask[i] /\ PRecoveryDue(i)
       /\ pstate[i] = "RECOVERY"
  BY <1>0, <1>9, <1>10, <1>12 DEF IInv, SlotInv, RTaskInv
<1>. QED BY <1>0, <1>11, <1>12

\* A participant executes a command exactly when it answers +OK.
LEMMA ServeSync ==
  ASSUME IInv, NEW i \in P_Id, Serve(i), UNCHANGED cVars
  PROVE  AnswerInv' /\ SyncInv'
<1>1. /\ \A p \in P_Id : p # i => rep'[p] = rep[p] /\ ptxid'[p] = ptxid[p]
      /\ csock[i] # "open" => rep'[i] = rep[i]
      /\ csock' = csock
  BY DEF Serve, Answer, IInv, TypeOK, NetTypeOK, ParticipantTypeOK
<1>2. ~(WHolds /\ RHolds)
  BY DEF IInv, MutexInv
<1>3. AnswerInv'
  BY <1>1, <1>2, ServeAnswer DEF IInv, AnswerInv, TxAnswer, LogAnswer, WHolds, RHolds
<1>4. csock[i] = "open" => /\ pw[i] = "wait" => pstate[i] = "WORKING" /\ Vacant(ret[i])
                           /\ pr[i] = "wait" => pstate[i] = "RECOVERY" /\ Vacant(rret[i])
  BY DEF IInv, SessionInv, SlotInv, PRecoveryDue
<1>5. Counting => \A p \in P_Id : maxTx[p] # 0 => pstate[p] = "RECOVERY"
  BY DEF IInv, TableInv
<1>6. SyncInv'
  BY <1>1, <1>2, <1>4, <1>5, ServeAnswer, ReplyFacts, RetFacts DEF IInv, SyncInv, WHolds,
       RHolds, Counting, FromP, AheadP
<1>. QED BY <1>3, <1>6

\* A participant answers the one request of its session.
LEMMA ServeStep ==
  ASSUME IInv, NEW i \in P_Id, Serve(i), UNCHANGED cVars
  PROVE  IInv'
<1> USE LoggerAssumption, ReplyFacts, RetFacts, TxFacts, RequestFacts, LogFacts
<1>1. TypeOK /\ MutexInv /\ SlotInv /\ SessionInv /\ PhaseInv /\ TableInv
      /\ AnswerInv /\ SyncInv /\ CLogCommitted /\ TmpInv
  BY DEF IInv
<1>2. MutexInv' /\ SlotInv' /\ SessionInv' /\ PhaseInv' /\ TableInv' /\ CLogCommitted'
      /\ TmpInv'
  BY <1>1 DEF Serve, Answer, Applies, MutexInv, WHolds, RHolds, TypeOK, CoordinatorTypeOK,
       ParticipantTypeOK, NetTypeOK, Free, SlotInv, TaskInv, RetInv, RTaskInv, RRetInv,
       PRecoveryDue, SessionInv, PhaseInv, FromP, TableInv, Counting, CLogCommitted, TmpInv,
       Temp
<1>3. TypeOK'
  BY ServeType
<1>4. AnswerInv' /\ SyncInv'
  BY ServeSync
<1>. QED BY <1>2, <1>3, <1>4 DEF IInv

\* The participant gives up a session the coordinator has given up before.
LEMMA ReacceptStep ==
  ASSUME IInv, NEW i \in P_Id, Reaccept(i), UNCHANGED cVars
  PROVE  IInv'
<1> USE LoggerAssumption, ReplyFacts, RetFacts, TxFacts, RequestFacts, LogFacts
<1>1. TypeOK /\ MutexInv /\ SlotInv /\ SessionInv /\ PhaseInv /\ TableInv
      /\ AnswerInv /\ SyncInv /\ CLogCommitted /\ TmpInv
  BY DEF IInv
<1>2. TypeOK' /\ MutexInv' /\ PhaseInv' /\ TableInv' /\ CLogCommitted' /\ TmpInv'
  BY <1>1 DEF Reaccept, ReadEof, TypeOK, CoordinatorTypeOK, ParticipantTypeOK, NetTypeOK,
       Free, MutexInv, WHolds, RHolds, PhaseInv, FromP, TableInv, Counting, CLogCommitted,
       TmpInv, Temp
<1>3. SlotInv' /\ SessionInv' /\ AnswerInv' /\ SyncInv'
  BY <1>1, SMTT(30) DEF Reaccept, ReadEof, TypeOK, CoordinatorTypeOK, NetTypeOK, Free, MutexInv,
       WHolds, RHolds, SlotInv, TaskInv, RetInv, RTaskInv, RRetInv, PRecoveryDue,
       SessionInv, PhaseInv, FromP, TableInv, Counting, AnswerInv, TxAnswer, LogAnswer,
       SyncInv, AheadP
<1>. QED BY <1>2, <1>3 DEF IInv

\* A killed participant has no live session, so nothing is claimed of its id.
LEMMA KillStep ==
  ASSUME IInv, NEW i \in P_Id, Kill(i)
  PROVE  IInv'
<1> USE LoggerAssumption, ReplyFacts, RetFacts, TxFacts, RequestFacts, LogFacts
<1>1. TypeOK /\ MutexInv /\ SlotInv /\ SessionInv /\ PhaseInv /\ TableInv
      /\ AnswerInv /\ SyncInv /\ CLogCommitted /\ TmpInv
  BY DEF IInv
<1>2. TypeOK'
  <2>1. EmptyLog \in DbImage /\ TXID_START \in TXID_START..(MaxTx + 1)
    BY DEF EmptyLog, DbImage, TXID_START
  <2>. QED BY <1>1, <2>1 DEF Kill, Crash, PeerDies,
            TypeOK, CoordinatorTypeOK, ParticipantTypeOK, NetTypeOK
<1>3. MutexInv' /\ PhaseInv' /\ TableInv' /\ CLogCommitted' /\ TmpInv'
  BY <1>1 DEF Kill, Crash, PeerDies, MutexInv, WHolds, RHolds, TypeOK, CoordinatorTypeOK,
       DbImage, EmptyLog, Free, PhaseInv, FromP, TableInv, Counting, CLogCommitted, TmpInv,
       Temp
<1>4. SlotInv' /\ SessionInv' /\ AnswerInv' /\ SyncInv'
  BY <1>1, SMTT(30) DEF Kill, Crash, PeerDies, MutexInv, WHolds, RHolds, TypeOK,
       CoordinatorTypeOK,
       NetTypeOK, DbImage, EmptyLog, Free, SlotInv, TaskInv, RetInv, RTaskInv, RRetInv,
       PRecoveryDue, SessionInv, PhaseInv, FromP, TableInv, Counting, AnswerInv, TxAnswer,
       LogAnswer, SyncInv, AheadP
<1>. QED BY <1>2, <1>3, <1>4 DEF IInv

\* A started participant waits for the coordinator.
LEMMA RunStep ==
  ASSUME IInv, NEW i \in P_Id, Run(i)
  PROVE  IInv'
<1> USE LoggerAssumption, ReplyFacts, RetFacts, TxFacts, RequestFacts, LogFacts
<1>1. TypeOK /\ MutexInv /\ SlotInv /\ SessionInv /\ PhaseInv /\ TableInv
      /\ AnswerInv /\ SyncInv /\ CLogCommitted /\ TmpInv
  BY DEF IInv
<1>2. TypeOK' /\ MutexInv' /\ PhaseInv' /\ TableInv' /\ CLogCommitted' /\ TmpInv'
  BY <1>1 DEF Run, Start, TypeOK, CoordinatorTypeOK, ParticipantTypeOK, NetTypeOK, Free,
       MutexInv, WHolds, RHolds, PhaseInv, FromP, TableInv, Counting, CLogCommitted, TmpInv,
       Temp
<1>3. SlotInv' /\ SessionInv' /\ AnswerInv' /\ SyncInv'
  BY <1>1, SMTT(30) DEF Run, Start, TypeOK, CoordinatorTypeOK, NetTypeOK, Free, MutexInv,
       WHolds, RHolds, SlotInv, TaskInv, RetInv, RTaskInv, RRetInv, PRecoveryDue, SessionInv,
       PhaseInv, FromP, TableInv, Counting, AnswerInv, TxAnswer, LogAnswer, SyncInv, AheadP
<1>. QED BY <1>2, <1>3 DEF IInv

\* After a restart nobody is in the temp state.
LEMMA RestartTmp ==
  ASSUME IInv, KillCoordinator
  PROVE  TmpInv'
<1>1. tmpNum' = 0 /\ \A p \in P_Id : pstate'[p] # "TEMP"
  BY DEF KillCoordinator, Restart
<1>2. Temp' = {}
  BY <1>1 DEF Temp
<1>. QED BY <1>1, <1>2, FS_EmptySet DEF TmpInv, Temp

\* A restarted coordinator has no session and claims nothing of anyone.
LEMMA KillCoordinatorStep ==
  ASSUME IInv, KillCoordinator
  PROVE  IInv'
<1> USE LoggerAssumption, ReplyFacts, RetFacts, TxFacts, RequestFacts, LogFacts
<1>1. TypeOK /\ MutexInv /\ SlotInv /\ SessionInv /\ PhaseInv /\ TableInv
      /\ AnswerInv /\ SyncInv /\ CLogCommitted /\ TmpInv
  BY DEF IInv
<1>2. TypeOK'
  <2>1. /\ NoEntry \in EntryType /\ 1 \in P_Id /\ 1 \in 1..PNum /\ 0 \in 0..PNum
        /\ TXID_START \in TXID_START..(MaxTx + 1)
        /\ TXID_START - 1 \in (TXID_START - 1)..(MaxTx + 1)
        /\ TXID_START - 1 \in (TXID_START - 1)..MaxTx
    BY DEF NoEntry, EntryType, P_Id, TXID_START
  <2>. QED BY <1>1, <2>1 DEF KillCoordinator, Restart, AllClosed,
            TypeOK, CoordinatorTypeOK, ParticipantTypeOK, NetTypeOK
<1>3. MutexInv'
  BY <1>1 DEF KillCoordinator, Restart, CoordinatorInit, AllClosed, MutexInv, WHolds, RHolds,
       TypeOK, CoordinatorTypeOK, ParticipantTypeOK, NetTypeOK, NoEntry, EmptyLog, Free,
       TXID_START, P_Id
<1>4. CLogCommitted'
  BY <1>1 DEF KillCoordinator, Restart, CoordinatorInit, AllClosed, CLogCommitted, TypeOK,
       CoordinatorTypeOK, ParticipantTypeOK, NetTypeOK, MutexInv, WHolds, RHolds, NoEntry,
       EmptyLog, Free, TXID_START, P_Id
<1>5. PhaseInv' /\ TableInv'
  BY <1>1 DEF KillCoordinator, Restart, CoordinatorInit, AllClosed, TypeOK,
       CoordinatorTypeOK, NoEntry, EmptyLog, Free, PhaseInv, FromP, TableInv, Counting,
       RHolds
<1>7. SlotInv' /\ SessionInv' /\ AnswerInv' /\ SyncInv'
  BY <1>1 DEF KillCoordinator, Restart, CoordinatorInit, AllClosed, SlotInv, TaskInv,
       RetInv, RTaskInv, RRetInv, PRecoveryDue, TypeOK, CoordinatorTypeOK, NetTypeOK,
       NoEntry, EmptyLog, Free, SessionInv, PhaseInv, FromP, TableInv, Counting, RHolds,
       AnswerInv, TxAnswer, LogAnswer, SyncInv, AheadP
<1>6. TmpInv'
  BY RestartTmp
<1>. QED BY <1>2, <1>3, <1>4, <1>5, <1>6, <1>7 DEF IInv

\* A stuttering step changes nothing the invariant reads.
LEMMA StutterStep ==
  ASSUME IInv, UNCHANGED vars
  PROVE  IInv'
<1> USE LoggerAssumption, ReplyFacts, RetFacts, TxFacts, RequestFacts, LogFacts
<1>1. TypeOK /\ MutexInv /\ SlotInv /\ SessionInv /\ PhaseInv /\ TableInv
      /\ AnswerInv /\ SyncInv /\ CLogCommitted /\ TmpInv
  BY DEF IInv
<1>2. TypeOK' /\ MutexInv' /\ PhaseInv' /\ TableInv' /\ CLogCommitted' /\ TmpInv'
  BY <1>1 DEF TypeOK, CoordinatorTypeOK, ParticipantTypeOK, NetTypeOK, Free, MutexInv,
       WHolds, RHolds, PhaseInv, FromP, TableInv, Counting, CLogCommitted, TmpInv, Temp
<1>3. SlotInv' /\ SessionInv' /\ AnswerInv' /\ SyncInv'
  BY <1>1, SMTT(30) DEF TypeOK, CoordinatorTypeOK, NetTypeOK, Free, MutexInv, WHolds, RHolds,
       SlotInv, TaskInv, RetInv, RTaskInv, RRetInv, PRecoveryDue, SessionInv, PhaseInv,
       FromP, TableInv, Counting, AnswerInv, TxAnswer, LogAnswer, SyncInv, AheadP
<1>. QED BY <1>2, <1>3 DEF IInv

-----------------------------------------------------------------------------
(* The theorems *)

\* Initially nothing is connected, no slot is used and nobody is counted.
LEMMA InitType ==
  ASSUME Init
  PROVE  TypeOK
<1> USE LoggerAssumption
<1>1. /\ NoEntry \in EntryType /\ Unused \in Ret /\ ErrReply \in Reply
      /\ EmptyLog \in DbImage
  BY ReplyFacts, RetFacts DEF NoEntry, EntryType, EmptyLog, DbImage
<1>2. /\ TXID_START \in TXID_START..(MaxTx + 1)
      /\ TXID_START - 1 \in (TXID_START - 1)..(MaxTx + 1)
      /\ TXID_START - 1 \in (TXID_START - 1)..MaxTx
      /\ 1 \in P_Id /\ 1 \in 1..PNum /\ 0 \in 0..PNum
  BY DEF TXID_START, P_Id
<1>3. CoordinatorTypeOK
  BY <1>1, <1>2 DEF Init, CoordinatorInit, CoordinatorTypeOK
<1>4. ParticipantTypeOK
  BY <1>1, <1>2 DEF Init, ParticipantInit, ParticipantTypeOK
<1>5. NetTypeOK
  BY DEF Init, NetInit, NetTypeOK
<1>. QED BY <1>3, <1>4, <1>5 DEF TypeOK

\* IInv holds initially.
LEMMA InitInv ==
  ASSUME Init
  PROVE  IInv
<1> USE RetFacts
<1>1. TypeOK
  BY InitType
<1>2. MutexInv /\ SlotInv
  BY DEF Init, CoordinatorInit, MutexInv, WHolds, RHolds, Free, SlotInv, TaskInv, RetInv,
         RTaskInv, RRetInv
<1>3. SessionInv
  BY DEF Init, CoordinatorInit, NetInit, SessionInv
<1>4. PhaseInv /\ TableInv
  BY DEF Init, CoordinatorInit, PhaseInv, FromP, TableInv, Counting, RHolds
<1>5. AnswerInv
  BY DEF Init, CoordinatorInit, AnswerInv
<1>6. SyncInv
  BY DEF Init, CoordinatorInit, NetInit, SyncInv, Counting
<1>7. CLogCommitted
  BY TxFacts DEF Init, CoordinatorInit, CLogCommitted, TXID_START
<1>8. TmpInv
  <2>1. Temp = {} /\ tmpNum = 0
    BY DEF Init, CoordinatorInit, Temp
  <2>. QED BY <2>1, FS_EmptySet DEF TmpInv
<1>. QED BY <1>1, <1>2, <1>3, <1>4, <1>5, <1>6, <1>7, <1>8 DEF IInv

-----------------------------------------------------------------------------
\* A step of the client or of the work thread preserves IInv.
LEMMA WorkInv ==
  ASSUME IInv, ClientCall \/ WorkThread
  PROVE  IInv'
<1>1. CASE ClientCall
  BY <1>1, WRefuseStep, WAdmitStep DEF ClientCall
<1>2. CASE WorkThread
  BY <1>2, WStartUpdateStep, WStartGetStep, WRejectedStep, WVotesStep, WCommitsStep,
     WAskGetStep, WGottenStep, WReplyStep DEF WorkThread, WorkStep
<1>. QED BY <1>1, <1>2

\* A step of the recovery thread preserves IInv.
LEMMA RecoveryInv ==
  ASSUME IInv, RecoveryThread
  PROVE  IInv'
<1>1. CASE RStart /\ UNCHANGED pVars
  BY <1>1, RStartStep
<1>2. CASE RecoveryStep /\ UNCHANGED pVars
  BY <1>2, REnterStep, RWakeStep, RLockRecoveryStep, RLockWorkingStep, RTableStep, RLeadStep,
     RFromCStep, RAskStep, RAskedAllStep, RDataStep, RPushStep, RPushedStep, RFinishStep,
     RDoneStep DEF RecoveryStep
<1>. QED BY <1>1, <1>2 DEF RecoveryThread

\* So does a step of a thread that serves one participant, or of the participant.
LEMMA ThreadInv ==
  ASSUME IInv, NEW p \in P_Id,
         \/ KeepAliveThread(p) \/ PWorkingThread(p) \/ PRecoveryThread(p)
         \/ ParticipantThread(p)
  PROVE  IInv'
<1>1. CASE KeepAliveThread(p)
  BY <1>1, KeepAliveConnectStep, KeepAliveTempStep DEF KeepAliveThread, KeepAlive
<1>2. CASE PWorkingThread(p)
  BY <1>2, PWorkingSkipStep, PWorkingSendStep, PWorkingRecvStep, PWorkingFailStep
     DEF PWorkingThread, PWorking
<1>3. CASE PRecoveryThread(p)
  BY <1>3, PRecoverySkipStep, PRecoverySendStep, PRecoveryRecvStep, PRecoveryFailStep
     DEF PRecoveryThread, PRecovery
<1>4. CASE ParticipantThread(p)
  BY <1>4, ServeStep, ReacceptStep DEF ParticipantThread
<1>. QED BY <1>1, <1>2, <1>3, <1>4

\* IInv is inductive.
LEMMA NextInv ==
  ASSUME IInv, [Next]_vars
  PROVE  IInv'
<1>1. CASE ClientCall \/ WorkThread
  BY <1>1, WorkInv
<1>2. CASE RecoveryThread
  BY <1>2, RecoveryInv
<1>3. ASSUME NEW p \in P_Id,
             \/ KeepAliveThread(p) \/ PWorkingThread(p) \/ PRecoveryThread(p)
             \/ ParticipantThread(p)
      PROVE  IInv'
  BY <1>3, ThreadInv
<1>4. ASSUME NEW p \in P_Id, Kill(p) \/ Run(p)
      PROVE  IInv'
  BY <1>4, KillStep, RunStep
<1>5. CASE KillCoordinator
  BY <1>5, KillCoordinatorStep
<1>6. CASE UNCHANGED vars
  BY <1>6, StutterStep
<1>. QED BY <1>1, <1>2, <1>3, <1>4, <1>5, <1>6 DEF Next, NormalNext

\* The inductive invariant holds in every reachable state.
THEOREM Inductive == Spec => []IInv
<1>1. Init => IInv
  BY InitInv
<1>2. IInv /\ [Next]_vars => IInv'
  BY NextInv
<1>. QED BY <1>1, <1>2, PTL DEF Spec

-----------------------------------------------------------------------------
\* What the invariant of each moment says when nobody holds a mutex.
LEMMA FreeFacts ==
  ASSUME IInv
  PROVE  /\ workMtx = Free => ~RHolds /\ ~WHolds
         /\ recMtx = Free => ~RHolds
BY DEF IInv, MutexInv, TypeOK, CoordinatorTypeOK, WHolds, RHolds, Free

\* Every variable of the coordinator, of the participants and of the sessions stays within
\* its type; in particular every message a thread takes from a slot or a session is one that
\* it knows, and _tmpNum is never more than the number of participants.
THEOREM Typing == Spec => []TypeOK
<1>1. IInv => TypeOK
  BY DEF IInv
<1>. QED BY <1>1, Inductive, PTL

\* Between two commands and outside a recovery, a working participant with a live session is
\* exactly at the coordinator's transaction id: UpdateDB may take one vote for all, and
\* Request may ask anyone.
THEOREM Synchronised == Spec => []InSync
<1>1. IInv => InSync
  BY FreeFacts DEF IInv, SyncInv, InSync, WHolds
<1>. QED BY <1>1, Inductive, PTL

\* Below _TXID every record of the coordinator's log is committed: what recoveryFromC sends
\* to a participant is executed there.
THEOREM LogComplete == Spec => []CLogCommitted
<1>1. IInv => CLogCommitted
  BY DEF IInv
<1>. QED BY <1>1, Inductive, PTL

\* Outside a recovery _tmpNum, which n + 1 threads write, is the number of participants in
\* P_TEMP: Recovery neither sleeps over one of them nor runs for none.
THEOREM CounterExact == Spec => []TmpNumExact
<1>1. IInv => TmpNumExact
  BY FreeFacts DEF IInv, TmpInv, TmpNumExact
<1>. QED BY <1>1, Inductive, PTL

\* pWorking and pRecovery of a participant are never both in sendAndRecv on its one socket,
\* and keepAlive never replaces the socket under either of them.
THEOREM OneSocketOwner == Spec => []SocketOwner
<1>1. ASSUME IInv, NEW p \in P_Id
      PROVE  /\ ~(pw[p] = "wait" /\ pr[p] = "wait")
             /\ ka[p] = "connected" => pw[p] = "idle" /\ pr[p] = "idle"
  <2>1. pw[p] = "wait" => pstate[p] = "WORKING"
    BY <1>1 DEF IInv, SessionInv
  <2>2. pr[p] = "wait" => pstate[p] = "RECOVERY"
    BY <1>1 DEF IInv, SlotInv, PRecoveryDue
  <2>3. ka[p] = "connected" => pstate[p] = "WAITING"
    BY <1>1 DEF IInv, SessionInv
  <2>4. pw[p] \in {"idle", "wait"} /\ pr[p] \in {"idle", "wait"}
    BY <1>1 DEF IInv, TypeOK, CoordinatorTypeOK
  <2>. QED BY <2>1, <2>2, <2>3, <2>4
<1>2. IInv => SocketOwner
  BY <1>1 DEF SocketOwner
<1>. QED BY <1>2, Inductive, PTL

-----------------------------------------------------------------------------
(* One survivor *)

\* What a participant answers, and who has been asked in vain, changes only with an answer,
\* with the next phase of the command, or when somebody is put to work.
LEMMA SurvivorQuiet ==
  ASSUME IInv, SurvivorInv, NoNewAnswers,
         wpc' \in {"vote", "ask", "get"} => UNCHANGED <<wpc, widx>>,
         WHolds => \A p \in P_Id : pstate'[p] = "WORKING" => pstate[p] = "WORKING"
  PROVE  SurvivorInv'
<1>1. widx \in P_Id
  BY DEF IInv, TypeOK, CoordinatorTypeOK, P_Id
<1>2. CASE wpc' \in {"vote", "ask", "get"}
  BY <1>1, <1>2 DEF SurvivorInv, NoNewAnswers, WHolds
<1>3. CASE wpc' \notin {"vote", "ask", "get"}
  BY <1>3 DEF SurvivorInv
<1>. QED BY <1>2, <1>3

\* Nobody has answered a vote, or a GET, that has only begun.
LEMMA SurvivorWork ==
  ASSUME IInv, SurvivorInv, ClientCall \/ WorkThread
  PROVE  SurvivorInv'
<1>1. CASE ClientCall \/ WRejected \/ WReply
  BY <1>1 DEF ClientCall, WRefuse, WAdmit, WRejected, WReply, Answered, SurvivorInv
<1>2. CASE WCommits \/ WVotes
  <2>1. wpc' \in {"reply", "commit"}
    BY <1>2 DEF WCommits, WVotes, Answered
  <2>. QED BY <2>1 DEF SurvivorInv
<1>3. CASE WStartUpdate
  <2>1. ~WHolds /\ ~RHolds /\ wpc' = "vote" /\ UNCHANGED <<pw, rep, ret>>
    BY <1>3, FreeFacts DEF WStartUpdate
  <2>2. \A p \in P_Id : task[p] = NoMsg /\ pw[p] # "wait" /\ Vacant(ret[p])
    BY <1>3, <2>1 DEF WStartUpdate, IInv, SlotInv, RetInv, WHolds, RHolds
  <2>. QED BY <2>1, <2>2, RetFacts DEF SurvivorInv
<1>4. CASE WStartGet
  <2>1. wpc' = "ask" /\ widx' = 1
    BY <1>4 DEF WStartGet
  <2>2. \A p \in P_Id : ~(p < 1)
    BY DEF P_Id
  <2>. QED BY <2>1, <2>2 DEF SurvivorInv
<1>5. CASE WAskGet
  <2>1. wpc = "ask" /\ wpc' = "get" /\ UNCHANGED <<pw, rep, ret, widx, pstate>> /\ widx \in P_Id
    BY <1>5 DEF WAskGet, IInv, TypeOK, CoordinatorTypeOK, P_Id
  <2>2. pw[widx] # "wait" /\ Vacant(ret[widx])
    BY <1>5, <2>1 DEF WAskGet, IInv, SlotInv, RetInv, MutexInv, WHolds, RHolds
  <2>. QED BY <2>1, <2>2, RetFacts DEF SurvivorInv
<1>6. CASE WGotten
  <2>1. wpc = "get" /\ widx \in P_Id /\ ~Vacant(ret[widx]) /\ UNCHANGED pstate
    BY <1>6 DEF WGotten, IInv, TypeOK, CoordinatorTypeOK, P_Id
  <2>2. CASE wpc' = "ask" /\ widx' = widx + 1 /\ ~(ret[widx].rc = "ok" /\ ret[widx] # Got(EmptyReply))
    <3>1. ret[widx].rc # "ok"
      <4>1. EmptyReply.kind # "db"
        BY DEF EmptyReply
      <4>. QED BY <2>1, <2>2, <4>1, RetFacts DEF SurvivorInv
    <3>2. pstate[widx] # "WORKING"
      BY <2>1, <3>1 DEF IInv, SlotInv, RetInv
    <3>3. \A p \in P_Id : p < widx + 1 => p < widx \/ p = widx
      BY <2>1 DEF P_Id
    <3>. QED BY <2>1, <2>2, <3>2, <3>3 DEF SurvivorInv
  <2>3. CASE wpc' = "reply"
    BY <2>3 DEF SurvivorInv
  <2>. QED BY <1>6, <2>2, <2>3 DEF WGotten, Answered
<1>. QED BY <1>1, <1>2, <1>3, <1>4, <1>5, <1>6 DEF WorkThread, WorkStep

\* Recovery puts somebody to work only while no command is under way.
LEMMA SurvivorRecovery ==
  ASSUME IInv, SurvivorInv, RecoveryThread
  PROVE  SurvivorInv'
<1>1. NoNewAnswers
  <2>1. UNCHANGED <<pw, rep>>
    BY DEF RecoveryThread, RecoveryStep, RStart, REnter, RWake, RLockRecovery, RLockWorking,
       RTable, RLead, RFromC, RAsk, RAskedAll, RData, RPush, RPushed, RFinish, RDone
  <2>2. \A p \in P_Id : ret'[p] = ret[p] \/ Vacant(ret'[p])
    <3>1. CASE RData
      <4>1. ret' = [ret EXCEPT ![rLeader] = Taken(ret[rLeader])]
        BY <3>1 DEF RData
      <4>. QED BY <4>1, RetFacts DEF IInv, TypeOK, CoordinatorTypeOK
    <3>2. CASE ~RData
      BY <3>2 DEF RecoveryThread, RecoveryStep, RStart, REnter, RWake, RLockRecovery, RLockWorking,
         RTable, RLead, RFromC, RAsk, RAskedAll, RPush, RPushed, RFinish, RDone
    <3>. QED BY <3>1, <3>2
  <2>. QED BY <2>1, <2>2, RetFacts DEF NoNewAnswers
<1>2. UNCHANGED <<wpc, widx>>
  BY DEF RecoveryThread, RecoveryStep, RStart, REnter, RWake, RLockRecovery, RLockWorking,
     RTable, RLead, RFromC, RAsk, RAskedAll, RData, RPush, RPushed, RFinish, RDone
<1>3. WHolds => \A p \in P_Id : pstate'[p] = "WORKING" => pstate[p] = "WORKING"
  <2>1. CASE RLockWorking
    BY <2>1, FreeFacts DEF RLockWorking
  <2>2. CASE RFinish \/ \E p \in P_Id : RLead(p)
    BY <2>2, QuietSession DEF RFinish, RLead, IInv, MutexInv, RHolds, WHolds
  <2>3. CASE UNCHANGED pstate
    BY <2>3
  <2>. QED BY <2>1, <2>2, <2>3 DEF RecoveryThread, RecoveryStep, RStart, REnter, RWake, RLockRecovery,
       RTable, RFromC, RAsk, RAskedAll, RData, RPush, RPushed, RDone
<1>. QED BY <1>1, <1>2, <1>3, SurvivorQuiet

\* The threads of the participants pass answers on, and take participants out.
LEMMA SurvivorThreads ==
  ASSUME IInv, SurvivorInv, NEW i \in P_Id,
         KeepAliveThread(i) \/ PWorkingThread(i) \/ PRecoveryThread(i)
  PROVE  SurvivorInv'
<1>1. UNCHANGED <<wpc, widx>>
  BY DEF KeepAliveThread, KeepAlive, KeepAliveConnect, KeepAliveTemp,
     PWorkingThread, PWorking, PWorkingSkip, PWorkingSend, PWorkingRecv, PWorkingFail,
     PRecoveryThread, PRecovery, PRecoverySkip, PRecoverySend, PRecoveryRecv, PRecoveryFail
<1>2. \A p \in P_Id : pstate'[p] = "WORKING" => pstate[p] = "WORKING"
  BY DEF KeepAliveThread, KeepAlive, KeepAliveConnect, KeepAliveTemp,
     PWorkingThread, PWorking, PWorkingSkip, PWorkingSend, PWorkingRecv, PWorkingFail,
     PRecoveryThread, PRecovery, PRecoverySkip, PRecoverySend, PRecoveryRecv, PRecoveryFail,
     IInv, TypeOK, CoordinatorTypeOK
<1>3. NoNewAnswers
  <2>1. CASE KeepAliveConnect(i)
    BY <2>1 DEF KeepAliveConnect, Connect, NoNewAnswers, IInv, TypeOK, NetTypeOK
  <2>2. CASE KeepAliveTemp(i) \/ PRecoverySkip(i)
    BY <2>2 DEF KeepAliveTemp, PRecoverySkip, NoNewAnswers
  <2>3. CASE PWorkingSkip(i)
    BY <2>3, RetFacts DEF PWorkingSkip, NoNewAnswers, IInv, TypeOK, CoordinatorTypeOK
  <2>4. CASE PWorkingSend(i)
    <3>1. rep[i] = NoReply
      BY <2>4 DEF PWorkingSend, IInv, SessionInv, SlotInv, PRecoveryDue
    <3>. QED BY <2>4, <3>1 DEF PWorkingSend, SendRequest, NoNewAnswers, IInv, TypeOK, CoordinatorTypeOK
  <2>5. CASE PWorkingRecv(i)
    BY <2>5, RetFacts DEF PWorkingRecv, RecvReply, NoNewAnswers, IInv, TypeOK, CoordinatorTypeOK,
       NetTypeOK
  <2>6. CASE PWorkingFail(i)
    BY <2>6, RetFacts DEF PWorkingFail, GiveUp, NoNewAnswers, IInv, TypeOK, CoordinatorTypeOK,
       NetTypeOK
  <2>7. CASE PRecoverySend(i)
    BY <2>7 DEF PRecoverySend, SendRequest, NoNewAnswers
  <2>8. CASE PRecoveryRecv(i)
    BY <2>8 DEF PRecoveryRecv, RecvReply, NoNewAnswers, IInv, TypeOK, NetTypeOK
  <2>9. CASE PRecoveryFail(i)
    BY <2>9 DEF PRecoveryFail, GiveUp, NoNewAnswers, IInv, TypeOK, NetTypeOK
  <2>. QED BY <2>1, <2>2, <2>3, <2>4, <2>5, <2>6, <2>7, <2>8, <2>9
       DEF KeepAliveThread, KeepAlive, PWorkingThread, PWorking, PRecoveryThread, PRecovery
<1>. QED BY <1>1, <1>2, <1>3, SurvivorQuiet

\* A participant with a live session is at the coordinator's id, so it votes for the command;
\* to a GET it answers with its database.
LEMMA SurvivorServe ==
  ASSUME IInv, SurvivorInv, NEW i \in P_Id, Serve(i), UNCHANGED cVars
  PROVE  SurvivorInv'
<1>1. /\ UNCHANGED <<wpc, widx, pstate, ret, pw>> /\ widx \in P_Id
      /\ \A p \in P_Id : p # i \/ csock[i] # "open" => rep'[p] = rep[p]
  BY DEF Serve, Answer, IInv, TypeOK, CoordinatorTypeOK, NetTypeOK, P_Id
<1>2. ASSUME csock[i] = "open", pw[i] = "wait"
      PROVE  /\ pstate[i] = "WORKING" /\ req[i] = task[i] /\ task[i] # NoMsg
             /\ rep[i] = NoReply /\ rep'[i] = PWorker(i, task[i])
  <2>1. pstate[i] = "WORKING" /\ pr[i] # "wait" /\ task[i] # NoMsg
    BY <1>2 DEF IInv, SessionInv, SlotInv, PRecoveryDue
  <2>2. req[i] = task[i] /\ rep[i] = NoReply
    BY <1>2, <2>1 DEF Serve, IInv, SessionInv
  <2>. QED BY <1>2, <2>1, <2>2 DEF Serve, Answer, IInv, TypeOK, NetTypeOK
<1>3. ASSUME wpc = "vote", csock[i] = "open", pw[i] = "wait"
      PROVE  rep'[i] = PreReply
  <2>1. task[i] = Log(txid, LOG_PRE, NoCmd) /\ ~RHolds
    BY <1>2, <1>3 DEF IInv, SlotInv, TaskInv, MutexInv, WHolds, RHolds
  <2>2. ptxid[i] = txid /\ txid >= TXID_START /\ txid \in Int
    BY <1>2, <1>3, <2>1 DEF IInv, SyncInv, TypeOK, CoordinatorTypeOK, TXID_START
  <2>. QED BY <1>2, <1>3, <2>1, <2>2, LogFacts DEF PWorker, TXID_START, SUPER_TXID, RECOVERY_TXID,
           ASK_DATA_TXID
<1>4. ASSUME wpc = "get", i = widx, csock[i] = "open", pw[i] = "wait"
      PROVE  rep'[i].kind = "db"
  <2>1. task[i] = Log(SUPER_TXID, LOG_COMMIT, NoCmd)
    BY <1>2, <1>4 DEF IInv, SlotInv, TaskInv, MutexInv, WHolds, RHolds
  <2>. QED BY <1>2, <1>4, <2>1, LogFacts DEF PWorker, DbReply
<1>. QED BY <1>1, <1>3, <1>4 DEF SurvivorInv

\* SurvivorInv is inductive on top of IInv, with every fault.
LEMMA NextSurvivor ==
  ASSUME IInv, SurvivorInv, [Next]_vars
  PROVE  SurvivorInv'
<1>1. ASSUME NEW p \in P_Id, (Reaccept(p) /\ UNCHANGED cVars) \/ Kill(p) \/ Run(p)
      PROVE  SurvivorInv'
  BY <1>1 DEF Reaccept, ReadEof, Kill, Crash, PeerDies, Run, Start, SurvivorInv
<1>2. CASE KillCoordinator
  BY <1>2 DEF KillCoordinator, Restart, SurvivorInv
<1>3. CASE UNCHANGED vars
  BY <1>3 DEF SurvivorInv
<1>. QED BY <1>1, <1>2, <1>3, SurvivorWork, SurvivorRecovery, SurvivorThreads, SurvivorServe
         DEF Next, NormalNext, ParticipantThread

\* IdleInv is inductive: only a recovery puts anybody to work, and it ends with C_WORKING.
LEMMA NextIdle ==
  ASSUME IInv, IdleInv, [Next]_vars
  PROVE  IdleInv'
<1>1. CASE ClientCall \/ WorkThread
  BY <1>1 DEF ClientCall, WRefuse, WAdmit, WorkThread, WorkStep, WStartUpdate, WStartGet, WRejected,
     WVotes, WCommits, WAskGet, WGotten, WReply, IdleInv, Recovering
<1>2. CASE RecoveryThread
  BY <1>2 DEF RecoveryThread, RecoveryStep, RStart, REnter, RWake, RLockRecovery, RLockWorking,
     RTable, RLead, RFromC, RAsk, RAskedAll, RData, RPush, RPushed, RFinish, RDone, IdleInv, Recovering
<1>3. ASSUME NEW i \in P_Id, KeepAliveThread(i) \/ PWorkingThread(i) \/ PRecoveryThread(i)
      PROVE  IdleInv'
  <2>1. UNCHANGED <<cstate, rpc>>
    BY <1>3 DEF KeepAliveThread, KeepAlive, KeepAliveConnect, KeepAliveTemp,
       PWorkingThread, PWorking, PWorkingSkip, PWorkingSend, PWorkingRecv, PWorkingFail,
       PRecoveryThread, PRecovery, PRecoverySkip, PRecoverySend, PRecoveryRecv, PRecoveryFail
  <2>2. \A p \in P_Id : pstate'[p] = "WORKING" => pstate[p] = "WORKING"
    BY <1>3 DEF KeepAliveThread, KeepAlive, KeepAliveConnect, KeepAliveTemp,
       PWorkingThread, PWorking, PWorkingSkip, PWorkingSend, PWorkingRecv, PWorkingFail,
       PRecoveryThread, PRecovery, PRecoverySkip, PRecoverySend, PRecoveryRecv, PRecoveryFail,
       IInv, TypeOK, CoordinatorTypeOK
  <2>. QED BY <2>1, <2>2 DEF IdleInv, Recovering
<1>4. ASSUME NEW p \in P_Id, ParticipantThread(p) \/ Kill(p) \/ Run(p)
      PROVE  IdleInv'
  BY <1>4 DEF ParticipantThread, Kill, Run, IdleInv, Recovering
<1>5. CASE KillCoordinator
  BY <1>5 DEF KillCoordinator, Restart, IdleInv
<1>6. CASE UNCHANGED vars
  BY <1>6 DEF IdleInv, Recovering
<1>. QED BY <1>1, <1>2, <1>3, <1>4, <1>5, <1>6 DEF Next, NormalNext

\* A command that the parsers accept is refused: the refusal was the client's first answer
\* during a recovery, the bound's, or nobody is left who works.
LEMMA RefusalStep ==
  ASSUME IInv, SurvivorInv, IdleInv, [Next]_vars, Refusal
  PROVE  \/ wcmd' \in BadCmds \cup {Junk}
         \/ ~Survivor
         \/ wpc = "idle" /\ Recovering
         \/ wcmd \in Cmds /\ txid > MaxTx
<1>0. SUFFICES ASSUME wcmd' \notin BadCmds \cup {Junk}, ~(wpc = "idle" /\ Recovering),
                      ~(wcmd \in Cmds /\ txid > MaxTx), Survivor
               PROVE  FALSE
  OBVIOUS
<1>1. WVotes \/ WCommits \/ WGotten
  <2>1. wpc' # wpc /\ wpc' = "reply"
    BY DEF Refusal
  <2>2. CASE ClientCall
    <3>1. wpc = "idle" /\ cstate # "C_WORKING"
      BY <1>0, <2>1, <2>2 DEF ClientCall, WRefuse, WAdmit
    <3>2. cstate = "C_RECOVERY"
      BY <3>1 DEF IInv, TypeOK, CoordinatorTypeOK
    <3>. QED BY <1>0, <3>1, <3>2 DEF IdleInv, Survivor
  <2>3. CASE RecoveryThread
    BY <2>1, <2>3 DEF RecoveryThread, RecoveryStep, RStart, REnter, RWake, RLockRecovery, RLockWorking,
       RTable, RLead, RFromC, RAsk, RAskedAll, RData, RPush, RPushed, RFinish, RDone
  <2>4. ASSUME NEW p \in P_Id, \/ KeepAliveThread(p) \/ PWorkingThread(p) \/ PRecoveryThread(p)
                               \/ ParticipantThread(p) \/ Kill(p) \/ Run(p)
        PROVE  FALSE
    <3>1. wpc' = wpc
      BY <2>4 DEF KeepAliveThread, KeepAlive, KeepAliveConnect, KeepAliveTemp,
         PWorkingThread, PWorking, PWorkingSkip, PWorkingSend, PWorkingRecv, PWorkingFail,
         PRecoveryThread, PRecovery, PRecoverySkip, PRecoverySend, PRecoveryRecv, PRecoveryFail,
         ParticipantThread, Kill, Run
    <3>. QED BY <2>1, <3>1
  <2>5. ~KillCoordinator
    BY <2>1 DEF KillCoordinator, Restart
  <2>6. ~UNCHANGED vars
    BY <2>1
  <2>7. ~WRejected
    BY <1>0 DEF WRejected, Answered
  <2>8. CASE WStartUpdate \/ WStartGet \/ WAskGet \/ WReply
    BY <2>1, <2>8 DEF WStartUpdate, WStartGet, WAskGet, WReply
  <2>. QED BY <2>2, <2>3, <2>4, <2>5, <2>6, <2>7, <2>8 DEF Next, NormalNext, WorkThread, WorkStep
<1>2. PICK p \in P_Id : pstate[p] = "WORKING"
  BY <1>0 DEF Survivor
<1>7. wcmd \notin BadCmds
  BY <1>0, <1>1 DEF WVotes, WCommits, WGotten, Answered, Refusal
<1>3. ASSUME ~Vacant(ret[p])
      PROVE  ret[p].rc = "ok" /\ ret[p] = Got(ret[p].data)
  BY <1>2, <1>3, RetFacts DEF IInv, SlotInv, RetInv, TypeOK, CoordinatorTypeOK
<1>4. CASE WVotes
  <2>1. wpc = "vote" /\ ~Vacant(ret[p])
    BY <1>4 DEF WVotes, AllAnswered
  <2>2. ret[p] = Got(PreReply)
    BY <1>3, <2>1 DEF SurvivorInv
  <2>. QED BY <1>4, <2>2 DEF WVotes, Refusal
<1>5. CASE WCommits
  <2>1. wpc = "commit" /\ ~Vacant(ret[p])
    BY <1>5 DEF WCommits, AllAnswered
  <2>2. \A q \in P_Id : ret[q].rc = "ok" => ret[q].data = OkReply /\ ret[q] = Got(OkReply)
    <3>1. EventParser(wcmd) = OkReply
      BY <1>7, <2>1 DEF IInv, PhaseInv, TypeOK, CoordinatorTypeOK, EventParser
    <3>2. \A q \in P_Id : ret[q] \in Ret /\ (ret[q].rc = "ok" => ret[q].data = EventParser(wcmd))
      BY <2>1 DEF IInv, AnswerInv, TypeOK, CoordinatorTypeOK
    <3>. QED BY <3>1, <3>2, RetFacts
  <2>3. Committed(p)
    BY <1>3, <2>1, <2>2, RetFacts, AnswerFacts DEF Committed
  <2>4. \E q \in P_Id : Committed(q) /\ wres' = ret[q].data
    BY <1>5, <2>3 DEF WCommits, Answered
  <2>. QED BY <2>2, <2>4, AnswerFacts DEF Committed, Refusal
<1>6. CASE WGotten
  <2>1. /\ wpc = "get" /\ widx \in P_Id /\ ~Vacant(ret[widx])
        /\ ErrReply.kind # "db" /\ EmptyReply.kind # "db"
    BY <1>6 DEF WGotten, IInv, TypeOK, CoordinatorTypeOK, P_Id, ErrReply, EmptyReply
  <2>2. ret[widx].rc # "ok"
    BY <1>6, <2>1, RetFacts DEF WGotten, Answered, SurvivorInv, Refusal
  <2>3. widx = PNum
    BY <1>6, <2>1, <2>2, LoggerAssumption DEF WGotten, Refusal, P_Id
  <2>4. p < widx \/ p = widx
    BY <2>3, LoggerAssumption DEF P_Id
  <2>5. p # widx
    BY <1>3, <2>1, <2>2
  <2>. QED BY <1>2, <2>1, <2>4, <2>5 DEF SurvivorInv
<1>. QED BY <1>1, <1>4, <1>5, <1>6

\* OneSurvivorSuffices: with any number of participants, and whatever fails, a command that
\* the parsers accept is refused only when nobody is left in the working state with a live
\* session (lab3test.sh, test items 8 and 9), or when it comes during a recovery.
THEOREM SurvivorAnswers == Spec => OneSurvivorSuffices
<1>1. Init => SurvivorInv /\ IdleInv
  BY DEF Init, CoordinatorInit, SurvivorInv, IdleInv
<1>2. IInv /\ SurvivorInv /\ [Next]_vars => SurvivorInv'
  BY NextSurvivor
<1>4. IInv /\ IdleInv /\ [Next]_vars => IdleInv'
  BY NextIdle
<1>3. IInv /\ SurvivorInv /\ IdleInv /\ [Next]_vars =>
        [Refusal => \/ wcmd' \in BadCmds \cup {Junk}
                    \/ ~Survivor
                    \/ wpc = "idle" /\ Recovering
                    \/ wcmd \in Cmds /\ txid > MaxTx]_vars
  BY RefusalStep
<1>. QED BY <1>1, <1>2, <1>3, <1>4, Inductive, PTL DEF Spec, OneSurvivorSuffices

-----------------------------------------------------------------------------
(* What participants hold *)

\* What p holds depends on its log, its id and its request only.
LEMMA HoldsSame ==
  ASSUME UNCHANGED <<req, ptxid, plog>>
  PROVE  /\ \A p \in P_Id : Pending(p)' <=> Pending(p)
         /\ \A p \in P_Id, t \in TxIds, c \in Cmds : Holds(p, t, c)' <=> Holds(p, t, c)
<1>1. \A p \in P_Id : Pending(p)' <=> Pending(p)
  BY DEF Pending, Applies, EventParser
<1>2. \A p \in P_Id, t \in TxIds, c \in Cmds : Holds(p, t, c)' <=> Holds(p, t, c)
  BY <1>1 DEF Holds
<1>. QED BY <1>1, <1>2

\* A step that leaves logs, ids and requests alone keeps what is said of them.
LEMMA LogsQuiet ==
  ASSUME LogInv, AgreeInv, UNCHANGED <<req, ptxid, plog, txid, clog>>
  PROVE  LogInv' /\ AgreeInv'
BY HoldsSame DEF LogInv, AgreeInv

\* Nobody comes to hold anything.
NothingGained ==
  /\ \A p \in P_Id : Pending(p)' => Pending(p) /\ req'[p] = req[p]
  /\ \A p \in P_Id, t \in TxIds, c \in Cmds : Holds(p, t, c)' => Holds(p, t, c)

\* Then nothing contradicts the records of the coordinator, or that of a leader.
LEMMA LogsShrink ==
  ASSUME LogInv, AgreeInv, NothingGained, UNCHANGED <<txid, clog>>,
         \A p \in P_Id, t \in TxIds : plog'[p][t] # NoCmd <=> t < ptxid'[p]
  PROVE  LogInv' /\ AgreeInv'
BY DEF LogInv, AgreeInv, NothingGained

\* What p will commit comes from the command under way or from the recovery, unless the
\* coordinator has just been started again.
LEMMA PendingFacts ==
  ASSUME IInv, HInv, NEW p \in P_Id, Pending(p), ~(CoordCrash /\ rpc = "sleep")
  PROVE  /\ csock[p] = "open" /\ rep[p] = NoReply
         /\ \/ /\ wpc = "commit" /\ pw[p] = "wait" /\ pstate[p] = "WORKING"
               /\ req[p].id = txid /\ req[p].ev = wcmd
            \/ /\ rpc = "pushed" /\ p = rIdx /\ pr[p] = "wait" /\ pstate[p] = "RECOVERY"
               /\ req[p].id = rLog.id /\ req[p].ev = rLog.ev
<1>1. req[p] # NoMsg /\ req[p].id >= TXID_START /\ req[p].st = LOG_COMMIT
  BY DEF Pending, Applies
<1>2. csock[p] = "open"
  BY <1>1 DEF HInv, FreshInv, Fresh
<1>3. rep[p] = NoReply /\ \/ pw[p] = "wait" /\ req[p] = task[p]
                          \/ pr[p] = "wait" /\ req[p] = rtask[p]
  BY <1>1, <1>2 DEF IInv, SessionInv
<1>4. CASE pw[p] = "wait" /\ req[p] = task[p]
  <2>1. pstate[p] = "WORKING" /\ task[p] # NoMsg
    BY <1>4 DEF IInv, SessionInv, SlotInv
  <2>2. wpc = "commit" /\ task[p] = Log(txid, LOG_COMMIT, wcmd)
    BY <1>1, <1>4, <2>1, LogFacts DEF IInv, SlotInv, TaskInv, LOG_PRE, LOG_COMMIT, TXID_START,
       SUPER_TXID, ASK_DATA_TXID, AskLog
  <2>. QED BY <1>2, <1>3, <1>4, <2>1, <2>2, LogFacts
<1>5. CASE pr[p] = "wait" /\ req[p] = rtask[p]
  <2>1. rtask[p] # NoMsg /\ pstate[p] = "RECOVERY"
    BY <1>5 DEF IInv, SlotInv, PRecoveryDue
  <2>2. rpc = "pushed" /\ p = rIdx /\ rtask[p] = rLog
    BY <1>1, <1>5, <2>1, LogFacts DEF IInv, SlotInv, RTaskInv, LOG_PRE, LOG_COMMIT
  <2>. QED BY <1>2, <1>3, <1>5, <2>1, <2>2
<1>. QED BY <1>3, <1>4, <1>5

\* Who holds something after the first recovery has begun has a live session.
LEMMA HoldsOpen ==
  ASSUME HInv, NEW p \in P_Id, NEW t \in TxIds, NEW c \in Cmds, Holds(p, t, c),
         ~(CoordCrash /\ rpc = "sleep")
  PROVE  csock[p] = "open" /\ psock[p] # "down"
<1>1. ~Fresh(p)
  BY TxFacts DEF Fresh, Holds, Pending, TXID_START
<1>. QED BY <1>1 DEF HInv, FreshInv

\* The records in the answers of a leader are about an id that the logs have.
LEMMA RecordFacts ==
  ASSUME IInv, rpc = "data"
  PROVE  /\ pw[rLeader] = "wait" /\ rep[rLeader] # NoReply => rep[rLeader].log.id \in TxIds
         /\ ret[rLeader].rc = "ok" => ret[rLeader].data.log.id \in TxIds
<1>1. rLeader \in P_Id /\ rMin \in TxIds
  BY TxFacts, LoggerAssumption DEF IInv, PhaseInv, FromP, TypeOK, CoordinatorTypeOK, TXID_START
<1>. QED BY <1>1 DEF IInv, AnswerInv, LogAnswer

\* What a leader has answered stays true while nobody gains anything.
LEMMA LeaderShrink ==
  ASSUME IInv, LeaderInv, NothingGained, UNCHANGED <<txid, clog>>,
         rpc' = "data" => rpc = "data" /\ rLeader' = rLeader, NoNewAnswers
  PROVE  LeaderInv'
<1> SUFFICES ASSUME rpc' = "data"
             PROVE  /\ (pw[rLeader] = "wait" /\ rep[rLeader] # NoReply
                          => TrueRecord(rep[rLeader].log))'
                    /\ (ret[rLeader].rc = "ok" => TrueRecord(ret[rLeader].data.log))'
  BY DEF LeaderInv
<1>1. rpc = "data" /\ rLeader' = rLeader /\ rLeader \in P_Id
  BY DEF IInv, PhaseInv, FromP
<1>2. ASSUME NEW l, l.id \in TxIds, TrueRecord(l)
      PROVE  TrueRecord(l)'
  BY <1>2 DEF TrueRecord, NothingGained
<1>3. ASSUME pw'[rLeader] = "wait" /\ rep'[rLeader] # NoReply
      PROVE  TrueRecord(rep[rLeader].log)'
  BY <1>1, <1>2, <1>3, RecordFacts DEF NoNewAnswers, LeaderInv
<1>4. ASSUME ret'[rLeader].rc = "ok"
      PROVE  TrueRecord(ret[rLeader].data.log)'
  BY <1>1, <1>2, <1>4, RecordFacts DEF NoNewAnswers, LeaderInv
<1>. QED BY <1>1, <1>3, <1>4

\* In particular while logs, ids and requests stay as they are.
LEMMA LeaderQuiet ==
  ASSUME IInv, LeaderInv, UNCHANGED <<req, ptxid, plog, txid, clog>>,
         rpc' = "data" => rpc = "data" /\ rLeader' = rLeader, NoNewAnswers
  PROVE  LeaderInv'
<1>1. NothingGained
  BY HoldsSame DEF NothingGained
<1>. QED BY <1>1, LeaderShrink

\* The answer to a GET stays right while nothing is committed.
LEMMA GetQuiet ==
  ASSUME IInv, GetInv, UNCHANGED <<txid, clog>>,
         wpc' = "get" => wpc = "get" /\ widx' = widx, NoNewAnswers
  PROVE  GetInv'
<1>1. CommittedDb' = CommittedDb
  BY DEF CommittedDb
<1>2. widx \in P_Id
  BY DEF IInv, TypeOK, CoordinatorTypeOK, P_Id
<1>. QED BY <1>1, <1>2 DEF GetInv, NoNewAnswers

-----------------------------------------------------------------------------
(* The work thread, and the client *)

\* A refused command touches no log.
\* A refused command touches no log.
\* A refused command touches no log.
\* A refused command touches no log.
\* A refused command touches no log.
\* A refused command touches no log.
\* A refused command touches no log.
\* A refused command touches no log.
\* A refused command touches no log.
\* A refused command touches no log.
\* A refused command touches no log.
\* A refused command touches no log.
\* A refused command touches no log.
\* A refused command touches no log.
\* A refused command touches no log.
LEMMA WRefuseHistory ==
  ASSUME IInv, HInv, NEW x \in Cmds \cup {Get, Junk}, WRefuse(x), UNCHANGED pVars
  PROVE  HInv'
<1>1. LogInv' /\ AgreeInv'
  BY LogsQuiet DEF HInv, WRefuse
<1>2. SleepInv' /\ FreshInv' /\ RecordInv' /\ LevelInv'
  BY DEF HInv, WRefuse, SleepInv, FreshInv, Fresh, RecordInv, FromP, LevelInv, Counting
<1>3. LeaderInv' /\ GetInv' /\ CallInv'
  <2>1. NoNewAnswers
    BY DEF NoNewAnswers, WRefuse
  <2>. QED BY <2>1, LeaderQuiet, GetQuiet, CmdAssumption DEF HInv, WRefuse, CallInv, NoCmd, Get, Junk
<1>4. AheadInv'
  BY HoldsSame DEF HInv, WRefuse, AheadInv, Unsettled, FromP
<1>. QED BY <1>1, <1>2, <1>3, <1>4 DEF HInv

\* A command is admitted only when nobody is ahead.
LEMMA WAdmitHistory ==
  ASSUME IInv, HInv, NEW x \in Cmds \cup {Get, Junk}, WAdmit(x), UNCHANGED pVars
  PROVE  HInv'
<1>1. LogInv' /\ AgreeInv'
  BY LogsQuiet DEF HInv, WAdmit
<1>2. SleepInv' /\ FreshInv' /\ RecordInv' /\ LevelInv'
  BY DEF HInv, WAdmit, SleepInv, FreshInv, Fresh, RecordInv, FromP, LevelInv, Counting
<1>3. LeaderInv' /\ GetInv' /\ CallInv'
  <2>1. NoNewAnswers
    BY DEF NoNewAnswers, WAdmit
  <2>. QED BY <2>1, LeaderQuiet, GetQuiet, CmdAssumption DEF HInv, WAdmit, CallInv, NoCmd, Get, Junk
<1>4. AheadInv'
  BY HoldsSame DEF HInv, WAdmit, AheadInv, Unsettled, FromP
<1>. QED BY <1>1, <1>2, <1>3, <1>4 DEF HInv

\* The record of the command goes under an id that nobody holds anything under.
LEMMA WStartUpdateHistory ==
  ASSUME IInv, HInv, WStartUpdate, UNCHANGED pVars
  PROVE  HInv'
<1>1. /\ ~RHolds /\ ~Counting /\ txid \in TxIds /\ wcmd \in Cmds /\ clog \in [TxIds -> EntryType]
      /\ clog' = [clog EXCEPT ![txid] = Entry(LOG_PRE, wcmd)]
      /\ rpc \notin {"data", "push", "pushed", "table"} /\ ~FromP
  BY LoggerAssumption, TxFacts DEF WStartUpdate, IInv, TypeOK, CoordinatorTypeOK, MutexInv, RHolds, Counting,
     FromP, Free, PhaseInv, TXID_START
<1>2. clog'[txid].cmd = wcmd /\ \A t \in TxIds : t # txid => clog'[t] = clog[t]
  BY <1>1, EntryFacts DEF Entry
<1>3. LogInv' /\ AgreeInv'
  BY <1>1, <1>2, TxFacts, HoldsSame DEF WStartUpdate, HInv, LogInv, AgreeInv
<1>4. SleepInv' /\ FreshInv' /\ RecordInv' /\ LevelInv' /\ LeaderInv' /\ GetInv' /\ CallInv'
  BY <1>1, <1>2 DEF WStartUpdate, HInv, SleepInv, FreshInv, Fresh, RecordInv, FromP, LevelInv, Counting, LeaderInv,
     GetInv, CallInv
<1>5. AheadInv'
  BY <1>1, HoldsSame DEF WStartUpdate, HInv, SleepInv, AheadInv, Unsettled, FromP
<1>. QED BY <1>3, <1>4, <1>5 DEF HInv

\* When every answer is in, whoever is ahead has executed the command, and is counted.
LEMMA WCommitsAhead ==
  ASSUME IInv, HInv, WCommits,
         NEW p \in P_Id, NEW t \in TxIds, NEW c \in Cmds, Holds(p, t, c), t >= txid
  PROVE  t = txid /\ c = wcmd /\ Committed(p)
<1>1. wpc = "commit" /\ ~RHolds /\ rpc # "sleep" /\ ~FromP
  BY DEF WCommits, HInv, SleepInv, IInv, MutexInv, WHolds, RHolds, Free, FromP
<1>2. t = txid /\ c = wcmd /\ pstate[p] = "WORKING"
  BY <1>1 DEF HInv, AheadInv, Unsettled, RHolds
<1>3. csock[p] = "open"
  BY <1>1, HoldsOpen
<1>4. ~Vacant(ret[p]) /\ pw[p] # "wait" /\ pr[p] # "wait"
  BY <1>1, QuietSession DEF WCommits, AllAnswered, IInv, SlotInv, RHolds
<1>5. t < ptxid[p]
  BY <1>1, <1>4, PendingFacts DEF Holds
<1>6. rep[p] # OkReply
  BY <1>4, QuietSession
<1>7. ret[p] = Got(OkReply)
  <2>1. txid \in Int /\ ptxid[p] \in Int
    BY DEF IInv, TypeOK, CoordinatorTypeOK, ParticipantTypeOK
  <2>. QED BY <1>1, <1>2, <1>3, <1>5, <1>6, <2>1 DEF IInv, SyncInv
<1>8. OkReply # ErrReply
  BY DEF OkReply, ErrReply
<1>. QED BY <1>2, <1>7, <1>8, RetFacts DEF Committed

\* The command is recorded as committed when somebody has executed it, and nobody is left
\* ahead of the coordinator.
LEMMA WCommitsHistory ==
  ASSUME IInv, HInv, WCommits, UNCHANGED pVars
  PROVE  HInv'
<1>1. /\ wpc = "commit" /\ wpc' = "reply" /\ ~RHolds /\ ~Counting /\ txid \in TxIds /\ wcmd \in Cmds
      /\ rpc \notin {"data", "push", "pushed", "table", "sleep"} /\ ~FromP /\ ~FromP' /\ ~Counting'
      /\ clog \in [TxIds -> EntryType] /\ clog[txid].cmd = wcmd
  BY TxFacts DEF WCommits, Answered, IInv, TypeOK, CoordinatorTypeOK, MutexInv, WHolds,
     RHolds, Counting, Free, FromP, PhaseInv, HInv, SleepInv, RecordInv, TXID_START
<1>2. \/ txid' = txid + 1 /\ clog' = chageLogState(txid, LOG_COMMIT)
      \/ UNCHANGED <<txid, clog>> /\ \A p \in P_Id : ~Committed(p)
  BY DEF WCommits
<1>3. \A t \in TxIds : clog'[t].cmd = clog[t].cmd
  <2>1. CASE clog' = chageLogState(txid, LOG_COMMIT)
    BY <1>1, <2>1 DEF chageLogState, EntryType
  <2>. QED BY <1>2, <2>1
<1>4. LogInv'
  BY <1>1, <1>2, <1>3, TxFacts, HoldsSame DEF WCommits, HInv, LogInv
<1>5. AgreeInv'
  <2>1. ASSUME NEW p \in P_Id, NEW t \in TxIds, NEW c \in Cmds, t < txid', Holds(p, t, c)
        PROVE  clog'[t].cmd = c
    <3>1. CASE t < txid
      BY <1>3, <2>1, <3>1 DEF HInv, AgreeInv
    <3>2. CASE t >= txid
      BY <1>1, <1>3, <2>1, <3>2, WCommitsAhead
    <3>. QED BY <1>1, <3>1, <3>2, TxFacts
  <2>. QED BY <2>1, HoldsSame DEF WCommits, HInv, AgreeInv
<1>6. AheadInv'
  <2>1. ASSUME NEW p \in P_Id, NEW t \in TxIds, NEW c \in Cmds, t >= txid', Holds(p, t, c)
        PROVE  FALSE
    <3>1. t >= txid
      BY <1>1, <1>2, <2>1, TxFacts
    <3>2. t = txid /\ Committed(p)
      BY <2>1, <3>1, WCommitsAhead
    <3>. QED BY <1>1, <1>2, <2>1, <3>2, TxFacts
  <2>. QED BY <2>1, HoldsSame DEF WCommits, AheadInv
<1>7. SleepInv' /\ FreshInv' /\ RecordInv' /\ LevelInv' /\ LeaderInv' /\ GetInv' /\ CallInv'
  BY <1>1 DEF WCommits, Answered, HInv, SleepInv, FreshInv, Fresh, RecordInv, LevelInv, LeaderInv, GetInv,
     CallInv
<1>. QED BY <1>4, <1>5, <1>6, <1>7 DEF HInv

\* A GET takes the mutex; nobody has been asked yet.
LEMMA WStartGetHistory ==
  ASSUME IInv, HInv, WStartGet, UNCHANGED pVars
  PROVE  HInv'
<1>1. LogInv' /\ AgreeInv'
  BY LogsQuiet DEF HInv, WStartGet
<1>2. SleepInv' /\ FreshInv' /\ RecordInv' /\ LevelInv'
  BY DEF HInv, WStartGet, SleepInv, FreshInv, Fresh, RecordInv, FromP, LevelInv, Counting
<1>3. LeaderInv' /\ GetInv' /\ CallInv'
  <2>1. NoNewAnswers
    BY DEF NoNewAnswers, WStartGet
  <2>. QED BY <2>1, LeaderQuiet, GetQuiet DEF HInv, WStartGet, CallInv
<1>4. AheadInv'
  BY HoldsSame DEF HInv, WStartGet, AheadInv, Unsettled, FromP
<1>. QED BY <1>1, <1>2, <1>3, <1>4 DEF HInv

\* A rejected command touches no log.
LEMMA WRejectedHistory ==
  ASSUME IInv, HInv, WRejected, UNCHANGED pVars
  PROVE  HInv'
<1>1. LogInv' /\ AgreeInv'
  BY LogsQuiet DEF HInv, WRejected, Answered
<1>2. SleepInv' /\ FreshInv' /\ RecordInv' /\ LevelInv'
  BY DEF HInv, WRejected, Answered, SleepInv, FreshInv, Fresh, RecordInv, FromP, LevelInv, Counting
<1>3. LeaderInv' /\ GetInv' /\ CallInv'
  <2>1. NoNewAnswers
    BY DEF NoNewAnswers, WRejected, Answered
  <2>. QED BY <2>1, LeaderQuiet, GetQuiet DEF HInv, WRejected, Answered, CallInv
<1>4. AheadInv'
  BY HoldsSame DEF HInv, WRejected, Answered, AheadInv, Unsettled, FromP
<1>. QED BY <1>1, <1>2, <1>3, <1>4 DEF HInv

\* Nobody is ahead when the commits are handed out.
LEMMA WVotesHistory ==
  ASSUME IInv, HInv, WVotes, UNCHANGED pVars
  PROVE  HInv'
<1>1. LogInv' /\ AgreeInv'
  BY LogsQuiet DEF HInv, WVotes, Answered
<1>2. SleepInv' /\ FreshInv' /\ RecordInv' /\ LevelInv'
  BY DEF HInv, WVotes, Answered, SleepInv, FreshInv, Fresh, RecordInv, FromP, LevelInv, Counting
<1>3. LeaderInv' /\ GetInv' /\ CallInv'
  <2>1. NoNewAnswers
    BY RetFacts DEF NoNewAnswers, WVotes, Answered
  <2>. QED BY <2>1, LeaderQuiet, GetQuiet DEF HInv, WVotes, Answered, CallInv
<1>4. AheadInv'
  BY HoldsSame DEF HInv, WVotes, Answered, AheadInv, Unsettled, FromP
<1>. QED BY <1>1, <1>2, <1>3, <1>4 DEF HInv

\* The participant that is asked has not answered yet.
LEMMA WAskGetHistory ==
  ASSUME IInv, HInv, WAskGet, UNCHANGED pVars
  PROVE  HInv'
<1>1. LogInv' /\ AgreeInv'
  BY LogsQuiet DEF HInv, WAskGet
<1>2. SleepInv' /\ FreshInv' /\ RecordInv' /\ LevelInv'
  BY DEF HInv, WAskGet, SleepInv, FreshInv, Fresh, RecordInv, FromP, LevelInv, Counting
<1>3. LeaderInv' /\ GetInv' /\ CallInv'
  <2>1. NoNewAnswers
    BY DEF NoNewAnswers, WAskGet
  <2>2. GetInv'
    <3>1. widx \in P_Id /\ rpc # "data" /\ wpc = "ask"
      BY DEF WAskGet, IInv, TypeOK, CoordinatorTypeOK, P_Id, MutexInv, WHolds, RHolds
    <3>2. Vacant(ret[widx]) /\ pw[widx] # "wait"
      BY <3>1 DEF WAskGet, IInv, SlotInv, RetInv
    <3>. QED BY <3>1, <3>2, RetFacts DEF WAskGet, GetInv
  <2>. QED BY <2>1, LeaderQuiet, <2>2 DEF HInv, WAskGet, CallInv
<1>4. AheadInv'
  BY HoldsSame DEF HInv, WAskGet, AheadInv, Unsettled, FromP
<1>. QED BY <1>1, <1>2, <1>3, <1>4 DEF HInv

\* What the participant answers ends the command, or the next one is asked.
LEMMA WGottenHistory ==
  ASSUME IInv, HInv, WGotten, UNCHANGED pVars
  PROVE  HInv'
<1>1. LogInv' /\ AgreeInv'
  BY LogsQuiet DEF HInv, WGotten, Answered
<1>2. SleepInv' /\ FreshInv' /\ RecordInv' /\ LevelInv'
  BY DEF HInv, WGotten, Answered, SleepInv, FreshInv, Fresh, RecordInv, FromP, LevelInv, Counting
<1>3. LeaderInv' /\ GetInv' /\ CallInv'
  <2>1. NoNewAnswers
    BY RetFacts DEF NoNewAnswers, WGotten, Answered, IInv, TypeOK, CoordinatorTypeOK
  <2>. QED BY <2>1, LeaderQuiet, GetQuiet DEF HInv, WGotten, Answered, CallInv
<1>4. AheadInv'
  BY HoldsSame DEF HInv, WGotten, Answered, AheadInv, Unsettled, FromP
<1>. QED BY <1>1, <1>2, <1>3, <1>4 DEF HInv

\* The answer is sent.
LEMMA WReplyHistory ==
  ASSUME IInv, HInv, WReply, UNCHANGED pVars
  PROVE  HInv'
<1>1. LogInv' /\ AgreeInv'
  BY LogsQuiet DEF HInv, WReply
<1>2. SleepInv' /\ FreshInv' /\ RecordInv' /\ LevelInv'
  BY DEF HInv, WReply, SleepInv, FreshInv, Fresh, RecordInv, FromP, LevelInv, Counting
<1>3. LeaderInv' /\ GetInv' /\ CallInv'
  <2>1. NoNewAnswers
    BY DEF NoNewAnswers, WReply
  <2>. QED BY <2>1, LeaderQuiet, GetQuiet DEF HInv, WReply, CallInv
<1>4. AheadInv'
  BY HoldsSame DEF HInv, WReply, AheadInv, Unsettled, FromP
<1>. QED BY <1>1, <1>2, <1>3, <1>4 DEF HInv

-----------------------------------------------------------------------------
(* The recovery thread *)

\* Whoever has a log when the recovery thread starts is connected and waits to be counted in.
LEMMA RStartHistory ==
  ASSUME IInv, HInv, Punctual, RStart, UNCHANGED pVars
  PROVE  HInv'
<1>1. /\ rpc = "sleep" /\ rpc' = "entry" /\ cstate = "C_RECOVERY" /\ wpc \in {"idle", "reply"}
      /\ UNCHANGED <<csock, psock, req, ptxid, plog, txid, clog, wpc, pstate, cstate>>
  BY DEF RStart, HInv, SleepInv
<1>2. FreshInv'
  <2>1. ASSUME NEW p \in P_Id, csock[p] # "open" PROVE Fresh(p)
    <3>1. CASE CoordCrash
      <4>1. psock[p] = "down" \/ pstate[p] = "TEMP"
        BY <3>1 DEF RStart, Punctual
      <4>2. pstate[p] = "TEMP" => csock[p] = "broken"
        BY <2>1 DEF IInv, SessionInv, TypeOK, NetTypeOK
      <4>. QED BY <4>1, <4>2 DEF HInv, FreshInv
    <3>2. CASE ~CoordCrash
      BY <2>1, <3>2 DEF HInv, FreshInv
    <3>. QED BY <3>1, <3>2
  <2>. QED BY <1>1, <2>1 DEF HInv, FreshInv, Fresh
<1>3. AheadInv'
  <2>1. ASSUME NEW p \in P_Id, NEW t \in TxIds, NEW c \in Cmds, t >= txid, Holds(p, t, c)
        PROVE  CoordCrash /\ t < ptxid[p] /\ pstate[p] = "TEMP"
    <3>1. CoordCrash
      BY <1>1, <2>1 DEF HInv, AheadInv, Unsettled, FromP
    <3>2. ~Fresh(p)
      BY <2>1, TxFacts DEF Fresh, Holds, Pending, TXID_START
    <3>3. csock[p] = "open" /\ psock[p] # "down"
      BY <1>1, <1>2, <3>2 DEF FreshInv, Fresh
    <3>4. pstate[p] = "TEMP"
      BY <3>1, <3>3 DEF RStart, Punctual
    <3>5. ~Pending(p)
      BY <3>3, <3>4 DEF Pending, IInv, SessionInv, SlotInv, PRecoveryDue
    <3>. QED BY <2>1, <3>1, <3>4, <3>5 DEF Holds
  <2>. QED BY <1>1, <2>1, HoldsSame DEF AheadInv, Unsettled
<1>4. LogInv' /\ AgreeInv'
  BY LogsQuiet DEF HInv, RStart
<1>5. SleepInv' /\ RecordInv' /\ LevelInv' /\ CallInv' /\ LeaderInv' /\ GetInv'
  BY <1>1 DEF HInv, RStart, SleepInv, RecordInv, FromP, LevelInv, Counting, CallInv, LeaderInv, GetInv
<1>. QED BY <1>2, <1>3, <1>4, <1>5 DEF HInv

\* The table is emptied while nobody is counted from it.
LEMMA REnterHistory ==
  ASSUME IInv, HInv, REnter, UNCHANGED pVars
  PROVE  HInv'
<1>1. LogInv' /\ AgreeInv'
  BY LogsQuiet DEF HInv, REnter
<1>2. SleepInv' /\ FreshInv' /\ RecordInv' /\ LevelInv'
  BY DEF HInv, REnter, SleepInv, FreshInv, Fresh, RecordInv, FromP, LevelInv, Counting
<1>3. LeaderInv' /\ GetInv' /\ CallInv'
  <2>1. NoNewAnswers
    BY DEF NoNewAnswers, REnter
  <2>. QED BY <2>1, LeaderQuiet, GetQuiet DEF HInv, REnter, CallInv
<1>4. AheadInv'
  BY HoldsSame DEF HInv, REnter, AheadInv, Unsettled, FromP
<1>. QED BY <1>1, <1>2, <1>3, <1>4 DEF HInv

\* Recovery closes the door to clients; who was ahead still is.
LEMMA RWakeHistory ==
  ASSUME IInv, HInv, RWake, UNCHANGED pVars
  PROVE  HInv'
<1>1. LogInv' /\ AgreeInv'
  BY LogsQuiet DEF HInv, RWake
<1>2. SleepInv' /\ FreshInv' /\ RecordInv' /\ LevelInv'
  BY DEF HInv, RWake, SleepInv, FreshInv, Fresh, RecordInv, FromP, LevelInv, Counting
<1>3. LeaderInv' /\ GetInv' /\ CallInv'
  <2>1. NoNewAnswers
    BY DEF NoNewAnswers, RWake
  <2>. QED BY <2>1, LeaderQuiet, GetQuiet DEF HInv, RWake, CallInv
<1>4. AheadInv'
  BY HoldsSame DEF HInv, RWake, AheadInv, Unsettled, FromP
<1>. QED BY <1>1, <1>2, <1>3, <1>4 DEF HInv

\* The recovery mutex is taken.
LEMMA RLockRecoveryHistory ==
  ASSUME IInv, HInv, RLockRecovery, UNCHANGED pVars
  PROVE  HInv'
<1>1. LogInv' /\ AgreeInv'
  BY LogsQuiet DEF HInv, RLockRecovery
<1>2. SleepInv' /\ FreshInv' /\ RecordInv' /\ LevelInv'
  BY DEF HInv, RLockRecovery, SleepInv, FreshInv, Fresh, RecordInv, FromP, LevelInv, Counting
<1>3. LeaderInv' /\ GetInv' /\ CallInv'
  <2>1. NoNewAnswers
    BY DEF NoNewAnswers, RLockRecovery
  <2>. QED BY <2>1, LeaderQuiet, GetQuiet DEF HInv, RLockRecovery, CallInv
<1>4. AheadInv'
  BY HoldsSame DEF HInv, RLockRecovery, AheadInv, Unsettled, FromP
<1>. QED BY <1>1, <1>2, <1>3, <1>4 DEF HInv

\* Whoever is ahead waits in the temp state, and is now in recovery.
LEMMA RLockWorkingHistory ==
  ASSUME IInv, HInv, RLockWorking, UNCHANGED pVars
  PROVE  HInv'
<1>1. LogInv' /\ AgreeInv'
  BY LogsQuiet DEF HInv, RLockWorking
<1>2. SleepInv' /\ FreshInv' /\ RecordInv' /\ LevelInv'
  BY RetFacts DEF HInv, RLockWorking, SleepInv, FreshInv, Fresh, RecordInv, FromP, LevelInv, Counting, IInv, SlotInv, RRetInv, SessionInv
<1>3. LeaderInv' /\ GetInv' /\ CallInv'
  <2>1. NoNewAnswers
    BY DEF NoNewAnswers, RLockWorking
  <2>. QED BY <2>1, LeaderQuiet, GetQuiet DEF HInv, RLockWorking, CallInv
<1>4. AheadInv'
  BY HoldsSame DEF HInv, RLockWorking, AheadInv, Unsettled, FromP, IInv, MutexInv, WHolds, Free, TypeOK, CoordinatorTypeOK
<1>. QED BY <1>1, <1>2, <1>3, <1>4 DEF HInv

\* Whoever is ahead answers the query with its last id, and enters the table with it.
LEMMA RTableHistory ==
  ASSUME IInv, HInv, RTable, UNCHANGED pVars
  PROVE  HInv'
<1>1. /\ rpc = "table" /\ rpc' \in {"finish", "leader"} /\ txid >= TXID_START /\ txid \in Int
      /\ wpc \notin {"commit", "get", "vote"}
  BY DEF RTable, IInv, TypeOK, CoordinatorTypeOK, MutexInv, WHolds, RHolds, TXID_START
<1>2. ASSUME NEW p \in P_Id, NEW t \in TxIds, NEW c \in Cmds, t >= txid, Holds(p, t, c)
      PROVE  CoordCrash /\ t < ptxid[p] /\ maxTx'[p] = ptxid[p] - 1
  <2>1. CoordCrash /\ t < ptxid[p] /\ pstate[p] = "RECOVERY"
    BY <1>1, <1>2 DEF HInv, AheadInv, Unsettled, FromP
  <2>2. csock[p] = "open"
    BY <1>1, <1>2, HoldsOpen
  <2>3. rret[p].rc = "ok"
    BY <1>1, <2>1 DEF RTable, HInv, RecordInv
  <2>4. rret[p].data.txid = ptxid[p] - 1 /\ rret[p] # Got(EmptyReply)
    BY <1>1, <2>2, <2>3, AnswerFacts, RetFacts DEF IInv, SyncInv, AnswerInv
  <2>. QED BY <2>1, <2>3, <2>4 DEF RTable
<1>3. AheadInv'
  <2>1. ASSUME NEW p \in P_Id, NEW t \in TxIds, NEW c \in Cmds, t >= txid, Holds(p, t, c)
        PROVE  CoordCrash /\ t < ptxid[p] /\ rpc' = "leader" /\ maxTx'[p] # 0
    <3>1. CoordCrash /\ t < ptxid[p] /\ maxTx'[p] = ptxid[p] - 1
      BY <1>2, <2>1
    <3>2. ptxid[p] \in Int /\ t \in Int
      BY TxFacts DEF IInv, TypeOK, ParticipantTypeOK
    <3>3. maxTx'[p] # 0 /\ maxTx'[p] # txid - 1
      BY <1>1, <2>1, <3>1, <3>2 DEF TXID_START
    <3>4. ~Consistent({maxTx'[q] : q \in P_Id} \ {0})
      BY <3>3 DEF Consistent
    <3>. QED BY <3>1, <3>3, <3>4 DEF RTable
  <2>. QED BY <2>1, HoldsSame DEF RTable, AheadInv, Unsettled
<1>4. LogInv' /\ AgreeInv'
  BY LogsQuiet DEF HInv, RTable
<1>5. LevelInv'
  BY <1>1, AnswerFacts, RetFacts DEF HInv, RTable, LevelInv, Counting, IInv, TableInv, TypeOK,
     CoordinatorTypeOK, TXID_START
<1>6. SleepInv' /\ FreshInv' /\ RecordInv' /\ CallInv' /\ LeaderInv' /\ GetInv'
  BY <1>1 DEF HInv, RTable, SleepInv, FreshInv, Fresh, RecordInv, FromP, CallInv, LeaderInv, GetInv
<1>. QED BY <1>3, <1>4, <1>5, <1>6 DEF HInv

\* The leader leaves the table, but is known to be the one ahead.
LEMMA RLeadHistory ==
  ASSUME IInv, HInv, NEW i \in P_Id, RLead(i), UNCHANGED pVars
  PROVE  HInv'
<1>1. /\ rpc = "leader" /\ rpc' = "ask" /\ rLeader' = i /\ wpc \notin {"commit", "get", "vote"}
      /\ pstate' = [pstate EXCEPT ![i] = "WORKING"] /\ maxTx' = [maxTx EXCEPT ![i] = 0]
      /\ UNCHANGED <<wpc, cstate, txid>> /\ wpc' # "commit"
  BY DEF RLead, IInv, MutexInv, WHolds, RHolds
<1>2. pstate'[i] = "WORKING" /\ \A p \in P_Id : p # i => maxTx'[p] = maxTx[p]
  BY <1>1 DEF IInv, TypeOK, CoordinatorTypeOK
<1>3. AheadInv'
  BY <1>1, <1>2, HoldsSame DEF RLead, HInv, AheadInv, Unsettled, FromP
<1>4. CoordCrash /\ LevelInv'
  BY <1>1 DEF RLead, Leads, AheadP, HInv, LevelInv, Counting, IInv, TypeOK, CoordinatorTypeOK
<1>5. LogInv' /\ AgreeInv'
  BY LogsQuiet DEF HInv, RLead
<1>6. SleepInv' /\ FreshInv' /\ RecordInv' /\ CallInv' /\ LeaderInv' /\ GetInv'
  BY <1>1, <1>4 DEF HInv, RLead, SleepInv, FreshInv, Fresh, RecordInv, FromP, CallInv, LeaderInv, GetInv
<1>. QED BY <1>3, <1>4, <1>5, <1>6 DEF HInv

\* With nobody ahead in the table nobody is ahead at all, and the coordinator's log is sent.
LEMMA RFromCHistory ==
  ASSUME IInv, HInv, RFromC, UNCHANGED pVars
  PROVE  HInv'
<1>1. /\ rpc = "leader" /\ rpc' \in {"push", "finish"} /\ AheadP = {} /\ wpc # "commit"
      /\ (rpc' = "push" => rFrom' = "C") /\ ~FromP'
  BY DEF RFromC, IInv, MutexInv, WHolds, RHolds, FromP
<1>2. AheadInv'
  <2>1. ASSUME NEW p \in P_Id, NEW t \in TxIds, NEW c \in Cmds, t >= txid, Holds(p, t, c)
        PROVE  FALSE
    <3>1. t < ptxid[p] /\ maxTx[p] # 0
      BY <1>1, <2>1 DEF HInv, AheadInv, Unsettled, FromP
    <3>2. csock[p] = "open"
      BY <1>1, <2>1, HoldsOpen
    <3>3. rep[p] # OkReply
      BY <1>1, QuietSession DEF RHolds
    <3>4. ptxid[p] = maxTx[p] + 1
      BY <1>1, <3>1, <3>2, <3>3 DEF IInv, SyncInv, Counting
    <3>5. /\ t \in Int /\ txid \in Int /\ ptxid[p] \in Int /\ maxTx[p] \in Int
      BY TxFacts DEF IInv, TypeOK, CoordinatorTypeOK, ParticipantTypeOK, TXID_START
    <3>. QED BY <1>1, <2>1, <3>1, <3>4, <3>5 DEF AheadP
  <2>. QED BY <2>1, HoldsSame DEF RFromC, AheadInv
<1>3. LogInv' /\ AgreeInv'
  BY LogsQuiet DEF HInv, RFromC
<1>4. RecordInv'
  BY <1>1, LogFacts DEF HInv, RFromC, CLogRecord, RecordInv, IInv, MutexInv, WHolds, RHolds
<1>5. SleepInv' /\ FreshInv' /\ LevelInv' /\ CallInv' /\ LeaderInv' /\ GetInv'
  BY <1>1 DEF HInv, RFromC, SleepInv, FreshInv, Fresh, LevelInv, Counting, CallInv, LeaderInv, GetInv,
     IInv, MutexInv, WHolds, RHolds
<1>. QED BY <1>2, <1>3, <1>4, <1>5 DEF HInv

\* The leader is asked for a record; it has not answered yet.
LEMMA RAskHistory ==
  ASSUME IInv, HInv, RAsk, UNCHANGED pVars
  PROVE  HInv'
<1>1. rpc = "ask" /\ rpc' = "data" /\ rLeader' = rLeader /\ rLeader \in P_Id /\ wpc # "get"
  BY DEF RAsk, IInv, PhaseInv, FromP, MutexInv, WHolds, RHolds
<1>2. Vacant(ret[rLeader]) /\ pw[rLeader] # "wait"
  BY <1>1 DEF RAsk, IInv, SlotInv, RetInv, MutexInv, WHolds, RHolds
<1>3. LeaderInv'
  BY <1>1, <1>2, RetFacts DEF RAsk, LeaderInv
<1>4. AheadInv'
  BY HoldsSame DEF HInv, RAsk, AheadInv, Unsettled, FromP
<1>5. LogInv' /\ AgreeInv'
  BY LogsQuiet DEF HInv, RAsk
<1>6. SleepInv' /\ FreshInv' /\ RecordInv' /\ LevelInv' /\ CallInv' /\ GetInv'
  BY <1>1 DEF HInv, RAsk, SleepInv, FreshInv, Fresh, RecordInv, FromP, LevelInv, Counting, CallInv,
     GetInv
<1>. QED BY <1>3, <1>4, <1>5, <1>6 DEF HInv

\* The leader's log has been copied: it is not ahead any more, the others are in the table.
LEMMA RAskedAllHistory ==
  ASSUME IInv, HInv, RAskedAll, UNCHANGED pVars
  PROVE  HInv'
<1>1. /\ rpc = "ask" /\ rpc' = "leader" /\ rLeader \in P_Id /\ wpc \notin {"commit", "get"}
      /\ txid >= rMax + 1 /\ txid \in Int /\ rMax \in Int /\ FromP /\ RHolds
  BY DEF RAskedAll, IInv, PhaseInv, FromP, MutexInv, WHolds, RHolds, TypeOK, CoordinatorTypeOK,
     TXID_START
<1>2. AheadInv'
  <2>1. ASSUME NEW p \in P_Id, NEW t \in TxIds, NEW c \in Cmds, t >= txid, Holds(p, t, c)
        PROVE  CoordCrash /\ t < ptxid[p] /\ maxTx[p] # 0
    <3>1. /\ CoordCrash /\ t < ptxid[p]
          /\ maxTx[p] # 0 \/ (p = rLeader /\ pstate[p] = "WORKING")
      BY <1>1, <2>1 DEF HInv, AheadInv, Unsettled
    <3>2. CASE p = rLeader /\ pstate[p] = "WORKING"
      <4>1. csock[p] = "open"
        BY <1>1, <2>1, HoldsOpen
      <4>2. ptxid[p] = rMax + 1
        BY <1>1, <3>2, <4>1 DEF IInv, SyncInv
      <4>. QED BY <1>1, <2>1, <3>1, <4>2, TxFacts
    <3>. QED BY <3>1, <3>2
  <2>. QED BY <1>1, <2>1, HoldsSame DEF RAskedAll, AheadInv, Unsettled
<1>3. LogInv' /\ AgreeInv'
  BY LogsQuiet DEF HInv, RAskedAll
<1>4. SleepInv' /\ FreshInv' /\ RecordInv' /\ LevelInv' /\ CallInv' /\ LeaderInv' /\ GetInv'
  BY <1>1 DEF HInv, RAskedAll, SleepInv, FreshInv, Fresh, RecordInv, FromP, LevelInv, Counting, CallInv,
     LeaderInv, GetInv
<1>. QED BY <1>2, <1>3, <1>4 DEF HInv

\* The record of the leader is adopted when it is the next one; it is then what the
\* coordinator has under its id, and what everybody has who has something there.
LEMMA RDataAdopt ==
  ASSUME IInv, HInv, RData, ret[rLeader].rc = "ok", NEW l, l = ret[rLeader].data.log
  PROVE  /\ l \in Request /\ TrueRecord(l) /\ l.id = rMin /\ rMin <= txid /\ l.id \in TxIds
         /\ txid \in Int /\ rpc' = "push" /\ rFrom' = "P" /\ rLog' = l
         /\ IF l.id = txid THEN clog' = [clog EXCEPT ![txid] = Entry(l.st, l.ev)] /\ txid' = txid + 1
                           ELSE UNCHANGED <<clog, txid>>
<1>1. rpc = "data" /\ rLeader \in P_Id /\ FromP /\ rMin <= txid /\ txid \in Int
  BY DEF RData, IInv, PhaseInv, FromP, TypeOK, CoordinatorTypeOK, TXID_START
<1>2. LogAnswer(ret[rLeader].data) /\ ret[rLeader].data # EmptyReply /\ l.id \in TxIds
  BY <1>1, AnswerFacts, RecordFacts DEF IInv, AnswerInv
<1>3. ret[rLeader] # Got(EmptyReply)
  BY <1>2, RetFacts
<1>4. TrueRecord(l)
  BY <1>1 DEF HInv, LeaderInv
<1>. QED BY <1>1, <1>2, <1>3, <1>4 DEF RData, LogAnswer

\* The record of the leader is taken over, or the leader is gone and another is sought.
LEMMA RDataHistory ==
  ASSUME IInv, HInv, RData, UNCHANGED pVars
  PROVE  HInv'
<1>1. /\ rpc = "data" /\ FromP /\ CoordCrash /\ wpc \notin {"vote", "commit", "get"} /\ ~WHolds
      /\ clog \in [TxIds -> EntryType] /\ rLeader \in P_Id
      /\ rpc' \in {"push", "leader"} /\ wpc' = wpc
  BY DEF RData, HInv, RecordInv, FromP, IInv, MutexInv, WHolds, RHolds, TypeOK, CoordinatorTypeOK,
     PhaseInv
<1>2. CASE ret[rLeader].rc = "ok"
  <2>. DEFINE l == ret[rLeader].data.log
  <2>1. /\ l \in Request /\ TrueRecord(l) /\ l.id = rMin /\ rMin <= txid /\ l.id \in TxIds
        /\ txid \in Int /\ rpc' = "push" /\ rFrom' = "P" /\ rLog' = l
        /\ IF l.id = txid THEN clog' = [clog EXCEPT ![txid] = Entry(l.st, l.ev)] /\ txid' = txid + 1
                          ELSE UNCHANGED <<clog, txid>>
    BY <1>2, RDataAdopt
  <2>2. l.ev \in Cmds
    BY <2>1 DEF TrueRecord
  <2>3. /\ clog'[l.id].cmd = l.ev
        /\ \A t \in TxIds : t < txid => clog'[t] = clog[t]
        /\ \A t \in TxIds : t < txid' /\ t >= txid => t = l.id
        /\ txid' >= txid
    BY <1>1, <2>1, TxFacts DEF TrueRecord, Entry
  <2>4. LogInv'
    <3>1. \A t \in TxIds : t < txid' => clog'[t].cmd \in Cmds
      BY <2>1, <2>2, <2>3, TxFacts DEF HInv, LogInv
    <3>. QED BY <3>1, HoldsSame DEF RData, HInv, LogInv
  <2>5. AgreeInv'
    <3>1. ASSUME NEW p \in P_Id, NEW t \in TxIds, NEW c \in Cmds, t < txid', Holds(p, t, c)
          PROVE  clog'[t].cmd = c
      <4>1. CASE t < txid
        BY <2>3, <3>1, <4>1 DEF HInv, AgreeInv
      <4>2. CASE t >= txid
        BY <2>1, <2>3, <3>1, <4>2 DEF TrueRecord
      <4>. QED BY <2>1, <4>1, <4>2, TxFacts
    <3>. QED BY <3>1, HoldsSame DEF RData, HInv, AgreeInv
  <2>6. AheadInv'
    <3>1. ASSUME NEW t \in TxIds, t >= txid' PROVE t >= txid
      BY <2>1, <2>3, <3>1, TxFacts
    <3>2. FromP'
      BY <2>1 DEF FromP
    <3>. QED BY <1>1, <3>1, <3>2, HoldsSame DEF RData, HInv, AheadInv, Unsettled
  <2>7. RecordInv'
    BY <1>1, <2>1, <2>3 DEF RData, RecordInv
  <2>. QED BY <1>1, <2>1, <2>4, <2>5, <2>6, <2>7 DEF RData, HInv, SleepInv, FreshInv, Fresh, LevelInv,
           Counting, CallInv, LeaderInv, GetInv
<1>3. CASE ret[rLeader].rc # "ok"
  <2>1. rpc' = "leader" /\ UNCHANGED <<clog, txid>> /\ pstate[rLeader] # "WORKING"
    BY <1>1, <1>3 DEF RData, IInv, SlotInv, RetInv
  <2>2. AheadInv'
    BY <1>1, <2>1, HoldsSame DEF RData, HInv, AheadInv, Unsettled
  <2>3. LogInv' /\ AgreeInv'
    BY <2>1, LogsQuiet DEF HInv, RData
  <2>. QED BY <1>1, <2>1, <2>2, <2>3 DEF RData, HInv, SleepInv, FreshInv, Fresh, RecordInv, FromP,
           LevelInv, Counting, CallInv, LeaderInv, GetInv
<1>. QED BY <1>2, <1>3

\* The record is handed to one participant.
LEMMA RPushHistory ==
  ASSUME IInv, HInv, RPush, UNCHANGED pVars
  PROVE  HInv'
<1>1. LogInv' /\ AgreeInv'
  BY LogsQuiet DEF HInv, RPush
<1>2. SleepInv' /\ FreshInv' /\ RecordInv' /\ LevelInv'
  BY DEF HInv, RPush, SleepInv, FreshInv, Fresh, RecordInv, FromP, LevelInv, Counting
<1>3. LeaderInv' /\ GetInv' /\ CallInv'
  <2>1. NoNewAnswers
    BY DEF NoNewAnswers, RPush
  <2>. QED BY <2>1, LeaderQuiet, GetQuiet DEF HInv, RPush, CallInv
<1>4. AheadInv'
  BY HoldsSame DEF HInv, RPush, AheadInv, Unsettled, FromP
<1>. QED BY <1>1, <1>2, <1>3, <1>4 DEF HInv

\* The next participant or the next record of the coordinator follows.
LEMMA RPushedHistory ==
  ASSUME IInv, HInv, RPushed, UNCHANGED pVars
  PROVE  HInv'
<1>1. LogInv' /\ AgreeInv'
  BY LogsQuiet DEF HInv, RPushed, CLogRecord
<1>2. SleepInv' /\ FreshInv' /\ RecordInv' /\ LevelInv'
  BY LogFacts DEF HInv, RPushed, CLogRecord, SleepInv, FreshInv, Fresh, RecordInv, FromP, LevelInv, Counting, IInv, MutexInv, WHolds, RHolds, PhaseInv
<1>3. LeaderInv' /\ GetInv' /\ CallInv'
  <2>1. NoNewAnswers
    BY DEF NoNewAnswers, RPushed, CLogRecord
  <2>. QED BY <2>1, LeaderQuiet, GetQuiet DEF HInv, RPushed, CLogRecord, CallInv
<1>4. AheadInv'
  BY HoldsSame DEF HInv, RPushed, CLogRecord, AheadInv, Unsettled, FromP
<1>. QED BY <1>1, <1>2, <1>3, <1>4 DEF HInv

\* Nobody is ahead when the mutexes are released.
LEMMA RFinishHistory ==
  ASSUME IInv, HInv, RFinish, UNCHANGED pVars
  PROVE  HInv'
<1>1. LogInv' /\ AgreeInv'
  BY LogsQuiet DEF HInv, RFinish
<1>2. SleepInv' /\ FreshInv' /\ RecordInv' /\ LevelInv'
  BY DEF HInv, RFinish, SleepInv, FreshInv, Fresh, RecordInv, FromP, LevelInv, Counting
<1>3. LeaderInv' /\ GetInv' /\ CallInv'
  <2>1. NoNewAnswers
    BY DEF NoNewAnswers, RFinish
  <2>. QED BY <2>1, LeaderQuiet, GetQuiet DEF HInv, RFinish, CallInv
<1>4. AheadInv'
  BY HoldsSame DEF HInv, RFinish, AheadInv, Unsettled, FromP, IInv, MutexInv, WHolds, RHolds
<1>. QED BY <1>1, <1>2, <1>3, <1>4 DEF HInv

\* Nobody is ahead when clients are admitted again.
LEMMA RDoneHistory ==
  ASSUME IInv, HInv, RDone, UNCHANGED pVars
  PROVE  HInv'
<1>1. LogInv' /\ AgreeInv'
  BY LogsQuiet DEF HInv, RDone
<1>2. SleepInv' /\ FreshInv' /\ RecordInv' /\ LevelInv'
  BY DEF HInv, RDone, SleepInv, FreshInv, Fresh, RecordInv, FromP, LevelInv, Counting
<1>3. LeaderInv' /\ GetInv' /\ CallInv'
  <2>1. NoNewAnswers
    BY DEF NoNewAnswers, RDone
  <2>. QED BY <2>1, LeaderQuiet, GetQuiet DEF HInv, RDone, CallInv
<1>4. AheadInv'
  BY HoldsSame DEF HInv, RDone, AheadInv, Unsettled, FromP
<1>. QED BY <1>1, <1>2, <1>3, <1>4 DEF HInv

-----------------------------------------------------------------------------
(* The threads that serve one participant *)

\* A new session: what was on its way is gone.
LEMMA KeepAliveConnectHistory ==
  ASSUME IInv, HInv, NEW i \in P_Id, KeepAliveConnect(i), UNCHANGED pVars
  PROVE  HInv'
<1>1. /\ UNCHANGED <<txid, clog, wpc, rpc, pstate, ret, pw, pr, rret, cstate, wcmd, widx, maxTx>>
      /\ UNCHANGED <<rLeader, rFrom, rLog, ptxid, plog>>
      /\ csock' = [csock EXCEPT ![i] = "open"] /\ psock' = [psock EXCEPT ![i] = "attached"]
      /\ req' = [req EXCEPT ![i] = NoMsg] /\ rep' = [rep EXCEPT ![i] = NoReply]
  BY DEF KeepAliveConnect, Connect
<1>2. /\ \A p \in P_Id : p # i => /\ csock'[p] = csock[p] /\ psock'[p] = psock[p]
                                  /\ req'[p] = req[p] /\ rep'[p] = rep[p]
      /\ csock'[i] = "open" /\ psock'[i] = "attached" /\ req'[i] = NoMsg /\ rep'[i] = NoReply
  BY <1>1 DEF IInv, TypeOK, NetTypeOK
<1>3. /\ \A p \in P_Id : Pending(p)' => Pending(p) /\ p # i
      /\ NothingGained
  BY <1>1, <1>2 DEF NothingGained, Holds, Pending, Applies, EventParser
<1>4. LogInv' /\ AgreeInv'
  BY <1>1, <1>3, LogsShrink DEF HInv, LogInv
<1>5. NoNewAnswers
  BY <1>1, <1>2 DEF NoNewAnswers
<1>6. LeaderInv' /\ GetInv'
  BY <1>1, <1>3, <1>5, LeaderShrink, GetQuiet DEF HInv
<1>7. FreshInv'
  BY <1>1, <1>2 DEF HInv, FreshInv, Fresh
<1>8. AheadInv'
  BY <1>1, <1>3 DEF HInv, AheadInv, NothingGained, Unsettled, FromP
<1>9. LevelInv'
  BY <1>1, <1>2 DEF HInv, LevelInv, Counting
<1>10. SleepInv' /\ RecordInv' /\ CallInv'
  BY <1>1 DEF HInv, SleepInv, RecordInv, FromP, CallInv
<1>. QED BY <1>4, <1>6, <1>7, <1>8, <1>9, <1>10 DEF HInv

\* The participant waits for recovery; if it is ahead, that will be seen.
LEMMA KeepAliveTempHistory ==
  ASSUME IInv, HInv, NEW i \in P_Id, KeepAliveTemp(i), UNCHANGED pVars
  PROVE  HInv'
<1>1. ~RHolds /\ pstate[i] = "WAITING" /\ pstate' = [pstate EXCEPT ![i] = "TEMP"]
  BY DEF KeepAliveTemp, IInv, MutexInv, SessionInv, Free, RHolds, TypeOK, CoordinatorTypeOK
<1>2. pstate'[i] = "TEMP" /\ \A p \in P_Id : p # i => pstate'[p] = pstate[p]
  BY <1>1 DEF IInv, TypeOK, CoordinatorTypeOK
<1>3. LogInv' /\ AgreeInv'
  BY LogsQuiet DEF HInv, KeepAliveTemp
<1>4. NoNewAnswers
  BY DEF NoNewAnswers, KeepAliveTemp
<1>5. LeaderInv' /\ GetInv'
  BY <1>4, LeaderQuiet, GetQuiet DEF HInv, KeepAliveTemp
<1>6. AheadInv'
  BY <1>1, <1>2, HoldsSame DEF HInv, KeepAliveTemp, AheadInv, Unsettled, FromP, RHolds
<1>7. SleepInv' /\ FreshInv' /\ RecordInv' /\ LevelInv' /\ CallInv'
  BY <1>1 DEF HInv, KeepAliveTemp, SleepInv, FreshInv, Fresh, RecordInv, FromP, LevelInv, Counting,
     CallInv, RHolds
<1>. QED BY <1>3, <1>5, <1>6, <1>7 DEF HInv

\* A task that is skipped.
LEMMA PWorkingSkipHistory ==
  ASSUME IInv, HInv, NEW i \in P_Id, PWorkingSkip(i), UNCHANGED pVars
  PROVE  HInv'
<1>1. LogInv' /\ AgreeInv'
  BY LogsQuiet DEF HInv, PWorkingSkip
<1>2. NoNewAnswers
  BY RetFacts DEF NoNewAnswers, PWorkingSkip, IInv, TypeOK, CoordinatorTypeOK
<1>3. LeaderInv' /\ GetInv'
  BY <1>2, LeaderQuiet, GetQuiet DEF HInv, PWorkingSkip
<1>4. AheadInv'
  BY HoldsSame DEF HInv, PWorkingSkip, AheadInv, Unsettled, FromP
<1>5. SleepInv' /\ FreshInv' /\ RecordInv' /\ LevelInv' /\ CallInv'
  BY DEF HInv, PWorkingSkip, SleepInv, FreshInv, Fresh, RecordInv, FromP, LevelInv, Counting, CallInv
<1>. QED BY <1>1, <1>3, <1>4, <1>5 DEF HInv

\* An answer that was on its way is now in the slot.
LEMMA PWorkingRecvHistory ==
  ASSUME IInv, HInv, NEW i \in P_Id, PWorkingRecv(i), UNCHANGED pVars
  PROVE  HInv'
<1>1. LogInv' /\ AgreeInv'
  BY LogsQuiet DEF HInv, PWorkingRecv, RecvReply
<1>2. NoNewAnswers
  BY RetFacts DEF NoNewAnswers, PWorkingRecv, RecvReply, IInv, TypeOK, CoordinatorTypeOK, NetTypeOK
<1>3. LeaderInv' /\ GetInv'
  BY <1>2, LeaderQuiet, GetQuiet DEF HInv, PWorkingRecv, RecvReply
<1>4. AheadInv'
  BY HoldsSame DEF HInv, PWorkingRecv, RecvReply, AheadInv, Unsettled, FromP
<1>5. LevelInv'
  BY DEF HInv, PWorkingRecv, RecvReply, LevelInv, Counting, IInv, TypeOK, NetTypeOK
<1>6. SleepInv' /\ FreshInv' /\ RecordInv' /\ CallInv'
  BY DEF HInv, PWorkingRecv, RecvReply, SleepInv, FreshInv, Fresh, RecordInv, FromP, CallInv
<1>. QED BY <1>1, <1>3, <1>4, <1>5, <1>6 DEF HInv

\* A punctual session is given up only when the participant has died, with all it had.
LEMMA PWorkingFailHistory ==
  ASSUME IInv, HInv, ~NetFaults, NEW i \in P_Id, PWorkingFail(i), UNCHANGED pVars
  PROVE  HInv'
<1>1. /\ UNCHANGED <<txid, clog, wpc, rpc, pr, rret, cstate, wcmd, widx, maxTx>>
      /\ UNCHANGED <<rLeader, rFrom, rLog, ptxid, plog, psock, req>>
      /\ csock' = [csock EXCEPT ![i] = "closed"] /\ rep' = [rep EXCEPT ![i] = NoReply]
      /\ pstate' = [pstate EXCEPT ![i] = "WAITING"] /\ ret' = [ret EXCEPT ![i] = Failed]
      /\ pw' = [pw EXCEPT ![i] = "idle"] /\ pw[i] = "wait" /\ csock[i] # "open"
  BY DEF PWorkingFail, GiveUp
<1>2. /\ \A p \in P_Id : p # i => /\ csock'[p] = csock[p] /\ rep'[p] = rep[p]
                                  /\ pstate'[p] = pstate[p] /\ ret'[p] = ret[p] /\ pw'[p] = pw[p]
      /\ csock'[i] = "closed" /\ rep'[i] = NoReply /\ pstate'[i] = "WAITING"
      /\ ret'[i] = Failed /\ pw'[i] = "idle"
  BY <1>1 DEF IInv, TypeOK, NetTypeOK, CoordinatorTypeOK
<1>3. rpc # "sleep"
  BY <1>1 DEF IInv, SlotInv, TaskInv, HInv, SleepInv
<1>4. Fresh(i)
  BY <1>1, <1>3 DEF HInv, FreshInv
<1>5. \A t \in TxIds, c \in Cmds : ~Holds(i, t, c)
  BY <1>4, TxFacts DEF Fresh, Holds, Pending, TXID_START
<1>6. LogInv' /\ AgreeInv'
  BY <1>1, LogsQuiet DEF HInv
<1>7. NoNewAnswers
  BY <1>1, <1>2, RetFacts DEF NoNewAnswers
<1>8. LeaderInv' /\ GetInv'
  BY <1>1, <1>7, LeaderQuiet, GetQuiet DEF HInv
<1>9. AheadInv'
  BY <1>1, <1>2, <1>5, HoldsSame DEF HInv, AheadInv, Unsettled, FromP
<1>10. FreshInv'
  BY <1>1, <1>2, <1>4 DEF HInv, FreshInv, Fresh
<1>11. LevelInv' /\ RecordInv'
  BY <1>1, <1>2 DEF HInv, LevelInv, Counting, RecordInv, FromP
<1>12. SleepInv' /\ CallInv'
  BY <1>1 DEF HInv, SleepInv, CallInv
<1>. QED BY <1>6, <1>8, <1>9, <1>10, <1>11, <1>12 DEF HInv

\* A record or a query that is not for the participant.
LEMMA PRecoverySkipHistory ==
  ASSUME IInv, HInv, NEW i \in P_Id, PRecoverySkip(i), UNCHANGED pVars
  PROVE  HInv'
<1>1. LogInv' /\ AgreeInv'
  BY LogsQuiet DEF HInv, PRecoverySkip
<1>2. NoNewAnswers
  BY DEF NoNewAnswers, PRecoverySkip
<1>3. LeaderInv' /\ GetInv'
  BY <1>2, LeaderQuiet, GetQuiet DEF HInv, PRecoverySkip
<1>4. AheadInv'
  BY HoldsSame DEF HInv, PRecoverySkip, AheadInv, Unsettled, FromP
<1>5. rpc = "table" => pstate[i] # "RECOVERY"
  BY LogFacts DEF PRecoverySkip, PRecoveryDue, IInv, SlotInv, RTaskInv, RECOVERY_TXID, TXID_START
<1>6. RecordInv' /\ LevelInv'
  BY <1>5, RetFacts DEF HInv, PRecoverySkip, RecordInv, FromP, LevelInv, Counting, IInv, TypeOK,
     CoordinatorTypeOK
<1>7. SleepInv' /\ FreshInv' /\ CallInv'
  BY DEF HInv, PRecoverySkip, SleepInv, FreshInv, Fresh, CallInv
<1>. QED BY <1>1, <1>3, <1>4, <1>6, <1>7 DEF HInv

\* An answer to recovery: the entry of the table goes up to what has been sent.
LEMMA PRecoveryRecvHistory ==
  ASSUME IInv, HInv, NEW i \in P_Id, PRecoveryRecv(i), UNCHANGED pVars
  PROVE  HInv'
<1>1. /\ rpc \in {"table", "pushed"} /\ rpc' = rpc /\ ~(rpc' = "data") /\ wpc' # "get"
      /\ \A p \in P_Id : maxTx'[p] = maxTx[p] \/ (p = i /\ maxTx'[p] = maxTx[p] + 1)
      /\ rret' = [rret EXCEPT ![i] = Got(rep[i])] /\ pr[i] = "wait" /\ rep[i] # NoReply
      /\ \A p \in P_Id : rep'[p] # NoReply => rep'[p] = rep[p] /\ p # i
      /\ \A p \in P_Id : pr'[p] = "wait" => pr[p] = "wait"
  BY DEF PRecoveryRecv, RecvReply, IInv, SlotInv, RTaskInv, MutexInv, WHolds, RHolds, TypeOK,
     CoordinatorTypeOK, NetTypeOK
<1>2. \A p \in P_Id : maxTx[p] \in Nat
  BY DEF IInv, TypeOK, CoordinatorTypeOK, TXID_START
<1>3. LogInv' /\ AgreeInv'
  BY LogsQuiet DEF HInv, PRecoveryRecv, RecvReply
<1>4. LeaderInv' /\ GetInv'
  BY <1>1 DEF LeaderInv, GetInv
<1>5. AheadInv'
  <2>1. \A p \in P_Id : maxTx[p] # 0 => maxTx'[p] # 0
    BY <1>1, <1>2
  <2>. QED BY <2>1, HoldsSame DEF HInv, PRecoveryRecv, RecvReply, AheadInv, Unsettled, FromP
<1>6. rret'[i] = Got(rep[i]) /\ \A p \in P_Id : p # i => rret'[p] = rret[p]
  BY <1>1 DEF IInv, TypeOK, CoordinatorTypeOK
<1>7. RecordInv'
  BY <1>6, RetFacts DEF HInv, PRecoveryRecv, RecvReply, RecordInv, FromP
<1>8. LevelInv'
  <2>1. rpc = "pushed" => maxTx[i] + 1 < txid
    <3>1. ASSUME rpc = "pushed" PROVE rtask[i] = rLog /\ rtask[i].id >= TXID_START /\ rLog.id < txid
      BY <1>1, <3>1 DEF IInv, SlotInv, RTaskInv, PhaseInv
    <3>. QED BY <1>1, <3>1 DEF IInv, SlotInv, PRecoveryDue
  <2>2. txid' = txid
    BY DEF PRecoveryRecv
  <2>. QED BY <1>1, <1>6, <2>1, <2>2, RetFacts DEF HInv, LevelInv, Counting
<1>9. SleepInv' /\ FreshInv' /\ CallInv'
  BY DEF HInv, PRecoveryRecv, RecvReply, SleepInv, FreshInv, Fresh, CallInv
<1>. QED BY <1>3, <1>4, <1>5, <1>7, <1>8, <1>9 DEF HInv

\* Who dies while it recovers leaves the table.
LEMMA PRecoveryFailHistory ==
  ASSUME IInv, HInv, ~NetFaults, NEW i \in P_Id, PRecoveryFail(i), UNCHANGED pVars
  PROVE  HInv'
<1>1. /\ UNCHANGED <<txid, clog, wpc, rpc, pw, ret, cstate, wcmd, widx>>
      /\ UNCHANGED <<rLeader, rFrom, rLog, ptxid, plog, psock, req>>
      /\ csock' = [csock EXCEPT ![i] = "closed"] /\ rep' = [rep EXCEPT ![i] = NoReply]
      /\ pstate' = [pstate EXCEPT ![i] = "WAITING"] /\ maxTx' = [maxTx EXCEPT ![i] = 0]
      /\ rret' = [rret EXCEPT ![i] = Failed] /\ pr' = [pr EXCEPT ![i] = "idle"]
      /\ pr[i] = "wait" /\ csock[i] # "open"
  BY DEF PRecoveryFail, GiveUp
<1>2. /\ \A p \in P_Id : p # i => /\ csock'[p] = csock[p] /\ rep'[p] = rep[p] /\ maxTx'[p] = maxTx[p]
                                  /\ pstate'[p] = pstate[p] /\ rret'[p] = rret[p] /\ pr'[p] = pr[p]
      /\ csock'[i] = "closed" /\ rep'[i] = NoReply /\ pstate'[i] = "WAITING"
      /\ rret'[i] = Failed /\ pr'[i] = "idle" /\ maxTx'[i] = 0
  BY <1>1 DEF IInv, TypeOK, NetTypeOK, CoordinatorTypeOK
<1>3. rpc \in {"table", "pushed"} /\ wpc # "get" /\ txid > 0
  BY <1>1 DEF IInv, SlotInv, RTaskInv, MutexInv, WHolds, RHolds, TypeOK, CoordinatorTypeOK, TXID_START
<1>4. Fresh(i)
  BY <1>1, <1>3 DEF HInv, FreshInv
<1>5. \A t \in TxIds, c \in Cmds : ~Holds(i, t, c)
  BY <1>4, TxFacts DEF Fresh, Holds, Pending, TXID_START
<1>6. LogInv' /\ AgreeInv'
  BY <1>1, LogsQuiet DEF HInv
<1>7. LeaderInv' /\ GetInv'
  BY <1>1, <1>3 DEF LeaderInv, GetInv
<1>8. AheadInv'
  BY <1>1, <1>2, <1>5, HoldsSame DEF HInv, AheadInv, Unsettled, FromP
<1>9. FreshInv'
  BY <1>1, <1>2, <1>4 DEF HInv, FreshInv, Fresh
<1>10. LevelInv' /\ RecordInv'
  BY <1>1, <1>2, <1>3, RetFacts DEF HInv, LevelInv, Counting, RecordInv, FromP
<1>11. SleepInv' /\ CallInv'
  BY <1>1 DEF HInv, SleepInv, CallInv
<1>. QED BY <1>6, <1>7, <1>8, <1>9, <1>10, <1>11 DEF HInv

\* A request is put into a live session only, and nothing else changes there.
LEMMA SendFacts ==
  ASSUME IInv, HInv, NEW i \in P_Id, NEW m, SendRequest(i, m), UNCHANGED <<pVars, rpc>>
  PROVE  /\ UNCHANGED <<csock, psock, rep>>
         /\ \A p \in P_Id : req'[p] = IF p = i /\ csock[i] = "open" THEN m ELSE req[p]
         /\ FreshInv'
<1>1. \A p \in P_Id : req'[p] = IF p = i /\ csock[i] = "open" THEN m ELSE req[p]
  BY DEF SendRequest, IInv, TypeOK, NetTypeOK
<1>2. UNCHANGED <<csock, psock, rep>>
  BY DEF SendRequest
<1>3. \A p \in P_Id : csock[p] # "open" => (Fresh(p)' <=> Fresh(p))
  BY <1>1, <1>2 DEF Fresh
<1>4. FreshInv'
  BY <1>1, <1>2, <1>3 DEF HInv, FreshInv
<1>. QED BY <1>1, <1>2, <1>4

\* The vote, the query and the GET are no commits; the commit is that of the command, and
\* who is ahead of the coordinator can only be so by that command.
LEMMA PWorkingSendHistory ==
  ASSUME IInv, HInv, NEW i \in P_Id, PWorkingSend(i), UNCHANGED pVars
  PROVE  HInv'
<1>1. /\ UNCHANGED <<txid, clog, wpc, rpc, pstate, ret, pr, rret, cstate, wcmd, widx, maxTx>>
      /\ UNCHANGED <<rLeader, rFrom, rLog, ptxid, plog, csock, psock, rep>>
      /\ pw' = [pw EXCEPT ![i] = "wait"] /\ pstate[i] = "WORKING" /\ task[i] # NoMsg
      /\ pw[i] = "idle"
  BY DEF PWorkingSend, SendRequest
<1>2. /\ \A p \in P_Id : req'[p] = IF p = i /\ csock[i] = "open" THEN task[i] ELSE req[p]
      /\ FreshInv'
  BY <1>1, SendFacts DEF PWorkingSend
<1>3. rep[i] = NoReply
  BY <1>1 DEF IInv, SessionInv, SlotInv, PRecoveryDue
<1>4. pw'[i] = "wait" /\ \A p \in P_Id : p # i => pw'[p] = pw[p]
  BY <1>1 DEF IInv, TypeOK, CoordinatorTypeOK
<1>5. NoNewAnswers
  BY <1>1, <1>3, <1>4 DEF NoNewAnswers
<1>6. SleepInv' /\ RecordInv' /\ LevelInv' /\ CallInv' /\ GetInv'
  BY <1>1, <1>5, GetQuiet DEF HInv, SleepInv, RecordInv, FromP, LevelInv, Counting, CallInv
<1>7. CASE wpc # "commit" \/ csock[i] # "open"
  <2>1. csock[i] = "open" => ~Applies(i, task[i])
    BY <1>1, <1>7, LogFacts DEF IInv, SlotInv, TaskInv, Applies, AskLog, TXID_START,
       SUPER_TXID, ASK_DATA_TXID, LOG_PRE, LOG_COMMIT
  <2>2. \A p \in P_Id : Pending(p)' => Pending(p) /\ req'[p] = req[p]
    BY <1>1, <1>2, <2>1 DEF Pending, Applies, EventParser
  <2>3. NothingGained
    BY <1>1, <2>2 DEF NothingGained, Holds
  <2>4. LogInv' /\ AgreeInv'
    BY <1>1, <2>3, LogsShrink DEF HInv, LogInv
  <2>5. LeaderInv'
    BY <1>1, <1>5, <2>3, LeaderShrink DEF HInv
  <2>6. AheadInv'
    BY <1>1, <2>3 DEF HInv, AheadInv, NothingGained, Unsettled, FromP
  <2>. QED BY <1>2, <1>6, <2>4, <2>5, <2>6 DEF HInv
<1>8. CASE wpc = "commit" /\ csock[i] = "open"
  <2>1. /\ task[i] = Log(txid, LOG_COMMIT, wcmd) /\ wcmd \in Cmds /\ txid \in TxIds
        /\ rpc # "sleep" /\ ~RHolds
    BY <1>1, <1>8, TxFacts DEF IInv, SlotInv, TaskInv, PhaseInv, MutexInv, WHolds, RHolds, HInv,
       SleepInv, TypeOK, CoordinatorTypeOK, TXID_START
  <2>2. \A p \in P_Id : Pending(p)' => \/ Pending(p) /\ req'[p] = req[p]
                                       \/ p = i /\ req'[p] = Log(txid, LOG_COMMIT, wcmd)
    BY <1>1, <1>2, <2>1 DEF Pending, Applies, EventParser
  <2>3. \A p \in P_Id, t \in TxIds, c \in Cmds :
          Holds(p, t, c)' => Holds(p, t, c) \/ (p = i /\ t = txid /\ c = wcmd)
    BY <1>1, <2>2, LogFacts DEF Holds
  <2>4. \A p \in P_Id, c \in Cmds : Holds(p, txid, c) => c = wcmd
    BY <1>8, <2>1, TxFacts DEF HInv, AheadInv, Unsettled, RHolds, FromP
  <2>5. LogInv'
    BY <1>1, <2>1, <2>2, LogFacts DEF HInv, LogInv
  <2>6. AgreeInv'
    BY <1>1, <2>1, <2>3, <2>4, TxFacts DEF HInv, AgreeInv
  <2>7. AheadInv'
    BY <1>1, <1>8, <2>3 DEF HInv, AheadInv, Unsettled, FromP
  <2>8. LeaderInv'
    BY <1>1, <2>1 DEF LeaderInv, RHolds
  <2>. QED BY <1>2, <1>6, <2>5, <2>6, <2>7, <2>8 DEF HInv
<1>. QED BY <1>7, <1>8

\* The record that recovery sends is what the coordinator has under its id.
LEMMA PRecoverySendHistory ==
  ASSUME IInv, HInv, NEW i \in P_Id, PRecoverySend(i), UNCHANGED pVars
  PROVE  HInv'
<1>1. /\ UNCHANGED <<txid, clog, wpc, rpc, pstate, ret, pw, rret, cstate, wcmd, widx, maxTx>>
      /\ UNCHANGED <<rLeader, rFrom, rLog, ptxid, plog, csock, psock, rep>>
      /\ pr' = [pr EXCEPT ![i] = "wait"] /\ pstate[i] = "RECOVERY" /\ rtask[i] # NoMsg
      /\ pr[i] = "idle" /\ rpc \in {"table", "pushed"}
  BY DEF PRecoverySend, SendRequest, PRecoveryDue, IInv, SlotInv, RTaskInv
<1>2. /\ \A p \in P_Id : req'[p] = IF p = i /\ csock[i] = "open" THEN rtask[i] ELSE req[p]
      /\ FreshInv'
  BY <1>1, SendFacts DEF PRecoverySend
<1>3. rep[i] = NoReply
  BY <1>1 DEF IInv, SessionInv
<1>4. pr'[i] = "wait" /\ \A p \in P_Id : p # i => pr'[p] = pr[p]
  BY <1>1 DEF IInv, TypeOK, CoordinatorTypeOK
<1>5. NoNewAnswers
  BY <1>1 DEF NoNewAnswers
<1>6. SleepInv' /\ RecordInv' /\ LevelInv' /\ CallInv' /\ GetInv' /\ LeaderInv'
  BY <1>1, <1>3, <1>4, <1>5, GetQuiet DEF HInv, SleepInv, RecordInv, FromP, LevelInv, Counting,
     CallInv, LeaderInv
<1>7. CASE rpc = "table"
  <2>1. ~Applies(i, rtask[i])
    BY <1>1, <1>7, LogFacts DEF IInv, SlotInv, RTaskInv, Applies, TXID_START, RECOVERY_TXID
  <2>2. \A p \in P_Id : Pending(p)' => Pending(p) /\ req'[p] = req[p]
    BY <1>1, <1>2, <2>1 DEF Pending, Applies, EventParser
  <2>3. NothingGained
    BY <1>1, <2>2 DEF NothingGained, Holds
  <2>4. LogInv' /\ AgreeInv'
    BY <1>1, <2>3, LogsShrink DEF HInv, LogInv
  <2>5. AheadInv'
    BY <1>1, <2>3 DEF HInv, AheadInv, NothingGained, Unsettled, FromP
  <2>. QED BY <1>2, <1>6, <2>4, <2>5 DEF HInv
<1>8. CASE rpc = "pushed"
  <2>1. /\ rtask[i] = rLog /\ rLog.id \in TxIds /\ rLog.id < txid
        /\ clog[rLog.id].cmd = rLog.ev /\ rLog.ev \in Cmds
    BY <1>1, <1>8, RequestFacts DEF IInv, SlotInv, RTaskInv, PhaseInv, HInv, RecordInv, LogInv
  <2>2. \A p \in P_Id : Pending(p)' => \/ Pending(p) /\ req'[p] = req[p]
                                       \/ p = i /\ req'[p] = rLog
    BY <1>1, <1>2, <2>1 DEF Pending, Applies, EventParser
  <2>3. \A p \in P_Id, t \in TxIds, c \in Cmds :
          Holds(p, t, c)' => Holds(p, t, c) \/ (p = i /\ t = rLog.id /\ c = rLog.ev)
    BY <1>1, <2>2 DEF Holds
  <2>4. \A p \in P_Id, c \in Cmds : Holds(p, rLog.id, c) => c = rLog.ev
    BY <2>1 DEF HInv, AgreeInv
  <2>5. LogInv'
    BY <1>1, <2>1, <2>2 DEF HInv, LogInv
  <2>6. AgreeInv'
    BY <1>1, <2>1, <2>3, <2>4 DEF HInv, AgreeInv
  <2>7. txid \in Int
    BY DEF IInv, TypeOK, CoordinatorTypeOK, TXID_START
  <2>8. AheadInv'
    BY <1>1, <2>1, <2>3, <2>7, TxFacts DEF HInv, AheadInv, Unsettled, FromP
  <2>. QED BY <1>2, <1>6, <2>5, <2>6, <2>8 DEF HInv
<1>. QED BY <1>1, <1>7, <1>8

-----------------------------------------------------------------------------
(* The participants, and the failures *)

\* What p executes it held already; nothing changes for anybody else.
LEMMA ServeKeeps ==
  ASSUME IInv, HInv, NEW i \in P_Id, Serve(i)
  PROVE  /\ NothingGained
         /\ \A p \in P_Id, t \in TxIds : plog'[p][t] # NoCmd <=> t < ptxid'[p]
         /\ \A p \in P_Id : ptxid'[p] >= ptxid[p]
<1>1. /\ req[i] \in Request /\ req'[i] = NoMsg
      /\ \A p \in P_Id : p # i => req'[p] = req[p]
  BY DEF Serve, Answer, IInv, TypeOK, NetTypeOK
<1>2. \A p \in P_Id : ptxid[p] \in Int /\ plog[p] \in [TxIds -> Cmds \cup {NoCmd}]
  BY DEF IInv, TypeOK, ParticipantTypeOK, TXID_START, DbImage
<1>3. CASE ~Applies(i, req[i])
  <2>1. UNCHANGED pVars
    BY <1>3 DEF Serve
  <2>2. \A p \in P_Id : Pending(p)' => Pending(p) /\ req'[p] = req[p]
    BY <1>1, <2>1 DEF Pending, Applies, EventParser
  <2>. QED BY <1>2, <2>1, <2>2 DEF NothingGained, Holds, HInv, LogInv
<1>4. CASE Applies(i, req[i])
  <2>1. Pending(i) /\ req[i].id = ptxid[i] /\ req[i].id \in TxIds /\ req[i].ev \in Cmds
    BY <1>1, <1>4, RequestFacts DEF Serve, Pending, Applies, HInv, LogInv
  <2>2. /\ ptxid'[i] = ptxid[i] + 1 /\ \A p \in P_Id : p # i => ptxid'[p] = ptxid[p]
        /\ \A p \in P_Id : p # i => plog'[p] = plog[p]
        /\ plog'[i][req[i].id] = req[i].ev
        /\ \A t \in TxIds : t # req[i].id => plog'[i][t] = plog[i][t]
    BY <1>2, <1>4, <2>1 DEF Serve, IInv, TypeOK, ParticipantTypeOK
  <2>3. \A p \in P_Id : Pending(p)' => Pending(p) /\ req'[p] = req[p]
    BY <1>1, <2>2 DEF Pending, Applies, EventParser
  <2>4. \A p \in P_Id, t \in TxIds, c \in Cmds : Holds(p, t, c)' => Holds(p, t, c)
    <3>1. ASSUME NEW t \in TxIds, NEW c \in Cmds, Holds(i, t, c)' PROVE Holds(i, t, c)
      BY <1>1, <1>2, <2>1, <2>2, <3>1, TxFacts DEF Holds, Pending
    <3>2. ASSUME NEW p \in P_Id, p # i, NEW t \in TxIds, NEW c \in Cmds, Holds(p, t, c)'
          PROVE  Holds(p, t, c)
      BY <1>1, <2>2, <2>3, <3>2 DEF Holds
    <3>. QED BY <3>1, <3>2
  <2>5. \A p \in P_Id, t \in TxIds : plog'[p][t] # NoCmd <=> t < ptxid'[p]
    <3>1. ASSUME NEW t \in TxIds PROVE plog'[i][t] # NoCmd <=> t < ptxid'[i]
      <4>1. CASE t = req[i].id
        BY <1>2, <2>1, <2>2, <4>1, CmdAssumption
      <4>2. CASE t # req[i].id
        BY <1>2, <2>1, <2>2, <4>2, TxFacts DEF HInv, LogInv
      <4>. QED BY <4>1, <4>2
    <3>. QED BY <2>2, <3>1 DEF HInv, LogInv
  <2>. QED BY <1>2, <2>2, <2>3, <2>4, <2>5 DEF NothingGained
<1>. QED BY <1>3, <1>4

\* The record under id t in p's log is what everybody has there.
LEMMA OwnRecord ==
  ASSUME IInv, HInv, NEW p \in P_Id, NEW t \in TxIds, t < ptxid[p]
  PROVE  Holds(p, t, plog[p][t]) /\ plog[p][t] \in Cmds
BY DEF IInv, TypeOK, ParticipantTypeOK, DbImage, HInv, LogInv, Holds

\* What the leader reads from its log is true.
LEMMA ServeLeader ==
  ASSUME IInv, HInv, NEW i \in P_Id, Serve(i), UNCHANGED cVars, csock[i] = "open",
         rpc = "data", i = rLeader, pw[i] = "wait"
  PROVE  rep'[i].log.id \in TxIds /\ TrueRecord(rep'[i].log)
<1>1. req[i] # NoMsg /\ pstate[i] = "WORKING" /\ pr[i] # "wait"
  BY DEF Serve, IInv, SessionInv, SlotInv, PRecoveryDue
<1>2. req[i] = task[i]
  BY <1>1 DEF IInv, SessionInv
<1>3. req[i] = AskLog(rMin)
  BY <1>1, <1>2 DEF IInv, SlotInv, TaskInv, MutexInv, WHolds, RHolds
<1>4. rMin \in TxIds /\ rMin < ptxid[i]
  <2>1. ptxid[i] = rMax + 1
    BY <1>1 DEF IInv, SyncInv, RHolds, FromP
  <2>2. rMin >= TXID_START /\ rMin <= rMax /\ rMin \in Int /\ rMax \in Int /\ rMax <= MaxTx
    BY LoggerAssumption DEF IInv, PhaseInv, FromP, TypeOK, CoordinatorTypeOK, TXID_START
  <2>. QED BY <2>1, <2>2, TxFacts, LoggerAssumption
<1>5. rep'[i] = LogReply(Log(rMin, LOG_COMMIT, plog[i][rMin]))
  <2>1. PWorker(i, req[i]) = LogReply(Log(rMin, LOG_COMMIT, plog[i][rMin]))
    BY <1>3, <1>4, RequestFacts, TxFacts DEF PWorker, SUPER_TXID, RECOVERY_TXID, ASK_DATA_TXID,
       IInv, TypeOK, ParticipantTypeOK
  <2>. QED BY <2>1 DEF Serve, Answer, IInv, TypeOK, NetTypeOK
<1>6. rep'[i].log = Log(rMin, LOG_COMMIT, plog[i][rMin])
  BY <1>5 DEF LogReply
<1>7. Holds(i, rMin, plog[i][rMin]) /\ plog[i][rMin] \in Cmds
  BY <1>4, OwnRecord
<1>. QED BY <1>4, <1>6, <1>7, LogFacts DEF TrueRecord, HInv, AgreeInv

\* What a participant answers to a GET is what has been committed.
LEMMA ServeGet ==
  ASSUME IInv, HInv, NEW i \in P_Id, Serve(i), UNCHANGED cVars, csock[i] = "open",
         wpc = "get", i = widx, pw[i] = "wait"
  PROVE  rep'[i] = DbReply(CommittedDb)
<1>1. req[i] # NoMsg /\ pstate[i] = "WORKING" /\ pr[i] # "wait"
  BY DEF Serve, IInv, SessionInv, SlotInv, PRecoveryDue
<1>2. req[i] = task[i]
  BY <1>1 DEF IInv, SessionInv
<1>3. req[i] = Log(SUPER_TXID, LOG_COMMIT, NoCmd)
  BY <1>1, <1>2 DEF IInv, SlotInv, TaskInv, MutexInv, WHolds, RHolds
<1>4. rep'[i] = DbReply(plog[i])
  BY <1>3, LogFacts DEF Serve, Answer, PWorker, IInv, TypeOK, NetTypeOK
<1>5. ptxid[i] = txid
  BY <1>1 DEF IInv, SyncInv, MutexInv, WHolds, RHolds
<1>6. plog[i] = CommittedDb
  <2>1. ASSUME NEW t \in TxIds PROVE plog[i][t] = CommittedDb[t]
    <3>1. CASE t < txid
      BY <1>5, <3>1, OwnRecord DEF CommittedDb, HInv, AgreeInv
    <3>2. CASE ~(t < txid)
      BY <1>5, <3>2 DEF CommittedDb, HInv, LogInv
    <3>. QED BY <3>1, <3>2
  <2>. QED BY <2>1 DEF IInv, TypeOK, ParticipantTypeOK, DbImage, CommittedDb
<1>. QED BY <1>4, <1>6

\* Nobody is ahead of a coordinator that is never killed, while it recovers.
LEMMA ServeLevel ==
  ASSUME IInv, HInv, NEW i \in P_Id, ~CoordCrash, rpc = "table"
  PROVE  ptxid[i] - 1 < txid
<1>1. ptxid[i] \in TXID_START..(MaxTx + 1) /\ txid \in Int /\ txid >= TXID_START /\ MaxTx \in Int
  BY LoggerAssumption DEF IInv, TypeOK, ParticipantTypeOK, CoordinatorTypeOK, TXID_START
<1>2. CASE ptxid[i] = TXID_START
  BY <1>1, <1>2 DEF TXID_START
<1>3. CASE ptxid[i] > TXID_START
  <2>1. ptxid[i] - 1 \in TxIds /\ ptxid[i] - 1 < ptxid[i]
    BY <1>1, <1>3, TxFacts DEF TXID_START
  <2>2. Holds(i, ptxid[i] - 1, plog[i][ptxid[i] - 1]) /\ plog[i][ptxid[i] - 1] \in Cmds
    BY <2>1, OwnRecord
  <2>3. wpc # "commit"
    BY DEF IInv, MutexInv, WHolds, RHolds
  <2>4. ~(ptxid[i] - 1 >= txid)
    BY <2>1, <2>2, <2>3 DEF HInv, AheadInv
  <2>. QED BY <1>1, <2>4
<1>. QED BY <1>1, <1>2, <1>3 DEF TXID_START

\* The participant handles its request.
LEMMA ServeHistory ==
  ASSUME IInv, HInv, NEW i \in P_Id, Serve(i), UNCHANGED cVars
  PROVE  HInv'
<1>1. /\ UNCHANGED <<txid, clog, wpc, rpc, pstate, ret, pw, pr, rret, cstate, wcmd, widx, maxTx>>
      /\ UNCHANGED <<rLeader, rFrom, rLog, csock, psock>>
      /\ psock[i] = "attached" /\ req[i] # NoMsg
      /\ \A p \in P_Id : p # i => rep'[p] = rep[p] /\ req'[p] = req[p] /\ ptxid'[p] = ptxid[p]
                                  /\ plog'[p] = plog[p]
      /\ csock[i] # "open" => rep'[i] = rep[i]
  BY DEF Serve, Answer, IInv, TypeOK, NetTypeOK, ParticipantTypeOK
<1>2. /\ NothingGained
      /\ \A p \in P_Id, t \in TxIds : plog'[p][t] # NoCmd <=> t < ptxid'[p]
      /\ \A p \in P_Id : ptxid'[p] >= ptxid[p]
  BY ServeKeeps
<1>3. LogInv' /\ AgreeInv'
  BY <1>1, <1>2, LogsShrink DEF HInv
<1>4. AheadInv'
  <2>1. \A p \in P_Id, t \in TxIds : t < ptxid[p] => t < ptxid'[p]
    BY <1>1, <1>2, TxFacts DEF Serve, IInv, TypeOK, ParticipantTypeOK, TXID_START
  <2>2. \A p \in P_Id : Unsettled(p) => Unsettled(p)'
    BY <1>1 DEF Unsettled, FromP
  <2>. QED BY <1>1, <1>2, <2>1, <2>2 DEF HInv, AheadInv, NothingGained
<1>5. FreshInv'
  <2>1. ~Fresh(i)
    BY <1>1 DEF Fresh
  <2>2. \A p \in P_Id : p # i => (Fresh(p)' <=> Fresh(p))
    BY <1>1 DEF Fresh
  <2>. QED BY <1>1, <2>1, <2>2 DEF HInv, FreshInv
<1>6. LevelInv'
  <2>1. ASSUME ~CoordCrash, rpc = "table", NEW p \in P_Id, pr[p] = "wait", rep'[p] # NoReply
        PROVE  rep'[p].txid < txid
    <3>1. CASE rep'[p] = rep[p]
      BY <2>1, <3>1 DEF HInv, LevelInv
    <3>2. CASE rep'[p] # rep[p]
      <4>1. p = i /\ csock[i] = "open"
        BY <1>1, <3>2
      <4>2. pstate[i] = "RECOVERY" /\ pw[i] # "wait"
        BY <2>1, <4>1 DEF IInv, SlotInv, SessionInv, PRecoveryDue
      <4>3. req[i] = Log(RECOVERY_TXID, LOG_PRE, NoCmd)
        BY <1>1, <2>1, <4>1, <4>2 DEF IInv, SessionInv, SlotInv, RTaskInv
      <4>4. PWorker(i, req[i]) = TxReply(ptxid[i] - 1)
        BY <4>3, LogFacts DEF PWorker, RECOVERY_TXID, SUPER_TXID
      <4>5. rep'[i].txid = ptxid[i] - 1
        BY <4>1, <4>4, AnswerFacts DEF Serve, Answer, IInv, TypeOK, NetTypeOK
      <4>. QED BY <2>1, <4>1, <4>5, ServeLevel
    <3>. QED BY <3>1, <3>2
  <2>. QED BY <1>1, <2>1 DEF HInv, LevelInv, Counting
<1>7. LeaderInv'
  <2>1. CASE csock[i] = "open" /\ rpc = "data" /\ i = rLeader /\ pw[i] = "wait"
    <3>1. rep'[i].log.id \in TxIds /\ TrueRecord(rep'[i].log)
      BY <2>1, ServeLeader
    <3>2. TrueRecord(rep[i].log)'
      BY <1>1, <1>2, <3>1 DEF TrueRecord, NothingGained
    <3>3. ret[i].rc # "ok"
      BY <2>1, RetFacts DEF IInv, SlotInv
    <3>. QED BY <1>1, <2>1, <3>2, <3>3 DEF LeaderInv
  <2>2. CASE ~(csock[i] = "open" /\ rpc = "data" /\ i = rLeader /\ pw[i] = "wait")
    <3>1. ASSUME rpc = "data"
          PROVE  pw[rLeader] = "wait" => rep'[rLeader] = rep[rLeader]
      BY <1>1, <2>2, <3>1 DEF IInv, PhaseInv, FromP
    <3>2. ASSUME rpc = "data", NEW r, r.id \in TxIds, TrueRecord(r) PROVE TrueRecord(r)'
      BY <1>1, <1>2, <3>2 DEF TrueRecord, NothingGained
    <3>. QED BY <1>1, <3>1, <3>2, RecordFacts DEF HInv, LeaderInv
  <2>. QED BY <2>1, <2>2
<1>8. GetInv'
  <2>1. CommittedDb' = CommittedDb /\ widx \in P_Id
    BY <1>1 DEF CommittedDb, IInv, TypeOK, CoordinatorTypeOK, P_Id
  <2>2. wpc = "get" /\ pw[widx] = "wait" /\ rep'[widx] # rep[widx] => rep'[widx] = DbReply(CommittedDb)
    BY <1>1, <2>1, ServeGet
  <2>. QED BY <1>1, <2>1, <2>2 DEF HInv, GetInv
<1>9. SleepInv' /\ RecordInv' /\ CallInv'
  BY <1>1 DEF HInv, SleepInv, RecordInv, FromP, CallInv
<1>. QED BY <1>3, <1>4, <1>5, <1>6, <1>7, <1>8, <1>9 DEF HInv

\* The participant hears that the coordinator has hung up.
LEMMA ReacceptHistory ==
  ASSUME IInv, HInv, NEW i \in P_Id, Reaccept(i), UNCHANGED cVars
  PROVE  HInv'
<1>1. /\ UNCHANGED <<txid, clog, wpc, rpc, pstate, ret, pw, pr, rret, cstate, wcmd, widx, maxTx>>
      /\ UNCHANGED <<rLeader, rFrom, rLog, ptxid, plog, csock, rep>>
      /\ psock' = [psock EXCEPT ![i] = "listen"] /\ req' = [req EXCEPT ![i] = NoMsg]
      /\ psock[i] = "attached" /\ csock[i] # "open"
  BY DEF Reaccept, ReadEof
<1>2. /\ \A p \in P_Id : p # i => psock'[p] = psock[p] /\ req'[p] = req[p]
      /\ psock'[i] = "listen" /\ req'[i] = NoMsg
  BY <1>1 DEF IInv, TypeOK, NetTypeOK
<1>3. /\ \A p \in P_Id : Pending(p)' => Pending(p) /\ p # i
      /\ NothingGained
  BY <1>1, <1>2 DEF NothingGained, Holds, Pending, Applies, EventParser
<1>4. LogInv' /\ AgreeInv'
  BY <1>1, <1>3, LogsShrink DEF HInv, LogInv
<1>5. NoNewAnswers
  BY <1>1 DEF NoNewAnswers
<1>6. LeaderInv' /\ GetInv'
  BY <1>1, <1>3, <1>5, LeaderShrink, GetQuiet DEF HInv
<1>7. FreshInv'
  BY <1>1, <1>2 DEF HInv, FreshInv, Fresh
<1>8. AheadInv'
  BY <1>1, <1>3 DEF HInv, AheadInv, NothingGained, Unsettled, FromP
<1>9. SleepInv' /\ RecordInv' /\ LevelInv' /\ CallInv'
  BY <1>1 DEF HInv, SleepInv, RecordInv, FromP, LevelInv, Counting, CallInv
<1>. QED BY <1>4, <1>6, <1>7, <1>8, <1>9 DEF HInv

\* A participant that is killed has nothing.
LEMMA KillHistory ==
  ASSUME IInv, HInv, NEW i \in P_Id, Kill(i)
  PROVE  HInv'
<1>1. /\ UNCHANGED <<txid, clog, wpc, rpc, pstate, ret, pw, pr, rret, cstate, wcmd, widx, maxTx>>
      /\ UNCHANGED <<rLeader, rFrom, rLog, rep>>
      /\ psock' = [psock EXCEPT ![i] = "down"] /\ req' = [req EXCEPT ![i] = NoMsg]
      /\ csock' = (IF csock[i] = "open" THEN [csock EXCEPT ![i] = "broken"] ELSE csock)
      /\ ptxid' = [ptxid EXCEPT ![i] = TXID_START] /\ plog' = [plog EXCEPT ![i] = EmptyLog]
  BY DEF Kill, Crash, PeerDies
<1>2. /\ \A p \in P_Id : p # i => /\ psock'[p] = psock[p] /\ req'[p] = req[p] /\ csock'[p] = csock[p]
                                  /\ ptxid'[p] = ptxid[p] /\ plog'[p] = plog[p]
      /\ psock'[i] = "down" /\ req'[i] = NoMsg /\ csock'[i] # "open"
      /\ ptxid'[i] = TXID_START /\ plog'[i] = EmptyLog
  BY <1>1 DEF IInv, TypeOK, NetTypeOK, ParticipantTypeOK
<1>3. \A t \in TxIds : ~(t < TXID_START)
  BY TxFacts DEF TXID_START
<1>4. /\ \A p \in P_Id : Pending(p)' => Pending(p) /\ p # i
      /\ \A p \in P_Id, t \in TxIds, c \in Cmds : Holds(p, t, c)' => Holds(p, t, c) /\ p # i
      /\ NothingGained
  BY <1>1, <1>2, <1>3 DEF NothingGained, Holds, Pending, Applies, EventParser
<1>5. \A p \in P_Id, t \in TxIds : plog'[p][t] # NoCmd <=> t < ptxid'[p]
  <2>1. \A t \in TxIds : plog'[i][t] # NoCmd <=> t < ptxid'[i]
    BY <1>2, <1>3 DEF EmptyLog
  <2>. QED BY <1>2, <2>1 DEF HInv, LogInv
<1>6. LogInv' /\ AgreeInv'
  BY <1>1, <1>4, <1>5, LogsShrink DEF HInv
<1>7. NoNewAnswers
  BY <1>1 DEF NoNewAnswers
<1>8. LeaderInv' /\ GetInv'
  BY <1>1, <1>4, <1>7, LeaderShrink, GetQuiet DEF HInv
<1>9. FreshInv'
  <2>1. Fresh(i)'
    BY <1>2 DEF Fresh
  <2>2. \A p \in P_Id : p # i => (Fresh(p)' <=> Fresh(p))
    BY <1>2 DEF Fresh
  <2>. QED BY <1>1, <1>2, <2>1, <2>2 DEF HInv, FreshInv
<1>10. AheadInv'
  BY <1>1, <1>2, <1>4 DEF HInv, AheadInv, Unsettled, FromP
<1>11. SleepInv' /\ RecordInv' /\ LevelInv' /\ CallInv'
  BY <1>1 DEF HInv, SleepInv, RecordInv, FromP, LevelInv, Counting, CallInv
<1>. QED BY <1>6, <1>8, <1>9, <1>10, <1>11 DEF HInv

\* A participant that is started has nothing yet.
LEMMA RunHistory ==
  ASSUME IInv, HInv, NEW i \in P_Id, Run(i)
  PROVE  HInv'
<1>1. /\ UNCHANGED <<cVars, pVars, csock, req, rep>>
      /\ psock' = [psock EXCEPT ![i] = "listen"] /\ psock[i] = "down"
  BY DEF Run, Start
<1>2. LogInv' /\ AgreeInv'
  BY <1>1, LogsQuiet DEF HInv
<1>3. NoNewAnswers
  BY <1>1 DEF NoNewAnswers
<1>4. LeaderInv' /\ GetInv'
  BY <1>1, <1>3, LeaderQuiet, GetQuiet DEF HInv
<1>5. psock'[i] = "listen" /\ \A p \in P_Id : p # i => psock'[p] = psock[p]
  BY <1>1 DEF IInv, TypeOK, NetTypeOK
<1>6. FreshInv'
  BY <1>1, <1>5 DEF HInv, FreshInv, Fresh
<1>7. AheadInv'
  BY <1>1, HoldsSame DEF HInv, AheadInv, Unsettled, FromP
<1>8. SleepInv' /\ RecordInv' /\ LevelInv' /\ CallInv'
  BY <1>1 DEF HInv, SleepInv, RecordInv, FromP, LevelInv, Counting, CallInv
<1>. QED BY <1>2, <1>4, <1>6, <1>7, <1>8 DEF HInv

\* A coordinator that has just been started knows nothing and has done nothing.
LEMMA KillCoordinatorHistory ==
  ASSUME IInv, HInv, KillCoordinator
  PROVE  HInv'
<1>1. /\ CoordCrash /\ rpc' = "sleep" /\ wpc' = "idle" /\ wcmd' = NoCmd /\ txid' = TXID_START
      /\ cstate' = "C_RECOVERY" /\ csock' = [p \in P_Id |-> "closed"]
      /\ UNCHANGED <<psock, req, ptxid, plog>>
  BY DEF KillCoordinator, Restart, AllClosed
<1>2. \A t \in TxIds : ~(t < txid')
  BY <1>1, TxFacts DEF TXID_START
<1>3. LogInv' /\ AgreeInv'
  BY <1>1, <1>2, HoldsSame DEF HInv, LogInv, AgreeInv
<1>4. FreshInv'
  BY <1>1 DEF HInv, FreshInv, Fresh
<1>5. /\ AheadInv' /\ SleepInv' /\ LevelInv' /\ RecordInv' /\ LeaderInv' /\ GetInv' /\ CallInv'
  BY <1>1 DEF AheadInv, SleepInv, LevelInv, RecordInv, FromP, LeaderInv, GetInv, CallInv
<1>. QED BY <1>3, <1>4, <1>5 DEF HInv

-----------------------------------------------------------------------------
(* The invariant, and what it implies *)

\* Nothing has been executed initially.
LEMMA InitHistory ==
  ASSUME Init
  PROVE  HInv
<1>1. /\ txid = TXID_START /\ rpc = "sleep" /\ wpc = "idle" /\ wcmd = NoCmd /\ cstate = "C_RECOVERY"
      /\ \A p \in P_Id : /\ req[p] = NoMsg /\ ptxid[p] = TXID_START /\ plog[p] = EmptyLog
                         /\ csock[p] = "closed" /\ psock[p] # "attached"
  BY DEF Init, CoordinatorInit, ParticipantInit, NetInit
<1>2. \A t \in TxIds : ~(t < TXID_START) /\ EmptyLog[t] = NoCmd
  BY TxFacts DEF TXID_START, EmptyLog
<1>3. \A p \in P_Id, t \in TxIds, c \in Cmds : ~Holds(p, t, c)
  BY <1>1, <1>2 DEF Pending, Holds
<1>4. LogInv /\ AgreeInv /\ AheadInv
  <2>1. LogInv
    <3>1. \A p \in P_Id, t \in TxIds : plog[p][t] = NoCmd /\ ~(t < ptxid[p])
      BY <1>1, <1>2
    <3>2. \A t \in TxIds : ~(t < txid)
      BY <1>1, <1>2
    <3>3. \A p \in P_Id : ~Pending(p)
      BY <1>1 DEF Pending
    <3>. QED BY <3>1, <3>2, <3>3 DEF LogInv
  <2>2. \A p \in P_Id, t \in TxIds, c \in Cmds : Holds(p, t, c) => FALSE
    BY <1>3
  <2>3. AgreeInv
    BY <2>2 DEF AgreeInv
  <2>4. AheadInv
    BY <2>2 DEF AheadInv
  <2>. QED BY <2>1, <2>3, <2>4
<1>5. /\ SleepInv /\ FreshInv /\ LevelInv /\ RecordInv /\ LeaderInv /\ GetInv /\ CallInv
  BY <1>1 DEF SleepInv, FreshInv, Fresh, LevelInv, Counting, RecordInv, FromP, LeaderInv, GetInv, CallInv
<1>. QED BY <1>4, <1>5 DEF HInv

\* HInv is inductive in a punctual system.
LEMMA NextHistory ==
  ASSUME Punctual, IInv, HInv, [Next]_vars
  PROVE  HInv'
<1>1. CASE ClientCall
  BY <1>1, WRefuseHistory, WAdmitHistory DEF ClientCall
<1>2. CASE WorkThread
  BY <1>2, WStartUpdateHistory, WStartGetHistory, WRejectedHistory, WVotesHistory, WCommitsHistory,
     WAskGetHistory, WGottenHistory, WReplyHistory DEF WorkThread, WorkStep
<1>3. CASE RecoveryThread
  <2>1. CASE RStart /\ UNCHANGED pVars
    BY <2>1, RStartHistory
  <2>2. CASE RecoveryStep /\ UNCHANGED pVars
    BY <2>2, REnterHistory, RWakeHistory, RLockRecoveryHistory, RLockWorkingHistory, RTableHistory,
       RLeadHistory, RFromCHistory, RAskHistory, RAskedAllHistory, RDataHistory, RPushHistory,
       RPushedHistory, RFinishHistory, RDoneHistory DEF RecoveryStep
  <2>. QED BY <1>3, <2>1, <2>2 DEF RecoveryThread
<1>4. ASSUME NEW p \in P_Id,
             \/ KeepAliveThread(p) \/ PWorkingThread(p) \/ PRecoveryThread(p)
             \/ ParticipantThread(p)
      PROVE  HInv'
  <2>1. CASE KeepAliveThread(p)
    BY <2>1, KeepAliveConnectHistory, KeepAliveTempHistory DEF KeepAliveThread, KeepAlive
  <2>2. CASE PWorkingThread(p)
    BY <2>2, PWorkingSkipHistory, PWorkingSendHistory, PWorkingRecvHistory, PWorkingFailHistory
       DEF PWorkingThread, PWorking, Punctual
  <2>3. CASE PRecoveryThread(p)
    BY <2>3, PRecoverySkipHistory, PRecoverySendHistory, PRecoveryRecvHistory, PRecoveryFailHistory
       DEF PRecoveryThread, PRecovery, Punctual
  <2>4. CASE ParticipantThread(p)
    BY <2>4, ServeHistory, ReacceptHistory DEF ParticipantThread
  <2>. QED BY <1>4, <2>1, <2>2, <2>3, <2>4
<1>5. ASSUME NEW p \in P_Id, Kill(p) \/ Run(p)
      PROVE  HInv'
  BY <1>5, KillHistory, RunHistory
<1>6. CASE KillCoordinator
  BY <1>6, KillCoordinatorHistory
<1>7. CASE UNCHANGED vars
  <2>1. NoNewAnswers /\ LogInv' /\ AgreeInv'
    BY <1>7, LogsQuiet DEF NoNewAnswers, HInv
  <2>2. LeaderInv' /\ GetInv'
    BY <1>7, <2>1, LeaderQuiet, GetQuiet DEF HInv
  <2>3. AheadInv'
    BY <1>7, HoldsSame DEF HInv, AheadInv, Unsettled, FromP
  <2>4. SleepInv' /\ FreshInv' /\ RecordInv' /\ LevelInv' /\ CallInv'
    BY <1>7 DEF HInv, SleepInv, FreshInv, Fresh, RecordInv, FromP, LevelInv, Counting, CallInv
  <2>. QED BY <2>1, <2>2, <2>3, <2>4 DEF HInv
<1>. QED BY <1>1, <1>2, <1>3, <1>4, <1>5, <1>6, <1>7 DEF Next, NormalNext

\* In a punctual system the history of every id is one: HInv holds in every reachable state.
THEOREM History ==
  ASSUME Punctual
  PROVE  Spec => []HInv
<1>1. Init => HInv
  BY InitHistory
<1>2. IInv /\ HInv /\ [Next]_vars => HInv'
  BY NextHistory
<1>. QED BY <1>1, <1>2, Inductive, PTL DEF Spec

\* LogsAgree: in a punctual system no two participants ever log different commands under one
\* id, whatever is killed and started again, and none differs from what the coordinator has
\* committed.
THEOREM OneHistory ==
  ASSUME Punctual
  PROVE  Spec => []LogsAgree
<1>1. ASSUME IInv, HInv PROVE LogsAgree
  <2>1. ASSUME NEW p \in P_Id, NEW t \in TxIds, plog[p][t] # NoCmd
        PROVE  Holds(p, t, plog[p][t]) /\ plog[p][t] \in Cmds
    BY <1>1, <2>1, OwnRecord DEF HInv, LogInv
  <2>. QED BY <1>1, <2>1 DEF LogsAgree, HInv, AgreeInv
<1>. QED BY <1>1, History, Inductive, PTL

\* NewestAdopted: once the coordinator works again, nobody has a transaction it does not have;
\* an update that was answered -ERROR has been executed nowhere.
THEOREM NothingMissed ==
  ASSUME Punctual
  PROVE  Spec => []NewestAdopted
<1>1. ASSUME IInv, HInv, cstate = "C_WORKING", workMtx = Free, NEW p \in P_Id
      PROVE  ptxid[p] <= txid
  <2>1. ~WHolds /\ ~RHolds /\ rpc # "sleep"
    BY <1>1, FreeFacts DEF HInv, SleepInv
  <2>2. /\ ptxid[p] \in TXID_START..(MaxTx + 1) /\ MaxTx \in Int
        /\ txid \in Int /\ txid >= TXID_START
    BY <1>1, LoggerAssumption DEF IInv, TypeOK, ParticipantTypeOK, CoordinatorTypeOK, TXID_START
  <2>3. SUFFICES ASSUME ptxid[p] > txid PROVE FALSE
    BY <2>2
  <2>4. ptxid[p] - 1 \in TxIds /\ ptxid[p] - 1 < ptxid[p] /\ ptxid[p] - 1 >= txid
    BY <2>2, <2>3, TxFacts DEF TXID_START
  <2>5. Holds(p, ptxid[p] - 1, plog[p][ptxid[p] - 1]) /\ plog[p][ptxid[p] - 1] \in Cmds
    BY <1>1, <2>4, OwnRecord
  <2>6. wpc = "commit" \/ Unsettled(p)
    BY <1>1, <2>1, <2>4, <2>5 DEF HInv, AheadInv
  <2>. QED BY <1>1, <2>1, <2>6 DEF Unsettled, WHolds, RHolds, FromP
<1>2. IInv /\ HInv => NewestAdopted
  BY <1>1 DEF NewestAdopted
<1>. QED BY <1>2, History, Inductive, PTL

-----------------------------------------------------------------------------
(* One store *)

storeView == <<CommittedDb, txid, wcmd, ClientAnswer>>
StoreStep == AtomicStore!StoreNext \/ UNCHANGED storeView

\* The store's names are those of T6DB.
LEMMA StoreNames ==
  /\ AtomicStore!NoCmd = NoCmd /\ AtomicStore!Get = Get /\ AtomicStore!Junk = Junk
  /\ AtomicStore!TxIds = TxIds /\ AtomicStore!TXID_START = TXID_START
  /\ AtomicStore!NoReply = NoReply /\ AtomicStore!OkReply = OkReply
  /\ AtomicStore!ErrReply = ErrReply
  /\ \A d : AtomicStore!DbReply(d) = DbReply(d)
BY DEF AtomicStore!NoCmd, NoCmd, AtomicStore!Get, Get, AtomicStore!Junk, Junk, AtomicStore!TxIds, TxIds,
       AtomicStore!TXID_START, TXID_START, AtomicStore!NoReply, NoReply, AtomicStore!OkReply, OkReply,
       AtomicStore!ErrReply, ErrReply, AtomicStore!DbReply, DbReply

\* Steps the client does not see.
LEMMA StoreQuiet ==
  ASSUME UNCHANGED <<txid, wcmd>>, \A t \in TxIds : t < txid => clog'[t] = clog[t],
         \/ UNCHANGED <<wpc, wres>>
         \/ wpc # "reply" /\ wpc' # "reply"
  PROVE  StoreStep
<1>1. CommittedDb' = CommittedDb
  BY DEF CommittedDb
<1>2. ClientAnswer' = ClientAnswer
  BY DEF ClientAnswer
<1>. QED BY <1>1, <1>2 DEF StoreStep, storeView

\* A command that has been refused, or that nobody could execute, has no effect.
LEMMA StoreFail ==
  ASSUME HInv, wpc \notin {"idle", "reply"}, wpc' = "reply", wres' = ErrReply,
         UNCHANGED <<txid, wcmd, clog>>
  PROVE  StoreStep
<1>1. CommittedDb' = CommittedDb
  BY DEF CommittedDb
<1>2. wcmd # NoCmd /\ ClientAnswer = NoReply /\ ClientAnswer' = ErrReply
  BY DEF HInv, CallInv, ClientAnswer
<1>3. AtomicStore!Fail
  BY <1>1, <1>2, StoreNames DEF AtomicStore!Fail, AtomicStore!Pending
<1>. QED BY <1>3 DEF StoreStep, AtomicStore!StoreNext

\* A client's command begins.
LEMMA StoreCall ==
  ASSUME IInv, HInv, ClientCall
  PROVE  StoreStep
<1>1. PICK c \in Cmds \cup {Get, Junk} : WRefuse(c) \/ WAdmit(c)
  BY DEF ClientCall
<1>2. CommittedDb' = CommittedDb /\ UNCHANGED txid
  BY <1>1 DEF WRefuse, WAdmit, CommittedDb
<1>3. wcmd = NoCmd /\ wcmd' = c /\ ClientAnswer' \in {NoReply, ErrReply}
  BY <1>1 DEF WRefuse, WAdmit, HInv, CallInv, ClientAnswer
<1>4. AtomicStore!Invoke(c)
  BY <1>2, <1>3, StoreNames DEF AtomicStore!Invoke
<1>. QED BY <1>4, StoreNames DEF StoreStep, AtomicStore!StoreNext

\* An update takes effect when the first participant that has executed it is counted.
LEMMA StoreCommits ==
  ASSUME IInv, HInv, WCommits
  PROVE  StoreStep
<1>1. /\ wpc = "commit" /\ wpc' = "reply" /\ UNCHANGED wcmd /\ txid \in TxIds /\ wcmd \in Cmds
      /\ clog[txid].cmd = wcmd /\ clog \in [TxIds -> EntryType]
  BY TxFacts DEF WCommits, Answered, IInv, PhaseInv, HInv, RecordInv, TypeOK, CoordinatorTypeOK,
     TXID_START
<1>2. CASE \E p \in P_Id : /\ Committed(p) /\ clog' = chageLogState(txid, LOG_COMMIT)
                           /\ txid' = txid + 1 /\ Answered(ret[p].data)
  <2>1. PICK p \in P_Id : /\ Committed(p) /\ clog' = chageLogState(txid, LOG_COMMIT)
                          /\ txid' = txid + 1 /\ Answered(ret[p].data)
    BY <1>2
  <2>2. ret[p].rc = "ok" /\ ret[p] = Got(ret[p].data) /\ ret[p].data = EventParser(wcmd)
    BY <1>1, <2>1, RetFacts DEF Committed, IInv, AnswerInv, TypeOK, CoordinatorTypeOK
  <2>3. EventParser(wcmd) # ErrReply
    BY <2>1, <2>2 DEF Committed
  <2>4. wcmd \notin BadCmds /\ ret[p].data = OkReply
    BY <2>2, <2>3 DEF EventParser
  <2>5. \A t \in TxIds : clog'[t].cmd = clog[t].cmd
    BY <1>1, <2>1 DEF chageLogState, EntryType
  <2>6. CommittedDb' = [CommittedDb EXCEPT ![txid] = wcmd]
    <3>1. \A t \in TxIds : t < txid' <=> t < txid \/ t = txid
      BY <1>1, <2>1, TxFacts
    <3>. QED BY <1>1, <2>5, <3>1, TxFacts DEF CommittedDb
  <2>7. wcmd # NoCmd /\ ClientAnswer = NoReply /\ ClientAnswer' = OkReply
    BY <1>1, <2>1, <2>4 DEF HInv, CallInv, ClientAnswer, Answered
  <2>8. AtomicStore!Execute
    BY <1>1, <2>1, <2>4, <2>6, <2>7, StoreNames DEF AtomicStore!Execute, AtomicStore!Pending
  <2>. QED BY <2>8 DEF StoreStep, AtomicStore!StoreNext
<1>3. CASE Answered(ErrReply) /\ UNCHANGED <<clog, txid>>
  BY <1>1, <1>3, StoreFail DEF Answered
<1>. QED BY <1>2, <1>3 DEF WCommits

\* A GET reads the one database.
LEMMA StoreGotten ==
  ASSUME IInv, HInv, WGotten
  PROVE  StoreStep
<1>1. wpc = "get" /\ wcmd = Get /\ UNCHANGED <<wcmd, txid, clog>> /\ CommittedDb' = CommittedDb
  BY DEF WGotten, Answered, HInv, CallInv, CommittedDb
<1>2. CASE ret[widx].rc = "ok" /\ ret[widx] # Got(EmptyReply)
  <2>1. wpc' = "reply" /\ wres' = DbReply(CommittedDb)
    BY <1>1, <1>2 DEF WGotten, Answered, HInv, GetInv
  <2>2. ClientAnswer = NoReply /\ ClientAnswer' = DbReply(CommittedDb) /\ Get # NoCmd
    BY <1>1, <2>1 DEF ClientAnswer, Get, NoCmd
  <2>3. AtomicStore!Read
    BY <1>1, <2>2, StoreNames DEF AtomicStore!Read, AtomicStore!Pending
  <2>. QED BY <2>3 DEF StoreStep, AtomicStore!StoreNext
<1>3. CASE wpc' = "ask" /\ wres' = wres
  BY <1>1, <1>3, StoreQuiet
<1>4. CASE Answered(ErrReply)
  BY <1>1, <1>4, StoreFail DEF Answered
<1>. QED BY <1>2, <1>3, <1>4 DEF WGotten

\* The answer is sent and the store is free again.
LEMMA StoreReply ==
  ASSUME IInv, WReply
  PROVE  StoreStep
<1>1. CommittedDb' = CommittedDb /\ UNCHANGED txid /\ wcmd' = NoCmd
  BY DEF WReply, CommittedDb
<1>2. ClientAnswer # NoReply /\ ClientAnswer' = NoReply
  BY ReplyFacts DEF WReply, ClientAnswer, IInv, TypeOK, CoordinatorTypeOK
<1>3. AtomicStore!Return
  BY <1>1, <1>2, StoreNames DEF AtomicStore!Return
<1>. QED BY <1>3 DEF StoreStep, AtomicStore!StoreNext

\* Every step of the system is one of the store, or is not seen.
LEMMA StoreNextStep ==
  ASSUME ~CoordCrash, IInv, HInv, [Next]_vars
  PROVE  StoreStep
<1>1. CASE ClientCall
  BY <1>1, StoreCall
<1>2. CASE WorkThread
  <2>1. CASE WStartUpdate
    <3>1. \A t \in TxIds : t < txid => clog'[t] = clog[t]
      BY <2>1, TxFacts DEF WStartUpdate, IInv, TypeOK, CoordinatorTypeOK, TXID_START
    <3>. QED BY <2>1, <3>1, StoreQuiet DEF WStartUpdate
  <2>2. CASE WStartGet \/ WAskGet
    BY <2>2, StoreQuiet DEF WStartGet, WAskGet
  <2>3. CASE WRejected
    BY <2>3, StoreFail DEF WRejected, Answered
  <2>4. CASE WVotes
    <3>1. CASE wpc' = "commit"
      BY <2>4, <3>1, StoreQuiet DEF WVotes, Answered
    <3>2. CASE wpc' # "commit"
      BY <2>4, <3>2, StoreFail DEF WVotes, Answered
    <3>. QED BY <3>1, <3>2
  <2>. QED BY <1>2, <2>1, <2>2, <2>3, <2>4, StoreCommits, StoreGotten, StoreReply
       DEF WorkThread, WorkStep
<1>3. CASE RecoveryThread
  <2>1. ~RData
    BY DEF RData, HInv, RecordInv, FromP
  <2>2. UNCHANGED <<txid, clog, wpc, wcmd, wres>>
    BY <1>3, <2>1 DEF RecoveryThread, RecoveryStep, RStart, REnter, RWake, RLockRecovery, RLockWorking,
       RTable, RLead, RFromC, RAsk, RAskedAll, RPush, RPushed, RFinish, RDone
  <2>. QED BY <2>2, StoreQuiet
<1>4. ASSUME NEW p \in P_Id,
             \/ KeepAliveThread(p) \/ PWorkingThread(p) \/ PRecoveryThread(p)
             \/ ParticipantThread(p)
      PROVE  StoreStep
  <2>1. UNCHANGED <<txid, clog, wpc, wcmd, wres>>
    BY <1>4 DEF KeepAliveThread, KeepAlive, KeepAliveConnect, KeepAliveTemp,
       PWorkingThread, PWorking, PWorkingSkip, PWorkingSend, PWorkingRecv, PWorkingFail,
       PRecoveryThread, PRecovery, PRecoverySkip, PRecoverySend, PRecoveryRecv, PRecoveryFail,
       ParticipantThread
  <2>. QED BY <2>1, StoreQuiet
<1>5. ASSUME NEW p \in P_Id, Kill(p) \/ Run(p)
      PROVE  StoreStep
  BY <1>5, StoreQuiet DEF Kill, Run
<1>6. ~KillCoordinator
  BY DEF KillCoordinator
<1>7. CASE UNCHANGED vars
  BY <1>7, StoreQuiet
<1>. QED BY <1>1, <1>2, <1>3, <1>4, <1>5, <1>6, <1>7 DEF Next, NormalNext

\* ImplementsStore: while replies come in time and the coordinator is not killed, the
\* coordinator and its participants, however often these are killed and started again, are to
\* the clients one store that executes one command at a time.
THEOREM OneStore ==
  ASSUME ~NetFaults, ~CoordCrash
  PROVE  Spec => ImplementsStore
<1>1. Init => AtomicStore!StoreInit
  <2>1. ASSUME Init PROVE CommittedDb = [t \in TxIds |-> NoCmd]
    BY <2>1, TxFacts DEF Init, CoordinatorInit, CommittedDb, TXID_START
  <2>. QED BY <2>1, StoreNames DEF Init, CoordinatorInit, AtomicStore!StoreInit, ClientAnswer
<1>2. IInv /\ HInv /\ [Next]_vars => [AtomicStore!StoreNext]_(AtomicStore!storeVars)
  BY StoreNextStep DEF StoreStep, storeView, AtomicStore!storeVars
<1>3. Punctual
  BY DEF Punctual
<1>4. Spec => []HInv
  BY <1>3, History
<1>. QED BY <1>1, <1>2, <1>4, Inductive, PTL DEF Spec, ImplementsStore, AtomicStore!Spec

=============================================================================
