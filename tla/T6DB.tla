-------------------------------- MODULE T6DB --------------------------------
(***************************************************************************)
(* The T6DB store: one coordinator, PNum participants, the sessions        *)
(* between them, and the failures lab3test.sh exercises: participants that *)
(* are killed and started again (with their memory lost), a coordinator    *)
(* that is killed and started again, and a network that delays packets.    *)
(***************************************************************************)
EXTENDS Participant, Coordinator, FiniteSets

CONSTANT CoordCrash   \* TRUE: the coordinator may be killed and started again

ASSUME CrashAssumption == CoordCrash \in BOOLEAN

vars == <<cVars, pVars, netVars>>

TypeOK == CoordinatorTypeOK /\ ParticipantTypeOK /\ NetTypeOK

Init == CoordinatorInit /\ ParticipantInit /\ NetInit

\* A client's bytes arrive: no one is obliged to send them.
ClientCall == (\E c \in Cmds \cup {Get, Junk} : WRefuse(c) \/ WAdmit(c)) /\ UNCHANGED pVars

\* The threads of the coordinator and the one thread of a participant.
WorkThread == WorkStep /\ UNCHANGED pVars
RecoveryThread == (RStart \/ RecoveryStep) /\ UNCHANGED pVars
KeepAliveThread(p) == KeepAlive(p) /\ UNCHANGED pVars
PWorkingThread(p) == PWorking(p) /\ UNCHANGED pVars
PRecoveryThread(p) == PRecovery(p) /\ UNCHANGED pVars
ParticipantThread(p) == (Serve(p) \/ Reaccept(p)) /\ UNCHANGED cVars

NormalNext ==
  \/ ClientCall \/ WorkThread \/ RecoveryThread
  \/ \E p \in P_Id : \/ KeepAliveThread(p) \/ PWorkingThread(p) \/ PRecoveryThread(p)
                     \/ ParticipantThread(p)

Kill(p) == Crash(p) /\ UNCHANGED cVars
Run(p) == Start(p) /\ UNCHANGED cVars
KillCoordinator == CoordCrash /\ Restart /\ UNCHANGED pVars

Next ==
  \/ NormalNext
  \/ \E p \in P_Id : Kill(p) \/ Run(p)
  \/ KillCoordinator

Spec == Init /\ [][Next]_vars

-----------------------------------------------------------------------------
\* Between two commands and outside a recovery (nobody holds _workingMutex) a
\* working participant whose session is alive misses no transaction and is ahead
\* of none: its next id is the coordinator's.  This is what makes "one vote is
\* enough" and "any participant may answer a GET" safe.
InSync ==
  workMtx = Free =>
    \A p \in P_Id : pstate[p] = "WORKING" /\ csock[p] = "open" => ptxid[p] = txid

\* No two participants hold different commands under one transaction id, and
\* none disagrees with what the coordinator has committed.
LogsAgree ==
  /\ \A p, q \in P_Id, t \in TxIds :
       plog[p][t] # NoCmd /\ plog[q][t] # NoCmd => plog[p][t] = plog[q][t]
  /\ \A p \in P_Id, t \in TxIds :
       t < txid /\ plog[p][t] # NoCmd => plog[p][t] = clog[t].cmd

\* Below _TXID the coordinator's log has no gap and no record that was only
\* prepared: recoveryFromC sends these records as they are, and a participant
\* executes committed ones only.
CLogCommitted == \A t \in TxIds : t < txid => clog[t].st = LOG_COMMIT

Temp == {p \in P_Id : pstate[p] = "TEMP"}

\* The counter the recovery thread waits for is exact, though several threads
\* write it and the states it counts: outside a recovery it is the number of
\* participants in the temp state.
TmpNumExact == recMtx = Free => tmpNum = Cardinality(Temp)

\* pWorking and pRecovery share the session of a participant without a lock:
\* never may both be in sendAndRecv, nor keepAlive be replacing the socket.
SocketOwner ==
  \A p \in P_Id : /\ ~(pw[p] = "wait" /\ pr[p] = "wait")
                   /\ ka[p] = "connected" => pw[p] = "idle" /\ pr[p] = "idle"

\* Once the coordinator works again, nobody is ahead of it between two commands:
\* recovery has adopted the newest transaction any running participant knows, and
\* an update answered with -ERROR has been executed nowhere.
NewestAdopted ==
  cstate = "C_WORKING" /\ workMtx = Free => \A p \in P_Id : ptxid[p] <= txid

\* A client gets -ERROR, wherever in Working that is decided.
Refusal == wpc # "reply" /\ wpc' = "reply" /\ wres' = ErrReply
Survivor == \E p \in P_Id : pstate[p] = "WORKING" /\ csock[p] = "open"

\* The recovery thread is between setting _cstate to C_RECOVERY and back.
Recovering == rpc \notin {"sleep", "entry", "wait"}

\* One participant that stays in the working state with its session alive is enough
\* for a command to succeed (lab3test.sh, test items 8 and 9).  With such a survivor,
\* -ERROR is given only for what the parsers refuse or, before the command has touched
\* anything, because a recovery is under way at that moment: Working does not wait for
\* its end, though the survivor could serve.  (Also for an update beyond the bound MaxTx.)
OneSurvivorSuffices ==
  [][Refusal => \/ wcmd' \in BadCmds \cup {Junk}
                \/ ~Survivor
                \/ wpc = "idle" /\ Recovering
                \/ wcmd \in Cmds /\ txid > MaxTx]_vars

-----------------------------------------------------------------------------
\* Each thread of the coordinator and each running participant is scheduled again
\* and again; that is all.  Nothing obliges anyone to start a participant.
Fairness ==
  /\ WF_vars(WorkThread) /\ WF_vars(RecoveryThread)
  /\ \A p \in P_Id : /\ WF_vars(KeepAliveThread(p)) /\ WF_vars(PWorkingThread(p))
                   /\ WF_vars(PRecoveryThread(p)) /\ WF_vars(ParticipantThread(p))

FairSpec == Spec /\ Fairness

\* A participant that stays up is taken back: from some point on the coordinator holds it for
\* working. (One that was killed and started again while no command ran is found out with the
\* next command that meets the broken session.)
Rejoins == \A p \in P_Id : <>[](psock[p] # "down") => <>[](pstate[p] = "WORKING")

\* Every client is answered, whatever fails while its command runs: the work thread always
\* comes back to wait for the next one.
ClientAnswered == []<>(wpc = "idle")

-----------------------------------------------------------------------------
\* What a client sees: a store that executes one command at a time (Store.tla).
\* The committed prefix of the coordinator's log is its content; an update takes
\* effect when the first answer to the commit is counted.
CommittedDb == [t \in TxIds |-> IF t < txid THEN clog[t].cmd ELSE NoCmd]
ClientAnswer == IF wpc = "reply" THEN wres ELSE NoReply

AtomicStore == INSTANCE Store WITH
  db <- CommittedDb, next <- txid, call <- wcmd, answer <- ClientAnswer

\* Without lost replies and coordinator restarts, the store behaves as one copy.
ImplementsStore == AtomicStore!Spec
=============================================================================
