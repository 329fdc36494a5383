------------------------------- MODULE Logger -------------------------------
(***************************************************************************)
(* Transaction ids, log records and the messages of the T6DB key-value     *)
(* store (Lab3): include/logger.hpp, logger.cc.                            *)
(*                                                                         *)
(* A log record travels between the coordinator and the participants as    *)
(* text; here it is a record.  The event of a record (the RESP text of a   *)
(* SET or DEL) is a member of Cmds: only whether two commands differ, and  *)
(* whether the participant's parser refuses one, matters to the protocol.  *)
(***************************************************************************)
EXTENDS Integers

CONSTANTS
  PNum,      \* number of participants in the configuration file
  MaxTx,     \* bound: the last transaction id a client command may take
  Cmds,      \* the SET and DEL commands clients send
  BadCmds    \* those of them whose argument count eventParser refuses

TXID_START    == 5
SUPER_TXID    == 0
RECOVERY_TXID == 1
ASK_DATA_TXID == 2

ASSUME LoggerAssumption ==
  /\ PNum \in Nat \ {0}
  /\ MaxTx \in Nat /\ MaxTx >= TXID_START
  /\ BadCmds \subseteq Cmds

P_Id == 1..PNum                    \* p_id: participants are numbered from 1
TxIds == TXID_START..MaxTx         \* ids of client transactions
NoCmd == "none"                    \* no log record under this id

Get == "GET"
Junk == "junk"      \* a client's bytes that are not a SET, DEL or GET command

ASSUME CmdAssumption == Cmds \cap {NoCmd, Get, Junk} = {}

LOG_PRE    == "PRE"
LOG_COMMIT == "COMMIT"

\* A record (id, state, event); for ASK_DATA_TXID the event is a number, which
\* has a field of its own here.
Log(id, st, ev) == [id |-> id, st |-> st, ev |-> ev, arg |-> 0]
AskLog(t)       == [id |-> ASK_DATA_TXID, st |-> LOG_COMMIT, ev |-> NoCmd, arg |-> t]

Request == [id : {SUPER_TXID, RECOVERY_TXID} \cup TxIds, st : {LOG_PRE, LOG_COMMIT},
            ev : Cmds \cup {NoCmd}, arg : {0}]
           \cup {AskLog(t) : t \in TxIds}

\* What a participant answers.  "db" stands for the reply to a GET: the content
\* of the database is the effect of the commands applied to it, in order, so the
\* reply is abstracted to those commands.
DbImage == [TxIds -> Cmds \cup {NoCmd}]
PreReply     == [kind |-> "PRE"]
OkReply      == [kind |-> "OK"]
ErrReply     == [kind |-> "ERROR"]
EmptyReply   == [kind |-> ""]
TxReply(t)   == [kind |-> "txid", txid |-> t]
LogReply(l)  == [kind |-> "log", log |-> l]
DbReply(d)   == [kind |-> "db", db |-> d]

NoMsg == [id |-> -1]           \* no request
NoReply == [kind |-> "none"]   \* no reply

Reply == {PreReply, OkReply, ErrReply, EmptyReply}
         \cup {TxReply(t) : t \in (TXID_START - 1)..MaxTx}
         \cup {LogReply(l) : l \in Request}
         \cup {DbReply(d) : d \in DbImage}
=============================================================================
