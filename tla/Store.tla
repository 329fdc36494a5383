------------------------------- MODULE Store -------------------------------
(***************************************************************************)
(* What T6DB promises its clients (Lab3/README.md, lab3test.sh): one       *)
(* database, commands executed one at a time, each either answered with    *)
(* its result after it has taken effect or answered -ERROR and without     *)
(* effect; a GET sees every update executed before it.                     *)
(***************************************************************************)
EXTENDS Logger

VARIABLES
  db,      \* the commands executed so far, by transaction id
  next,    \* the id of the next one
  call,    \* the command being served, NoCmd when there is none
  answer   \* its answer, NoReply until there is one

storeVars == <<db, next, call, answer>>

StoreInit ==
  /\ db = [t \in TxIds |-> NoCmd] /\ next = TXID_START
  /\ call = NoCmd /\ answer = NoReply

Invoke(c) ==
  /\ call = NoCmd
  /\ call' = c
  /\ answer' \in {NoReply, ErrReply}
  /\ UNCHANGED <<db, next>>

Pending == call # NoCmd /\ answer = NoReply

Execute ==
  /\ Pending /\ call \in Cmds \ BadCmds /\ next \in TxIds
  /\ db' = [db EXCEPT ![next] = call]
  /\ next' = next + 1
  /\ answer' = OkReply
  /\ UNCHANGED call

Read ==
  /\ Pending /\ call = Get
  /\ answer' = DbReply(db)
  /\ UNCHANGED <<db, next, call>>

Fail ==
  /\ Pending
  /\ answer' = ErrReply
  /\ UNCHANGED <<db, next, call>>

Return ==
  /\ answer # NoReply
  /\ call' = NoCmd /\ answer' = NoReply
  /\ UNCHANGED <<db, next>>

StoreNext ==
  \/ \E c \in Cmds \cup {Get, Junk} : Invoke(c)
  \/ Execute \/ Read \/ Fail \/ Return

Spec == StoreInit /\ [][StoreNext]_storeVars
=============================================================================
