----------------------------- MODULE KvService -----------------------------
(***************************************************************************)
(* What T6DB promises a client (Lab3/README.md, lab3test.sh): its command  *)
(* is executed at most once, between the connection and the answer, on one *)
(* map from keys to values; or it is answered -ERROR without effect; or    *)
(* the connection is dropped, and then nothing has been executed, unless   *)
(* the answer was already on its way.                                      *)
(*                                                                         *)
(* The code keeps this promise only to a client that is Intact.  To one    *)
(* that breaks off, or whose bytes go wrong, it may execute the words that *)
(* came before.                                                            *)
(***************************************************************************)
EXTENDS Sequences, FiniteSets, SequencesExt, Functions, TLC

CONSTANTS Clients,
          Commands,     \* sequences of words
          Gone,         \* no command
          Set, Get, Del, \* their names
          Ok, Error, Nil, Value(_), Removed(_) \* how answers are written

VARIABLES map,     \* the database
          call,    \* [client -> the command it waits for, or Gone]
          intact,  \* [client -> it has sent what it should and waits for the answer]
          result,  \* [client -> <<>> or the answer it will get]
          refused  \* [client -> its command was not executed but refused]

kvVars == <<map, call, intact, result, refused>>

\* The effect of a command and its answer, as a reader of the README would write them.
Erase(m, ks) == Restrict(m, DOMAIN m \ ks)
Keys(cmd) == Range(Tail(cmd))

Effect(cmd, m) ==
  IF cmd[1] = Set /\ Len(cmd) = 3 THEN (cmd[2] :> cmd[3]) @@ m
  ELSE IF cmd[1] = Del THEN Erase(m, Keys(cmd)) ELSE m

Reply(cmd, m) ==
  IF cmd[1] = Set /\ Len(cmd) = 3 THEN Ok
  ELSE IF cmd[1] = Del THEN Removed(Cardinality(Keys(cmd) \cap DOMAIN m))
  ELSE IF cmd[1] = Get /\ Len(cmd) = 2
  THEN IF cmd[2] \in DOMAIN m THEN Value(m[cmd[2]]) ELSE Nil
  ELSE Error

KvInit ==
  /\ map = <<>>
  /\ call = [c \in Clients |-> Gone] /\ intact = [c \in Clients |-> TRUE]
  /\ result = [c \in Clients |-> <<>>] /\ refused = [c \in Clients |-> FALSE]

Request(c, cmd) ==
  /\ call[c] = Gone
  /\ call' = [call EXCEPT ![c] = cmd]
  /\ intact' \in {intact, [intact EXCEPT ![c] = FALSE]}
  /\ UNCHANGED <<map, result, refused>>

BreakOff(c) ==
  /\ intact[c] /\ intact' = [intact EXCEPT ![c] = FALSE]
  /\ UNCHANGED <<map, call, result, refused>>

Waits(c) == call[c] # Gone /\ result[c] = <<>>

\* Dropped clients may ask again.
Drop(cs) ==
  /\ \A c \in cs : Waits(c)
  /\ call' = [c \in Clients |-> IF c \in cs THEN Gone ELSE call[c]]
  /\ UNCHANGED <<map, intact, result, refused>>

Answers(c, cmd) ==
  /\ map' = Effect(cmd, map)
  /\ result' = [result EXCEPT ![c] = Reply(cmd, map)]
  /\ UNCHANGED <<call, intact, refused>>

Serve(c) == Waits(c) /\ Answers(c, call[c])

ServePart(c) ==
  /\ Waits(c) /\ ~intact[c]
  /\ \E n \in 1..(Len(call[c]) - 1) : Answers(c, SubSeq(call[c], 1, n))

Fail(c) ==
  /\ Waits(c) /\ result' = [result EXCEPT ![c] = Error]
  /\ refused' = [refused EXCEPT ![c] = TRUE]
  /\ UNCHANGED <<map, call, intact>>

KvNext ==
  \/ \E c \in Clients, cmd \in Commands : Request(c, cmd)
  \/ \E c \in Clients : BreakOff(c) \/ Serve(c) \/ ServePart(c) \/ Fail(c)
  \/ \E cs \in SUBSET Clients : Drop(cs)

KvSpec == KvInit /\ [][KvNext]_kvVars
=============================================================================
