------------------------------ MODULE Frontend ------------------------------
(***************************************************************************)
(* The clients of T6DB (Lab3) and the one thread of the coordinator that   *)
(* serves them, one connection after the other: Working (coordinator.cc)   *)
(* with initBind, acceptWithoutCloseBind, recvCommand, sendResult and      *)
(* close (network.cc).  recvCommand reads a byte at a time, so a client    *)
(* may stop or hang up anywhere.                                           *)
(*                                                                         *)
(* What replication does with a command (Coordinator, T6DB) is one step    *)
(* here: it is executed on the database of every participant or refused.   *)
(* What a client sends, or that it hangs up, before the server has read    *)
(* all that came earlier, waits in the kernel; so a client does either     *)
(* when the server has come to it.  Nor does it have to read its answer:   *)
(* one that does so later only makes the step that sends it late, and one  *)
(* that has stopped is StopsReading.                                       *)
(***************************************************************************)
EXTENDS Resp

CONSTANTS Clients, NoClient,
          Requests,  \* [cmd: the words meant, bytes: what is sent, ok: it is their text]
          SendBuffer \* the bytes of an answer the kernel takes when nobody reads them

ASSUME FrontendAssumption ==
  /\ NoClient \notin Clients /\ SendBuffer \in Nat
  /\ \A r \in Requests : /\ DOMAIN r = {"cmd", "bytes", "ok"} /\ r.cmd # <<>>
                         /\ r.ok = (r.bytes = getRESPArry(r.cmd))

SET == <<"S", "E", "T">>
DEL == <<"D", "E", "L">>
GET == <<"G", "E", "T">>

VARIABLES
  listening, backlog,   \* _server: the socket is open; the connections it has not accepted
  peer,                 \* _peer, as the client at the other end
  phase,                \* where Working and recvCommand are
  step, header, left,   \* recvCommand: step, header, and str_num - i
  task, read,           \* the words received, and how many bytes were
  sent,                 \* how many bytes the peer has sent
  db,                   \* the databases of the participants, which replication keeps equal
  conn, req, hung,      \* clients: connection, request, hung up
  answer,               \* rc in Working, by the client it is for
  done, refused         \* histories: the commands executed for a client; it was refused

serverVars == <<listening, backlog, peer, phase, step, header, left, task, read>>
clientVars == <<conn, req, hung>>
outcomes   == <<answer, done, refused>>
frontVars  == <<serverVars, sent, db, clientVars, outcomes>>

NoRequest == [cmd |-> <<>>, bytes |-> <<>>, ok |-> TRUE]

FrontInit ==
  /\ listening = FALSE /\ backlog = <<>> /\ peer = NoClient /\ phase = "bind"
  /\ step = 0 /\ header = <<>> /\ left = 0 /\ task = <<>> /\ read = 0 /\ sent = 0
  /\ db = <<>>
  /\ conn = [c \in Clients |-> "new"] /\ req = [c \in Clients |-> NoRequest]
  /\ hung = [c \in Clients |-> FALSE]
  /\ answer = [c \in Clients |-> <<>>]
  /\ done = [c \in Clients |-> <<>>] /\ refused = [c \in Clients |-> FALSE]

-----------------------------------------------------------------------------
(* Clients *)

\* The kernel completes a connection while the socket listens; a client that was reset may
\* try again.
Call(c, r) ==
  /\ listening /\ ~hung[c]
  /\ conn[c] \in {"new", "reset"} /\ (conn[c] = "reset" => r = req[c])
  /\ conn' = [conn EXCEPT ![c] = "open"] /\ req' = [req EXCEPT ![c] = r]
  /\ backlog' = Append(backlog, c)
  /\ UNCHANGED <<listening, peer, phase, step, header, left, task, read, sent, db, hung,
                 outcomes>>

Unread == sent - read
Wanted == IF phase = "content" THEN atoi(header) ELSE 1

\* The next byte, when the server waits for it.
SendBytes ==
  /\ phase \in {"count", "length", "content"} /\ Unread < Wanted
  /\ ~hung[peer] /\ sent < Len(req[peer].bytes)
  /\ sent' = sent + 1
  /\ UNCHANGED <<serverVars, db, clientVars, outcomes>>

HangUp ==
  /\ \/ phase \in {"count", "length", "content"} /\ Unread < Wanted
     \/ phase \in {"send", "blocked"}
  /\ ~hung[peer] /\ hung' = [hung EXCEPT ![peer] = TRUE]
  /\ UNCHANGED <<serverVars, sent, db, conn, req, outcomes>>

\* The client reads no more of an answer that is larger than the kernel buffers: the thread
\* stays in ::send, which has no timeout.
StopsReading ==
  /\ phase = "send" /\ ~hung[peer] /\ Len(answer[peer]) + 1 > SendBuffer
  /\ phase' = "blocked"
  /\ UNCHANGED <<listening, backlog, peer, step, header, left, task, read, sent, db, clientVars,
                 outcomes>>

-----------------------------------------------------------------------------
(* initBind, acceptWithoutCloseBind *)

InitBind ==
  /\ phase = "bind" /\ phase' = "accept" /\ listening' = TRUE
  /\ UNCHANGED <<backlog, peer, step, header, left, task, read, sent, db, clientVars, outcomes>>

\* Mutant: the connection stays in the backlog.
AcceptAndKeep ==
  /\ phase = "accept" /\ backlog # <<>> /\ phase' = "count"
  /\ peer' = Head(backlog)
  /\ step' = 0 /\ header' = <<>> /\ task' = <<>> /\ read' = 0 /\ sent' = 0
  /\ UNCHANGED <<listening, backlog, left, db, clientVars, outcomes>>

AcceptPeer ==
  /\ phase = "accept" /\ backlog # <<>> /\ phase' = "count"
  /\ peer' = Head(backlog) /\ backlog' = Tail(backlog)
  /\ step' = 0 /\ header' = <<>> /\ task' = <<>> /\ read' = 0 /\ sent' = 0
  /\ UNCHANGED <<listening, left, db, clientVars, outcomes>>

-----------------------------------------------------------------------------
(* recvCommand *)

Byte == req[peer].bytes[read + 1]
Mark == IF phase = "count" THEN "*" ELSE "$"

\* A byte of the count line or of a length line is read.
Reads(s) ==
  /\ phase \in {"count", "length"} /\ step = s /\ Unread > 0
  /\ read' = read + 1
  /\ UNCHANGED <<listening, backlog, peer, sent, db, clientVars, outcomes>>

\* What comes before the mark is skipped.
SkipByte == Reads(0) /\ Byte # Mark /\ UNCHANGED <<phase, step, header, left, task>>

MarkByte == Reads(0) /\ Byte = Mark /\ step' = 1 /\ UNCHANGED <<phase, header, left, task>>

DigitByte ==
  /\ Reads(1) /\ Byte \in Digits /\ header' = Append(header, Byte)
  /\ UNCHANGED <<phase, step, left, task>>

ReturnByte == Reads(1) /\ Byte = "CR" /\ step' = 2 /\ UNCHANGED <<phase, header, left, task>>

\* KV_BAD_COMMAD.  Working does not look at it and goes on with the words it has.
BadByte ==
  /\ \/ Reads(1) /\ Byte \notin Digits \cup {"CR"}
     \/ Reads(2) /\ Byte # "LF"
  /\ phase' = "exec"
  /\ UNCHANGED <<step, header, left, task>>

CountRead ==
  /\ phase = "count" /\ Reads(2) /\ Byte = "LF"
  /\ left' = atoi(header) /\ phase' = (IF left' = 0 THEN "exec" ELSE "length")
  /\ step' = 0 /\ header' = <<>>
  /\ UNCHANGED task

LengthRead ==
  /\ phase = "length" /\ Reads(2) /\ Byte = "LF"
  /\ phase' = "content"
  /\ UNCHANGED <<step, header, left, task>>

\* recv blocks until it has the whole content.
ContentRead ==
  /\ phase = "content" /\ Unread >= atoi(header)
  /\ read' = read + atoi(header)
  /\ task' = Append(task, SubSeq(req[peer].bytes, read + 1, read'))
  /\ left' = left - 1 /\ phase' = (IF left' = 0 THEN "exec" ELSE "length")
  /\ step' = 0 /\ header' = <<>>
  /\ UNCHANGED <<listening, backlog, peer, sent, db, clientVars, outcomes>>

\* Mutant: the end of the connection is taken for one more timeout.
PeerClosedWaits ==
  /\ phase \in {"count", "length", "content"} /\ Unread < Wanted /\ hung[peer]
  /\ UNCHANGED frontVars

\* KV_NETWORK_CLOSE ends recvCommand everywhere, and is not looked at either.
PeerClosed ==
  /\ phase \in {"count", "length", "content"} /\ Unread < Wanted /\ hung[peer]
  /\ phase' = "exec"
  /\ UNCHANGED <<listening, backlog, peer, step, header, left, task, read, sent, db,
                 clientVars, outcomes>>

\* A second without a byte ends the wait for the count line.  Later timeouts are retried.
CountTimeout ==
  /\ phase = "count" /\ Unread = 0 /\ ~hung[peer]
  /\ phase' = "exec"
  /\ UNCHANGED <<listening, backlog, peer, step, header, left, task, read, sent, db,
                 clientVars, outcomes>>

recvCommand ==
  \/ SkipByte \/ MarkByte \/ DigitByte \/ ReturnByte \/ BadByte \/ CountRead
  \/ LengthRead \/ ContentRead \/ PeerClosed \/ CountTimeout

-----------------------------------------------------------------------------
(* The rest of Working *)

\* What a participant executes: the event in the text of the log record that is sent to it,
\* with the first id of an update, or SUPER_TXID for a GET, and LOG_COMMIT.
EventSent(words) ==
  strToLog(logToStr([ID    |-> IF words[1] = GET THEN 0 ELSE 5,
                     state |-> 2,
                     event |-> getRESPArry(words)])).event

\* No command, a command of another name, and one that replication refuses.
Refuse ==
  /\ phase = "exec" /\ phase' = "send"
  /\ answer' = [answer EXCEPT ![peer] = getErrorMessage]
  /\ refused' = [refused EXCEPT ![peer] = TRUE]
  /\ UNCHANGED <<listening, backlog, peer, step, header, left, task, read, sent, db, clientVars,
                 done>>

Takes(outcome) ==
  /\ db' = outcome.db
  /\ answer' = [answer EXCEPT ![peer] = outcome.rstr]
  /\ done' = IF outcome.rstr = getErrorMessage THEN done
             ELSE [done EXCEPT ![peer] = Append(@, task)]

\* UpdateDB or Request.
Perform ==
  /\ phase = "exec" /\ phase' = "send"
  /\ task # <<>> /\ task[1] \in {SET, DEL, GET}
  /\ Takes(eventParser(db, EventSent(task)))
  /\ UNCHANGED <<listening, backlog, peer, step, header, left, task, read, sent, clientVars,
                 refused>>

\* sendResult has returned; what it returned is not looked at.
Sent ==
  /\ phase' = "close"
  /\ conn' = [conn EXCEPT ![peer] = "answered"]
  /\ UNCHANGED <<listening, backlog, peer, step, header, left, task, read, sent, db, req, hung,
                 outcomes>>

SendResult == phase = "send" /\ Sent

\* Only the end of the connection frees a thread that is blocked in ::send: KV_NETWORK.
SendFails == phase = "blocked" /\ hung[peer] /\ Sent

\* close() closes the connection, and the listening socket with everybody in its backlog.
CloseAll ==
  /\ phase = "close" /\ phase' = "bind"
  /\ listening' = FALSE /\ backlog' = <<>> /\ peer' = NoClient
  /\ conn' = [c \in Clients |-> IF c \in Range(backlog) THEN "reset" ELSE conn[c]]
  /\ step' = 0 /\ header' = <<>> /\ left' = 0 /\ task' = <<>> /\ read' = 0 /\ sent' = 0
  /\ UNCHANGED <<db, req, hung, outcomes>>

Working ==
  \/ InitBind \/ AcceptPeer \/ recvCommand \/ Refuse \/ Perform
  \/ SendResult \/ SendFails \/ CloseAll

FrontNext ==
  \/ Working \/ SendBytes \/ HangUp \/ StopsReading
  \/ \E c \in Clients, r \in Requests : Call(c, r)

FrontSpec == FrontInit /\ [][FrontNext]_frontVars /\ WF_frontVars(Working)

-----------------------------------------------------------------------------
\* A client whose connection was reset in the backlog, because close() closes the listening
\* socket too, can safely try again: nothing was executed for it, and however often it tries,
\* nothing is executed for it twice.
ResetNotExecuted ==
  \A c \in Clients : Len(done[c]) <= 1 /\ (conn[c] = "reset" => done[c] = <<>>)

ValueText(v) == getRESPArry(<<v>>)

\* The front end, its framing, the texts of the logs and the map together are the service.
Service == INSTANCE KvService WITH
  Commands <- {r.cmd : r \in Requests}, Gone <- <<>>, Set <- SET, Get <- GET, Del <- DEL,
  Ok <- getSuccessMessage, Error <- getErrorMessage, Nil <- getRESPArry(<< <<"nil">> >>),
  Value <- ValueText, Removed <- getIntergerMessage,
  map    <- db,
  call   <- [c \in Clients |-> IF conn[c] \in {"open", "answered"} THEN req[c].cmd ELSE <<>>],
  intact <- [c \in Clients |-> req[c].ok /\ ~hung[c]],
  result <- answer
ImplementsService == Service!KvSpec

\* The one work thread comes to everybody, unless in the end one client that stays connected
\* keeps it for ever: by stopping in the middle of its command (recvCommand retries after every
\* timeout), or by not reading an answer that is too large for the kernel (sendResult is a
\* ::send without a timeout).  Nothing else keeps it, not the end of a connection at any byte.
Stalled ==
  /\ \/ phase = "blocked"
     \/ phase \in {"length", "content"} /\ Unread < Wanted
  /\ ~hung[peer]
Waiting(c) == c \in Range(backlog) \/ peer = c
EveryoneServed == <>[]Stalled \/ \A c \in Clients : Waiting(c) ~> ~Waiting(c)

\* A command is executed with all of its words or with none.  It is not: the result of
\* recvCommand is ignored, and a DEL that breaks off removes the keys that came before.
WholeCommand ==
  \A c \in Clients : \A words \in Range(done[c]) : Len(words) > 1 => words = req[c].cmd
=============================================================================
