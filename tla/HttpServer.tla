----------------------------- MODULE HttpServer -----------------------------
(***************************************************************************)
(* Lab2: the listener (thread_scheduling) puts accepted connections into   *)
(* the slots of socketFlag, the workers (socket_worker) serve them, main   *)
(* stops everybody when it reads "quit".                                   *)
(*                                                                         *)
(* cplock is not used around a queue: its empty counts the free slots, its *)
(* full the slots that a worker may give back.  The work done under its    *)
(* mutex is one step, as nobody waits inside.                              *)
(*                                                                         *)
(* A client sends its request in Pieces parts, which reach the server one  *)
(* after the other; a buffer holds, for each part that was read, whose it  *)
(* is, and an answer is the buffer it was made from.  A new descriptor is  *)
(* the lowest one that is free, as the kernel allocates them.              *)
(*                                                                         *)
(* Receiving, accepting and the select before a send end by a timeout; the *)
(* ::send after that select does not, and a peer that reads no more and    *)
(* does not hang up holds the worker there for ever: "blocked".            *)
(***************************************************************************)
EXTENDS Integers, Sequences, FiniteSets, Functions

CONSTANTS thread_num, Clients,
          Pieces,         \* the parts of a request
          proxy_mode,
          Upstream, Nobody

ASSUME HttpServerAssumption ==
  /\ thread_num \in Nat \ {0} /\ Pieces \in Nat \ {0}
  /\ proxy_mode \in BOOLEAN /\ IsFiniteSet(Clients)
  /\ {Upstream, Nobody} \cap Clients = {} /\ Upstream # Nobody

VARIABLES serverOn,
          socketFlag,                      \* the slots: a descriptor, or 0
          empty, full,                     \* of cplock
          owner,                           \* whose each open descriptor is
          lpc, clientSocket, lastFitPos,   \* thread_scheduling
          wpc, newSocket, clientSock, recv_buf, send_buf,    \* socket_worker
          backlog, inbox, sent, reply      \* the clients' side of the connections

listenVars == <<lpc, clientSocket, lastFitPos>>
workVars   == <<newSocket, clientSock, recv_buf, send_buf>>
lockVars   == <<empty, full>>
netVars    == <<backlog, inbox, sent, reply>>
vars == <<serverOn, socketFlag, lockVars, owner, listenVars, wpc, workVars, netVars>>

Workers == 0..(thread_num - 1)

\* The descriptors that can be open at once: one for each slot, one for each worker's
\* connection to the proxied server, one that waits for a slot.  0, 1 and 2 are the
\* standard streams, 3 the listening socket.
Descriptors == 4..(4 + 2 * thread_num)
Open(d) == owner[d] # Nobody
LowestFree(d) == ~Open(d) /\ \A e \in Descriptors : e < d => Open(e)

NotConnected == -1
Connected(c) == c \in Range(backlog) \/ \E d \in Descriptors : owner[d] = c

Init ==
  /\ serverOn = TRUE
  /\ socketFlag = [w \in Workers |-> 0]
  /\ empty = thread_num /\ full = 0
  /\ owner = [d \in Descriptors |-> Nobody]
  /\ lpc = "loop" /\ clientSocket = 0 /\ lastFitPos = 0
  /\ wpc = [w \in Workers |-> "loop"]
  /\ newSocket = [w \in Workers |-> 0] /\ clientSock = [w \in Workers |-> 0]
  /\ recv_buf = [w \in Workers |-> <<>>] /\ send_buf = [w \in Workers |-> <<>>]
  /\ backlog = <<>> /\ reply = [c \in Clients |-> <<>>]
  /\ sent = [c \in Clients |-> NotConnected] /\ inbox = [c \in Clients |-> 0]

-----------------------------------------------------------------------------
(* main and the clients *)

Quit ==
  /\ serverOn /\ serverOn' = FALSE
  /\ UNCHANGED <<socketFlag, lockVars, owner, listenVars, wpc, workVars, netVars>>

\* The kernel completes the connection and keeps it for Accept.
Connect(c) ==
  /\ sent[c] = NotConnected /\ sent' = [sent EXCEPT ![c] = 0]
  /\ backlog' = Append(backlog, c)
  /\ UNCHANGED <<serverOn, socketFlag, lockVars, owner, listenVars, wpc, workVars, inbox, reply>>

\* What is sent on a connection that the server has closed is lost.
SendPiece(c) ==
  /\ Connected(c) /\ sent[c] < Pieces
  /\ sent' = [sent EXCEPT ![c] = @ + 1]
  /\ inbox' = [inbox EXCEPT ![c] = @ + 1]
  /\ UNCHANGED <<serverOn, socketFlag, lockVars, owner, listenVars, wpc, workVars, backlog, reply>>

-----------------------------------------------------------------------------
(* thread_scheduling *)

ListenerQuits ==
  /\ lpc = "loop" /\ ~serverOn /\ lpc' = "end"
  /\ UNCHANGED <<serverOn, socketFlag, lockVars, owner, clientSocket, lastFitPos, wpc,
                 workVars, netVars>>

\* serverOn is tested, then Accept waits for a while.
ListenerLooks ==
  /\ lpc = "loop" /\ serverOn /\ lpc' = "accept"
  /\ UNCHANGED <<serverOn, socketFlag, lockVars, owner, clientSocket, lastFitPos, wpc,
                 workVars, netVars>>

AcceptTimeout ==
  /\ lpc = "accept" /\ backlog = <<>> /\ lpc' = "loop"
  /\ UNCHANGED <<serverOn, socketFlag, lockVars, owner, clientSocket, lastFitPos, wpc,
                 workVars, netVars>>

Accept ==
  /\ lpc = "accept" /\ backlog # <<>> /\ lpc' = "pGet"
  /\ \E d \in Descriptors : /\ LowestFree(d) /\ clientSocket' = d
                            /\ owner' = [owner EXCEPT ![d] = Head(backlog)]
  /\ backlog' = Tail(backlog)
  /\ UNCHANGED <<serverOn, socketFlag, lockVars, lastFitPos, wpc, workVars, inbox, sent, reply>>

\* Mutant: the listener does not wait for a free slot.
ListenerGetsAtOnce ==
  /\ lpc = "pGet" /\ lpc' = "place"
  /\ UNCHANGED <<serverOn, socketFlag, lockVars, owner, clientSocket, lastFitPos, wpc,
                 workVars, netVars>>

\* pGet: the wait for empty.
ListenerGets ==
  /\ lpc = "pGet" /\ empty > 0 /\ empty' = empty - 1 /\ lpc' = "place"
  /\ UNCHANGED <<serverOn, socketFlag, full, owner, clientSocket, lastFitPos, wpc, workVars,
                 netVars>>

\* The search goes round the slots from the last one used, under the mutex, past the slots
\* that are taken; it would never end if all were: see FreeSlot.
Place ==
  /\ lpc = "place" /\ lpc' = "pRelease"
  /\ \E k \in Workers :
       /\ \A j \in 0..(k - 1) : socketFlag[(lastFitPos + j) % thread_num] # 0
       /\ lastFitPos' = (lastFitPos + k) % thread_num
  /\ socketFlag[lastFitPos'] = 0
  /\ socketFlag' = [socketFlag EXCEPT ![lastFitPos'] = clientSocket]
  /\ UNCHANGED <<serverOn, lockVars, owner, clientSocket, wpc, workVars, netVars>>

\* Mutant: the post of full is forgotten.
ListenerReleasesNot ==
  /\ lpc = "pRelease" /\ lpc' = "loop"
  /\ UNCHANGED <<serverOn, socketFlag, lockVars, owner, clientSocket, lastFitPos, wpc,
                 workVars, netVars>>

\* pRelease: the post of full.
ListenerReleases ==
  /\ lpc = "pRelease" /\ full' = full + 1 /\ lpc' = "loop"
  /\ UNCHANGED <<serverOn, socketFlag, empty, owner, clientSocket, lastFitPos, wpc, workVars,
                 netVars>>

thread_scheduling ==
  \/ ListenerQuits \/ ListenerLooks \/ AcceptTimeout \/ Accept
  \/ ListenerGets \/ Place \/ ListenerReleases

-----------------------------------------------------------------------------
(* socket_worker *)

\* The connection behind the descriptor the worker uses.
peer(w) == owner[newSocket[w]]

WorkerQuits(w) ==
  /\ wpc[w] = "loop" /\ ~serverOn /\ wpc' = [wpc EXCEPT ![w] = "end"]
  /\ UNCHANGED <<serverOn, socketFlag, lockVars, owner, listenVars, workVars, netVars>>

WorkerLooks(w) ==
  /\ wpc[w] = "loop" /\ serverOn /\ wpc' = [wpc EXCEPT ![w] = "poll"]
  /\ UNCHANGED <<serverOn, socketFlag, lockVars, owner, listenVars, workVars, netVars>>

NoSocket(w) ==
  /\ wpc[w] = "poll" /\ socketFlag[w] = 0 /\ wpc' = [wpc EXCEPT ![w] = "loop"]
  /\ UNCHANGED <<serverOn, socketFlag, lockVars, owner, listenVars, workVars, netVars>>

\* The slot is read without the mutex, maybe before full was posted for it.
TakeSocket(w) ==
  /\ wpc[w] = "poll" /\ socketFlag[w] # 0 /\ wpc' = [wpc EXCEPT ![w] = "recv"]
  /\ newSocket' = [newSocket EXCEPT ![w] = socketFlag[w]]
  /\ UNCHANGED <<serverOn, socketFlag, lockVars, owner, listenVars, clientSock, recv_buf,
                 send_buf, netVars>>

\* Recv takes some of what is there.
Recv(w) ==
  /\ wpc[w] = "recv" /\ wpc' = [wpc EXCEPT ![w] = "peek"]
  /\ \E k \in 1..inbox[peer(w)] :
       /\ inbox' = [inbox EXCEPT ![peer(w)] = @ - k]
       /\ recv_buf' = [recv_buf EXCEPT ![w] = @ \o [i \in 1..k |-> peer(w)]]
  /\ UNCHANGED <<serverOn, socketFlag, lockVars, owner, listenVars, newSocket, clientSock,
                 send_buf, backlog, sent, reply>>

\* Recv after ten seconds without data, or when the client has hung up.
RecvNothing(w) ==
  /\ wpc[w] = "recv" /\ inbox[peer(w)] = 0 /\ wpc' = [wpc EXCEPT ![w] = "peek"]
  /\ UNCHANGED <<serverOn, socketFlag, lockVars, owner, listenVars, workVars, netVars>>

\* The Recv with MSG_PEEK, which waits for 100 microseconds: the loop goes on if there is
\* more, whatever the first Recv returned.
Peek(w) ==
  /\ wpc[w] = "peek"
  /\ wpc' = [wpc EXCEPT ![w] = IF inbox[peer(w)] > 0 THEN "recv" ELSE "answer"]
  /\ UNCHANGED <<serverOn, socketFlag, lockVars, owner, listenVars, workVars, netVars>>

make_respose(w) ==
  /\ wpc[w] = "answer" /\ ~proxy_mode /\ wpc' = [wpc EXCEPT ![w] = "send"]
  /\ send_buf' = [send_buf EXCEPT ![w] = recv_buf[w]]
  /\ UNCHANGED <<serverOn, socketFlag, lockVars, owner, listenVars, newSocket, clientSock,
                 recv_buf, netVars>>

ConnectUpstream(w) ==
  /\ wpc[w] = "answer" /\ proxy_mode /\ wpc' = [wpc EXCEPT ![w] = "upstream"]
  /\ \E d \in Descriptors : /\ LowestFree(d) /\ clientSock' = [clientSock EXCEPT ![w] = d]
                            /\ owner' = [owner EXCEPT ![d] = Upstream]
  /\ UNCHANGED <<serverOn, socketFlag, lockVars, listenVars, newSocket, recv_buf, send_buf,
                 netVars>>

\* The proxied server cannot be reached, or the request cannot be sent: nothing is answered.
ConnectFails(w) ==
  /\ wpc[w] = "upstream" /\ wpc' = [wpc EXCEPT ![w] = "close"]
  /\ owner' = [owner EXCEPT ![clientSock[w]] = Nobody]
  /\ clientSock' = [clientSock EXCEPT ![w] = 0]
  /\ UNCHANGED <<serverOn, socketFlag, lockVars, listenVars, newSocket, recv_buf, send_buf,
                 netVars>>

\* The request was sent, and the loop that receives the response ends; the response is empty if the server stays silent for ten
\* seconds.  The connection is this worker's alone, so its messages are one step.
UpstreamAnswers(w) ==
  /\ wpc[w] = "upstream" /\ wpc' = [wpc EXCEPT ![w] = "send"]
  /\ \E answer \in {recv_buf[w], <<>>} : send_buf' = [send_buf EXCEPT ![w] = answer]
  /\ owner' = [owner EXCEPT ![clientSock[w]] = Nobody]
  /\ clientSock' = [clientSock EXCEPT ![w] = 0]
  /\ UNCHANGED <<serverOn, socketFlag, lockVars, listenVars, newSocket, recv_buf, netVars>>

\* Send does nothing with an empty buffer.  It ends when the client reads, hangs up, or has
\* room for all of it; if none of these ever happens the step is SendBlocks.
Send(w) ==
  /\ wpc[w] = "send" /\ wpc' = [wpc EXCEPT ![w] = "close"]
  /\ reply' = [reply EXCEPT ![peer(w)] = @ \o send_buf[w]]
  /\ UNCHANGED <<serverOn, socketFlag, lockVars, owner, listenVars, workVars, backlog, inbox,
                 sent>>

\* Mutant: the connection is not closed.
CloseForgotten(w) ==
  /\ wpc[w] = "close" /\ wpc' = [wpc EXCEPT ![w] = "cGet"]
  /\ UNCHANGED <<serverOn, socketFlag, lockVars, owner, listenVars, workVars, netVars>>

\* The descriptor is free from here on, though the slot still holds its number.
Close(w) ==
  /\ wpc[w] = "close" /\ wpc' = [wpc EXCEPT ![w] = "cGet"]
  /\ owner' = [owner EXCEPT ![newSocket[w]] = Nobody]
  /\ newSocket' = [newSocket EXCEPT ![w] = 0]
  /\ UNCHANGED <<serverOn, socketFlag, lockVars, listenVars, clientSock, recv_buf, send_buf,
                 netVars>>

\* Mutant: the worker does not wait for full.
WorkerGetsAtOnce(w) ==
  /\ wpc[w] = "cGet" /\ wpc' = [wpc EXCEPT ![w] = "clear"]
  /\ UNCHANGED <<serverOn, socketFlag, lockVars, owner, listenVars, workVars, netVars>>

\* cGet: the wait for full, which may be the post for another worker's slot.
WorkerGets(w) ==
  /\ wpc[w] = "cGet" /\ full > 0 /\ full' = full - 1 /\ wpc' = [wpc EXCEPT ![w] = "clear"]
  /\ UNCHANGED <<serverOn, socketFlag, empty, owner, listenVars, workVars, netVars>>

\* Mutant: the slot is not given back.
ClearForgotten(w) ==
  /\ wpc[w] = "clear" /\ wpc' = [wpc EXCEPT ![w] = "cRelease"]
  /\ UNCHANGED <<serverOn, socketFlag, lockVars, owner, listenVars, workVars, netVars>>

Clear(w) ==
  /\ wpc[w] = "clear" /\ wpc' = [wpc EXCEPT ![w] = "cRelease"]
  /\ socketFlag' = [socketFlag EXCEPT ![w] = 0]
  /\ UNCHANGED <<serverOn, lockVars, owner, listenVars, workVars, netVars>>

\* Mutants: the post of empty is forgotten; the buffers are declared outside the loop.
WorkerReleasesNot(w) ==
  /\ wpc[w] = "cRelease" /\ wpc' = [wpc EXCEPT ![w] = "loop"]
  /\ recv_buf' = [recv_buf EXCEPT ![w] = <<>>] /\ send_buf' = [send_buf EXCEPT ![w] = <<>>]
  /\ UNCHANGED <<serverOn, socketFlag, lockVars, owner, listenVars, newSocket, clientSock,
                 netVars>>

WorkerKeepsBuffers(w) ==
  /\ wpc[w] = "cRelease" /\ empty' = empty + 1 /\ wpc' = [wpc EXCEPT ![w] = "loop"]
  /\ UNCHANGED <<serverOn, socketFlag, full, owner, listenVars, workVars, netVars>>

\* cRelease: the post of empty; the locals end with the body of the loop.
WorkerReleases(w) ==
  /\ wpc[w] = "cRelease" /\ empty' = empty + 1 /\ wpc' = [wpc EXCEPT ![w] = "loop"]
  /\ recv_buf' = [recv_buf EXCEPT ![w] = <<>>] /\ send_buf' = [send_buf EXCEPT ![w] = <<>>]
  /\ UNCHANGED <<serverOn, socketFlag, full, owner, listenVars, newSocket, clientSock, netVars>>

socket_worker(w) ==
  \/ WorkerQuits(w) \/ WorkerLooks(w) \/ NoSocket(w) \/ TakeSocket(w)
  \/ Recv(w) \/ RecvNothing(w) \/ Peek(w)
  \/ make_respose(w) \/ ConnectUpstream(w) \/ ConnectFails(w) \/ UpstreamAnswers(w)
  \/ Send(w) \/ Close(w) \/ WorkerGets(w) \/ Clear(w) \/ WorkerReleases(w)

-----------------------------------------------------------------------------
(* Peers that read no more and do not hang up.  The sockets have no timeout for sending, so  *)
(* the loop around ::send does not end.  A peer that only makes a pause, or hangs up in the  *)
(* end, is Send, UpstreamAnswers or ConnectFails happening late.                             *)

\* The client took a part of the answer at most.
SendBlocks(w) ==
  /\ wpc[w] = "send" /\ wpc' = [wpc EXCEPT ![w] = "blocked"]
  /\ \E k \in 0..(Len(send_buf[w]) - 1) :
       reply' = [reply EXCEPT ![peer(w)] = @ \o SubSeq(send_buf[w], 1, k)]
  /\ UNCHANGED <<serverOn, socketFlag, lockVars, owner, listenVars, workVars, backlog, inbox,
                 sent>>

\* The proxied server does not take all of the request; its connection stays open too.
ForwardBlocks(w) ==
  /\ wpc[w] = "upstream" /\ recv_buf[w] # <<>> /\ wpc' = [wpc EXCEPT ![w] = "blocked"]
  /\ UNCHANGED <<serverOn, socketFlag, lockVars, owner, listenVars, workVars, netVars>>

-----------------------------------------------------------------------------
Next ==
  \/ Quit
  \/ \E c \in Clients : Connect(c) \/ SendPiece(c)
  \/ thread_scheduling
  \/ \E w \in Workers : socket_worker(w) \/ SendBlocks(w) \/ ForwardBlocks(w)

\* Every thread is scheduled, and every wait to accept or to receive has a timeout; a send
\* ends unless its peer blocks it, which is a step of its own.  Nothing obliges the user to
\* type quit, nor a client to connect, to send or to read.
Fairness == WF_vars(thread_scheduling) /\ \A w \in Workers : WF_vars(socket_worker(w))

Spec == Init /\ [][Next]_vars /\ Fairness

-----------------------------------------------------------------------------
\* Types and ranges; neither semaphore ever counts more than there are slots (lock.hpp).
TypeOK ==
  /\ serverOn \in BOOLEAN
  /\ socketFlag \in [Workers -> {0} \cup Descriptors]
  /\ empty \in 0..thread_num /\ full \in 0..thread_num
  /\ owner \in [Descriptors -> Clients \cup {Upstream, Nobody}]
  /\ lpc \in {"loop", "accept", "pGet", "place", "pRelease", "end"}
  /\ clientSocket \in {0} \cup Descriptors /\ lastFitPos \in Workers
  /\ wpc \in [Workers -> {"loop", "poll", "recv", "peek", "answer", "upstream", "send",
                          "blocked", "close", "cGet", "clear", "cRelease", "end"}]
  /\ newSocket \in [Workers -> {0} \cup Descriptors]
  /\ clientSock \in [Workers -> {0} \cup Descriptors]
  /\ sent \in [Clients -> -1..Pieces] /\ inbox \in [Clients -> 0..Pieces]
  /\ recv_buf \in [Workers -> Seq(Clients)] /\ send_buf \in [Workers -> Seq(Clients)]
  /\ reply \in [Clients -> Seq(Clients)] /\ backlog \in Seq(Clients)

\* The search of thread_scheduling for a free slot, which holds the mutex while it goes
\* round, always ends: a slot is free when cplock has let the listener in.
FreeSlot == lpc = "place" => \E w \in Workers : socketFlag[w] = 0

\* full counts the slots that are taken and not yet asked back, but for one that was just
\* filled: a worker that has served its slot always gets a token in cGet, its own post's or
\* another's.
PostsMatch ==
  full + (IF lpc = "pRelease" THEN 1 ELSE 0) + Cardinality({w \in Workers : wpc[w] = "clear"})
    = Cardinality({w \in Workers : socketFlag[w] # 0})

\* Two workers never use one descriptor at the same time, a descriptor in use is open, and it
\* is not the one the listener is about to hand out, although the number of a closed one stays
\* in its slot and is soon given to another connection.
Using(w) == wpc[w] \in {"recv", "peek", "answer", "upstream", "send", "blocked", "close"}
OneUserPerDescriptor ==
  \A w \in Workers : Using(w) =>
    /\ Open(newSocket[w])
    /\ lpc \in {"pGet", "place"} => newSocket[w] # clientSocket
    /\ \A v \in Workers \ {w} : Using(v) => newSocket[w] # newSocket[v]

\* A connection that was accepted is either with the listener or in the slot of a worker that
\* has not closed it yet: none is forgotten open, though the listener may fill a slot that its
\* worker has cleared and not yet released.
NoneForgotten ==
  \A d \in Descriptors : owner[d] \in Clients =>
    \/ lpc \in {"pGet", "place"} /\ clientSocket = d
    \/ \E w \in Workers : socketFlag[w] = d /\ wpc[w] \notin {"cGet", "clear"}

\* A client gets answers only to what it sent itself.
OwnAnswer == \A c \in Clients : Range(reply[c]) \subseteq {c}

\* Blocked for ever by its client or by the proxied server.
Blocked(w) == wpc[w] = "blocked"

\* While the server is on, a connection is sooner or later accepted, served and closed; one
\* that is not is held by a worker that is blocked for it, or no worker is left that is not
\* blocked.  Peers that stop reading take no more than a worker each.
Served ==
  \A c \in Clients :
    (c \in Range(backlog)) ~>
      \/ ~Connected(c) \/ ~serverOn
      \/ \E w \in Workers : Blocked(w) /\ peer(w) = c
      \/ \A w \in Workers : Blocked(w)

\* After quit every worker comes to an end, even one that waits for full in cGet, unless a
\* peer that reads no more has blocked it: then main waits for it in join.
WorkersQuit == ~serverOn ~> \A w \in Workers : wpc[w] \in {"end", "blocked"}

\* "quit" ends the server: main joins the listener, then the workers.  It does not: a worker
\* looks at serverOn before its slot, so it may leave with a connection in the slot, and the
\* listener that waits for a free slot in pGet waits for ever.
Quits == ~serverOn ~> (lpc = "end" /\ \A w \in Workers : wpc[w] = "end")
=============================================================================
