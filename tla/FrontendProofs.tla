--------------------------- MODULE FrontendProofs ---------------------------
(***************************************************************************)
(* A client of T6DB that is reset in the backlog has not been executed,    *)
(* whatever the clients, their requests and the base of the numbers.       *)
(***************************************************************************)
EXTENDS Frontend, TLAPS

Busy     == {"count", "length", "content", "exec", "send", "blocked", "close"}
Reading  == {"count", "length", "content", "exec"}

AtMostOne(s) == Len(s) <= 1

\* Connections are in the backlog once each, open, and nothing has been executed for them.
BacklogInv ==
  /\ backlog \in Seq(Clients)
  /\ \A i, j \in 1..Len(backlog) : backlog[i] = backlog[j] => i = j
  /\ \A i \in 1..Len(backlog) :
       conn[backlog[i]] = "open" /\ done[backlog[i]] = <<>> /\ backlog[i] # peer

\* The client that is served has its connection until it is answered, and nothing has been
\* executed for it before that step.
PeerInv ==
  /\ phase \in {"bind", "accept"} \cup Busy
  /\ IF phase \in Busy THEN peer \in Clients ELSE peer = NoClient
  /\ phase \in Busy => conn[peer] = (IF phase = "close" THEN "answered" ELSE "open")
  /\ phase \in Reading => done[peer] = <<>>

\* Clients without a connection have not been executed, and nobody twice.
DoneInv ==
  /\ conn \in [Clients -> {"new", "open", "reset", "answered"}]
  /\ DOMAIN done = Clients
  /\ \A c \in Clients : /\ AtMostOne(done[c])
                        /\ conn[c] \in {"new", "reset"} => done[c] = <<>>

OnceInv == BacklogInv /\ PeerInv /\ DoneInv

\* Nothing is executed, queued or dropped by the initial state.
LEMMA InitOnce == FrontInit => OnceInv
  BY DEF FrontInit, AtMostOne, OnceInv, BacklogInv, PeerInv, DoneInv, Busy, Reading

\* Steps that leave the connections, the backlog and the executed commands alone, and do not
\* go back to reading, keep the invariant.
LEMMA QuietSteps ==
  ASSUME OnceInv, UNCHANGED <<backlog, peer, conn, done>>,
         \/ phase' = phase
         \/ phase \in {"count", "length", "content"} /\ phase' \in Reading
         \/ phase = "bind" /\ phase' = "accept"
         \/ phase = "exec" /\ phase' = "send"
         \/ phase = "send" /\ phase' = "blocked"
  PROVE  OnceInv'
  BY DEF OnceInv, BacklogInv, PeerInv, DoneInv, Busy, Reading

\* A client that is new or was reset is neither in the backlog nor served, and joins it.
LEMMA CallKeeps == ASSUME OnceInv, NEW c \in Clients, NEW r \in Requests, Call(c, r)
                   PROVE  OnceInv'
<1>1. conn[c] \in {"new", "reset"} /\ done[c] = <<>>
  BY DEF Call, OnceInv, DoneInv
<1>2. backlog' = Append(backlog, c) /\ conn' = [conn EXCEPT ![c] = "open"]
      /\ UNCHANGED <<peer, phase, done>>
  BY DEF Call, outcomes
<1>3. \A i \in 1..Len(backlog) : backlog[i] # c
  BY <1>1 DEF OnceInv, BacklogInv
<1>4. phase \in Busy => peer # c
  BY <1>1 DEF OnceInv, PeerInv
<1>5. c # peer
  BY <1>4, FrontendAssumption DEF OnceInv, PeerInv
<1>6. /\ backlog' \in Seq(Clients) /\ Len(backlog') = Len(backlog) + 1
      /\ \A i \in 1..Len(backlog) : backlog'[i] = backlog[i]
      /\ backlog'[Len(backlog) + 1] = c
  BY <1>2 DEF OnceInv, BacklogInv
<1>7. BacklogInv'
  BY <1>1, <1>2, <1>3, <1>5, <1>6 DEF OnceInv, BacklogInv, DoneInv
<1>8. PeerInv'
  BY <1>2, <1>4 DEF OnceInv, PeerInv, DoneInv, Busy, Reading
<1>9. DoneInv'
  BY <1>1, <1>2 DEF OnceInv, DoneInv
<1>10. QED
  BY <1>7, <1>8, <1>9 DEF OnceInv

\* The first of the backlog leaves it, and is not in it a second time.
LEMMA AcceptKeeps == ASSUME OnceInv, AcceptPeer PROVE OnceInv'
<1>1. /\ backlog # <<>> /\ phase = "accept" /\ phase' = "count"
      /\ peer' = Head(backlog) /\ backlog' = Tail(backlog)
      /\ UNCHANGED <<conn, done>>
  BY DEF AcceptPeer, clientVars, outcomes
<1>2. /\ peer' = backlog[1] /\ 1 \in 1..Len(backlog) /\ peer' \in Clients
      /\ backlog' \in Seq(Clients) /\ Len(backlog') = Len(backlog) - 1
      /\ \A i \in 1..Len(backlog') : backlog'[i] = backlog[i + 1]
  BY <1>1 DEF OnceInv, BacklogInv
<1>3. conn[peer'] = "open" /\ done[peer'] = <<>>
  BY <1>2 DEF OnceInv, BacklogInv
<1>4. BacklogInv'
  BY <1>1, <1>2 DEF OnceInv, BacklogInv
<1>5. PeerInv'
  BY <1>1, <1>2, <1>3 DEF OnceInv, PeerInv, Busy, Reading
<1>6. DoneInv'
  BY <1>1 DEF OnceInv, DoneInv
<1>7. QED
  BY <1>4, <1>5, <1>6 DEF OnceInv

\* A sequence of one.
LEMMA AppendOne == ASSUME NEW e PROVE AtMostOne(Append(<<>>, e))
<1>1. ASSUME NEW S, NEW s \in Seq(S), NEW x \in S PROVE Len(Append(s, x)) = Len(s) + 1
  OBVIOUS
<1>2. Len(<<>>) = 0
  OBVIOUS
<1>3. <<>> \in Seq({e}) /\ e \in {e}
  OBVIOUS
<1>4. QED
  BY ONLY <1>1, <1>2, <1>3 DEF AtMostOne

\* A command is executed for a client with none before, which is no longer read from.
LEMMA PerformKeeps == ASSUME OnceInv, Perform PROVE OnceInv'
<1>1. /\ phase = "exec" /\ phase' = "send" /\ UNCHANGED <<backlog, peer, conn>>
      /\ done' = done \/ done' = [done EXCEPT ![peer] = Append(@, task)]
  BY DEF Perform, Takes, clientVars
<1>2. peer \in Clients /\ done[peer] = <<>> /\ conn[peer] = "open"
  BY <1>1 DEF OnceInv, PeerInv, Busy, Reading
<1>3. AtMostOne(Append(<<>>, task))
  BY AppendOne
<1>4. \A c \in Clients : done'[c] = done[c] \/ (c = peer /\ AtMostOne(done'[c]))
  <2> SUFFICES ASSUME NEW c \in Clients, done' = [done EXCEPT ![peer] = Append(@, task)]
                PROVE  done'[c] = done[c] \/ (c = peer /\ AtMostOne(done'[c]))
    BY <1>1
  <2>1. DOMAIN done = Clients
    BY DEF OnceInv, DoneInv
  <2>2. c # peer => done'[c] = done[c]
    BY <2>1
  <2>3. c = peer => done'[c] = Append(<<>>, task)
    BY <2>1, <1>2
  <2>4. QED
    BY <2>2, <2>3, <1>3
<1>5. BacklogInv'
  BY <1>1, <1>4 DEF OnceInv, BacklogInv
<1>6. PeerInv'
  BY <1>1, <1>2 DEF OnceInv, PeerInv, Busy, Reading
<1>7. DoneInv'
  BY <1>1, <1>2, <1>4 DEF OnceInv, DoneInv
<1>8. QED
  BY <1>5, <1>6, <1>7 DEF OnceInv

\* The answer is sent, or its client has gone: what was executed stays.
LEMMA SendKeeps == ASSUME OnceInv, SendResult \/ SendFails PROVE OnceInv'
<1>1. /\ phase \in {"send", "blocked"} /\ phase' = "close"
      /\ conn' = [conn EXCEPT ![peer] = "answered"]
      /\ UNCHANGED <<backlog, peer, done>>
  BY DEF SendResult, SendFails, Sent, outcomes
<1>2. peer \in Clients
  BY <1>1 DEF OnceInv, PeerInv, Busy
<1>3. QED
  BY <1>1, <1>2 DEF OnceInv, BacklogInv, PeerInv, DoneInv, Busy, Reading

\* The connections that close() resets are those of the backlog, and the one it closes is not
\* among them.
LEMMA CloseKeeps == ASSUME OnceInv, CloseAll PROVE OnceInv'
<1>1. /\ phase' = "bind" /\ peer' = NoClient /\ backlog' = <<>> /\ UNCHANGED done
      /\ conn' = [c \in Clients |-> IF c \in Range(backlog) THEN "reset" ELSE conn[c]]
  BY DEF CloseAll, outcomes
<1>2. \A c \in Range(backlog) : done[c] = <<>>
  BY DEF OnceInv, BacklogInv, Range
<1>3. DoneInv'
  BY <1>1, <1>2 DEF OnceInv, DoneInv
<1>4. QED
  BY <1>1, <1>3 DEF OnceInv, BacklogInv, PeerInv, Busy, Reading

\* Every step keeps the invariant.
LEMMA NextOnce == OnceInv /\ [FrontNext]_frontVars => OnceInv'
<1> SUFFICES ASSUME OnceInv, [FrontNext]_frontVars PROVE OnceInv'
  OBVIOUS
<1>1. CASE InitBind
  BY <1>1, QuietSteps DEF InitBind, clientVars, outcomes
<1>2. CASE AcceptPeer
  BY <1>2, AcceptKeeps
<1>3. CASE recvCommand
  <2>1. UNCHANGED <<backlog, peer, conn, done>>
    BY <1>3 DEF recvCommand, SkipByte, MarkByte, DigitByte, ReturnByte, BadByte, CountRead,
                LengthRead, ContentRead, PeerClosed, CountTimeout, Reads, clientVars, outcomes
  <2>2. phase \in {"count", "length", "content"} /\ phase' \in Reading
    BY <1>3 DEF recvCommand, SkipByte, MarkByte, DigitByte, ReturnByte, BadByte, CountRead,
                LengthRead, ContentRead, PeerClosed, CountTimeout, Reads, Reading
  <2>3. QED
    BY <2>1, <2>2, QuietSteps
<1>4. CASE Refuse
  BY <1>4, QuietSteps DEF Refuse, clientVars
<1>5. CASE Perform
  BY <1>5, PerformKeeps
<1>6. CASE SendResult \/ SendFails
  BY <1>6, SendKeeps
<1>7. CASE CloseAll
  BY <1>7, CloseKeeps
<1>8. CASE SendBytes
  BY <1>8, QuietSteps DEF SendBytes, serverVars, clientVars, outcomes
<1>9. CASE HangUp
  BY <1>9, QuietSteps DEF HangUp, serverVars, outcomes
<1>10. ASSUME NEW c \in Clients, NEW r \in Requests, Call(c, r) PROVE OnceInv'
  BY <1>10, CallKeeps
<1>11. CASE UNCHANGED frontVars
  BY <1>11, QuietSteps DEF frontVars, serverVars, clientVars, outcomes
<1>12. CASE StopsReading
  BY <1>12, QuietSteps DEF StopsReading, clientVars, outcomes
<1>13. QED
  BY <1>1, <1>2, <1>3, <1>4, <1>5, <1>6, <1>7, <1>8, <1>9, <1>10, <1>11, <1>12
     DEF FrontNext, Working

\* ResetNotExecuted: a client whose connection was reset with the listening socket can try
\* again, and however often it does, its command is executed at most once.
THEOREM ResetIsSafe == FrontSpec => []ResetNotExecuted
<1>1. OnceInv => ResetNotExecuted
  BY DEF OnceInv, DoneInv, AtMostOne, ResetNotExecuted
<1>2. QED
  BY <1>1, InitOnce, NextOnce, PTL DEF FrontSpec
=============================================================================
