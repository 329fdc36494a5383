-------------------------- MODULE HttpServerProofs --------------------------
(***************************************************************************)
(* Proofs about HttpServer, for any number of worker threads and any       *)
(* clients.  The invariant counts the tokens of empty: each one is in the  *)
(* semaphore, with the listener that is about to use it, spent on a slot   *)
(* that is taken, or with a worker that has cleared its slot.              *)
(***************************************************************************)
EXTENDS HttpServer, FiniteSetTheorems, TLAPS

Taken == {w \in Workers : socketFlag[w] # 0}
Releasing == {w \in Workers : wpc[w] = "cRelease"}
Serves(w) == Using(w) \/ wpc[w] \in {"cGet", "clear"}

\* A worker that serves has its descriptor in its slot, as only the worker itself clears it.
Inv ==
  /\ socketFlag = [w \in Workers |-> socketFlag[w]]
  /\ wpc = [w \in Workers |-> wpc[w]] /\ newSocket = [w \in Workers |-> newSocket[w]]
  /\ owner = [d \in Descriptors |-> owner[d]]
  /\ empty \in Nat /\ lastFitPos \in Workers
  /\ empty + (IF lpc = "place" THEN 1 ELSE 0) + Cardinality(Taken) + Cardinality(Releasing)
       <= thread_num
  /\ \A w \in Workers : Serves(w) => socketFlag[w] # 0
  /\ \A w \in Workers : Using(w) => newSocket[w] = socketFlag[w]
  /\ NoneForgotten

\* One worker more or less in a set of workers.
LEMMA Counts ==
  ASSUME NEW S \in SUBSET Workers, NEW w \in Workers
  PROVE  /\ Cardinality(S) \in Nat
         /\ Cardinality(S \cup {w}) <= Cardinality(S) + 1
         /\ w \in S => Cardinality(S \ {w}) = Cardinality(S) - 1
         /\ w \notin S => S \ {w} = S
<1>1. IsFiniteSet(S) /\ Cardinality(S) \in Nat
  <2>1. IsFiniteSet(Workers)
    BY HttpServerAssumption, FS_Interval DEF Workers
  <2>. QED BY <2>1, FS_Subset, FS_CardinalityType
<1>2. Cardinality(S \cup {w}) <= Cardinality(S) + 1
  <2>1. CASE w \in S
    <3>1. S \cup {w} = S
      BY <2>1
    <3>2. \A n \in Nat : n <= n + 1
      OBVIOUS
    <3>. QED BY <1>1, <3>1, <3>2
  <2>2. CASE w \notin S
    <3>1. Cardinality(S \cup {w}) = Cardinality(S) + 1
      BY <1>1, <2>2, FS_AddElement
    <3>. QED BY <1>1, <3>1
  <2>. QED BY <2>1, <2>2
<1>3. w \in S => Cardinality(S \ {w}) = Cardinality(S) - 1
  BY <1>1, FS_RemoveElement
<1>. QED BY <1>1, <1>2, <1>3

LEMMA InitInv == Init => Inv
<1> SUFFICES ASSUME Init PROVE Inv
  OBVIOUS
<1>1. Cardinality(Taken) = 0 /\ Cardinality(Releasing) = 0
  <2>1. Taken = {} /\ Releasing = {}
    BY DEF Init, Taken, Releasing
  <2>. QED BY <2>1, FS_EmptySet
<1>2. NoneForgotten
  BY HttpServerAssumption DEF Init, NoneForgotten
<1>. QED BY <1>1, <1>2, HttpServerAssumption DEF Init, Inv, Workers, Serves, Using

\* The steps that neither a slot nor a descriptor nor a worker sees: main, the clients, and the
\* listener's except Accept and Place.
LEMMA QuietSteps ==
  ASSUME Inv,
         \/ Quit \/ (\E c \in Clients : Connect(c) \/ SendPiece(c))
         \/ ListenerQuits \/ ListenerLooks \/ AcceptTimeout
         \/ ListenerGets \/ ListenerReleases \/ UNCHANGED vars
  PROVE  Inv'
<1>1. UNCHANGED <<socketFlag, wpc, newSocket, owner, lastFitPos, clientSocket>>
  BY DEF Quit, Connect, SendPiece, ListenerQuits, ListenerLooks, AcceptTimeout, ListenerGets,
         ListenerReleases, vars, listenVars, workVars
<1>2. UNCHANGED <<Taken, Releasing>> /\ \A w : Using(w)' = Using(w) /\ Serves(w)' = Serves(w)
  BY <1>1 DEF Taken, Releasing, Using, Serves
<1>3. /\ empty' \in Nat
      /\ empty' + (IF lpc' = "place" THEN 1 ELSE 0) = empty + (IF lpc = "place" THEN 1 ELSE 0)
  BY DEF Inv, Quit, Connect, SendPiece, ListenerQuits, ListenerLooks, AcceptTimeout,
         ListenerGets, ListenerReleases, vars, listenVars, lockVars
<1>4. lpc \in {"pGet", "place"} => lpc' \in {"pGet", "place"}
  BY DEF Quit, Connect, SendPiece, ListenerQuits, ListenerLooks, AcceptTimeout,
         ListenerGets, ListenerReleases, vars, listenVars
<1>5. NoneForgotten'
  BY <1>1, <1>4 DEF Inv, NoneForgotten
<1>6. Cardinality(Taken) \in Nat /\ Cardinality(Releasing) \in Nat
  BY Counts, HttpServerAssumption DEF Taken, Releasing, Workers, Inv
<1>. QED BY <1>1, <1>2, <1>3, <1>5, <1>6, HttpServerAssumption DEF Inv

LEMMA AcceptStep == Inv /\ Accept => Inv'
<1> SUFFICES ASSUME Inv, Accept PROVE Inv'
  OBVIOUS
<1>1. UNCHANGED <<socketFlag, wpc, newSocket, empty, lastFitPos>> /\ lpc = "accept"
      /\ lpc' = "pGet"
  BY DEF Accept, lockVars, workVars
<1>2. UNCHANGED <<Taken, Releasing>> /\ \A w : Using(w)' = Using(w) /\ Serves(w)' = Serves(w)
  BY <1>1 DEF Taken, Releasing, Using, Serves
<1>3. owner' = [d \in Descriptors |-> owner'[d]]
  BY DEF Accept, Inv
<1>4. NoneForgotten'
  <2> SUFFICES ASSUME NEW d \in Descriptors, owner'[d] \in Clients, clientSocket' # d
               PROVE  \E w \in Workers : socketFlag[w] = d /\ wpc[w] \notin {"cGet", "clear"}
    BY <1>1 DEF NoneForgotten
  <2>1. owner[d] \in Clients
    BY DEF Accept, Inv
  <2>. QED BY <2>1, <1>1 DEF Inv, NoneForgotten
<1>. QED BY <1>1, <1>2, <1>3, <1>4 DEF Inv

\* The slot the listener fills was empty, so nobody serves from it.
LEMMA PlaceStep == Inv /\ Place => Inv'
<1> SUFFICES ASSUME Inv, Place PROVE Inv'
  OBVIOUS
<1>1. lastFitPos' \in Workers
  BY HttpServerAssumption DEF Place, Workers, Inv
<1> DEFINE v == lastFitPos'
<1>2. /\ socketFlag[v] = 0 /\ socketFlag' = [socketFlag EXCEPT ![v] = clientSocket]
      /\ UNCHANGED <<wpc, newSocket, owner, empty, clientSocket>>
      /\ lpc = "place" /\ lpc' = "pRelease"
  BY DEF Place, lockVars, workVars
<1>. HIDE DEF v
<1>3. v \in Workers /\ ~Serves(v)
  BY <1>1, <1>2 DEF Inv, v
<1>4. Releasing' = Releasing /\ \A w : Using(w)' = Using(w) /\ Serves(w)' = Serves(w)
  BY <1>2 DEF Releasing, Using, Serves
<1>5. /\ Cardinality(Taken) \in Nat /\ Cardinality(Releasing) \in Nat
      /\ Cardinality(Taken') \in Nat /\ Cardinality(Taken') <= Cardinality(Taken) + 1
  <2>1. Taken' = Taken \/ Taken' = Taken \cup {v}
    BY <1>2, <1>3 DEF Taken, Inv
  <2>2. Taken \in SUBSET Workers /\ Taken' \in SUBSET Workers /\ Releasing \in SUBSET Workers
    BY DEF Taken, Releasing, Workers
  <2>3. Cardinality(Taken \cup {v}) <= Cardinality(Taken) + 1 /\ Cardinality(Taken) \in Nat
    BY <1>3, <2>2, Counts
  <2>4. Cardinality(Taken') \in Nat /\ Cardinality(Releasing) \in Nat
    BY <1>3, <2>2, Counts
  <2>5. CASE Taken' = Taken
    <3>1. \A n \in Nat : n <= n + 1
      OBVIOUS
    <3>. QED BY <2>3, <2>4, <2>5, <3>1
  <2>6. CASE Taken' = Taken \cup {v}
    BY <2>3, <2>4, <2>6
  <2>. QED BY <2>1, <2>5, <2>6
<1>6. NoneForgotten'
  <2> SUFFICES ASSUME NEW d \in Descriptors, owner[d] \in Clients
               PROVE  \E w \in Workers : socketFlag'[w] = d /\ wpc[w] \notin {"cGet", "clear"}
    BY <1>2 DEF NoneForgotten
  <2>1. CASE clientSocket = d
    BY <1>2, <1>3, <2>1 DEF Inv, Serves
  <2>2. CASE clientSocket # d
    <3>1. PICK w \in Workers : socketFlag[w] = d /\ wpc[w] \notin {"cGet", "clear"}
      BY <2>2 DEF Inv, NoneForgotten
    <3>2. w # v
      BY <1>2, <3>1 DEF Descriptors
    <3>. QED BY <1>2, <3>1, <3>2 DEF Inv
  <2>. QED BY <2>1, <2>2
<1>7. \A w \in Workers : w # v => socketFlag'[w] = socketFlag[w]
  BY <1>2 DEF Inv
<1>8. socketFlag' = [w \in Workers |-> socketFlag'[w]]
  BY <1>2 DEF Inv
<1>9. \A w \in Workers : Serves(w)' => socketFlag'[w] # 0 /\ (Using(w)' => newSocket'[w] = socketFlag'[w])
  BY <1>2, <1>3, <1>4, <1>7 DEF Inv, Serves
<1>10. empty' + Cardinality(Taken') + Cardinality(Releasing') <= thread_num
  BY <1>2, <1>4, <1>5, HttpServerAssumption DEF Inv
<1>. QED BY <1>1, <1>2, <1>4, <1>6, <1>8, <1>9, <1>10 DEF Inv, Serves

-----------------------------------------------------------------------------
(* The workers *)

\* The worker goes on without a change of its slot: it looks, polls, reads, answers.
LEMMA WorkerStep ==
  ASSUME Inv, NEW w \in Workers,
         \/ WorkerQuits(w) \/ WorkerLooks(w) \/ NoSocket(w) \/ TakeSocket(w)
         \/ Recv(w) \/ RecvNothing(w) \/ Peek(w) \/ make_respose(w)
         \/ ConnectUpstream(w) \/ ConnectFails(w) \/ UpstreamAnswers(w)
         \/ Send(w) \/ SendBlocks(w) \/ ForwardBlocks(w) \/ Close(w) \/ WorkerGets(w)
  PROVE  Inv'
<1> DEFINE to == wpc'[w]
<1>1. /\ wpc' = [wpc EXCEPT ![w] = to]
      /\ wpc[w] # "cRelease" /\ to # "cRelease" /\ wpc[w] # "clear"
      /\ UNCHANGED <<socketFlag, empty, lastFitPos, lpc, clientSocket>>
      /\ wpc[w] = "cGet" <=> to = "clear"
  BY DEF Inv, WorkerQuits, WorkerLooks, NoSocket, TakeSocket, Recv, RecvNothing, Peek,
         make_respose, ConnectUpstream, ConnectFails, UpstreamAnswers, Send, SendBlocks,
         ForwardBlocks, Close, WorkerGets, lockVars, listenVars
<1>2. Serves(w)' => socketFlag[w] # 0
  <2>1. CASE TakeSocket(w)
    BY <2>1 DEF TakeSocket
  <2>2. CASE WorkerQuits(w) \/ WorkerLooks(w) \/ NoSocket(w)
    BY <2>2 DEF Inv, WorkerQuits, WorkerLooks, NoSocket, Serves, Using
  <2>3. CASE \/ Recv(w) \/ RecvNothing(w) \/ Peek(w) \/ make_respose(w)
             \/ ConnectUpstream(w) \/ ConnectFails(w) \/ UpstreamAnswers(w)
             \/ Send(w) \/ SendBlocks(w) \/ ForwardBlocks(w) \/ Close(w) \/ WorkerGets(w)
    <3>1. Serves(w)
      BY <2>3 DEF Recv, RecvNothing, Peek, make_respose, ConnectUpstream, ConnectFails,
                  UpstreamAnswers, Send, SendBlocks, ForwardBlocks, Close, WorkerGets, Serves,
                  Using
    <3>. QED BY <3>1 DEF Inv
  <2>. QED BY <2>1, <2>2, <2>3
<1>3. /\ newSocket' = [v \in Workers |-> newSocket'[v]]
      /\ \A v \in Workers : v # w => newSocket'[v] = newSocket[v]
      /\ Using(w)' => newSocket'[w] = socketFlag[w]
  <2>1. CASE TakeSocket(w)
    BY <2>1 DEF Inv, TakeSocket
  <2>2. CASE Close(w)
    <3>1. newSocket' = [newSocket EXCEPT ![w] = 0] /\ ~Using(w)'
      BY <2>2 DEF Inv, Close, Using
    <3>. QED BY <3>1 DEF Inv
  <2>3. CASE ~TakeSocket(w) /\ ~Close(w)
    <3>1. newSocket' = newSocket
      BY <2>3 DEF WorkerQuits, WorkerLooks, NoSocket, Recv, RecvNothing, Peek, make_respose,
                  ConnectUpstream, ConnectFails, UpstreamAnswers, Send, SendBlocks,
                  ForwardBlocks, WorkerGets, workVars
    <3>2. Using(w)' => Using(w)
      BY <2>3, <1>1 DEF Inv, WorkerQuits, WorkerLooks, NoSocket, Recv, RecvNothing, Peek,
                  make_respose, ConnectUpstream, ConnectFails, UpstreamAnswers, Send,
                  SendBlocks, ForwardBlocks, WorkerGets, Using
    <3>. QED BY <3>1, <3>2 DEF Inv
  <2>. QED BY <2>1, <2>2, <2>3
\* A descriptor that is a client's was so before, and Close ends the one in the slot.
<1>4. /\ owner' = [d \in Descriptors |-> owner'[d]]
      /\ \A d \in Descriptors : owner'[d] \in Clients =>
           owner[d] \in Clients /\ (wpc[w] = "close" => newSocket[w] # d)
  <2>1. CASE ConnectUpstream(w) \/ ConnectFails(w) \/ UpstreamAnswers(w) \/ Close(w)
    BY <2>1, HttpServerAssumption
       DEF Inv, ConnectUpstream, ConnectFails, UpstreamAnswers, Close
  <2>2. CASE ~(ConnectUpstream(w) \/ ConnectFails(w) \/ UpstreamAnswers(w) \/ Close(w))
    BY <2>2 DEF Inv, WorkerQuits, WorkerLooks, NoSocket, TakeSocket, Recv, RecvNothing, Peek,
                make_respose, Send, SendBlocks, ForwardBlocks, WorkerGets
  <2>. QED BY <2>1, <2>2
<1>5. to = "cGet" => wpc[w] = "close"
  BY DEF Inv, WorkerQuits, WorkerLooks, NoSocket, TakeSocket, Recv, RecvNothing, Peek,
         make_respose, ConnectUpstream, ConnectFails, UpstreamAnswers, Send, SendBlocks,
         ForwardBlocks, Close, WorkerGets
<1>. HIDE DEF to
<1>6. \A v \in Workers : v # w =>
        Using(v)' = Using(v) /\ Serves(v)' = Serves(v) /\ wpc'[v] = wpc[v]
  BY <1>1 DEF Using, Serves, Inv
<1>7. Taken' = Taken /\ Releasing' = Releasing
  BY <1>1 DEF Taken, Releasing, Inv
<1>8. NoneForgotten'
  <2> SUFFICES ASSUME NEW d \in Descriptors, owner'[d] \in Clients,
                      ~(lpc \in {"pGet", "place"} /\ clientSocket = d)
               PROVE  \E v \in Workers : socketFlag[v] = d /\ wpc'[v] \notin {"cGet", "clear"}
    BY <1>1 DEF NoneForgotten
  <2>1. PICK v \in Workers : socketFlag[v] = d /\ wpc[v] \notin {"cGet", "clear"}
    BY <1>4 DEF Inv, NoneForgotten
  <2>2. CASE v # w
    BY <1>6, <2>1, <2>2
  <2>3. CASE v = w
    <3>1. wpc[w] # "close"
      BY <1>4, <2>1, <2>3 DEF Inv, Using
    <3>2. to \notin {"cGet", "clear"}
      BY <1>1, <1>5, <2>1, <2>3, <3>1
    <3>. QED BY <1>1, <2>1, <2>3, <3>2 DEF Inv
  <2>. QED BY <2>2, <2>3
<1>9. \A v \in Workers : /\ Serves(v)' => socketFlag'[v] # 0
                         /\ Using(v)' => newSocket'[v] = socketFlag'[v]
  BY <1>1, <1>2, <1>3, <1>6 DEF Inv
<1>10. wpc' = [v \in Workers |-> wpc'[v]]
  BY <1>1 DEF Inv
<1>. QED BY <1>1, <1>3, <1>4, <1>7, <1>8, <1>9, <1>10 DEF Inv

\* The token goes from the slot to the worker.
LEMMA ClearStep ==
  ASSUME Inv, NEW w \in Workers, Clear(w)
  PROVE  Inv'
<1>1. /\ wpc[w] = "clear" /\ wpc' = [wpc EXCEPT ![w] = "cRelease"]
      /\ socketFlag' = [socketFlag EXCEPT ![w] = 0]
      /\ UNCHANGED <<empty, lastFitPos, lpc, clientSocket, owner, newSocket>>
  BY DEF Clear, lockVars, listenVars, workVars
<1>2. w \in Taken /\ Taken' = Taken \ {w} /\ Releasing' = Releasing \cup {w}
  BY <1>1 DEF Inv, Taken, Releasing, Serves
<1>3. Cardinality(Taken') + Cardinality(Releasing')
        <= Cardinality(Taken) + Cardinality(Releasing)
  <2>1. Taken \in SUBSET Workers /\ Releasing \in SUBSET Workers
        /\ Releasing \cup {w} \in SUBSET Workers
    BY DEF Taken, Releasing
  <2>2. /\ Cardinality(Taken) \in Nat /\ Cardinality(Releasing) \in Nat
        /\ Cardinality(Releasing \cup {w}) \in Nat
        /\ Cardinality(Taken \ {w}) = Cardinality(Taken) - 1
        /\ Cardinality(Releasing \cup {w}) <= Cardinality(Releasing) + 1
    BY <1>2, <2>1, Counts
  <2>. QED BY <1>2, <2>2
<1>4. \A v \in Workers : v # w =>
        /\ Using(v)' = Using(v) /\ Serves(v)' = Serves(v) /\ wpc'[v] = wpc[v]
        /\ socketFlag'[v] = socketFlag[v]
  BY <1>1 DEF Using, Serves, Inv
<1>5. ~Serves(w)' /\ ~Using(w)'
  BY <1>1 DEF Inv, Serves, Using
<1>6. NoneForgotten'
  BY <1>1, <1>4 DEF Inv, NoneForgotten
<1>7. /\ Cardinality(Taken) \in Nat /\ Cardinality(Releasing) \in Nat
      /\ Cardinality(Taken') \in Nat /\ Cardinality(Releasing') \in Nat
  <2>1. Taken \in SUBSET Workers /\ Releasing \in SUBSET Workers
        /\ Taken' \in SUBSET Workers /\ Releasing' \in SUBSET Workers
    BY DEF Taken, Releasing, Workers
  <2>. QED BY <2>1, Counts
<1>8. empty' + (IF lpc' = "place" THEN 1 ELSE 0) + Cardinality(Taken') + Cardinality(Releasing')
        <= thread_num
  BY <1>1, <1>3, <1>7, HttpServerAssumption DEF Inv
<1>. QED BY <1>1, <1>4, <1>5, <1>6, <1>8 DEF Inv

\* The token goes from the worker back to the semaphore.
LEMMA ReleaseStep ==
  ASSUME Inv, NEW w \in Workers, WorkerReleases(w)
  PROVE  Inv'
<1>1. /\ wpc[w] = "cRelease" /\ wpc' = [wpc EXCEPT ![w] = "loop"] /\ empty' = empty + 1
      /\ UNCHANGED <<socketFlag, lastFitPos, lpc, clientSocket, owner, newSocket>>
  BY DEF WorkerReleases, listenVars, workVars
<1>2. w \in Releasing /\ Releasing' = Releasing \ {w} /\ Taken' = Taken
  BY <1>1 DEF Inv, Taken, Releasing
<1>3. /\ Cardinality(Taken) \in Nat /\ Cardinality(Releasing) \in Nat
      /\ Cardinality(Releasing \ {w}) = Cardinality(Releasing) - 1
  <2>1. Taken \in SUBSET Workers /\ Releasing \in SUBSET Workers
    BY DEF Taken, Releasing
  <2>. QED BY <1>2, <2>1, Counts
<1>4. \A v \in Workers : Using(v)' => Using(v)
  BY <1>1 DEF Using, Inv
<1>5. \A v \in Workers : Serves(v)' => Serves(v)
  BY <1>1 DEF Using, Serves, Inv
<1>6. NoneForgotten'
  BY <1>1 DEF Inv, NoneForgotten
<1>7. empty' + (IF lpc' = "place" THEN 1 ELSE 0) + Cardinality(Taken') + Cardinality(Releasing')
        <= thread_num
  BY <1>1, <1>2, <1>3, HttpServerAssumption DEF Inv
<1>. QED BY <1>1, <1>4, <1>5, <1>6, <1>7 DEF Inv

-----------------------------------------------------------------------------
LEMMA NextInv == Inv /\ [Next]_vars => Inv'
<1>1. ASSUME NEW w \in Workers, Inv, socket_worker(w) \/ SendBlocks(w) \/ ForwardBlocks(w)
      PROVE  Inv'
  BY <1>1, WorkerStep, ClearStep, ReleaseStep DEF socket_worker
<1>2. ASSUME Inv, thread_scheduling PROVE Inv'
  BY <1>2, QuietSteps, AcceptStep, PlaceStep DEF thread_scheduling
<1>. QED BY <1>1, <1>2, QuietSteps DEF Next

LEMMA Invariance == Spec => []Inv
<1>. QED BY InitInv, NextInv, PTL DEF Spec

-----------------------------------------------------------------------------
(* The descriptors *)

\* The slot of w holds a connection that is not closed yet; the listener holds one.
Pending(w) == socketFlag[w] # 0 /\ wpc[w] \notin {"cGet", "clear"}
Handing == lpc \in {"pGet", "place"}

\* Each open connection is held once: by the listener, or by one slot.
DescInv ==
  /\ owner \in [Descriptors -> Clients \cup {Upstream, Nobody}]
  /\ clientSocket \in {0} \cup Descriptors
  /\ socketFlag \in [Workers -> {0} \cup Descriptors]
  /\ newSocket \in [Workers -> {0} \cup Descriptors]
  /\ clientSock \in [Workers -> {0} \cup Descriptors]
  /\ backlog \in Seq(Clients)
  /\ Handing => clientSocket # 0 /\ owner[clientSocket] \in Clients
  /\ \A w \in Workers : Pending(w) => /\ owner[socketFlag[w]] \in Clients
                                      /\ Handing => socketFlag[w] # clientSocket
  /\ \A v, w \in Workers : v # w /\ Pending(v) /\ Pending(w) => socketFlag[v] # socketFlag[w]
  /\ \A w \in Workers : wpc[w] = "upstream" =>
        clientSock[w] # 0 /\ owner[clientSock[w]] = Upstream
  /\ \A v, w \in Workers : v # w /\ wpc[v] = "upstream" /\ wpc[w] = "upstream" =>
        clientSock[v] # clientSock[w]

LEMMA InitDesc == Init => DescInv
<1>1. 0 \notin Descriptors /\ Descriptors \subseteq Nat
  BY DEF Descriptors
<1>. QED BY <1>1 DEF Init, DescInv, Pending, Handing

\* The descriptor that a worker uses is in its slot and its client's.
LEMMA Uses ==
  ASSUME Inv, DescInv, NEW w \in Workers, Using(w)
  PROVE  /\ Pending(w) /\ newSocket[w] = socketFlag[w] /\ newSocket[w] \in Descriptors
         /\ peer(w) \in Clients
  BY DEF Inv, DescInv, Using, Serves, Pending, peer

LEMMA NextDesc == Inv /\ DescInv /\ [Next]_vars => DescInv'
<1> SUFFICES ASSUME Inv, DescInv, [Next]_vars PROVE DescInv'
  OBVIOUS
<1>0. 0 \notin Descriptors /\ {Upstream, Nobody} \cap Clients = {} /\ Upstream # Nobody
  BY HttpServerAssumption DEF Descriptors
<1>1. CASE \/ Quit \/ (\E c \in Clients : Connect(c) \/ SendPiece(c))
           \/ ListenerQuits \/ ListenerLooks \/ AcceptTimeout
           \/ ListenerGets \/ ListenerReleases \/ UNCHANGED vars
  <2>1. UNCHANGED <<socketFlag, wpc, newSocket, clientSock, owner, clientSocket>>
    BY <1>1 DEF Quit, Connect, SendPiece, ListenerQuits, ListenerLooks, AcceptTimeout,
                ListenerGets, ListenerReleases, vars, listenVars, workVars
  <2>2. Handing' => Handing
    BY <1>1 DEF Quit, Connect, SendPiece, ListenerQuits, ListenerLooks, AcceptTimeout,
                ListenerGets, ListenerReleases, vars, listenVars, Handing
  <2>3. \A w : Pending(w)' = Pending(w)
    BY <2>1 DEF Pending
  <2>4. backlog' \in Seq(Clients)
    <3>1. backlog \in Seq(Clients)
      BY DEF DescInv
    <3>2. CASE \E c \in Clients : Connect(c)
      BY <3>1, <3>2 DEF Connect
    <3>3. CASE ~\E c \in Clients : Connect(c)
      BY <1>1, <3>1, <3>3 DEF Quit, SendPiece, ListenerQuits, ListenerLooks, AcceptTimeout,
                ListenerGets, ListenerReleases, vars, netVars
    <3>. QED BY <3>2, <3>3
  <2>. QED BY <2>1, <2>2, <2>3, <2>4 DEF DescInv
<1>2. CASE Accept
  <2>1. PICK d \in Descriptors :
          /\ owner[d] = Nobody /\ clientSocket' = d
          /\ owner' = [owner EXCEPT ![d] = Head(backlog)]
    BY <1>2 DEF Accept, LowestFree, Open
  <2>2. /\ UNCHANGED <<socketFlag, wpc, newSocket, clientSock>>
        /\ lpc = "accept" /\ lpc' = "pGet" /\ backlog # <<>> /\ backlog' = Tail(backlog)
    BY <1>2 DEF Accept, workVars
  <2>3. Head(backlog) \in Clients /\ backlog' \in Seq(Clients)
    BY <2>2 DEF DescInv
  <2>4. \A w : Pending(w)' = Pending(w)
    BY <2>2 DEF Pending
  <2>5. \A w \in Workers : Pending(w) => socketFlag[w] # d
    BY <1>0, <2>1 DEF DescInv
  <2>6. \A w \in Workers : wpc[w] = "upstream" => clientSock[w] # d
    BY <1>0, <2>1 DEF DescInv
  <2>7. \A e \in Descriptors : e # d => owner'[e] = owner[e]
    BY <2>1 DEF DescInv
  <2>8. \A w \in Workers : Pending(w) => socketFlag[w] \in Descriptors
    BY DEF DescInv, Pending
  <2>9. \A w \in Workers : wpc[w] = "upstream" => clientSock[w] \in Descriptors
    BY DEF DescInv
  <2>10. owner' \in [Descriptors -> Clients \cup {Upstream, Nobody}] /\ owner'[d] \in Clients
    BY <2>1, <2>3 DEF DescInv
  <2>. QED BY <1>0, <2>1, <2>2, <2>3, <2>4, <2>5, <2>6, <2>7, <2>8, <2>9, <2>10 DEF DescInv
<1>3. CASE Place
  <2>1. /\ socketFlag[lastFitPos'] = 0
        /\ socketFlag' = [socketFlag EXCEPT ![lastFitPos'] = clientSocket]
        /\ UNCHANGED <<wpc, newSocket, clientSock, owner, clientSocket, backlog>>
        /\ lpc = "place" /\ lpc' = "pRelease"
    BY <1>3 DEF Place, workVars, netVars
  <2>2. \A w \in Workers : Pending(w)' => (Pending(w) /\ w # lastFitPos') \/ w = lastFitPos'
    BY <2>1 DEF Pending, DescInv
  <2>3. Handing /\ ~Handing'
    BY <2>1 DEF Handing
  <2>4. \A w \in Workers : socketFlag'[w] = IF w = lastFitPos' THEN clientSocket
                                                               ELSE socketFlag[w]
    BY <2>1 DEF DescInv
  <2>5. socketFlag' \in [Workers -> {0} \cup Descriptors]
    BY <2>1 DEF DescInv
  <2>. QED BY <2>1, <2>2, <2>3, <2>4, <2>5 DEF DescInv
<1>4. ASSUME NEW w \in Workers,
             \/ WorkerQuits(w) \/ WorkerLooks(w) \/ NoSocket(w) \/ TakeSocket(w)
             \/ Recv(w) \/ RecvNothing(w) \/ Peek(w) \/ make_respose(w)
             \/ Send(w) \/ SendBlocks(w) \/ ForwardBlocks(w) \/ WorkerGets(w)
             \/ WorkerReleases(w)
      PROVE  DescInv'
  <2>1. /\ UNCHANGED <<socketFlag, clientSock, owner, clientSocket, backlog, lpc>>
        /\ wpc' = [wpc EXCEPT ![w] = wpc'[w]] /\ wpc'[w] # "upstream"
        /\ wpc[w] \in {"cGet", "clear"} => wpc'[w] \in {"cGet", "clear"}
    BY <1>4 DEF Inv, WorkerQuits, WorkerLooks, NoSocket, TakeSocket, Recv, RecvNothing, Peek,
                make_respose, Send, SendBlocks, ForwardBlocks, WorkerGets, WorkerReleases,
                listenVars, workVars, netVars
  <2>2. newSocket' \in [Workers -> {0} \cup Descriptors]
    BY <1>4 DEF DescInv, WorkerQuits, WorkerLooks, NoSocket, TakeSocket, Recv, RecvNothing,
                Peek, make_respose, Send, SendBlocks, ForwardBlocks, WorkerGets,
                WorkerReleases, workVars
  <2>3. \A v \in Workers : Pending(v)' => Pending(v)
    BY <2>1 DEF Pending, Inv
  <2>4. \A v \in Workers : wpc'[v] = "upstream" => wpc[v] = "upstream"
    BY <2>1 DEF Inv
  <2>5. Handing' = Handing
    BY <2>1 DEF Handing
  <2>. QED BY <2>1, <2>2, <2>3, <2>4, <2>5 DEF DescInv
<1>5. ASSUME NEW w \in Workers, Clear(w) PROVE DescInv'
  <2>1. /\ UNCHANGED <<newSocket, clientSock, owner, clientSocket, backlog, lpc>>
        /\ wpc' = [wpc EXCEPT ![w] = "cRelease"]
        /\ socketFlag' = [socketFlag EXCEPT ![w] = 0]
    BY <1>5 DEF Clear, listenVars, workVars, netVars
  <2>2. \A v \in Workers : /\ Pending(v)' => Pending(v) /\ socketFlag'[v] = socketFlag[v]
                           /\ wpc'[v] = "upstream" => wpc[v] = "upstream"
    BY <2>1 DEF Pending, Inv
  <2>3. Handing' = Handing /\ socketFlag' \in [Workers -> {0} \cup Descriptors]
    BY <2>1 DEF Handing, DescInv
  <2>. QED BY <2>1, <2>2, <2>3 DEF DescInv
<1>6. ASSUME NEW w \in Workers, ConnectUpstream(w) PROVE DescInv'
  <2>1. PICK d \in Descriptors :
          /\ owner[d] = Nobody /\ clientSock' = [clientSock EXCEPT ![w] = d]
          /\ owner' = [owner EXCEPT ![d] = Upstream]
    BY <1>6 DEF ConnectUpstream, LowestFree, Open
  <2>2. /\ UNCHANGED <<socketFlag, newSocket, clientSocket, backlog, lpc>>
        /\ wpc[w] = "answer" /\ wpc' = [wpc EXCEPT ![w] = "upstream"]
    BY <1>6 DEF ConnectUpstream, listenVars, netVars
  <2>3. \A v \in Workers : Pending(v)' = Pending(v)
    BY <2>2 DEF Pending, Inv
  <2>4. Handing' = Handing
    BY <2>2 DEF Handing
  <2>5. \A v \in Workers : v # w => wpc'[v] = wpc[v] /\ clientSock'[v] = clientSock[v]
    BY <2>1, <2>2 DEF Inv, DescInv
  <2>6. \A e \in Descriptors : e # d => owner'[e] = owner[e]
    BY <2>1 DEF DescInv
  <2>7. /\ \A v \in Workers : Pending(v) => socketFlag[v] \in Descriptors \ {d}
        /\ Handing => clientSocket \in Descriptors \ {d}
        /\ \A v \in Workers : wpc[v] = "upstream" => clientSock[v] \in Descriptors \ {d}
    BY <1>0, <2>1 DEF DescInv, Pending
  <2>8. /\ clientSock'[w] = d /\ owner'[d] = Upstream /\ d # 0
        /\ owner' \in [Descriptors -> Clients \cup {Upstream, Nobody}]
        /\ clientSock' \in [Workers -> {0} \cup Descriptors]
    BY <1>0, <2>1 DEF DescInv
  <2>. QED BY <2>2, <2>3, <2>4, <2>5, <2>6, <2>7, <2>8 DEF DescInv
<1>7. ASSUME NEW w \in Workers, ConnectFails(w) \/ UpstreamAnswers(w) PROVE DescInv'
  <2>1. /\ UNCHANGED <<socketFlag, newSocket, clientSocket, backlog, lpc>>
        /\ wpc[w] = "upstream" /\ wpc' = [wpc EXCEPT ![w] = wpc'[w]]
        /\ wpc'[w] \in {"close", "send"}
        /\ clientSock' = [clientSock EXCEPT ![w] = 0]
        /\ owner' = [owner EXCEPT ![clientSock[w]] = Nobody]
    BY <1>7 DEF ConnectFails, UpstreamAnswers, listenVars, netVars, Inv
  <2>2. \A v \in Workers : Pending(v)' = Pending(v)
    BY <2>1 DEF Pending, Inv
  <2>3. Handing' = Handing
    BY <2>1 DEF Handing
  <2>4. \A v \in Workers : v # w => wpc'[v] = wpc[v] /\ clientSock'[v] = clientSock[v]
    BY <2>1 DEF Inv, DescInv
  <2>5. \A e \in Descriptors : e # clientSock[w] => owner'[e] = owner[e]
    BY <2>1 DEF DescInv
  <2>6. /\ \A v \in Workers : Pending(v) =>
             socketFlag[v] \in Descriptors /\ socketFlag[v] # clientSock[w]
        /\ Handing => clientSocket \in Descriptors /\ clientSocket # clientSock[w]
        /\ \A v \in Workers : v # w /\ wpc[v] = "upstream" =>
             clientSock[v] \in Descriptors /\ clientSock[v] # clientSock[w]
    BY <1>0, <2>1 DEF DescInv, Pending
  <2>7. /\ owner' \in [Descriptors -> Clients \cup {Upstream, Nobody}]
        /\ clientSock' \in [Workers -> {0} \cup Descriptors]
    BY <2>1 DEF DescInv
  <2>8. wpc'[w] # "upstream"
    BY <2>1
  <2>. QED BY <2>1, <2>2, <2>3, <2>4, <2>5, <2>6, <2>7, <2>8 DEF DescInv
<1>8. ASSUME NEW w \in Workers, Close(w) PROVE DescInv'
  <2>1. /\ UNCHANGED <<socketFlag, clientSock, clientSocket, backlog, lpc>>
        /\ wpc[w] = "close" /\ wpc' = [wpc EXCEPT ![w] = "cGet"]
        /\ newSocket' = [newSocket EXCEPT ![w] = 0]
        /\ owner' = [owner EXCEPT ![newSocket[w]] = Nobody]
    BY <1>8 DEF Close, listenVars, netVars
  <2>2. Pending(w) /\ newSocket[w] = socketFlag[w] /\ owner[newSocket[w]] \in Clients
    BY <2>1, Uses DEF Using, peer
  <2>3. \A v \in Workers : Pending(v)' => Pending(v) /\ v # w
    BY <2>1 DEF Pending, Inv
  <2>4. Handing' = Handing
    BY <2>1 DEF Handing
  <2>5. \A v \in Workers : wpc'[v] = "upstream" => wpc[v] = "upstream"
    BY <2>1 DEF Inv
  <2>6. \A e \in Descriptors : e # newSocket[w] => owner'[e] = owner[e]
    BY <2>1 DEF DescInv
  <2>7. /\ \A v \in Workers : Pending(v) /\ v # w =>
             socketFlag[v] \in Descriptors /\ socketFlag[v] # newSocket[w]
        /\ Handing => clientSocket \in Descriptors /\ clientSocket # newSocket[w]
        /\ \A v \in Workers : wpc[v] = "upstream" =>
             clientSock[v] \in Descriptors /\ clientSock[v] # newSocket[w]
    BY <1>0, <2>2 DEF DescInv, Pending
  <2>8. /\ owner' \in [Descriptors -> Clients \cup {Upstream, Nobody}]
        /\ newSocket' \in [Workers -> {0} \cup Descriptors]
    BY <2>1 DEF DescInv
  <2>. QED BY <2>1, <2>3, <2>4, <2>5, <2>6, <2>7, <2>8 DEF DescInv
<1>9. ASSUME NEW w \in Workers, socket_worker(w) \/ SendBlocks(w) \/ ForwardBlocks(w)
      PROVE  DescInv'
  BY <1>4, <1>5, <1>6, <1>7, <1>8, <1>9 DEF socket_worker
<1>. QED BY <1>1, <1>2, <1>3, <1>9 DEF Next, thread_scheduling

-----------------------------------------------------------------------------
(* The tokens of full *)

Clearing == {w \in Workers : wpc[w] = "clear"}
PostsInv == full \in Nat /\ PostsMatch

LEMMA InitPosts == Init => PostsInv
<1> SUFFICES ASSUME Init PROVE PostsInv
  OBVIOUS
<1>1. {w \in Workers : wpc[w] = "clear"} = {} /\ {w \in Workers : socketFlag[w] # 0} = {}
  BY DEF Init
<1>2. full = 0 /\ lpc = "loop"
  BY DEF Init
<1>3. Cardinality({}) = 0
  BY FS_EmptySet
<1>. QED BY <1>1, <1>2, <1>3 DEF PostsInv, PostsMatch

LEMMA FiniteWorkers == IsFiniteSet(Workers)
BY HttpServerAssumption, FS_Interval DEF Workers

LEMMA NextPosts == Inv /\ DescInv /\ PostsInv /\ [Next]_vars => PostsInv'
<1> SUFFICES ASSUME Inv, DescInv, PostsInv, [Next]_vars PROVE PostsInv'
  OBVIOUS
<1> DEFINE Held == IF lpc = "pRelease" THEN 1 ELSE 0
<1>1. /\ PostsInv  <=> full \in Nat /\ full + Held + Cardinality(Clearing) = Cardinality(Taken)
      /\ PostsInv' <=> full' \in Nat
                       /\ full' + Held' + Cardinality(Clearing') = Cardinality(Taken')
  BY DEF PostsInv, PostsMatch, Clearing, Taken
<1>2. /\ Taken \in SUBSET Workers /\ Clearing \in SUBSET Workers
      /\ Cardinality(Taken) \in Nat /\ Cardinality(Clearing) \in Nat
  <2>1. Taken \in SUBSET Workers /\ Clearing \in SUBSET Workers /\ 0 \in Workers
    BY HttpServerAssumption DEF Taken, Clearing, Workers
  <2>. QED BY <2>1, Counts
<1>3. CASE \/ Quit \/ (\E c \in Clients : Connect(c) \/ SendPiece(c))
           \/ ListenerQuits \/ ListenerLooks \/ AcceptTimeout \/ Accept
           \/ ListenerGets \/ UNCHANGED vars
  <2>1. UNCHANGED <<socketFlag, wpc, full>> /\ Held' = Held
    BY <1>3 DEF Quit, Connect, SendPiece, ListenerQuits, ListenerLooks, AcceptTimeout, Accept,
                ListenerGets, vars, listenVars, lockVars
  <2>2. Taken' = Taken /\ Clearing' = Clearing
    BY <2>1 DEF Taken, Clearing
  <2>. QED BY <1>1, <2>1, <2>2
<1>4. CASE ListenerReleases
  <2>1. UNCHANGED <<socketFlag, wpc>> /\ full' = full + 1 /\ Held = 1 /\ Held' = 0
    BY <1>4 DEF ListenerReleases
  <2>2. Taken' = Taken /\ Clearing' = Clearing
    BY <2>1 DEF Taken, Clearing
  <2>. QED BY <1>1, <1>2, <2>1, <2>2
<1>5. CASE Place
  <2>1. /\ socketFlag[lastFitPos'] = 0 /\ UNCHANGED <<wpc, full>> /\ Held = 0 /\ Held' = 1
        /\ socketFlag' = [socketFlag EXCEPT ![lastFitPos'] = clientSocket]
        /\ Handing
    BY <1>5 DEF Place, lockVars, Handing
  <2>2. lastFitPos' \in Workers
    BY <1>5, HttpServerAssumption DEF Place, Workers, Inv
  <2>3. clientSocket # 0
    BY <2>1 DEF DescInv
  <2>4. Taken' = Taken \cup {lastFitPos'} /\ lastFitPos' \notin Taken /\ Clearing' = Clearing
    BY <2>1, <2>2, <2>3 DEF Taken, Clearing, DescInv
  <2>5. Cardinality(Taken \cup {lastFitPos'}) = Cardinality(Taken) + 1
    <3>1. IsFiniteSet(Taken)
      BY <1>2, FiniteWorkers, FS_Subset
    <3>. QED BY <2>4, <3>1, FS_AddElement
  <2>. QED BY <1>1, <1>2, <2>1, <2>4, <2>5
<1>6. ASSUME NEW w \in Workers,
             \/ WorkerQuits(w) \/ WorkerLooks(w) \/ NoSocket(w) \/ TakeSocket(w)
             \/ Recv(w) \/ RecvNothing(w) \/ Peek(w) \/ make_respose(w)
             \/ ConnectUpstream(w) \/ ConnectFails(w) \/ UpstreamAnswers(w)
             \/ Send(w) \/ SendBlocks(w) \/ ForwardBlocks(w) \/ Close(w) \/ WorkerReleases(w)
      PROVE  PostsInv'
  <2>1. /\ UNCHANGED <<socketFlag, full, lpc>>
        /\ wpc' = [wpc EXCEPT ![w] = wpc'[w]] /\ wpc[w] # "clear" /\ wpc'[w] # "clear"
    BY <1>6 DEF Inv, WorkerQuits, WorkerLooks, NoSocket, TakeSocket, Recv, RecvNothing, Peek,
                make_respose, ConnectUpstream, ConnectFails, UpstreamAnswers, Send, SendBlocks,
                ForwardBlocks, Close, WorkerReleases, listenVars, lockVars
  <2>2. Taken' = Taken /\ Clearing' = Clearing
    BY <2>1 DEF Taken, Clearing, Inv
  <2>. QED BY <1>1, <2>1, <2>2
<1>7. ASSUME NEW w \in Workers, WorkerGets(w) PROVE PostsInv'
  <2>1. /\ UNCHANGED <<socketFlag, lpc>> /\ full > 0 /\ full' = full - 1
        /\ wpc[w] = "cGet" /\ wpc' = [wpc EXCEPT ![w] = "clear"]
    BY <1>7 DEF WorkerGets, listenVars
  <2>2. Taken' = Taken /\ Clearing' = Clearing \cup {w} /\ w \notin Clearing
    BY <2>1 DEF Taken, Clearing, Inv
  <2>3. Cardinality(Clearing \cup {w}) = Cardinality(Clearing) + 1
    <3>1. IsFiniteSet(Clearing)
      BY <1>2, FiniteWorkers, FS_Subset
    <3>. QED BY <2>2, <3>1, FS_AddElement
  <2>. QED BY <1>1, <1>2, <2>1, <2>2, <2>3
<1>8. ASSUME NEW w \in Workers, Clear(w) PROVE PostsInv'
  <2>1. /\ UNCHANGED <<full, lpc>> /\ socketFlag' = [socketFlag EXCEPT ![w] = 0]
        /\ wpc[w] = "clear" /\ wpc' = [wpc EXCEPT ![w] = "cRelease"]
    BY <1>8 DEF Clear, listenVars, lockVars
  <2>2. Taken' = Taken \ {w} /\ Clearing' = Clearing \ {w} /\ w \in Taken /\ w \in Clearing
    BY <2>1 DEF Taken, Clearing, Inv, Serves
  <2>3. /\ Cardinality(Taken \ {w}) = Cardinality(Taken) - 1
        /\ Cardinality(Clearing \ {w}) = Cardinality(Clearing) - 1
    BY <1>2, <2>2, Counts
  <2>. QED BY <1>1, <1>2, <2>1, <2>2, <2>3
<1>9. ASSUME NEW w \in Workers, socket_worker(w) \/ SendBlocks(w) \/ ForwardBlocks(w)
      PROVE  PostsInv'
  BY <1>6, <1>7, <1>8, <1>9 DEF socket_worker
<1>. QED BY <1>3, <1>4, <1>5, <1>9 DEF Next, thread_scheduling

-----------------------------------------------------------------------------
(* The theorems *)

LEMMA Descs == Spec => []DescInv
<1>1. Inv /\ DescInv /\ [Next]_vars => DescInv'
  BY NextDesc
<1>. QED BY <1>1, InitDesc, Invariance, PTL DEF Spec

LEMMA Posts == Spec => []PostsInv
<1>1. Inv /\ DescInv /\ PostsInv /\ [Next]_vars => PostsInv'
  BY NextPosts
<1>. QED BY <1>1, InitPosts, Invariance, Descs, PTL DEF Spec

\* When cplock lets the listener in there is a free slot, so its search ends: the token it
\* holds is one that no slot has.
THEOREM AlwaysFreeSlot == Spec => []FreeSlot
<1>1. Inv => FreeSlot
  <2> SUFFICES ASSUME Inv, lpc = "place", \A w \in Workers : socketFlag[w] # 0
               PROVE  FALSE
    BY DEF FreeSlot
  <2>1. Taken = Workers
    BY DEF Taken
  <2>2. Cardinality(Workers) = thread_num
    BY HttpServerAssumption, FS_Interval DEF Workers
  <2>3. Cardinality(Releasing) \in Nat
    <3>1. Releasing \in SUBSET Workers /\ 0 \in Workers
      BY HttpServerAssumption DEF Releasing, Workers
    <3>. QED BY <3>1, Counts
  <2>. QED BY <2>1, <2>2, <2>3, HttpServerAssumption DEF Inv
<1>. QED BY <1>1, Invariance, PTL

\* No accepted connection is forgotten: as long as it is open the listener holds it, or it is
\* in the slot of a worker that has not closed it.
THEOREM AllRemembered == Spec => []NoneForgotten
<1>1. Inv => NoneForgotten
  BY DEF Inv
<1>. QED BY <1>1, Invariance, PTL

\* The number of a closed descriptor stays in its slot and is soon another connection's; yet
\* no two workers use one descriptor, none uses the one that waits for a slot, and each one
\* in use is open.
THEOREM NoSharedDescriptor == Spec => []OneUserPerDescriptor
<1>1. Inv /\ DescInv => OneUserPerDescriptor
  <2> SUFFICES ASSUME Inv, DescInv, NEW w \in Workers, Using(w)
               PROVE  /\ Open(newSocket[w])
                      /\ lpc \in {"pGet", "place"} => newSocket[w] # clientSocket
                      /\ \A v \in Workers \ {w} : Using(v) => newSocket[w] # newSocket[v]
    BY DEF OneUserPerDescriptor
  <2>1. Nobody \notin Clients
    BY HttpServerAssumption
  <2>2. Pending(w) /\ newSocket[w] = socketFlag[w] /\ owner[newSocket[w]] \in Clients
    BY Uses DEF Using, peer
  <2>3. \A v \in Workers : Using(v) => Pending(v) /\ newSocket[v] = socketFlag[v]
    BY Uses DEF Using, peer
  <2>. QED BY <2>1, <2>2, <2>3 DEF DescInv, Open, Handing, Pending
<1>. QED BY <1>1, Invariance, Descs, PTL

\* A worker that has served its slot finds a token of full in cGet or one that the listener is
\* about to post, whoever's slot it was posted for: PostsMatch is what makes the wait end.
THEOREM TokensMatch == Spec => []PostsMatch
<1>1. PostsInv => PostsMatch
  BY DEF PostsInv
<1>. QED BY <1>1, Posts, PTL

-----------------------------------------------------------------------------
(* The buffers *)

\* While a worker has a connection its buffers hold what came from it, and they are empty when
\* it takes the next one.
BufInv ==
  /\ recv_buf = [w \in Workers |-> recv_buf[w]] /\ send_buf = [w \in Workers |-> send_buf[w]]
  /\ reply = [c \in Clients |-> reply[c]]
  /\ \A c \in Clients : reply[c] \in Seq({c})
  /\ \A w \in Workers : Using(w) =>
        recv_buf[w] \in Seq({peer(w)}) /\ send_buf[w] \in Seq({peer(w)})
  /\ \A w \in Workers : wpc[w] \in {"loop", "poll", "end"} =>
        recv_buf[w] = <<>> /\ send_buf[w] = <<>>

LEMMA InitBuf == Init => BufInv
  BY DEF Init, BufInv, Using

\* The connection behind the descriptor of a worker does not change while it is used, although
\* descriptors are given out and closed meanwhile.
LEMMA PeerStays ==
  ASSUME Inv, DescInv, [Next]_vars, NEW v \in Workers, Using(v), Using(v)'
  PROVE  peer(v)' = peer(v)
<1>0. 0 \notin Descriptors /\ {Upstream, Nobody} \cap Clients = {} /\ Upstream # Nobody
  BY HttpServerAssumption DEF Descriptors
<1>1. peer(v) \in Clients /\ newSocket[v] \in Descriptors /\ Pending(v)
      /\ newSocket[v] = socketFlag[v]
  BY Uses
<1>2. CASE Quit \/ (\E c \in Clients : Connect(c) \/ SendPiece(c)) \/ UNCHANGED vars
  BY <1>2 DEF Quit, Connect, SendPiece, vars, workVars, peer
<1>3. CASE thread_scheduling
  <2>1. newSocket' = newSocket
    BY <1>3 DEF thread_scheduling, ListenerQuits, ListenerLooks, AcceptTimeout, Accept,
                ListenerGets, Place, ListenerReleases, workVars
  <2>2. CASE Accept
    <3>1. PICK d \in Descriptors : /\ owner[d] = Nobody
                                   /\ owner' = [owner EXCEPT ![d] = Head(backlog)]
      BY <2>2 DEF Accept, LowestFree, Open
    <3>2. newSocket[v] # d
      BY <1>0, <1>1, <3>1 DEF peer
    <3>. QED BY <1>1, <2>1, <3>1, <3>2 DEF DescInv, peer
  <2>3. CASE ~Accept
    BY <1>3, <2>1, <2>3 DEF thread_scheduling, ListenerQuits, ListenerLooks, AcceptTimeout,
                ListenerGets, Place, ListenerReleases, peer
  <2>. QED BY <2>2, <2>3
<1>4. ASSUME NEW w \in Workers, TakeSocket(w) PROVE peer(v)' = peer(v)
  BY <1>4 DEF TakeSocket, DescInv, Using, peer
<1>5. ASSUME NEW w \in Workers, Close(w) PROVE peer(v)' = peer(v)
  <2>1. v # w
    BY <1>5 DEF Close, Using, Inv
  <2>2. newSocket[w] # newSocket[v]
    BY <1>1, <1>5, <2>1, Uses DEF Close, Using, DescInv
  <2>. QED BY <1>1, <1>5, <2>1, <2>2 DEF Close, DescInv, peer
<1>6. ASSUME NEW w \in Workers, ConnectUpstream(w) PROVE peer(v)' = peer(v)
  <2>1. PICK d \in Descriptors : owner[d] = Nobody /\ owner' = [owner EXCEPT ![d] = Upstream]
    BY <1>6 DEF ConnectUpstream, LowestFree, Open
  <2>2. newSocket[v] # d /\ newSocket' = newSocket
    BY <1>0, <1>1, <1>6, <2>1 DEF ConnectUpstream, peer
  <2>. QED BY <1>1, <2>1, <2>2 DEF DescInv, peer
<1>7. ASSUME NEW w \in Workers, ConnectFails(w) \/ UpstreamAnswers(w) PROVE peer(v)' = peer(v)
  <2>1. /\ owner' = [owner EXCEPT ![clientSock[w]] = Nobody] /\ newSocket' = newSocket
        /\ wpc[w] = "upstream"
    BY <1>7 DEF ConnectFails, UpstreamAnswers
  <2>2. newSocket[v] # clientSock[w]
    BY <1>0, <1>1, <2>1 DEF DescInv, peer
  <2>. QED BY <1>1, <2>1, <2>2 DEF DescInv, peer
<1>8. ASSUME NEW w \in Workers,
             \/ WorkerQuits(w) \/ WorkerLooks(w) \/ NoSocket(w)
             \/ Recv(w) \/ RecvNothing(w) \/ Peek(w) \/ make_respose(w)
             \/ Send(w) \/ SendBlocks(w) \/ ForwardBlocks(w) \/ WorkerGets(w) \/ Clear(w)
             \/ WorkerReleases(w)
      PROVE  peer(v)' = peer(v)
  BY <1>8 DEF WorkerQuits, WorkerLooks, NoSocket, Recv, RecvNothing, Peek, make_respose, Send,
              SendBlocks, ForwardBlocks, WorkerGets, Clear, WorkerReleases, workVars, peer
<1>9. ASSUME NEW w \in Workers, socket_worker(w) \/ SendBlocks(w) \/ ForwardBlocks(w)
      PROVE  peer(v)' = peer(v)
  BY <1>4, <1>5, <1>6, <1>7, <1>8, <1>9 DEF socket_worker
<1>. QED BY <1>2, <1>3, <1>9 DEF Next

\* Steps that touch no buffer, begin to use a descriptor only from "poll", and let a worker
\* idle only if it did before.
LEMMA BufsUntouched ==
  ASSUME Inv, DescInv, BufInv, [Next]_vars, UNCHANGED <<recv_buf, send_buf, reply>>,
         \A v \in Workers : /\ Using(v)' => Using(v) \/ wpc[v] = "poll"
                            /\ wpc'[v] \in {"loop", "poll", "end"} =>
                                 wpc[v] \in {"loop", "poll", "end"}
  PROVE  BufInv'
<1>1. ASSUME NEW v \in Workers, Using(v)'
      PROVE  recv_buf[v] \in Seq({peer(v)'}) /\ send_buf[v] \in Seq({peer(v)'})
  <2>1. CASE Using(v)
    BY <1>1, <2>1, PeerStays DEF BufInv
  <2>2. CASE wpc[v] = "poll"
    <3>1. recv_buf[v] = <<>> /\ send_buf[v] = <<>>
      BY <2>2 DEF BufInv
    <3>2. <<>> \in Seq({peer(v)'})
      OBVIOUS
    <3>. QED BY ONLY <3>1, <3>2
  <2>. QED BY <1>1, <2>1, <2>2
<1>. QED BY <1>1 DEF BufInv

\* What a step of one worker leaves to the others.
LEMMA OtherBufs ==
  ASSUME Inv, DescInv, BufInv, [Next]_vars, NEW w \in Workers,
         wpc' = [wpc EXCEPT ![w] = wpc'[w]],
         \A v \in Workers : v # w => recv_buf'[v] = recv_buf[v] /\ send_buf'[v] = send_buf[v],
         NEW v \in Workers, v # w
  PROVE  /\ Using(v)' => /\ recv_buf'[v] \in Seq({peer(v)'})
                         /\ send_buf'[v] \in Seq({peer(v)'})
         /\ wpc'[v] \in {"loop", "poll", "end"} => recv_buf'[v] = <<>> /\ send_buf'[v] = <<>>
<1>1. wpc'[v] = wpc[v] /\ Using(v)' = Using(v)
  BY DEF Inv, Using
<1>2. Using(v) => peer(v)' = peer(v)
  BY <1>1, PeerStays
<1>. QED BY <1>1, <1>2 DEF BufInv

LEMMA NextBuf == Inv /\ DescInv /\ BufInv /\ [Next]_vars => BufInv'
<1> SUFFICES ASSUME Inv, DescInv, BufInv, [Next]_vars PROVE BufInv'
  OBVIOUS
<1>1. CASE \/ Quit \/ (\E c \in Clients : Connect(c) \/ SendPiece(c))
           \/ thread_scheduling \/ UNCHANGED vars
  <2>1. UNCHANGED <<recv_buf, send_buf>>
    BY <1>1 DEF Quit, Connect, SendPiece, vars, workVars, thread_scheduling, ListenerQuits,
                ListenerLooks, AcceptTimeout, Accept, ListenerGets, Place, ListenerReleases
  <2>2. UNCHANGED <<wpc, reply>>
    BY <1>1 DEF Quit, Connect, SendPiece, vars, netVars, thread_scheduling, ListenerQuits,
                ListenerLooks, AcceptTimeout, Accept, ListenerGets, Place, ListenerReleases
  <2>3. \A v : Using(v)' = Using(v)
    BY <2>2 DEF Using
  <2>. QED BY <2>1, <2>2, <2>3, BufsUntouched
<1>2. ASSUME NEW w \in Workers,
             \/ WorkerQuits(w) \/ WorkerLooks(w) \/ NoSocket(w) \/ TakeSocket(w)
             \/ RecvNothing(w) \/ Peek(w) \/ ConnectUpstream(w) \/ ConnectFails(w)
             \/ ForwardBlocks(w) \/ Close(w) \/ WorkerGets(w) \/ Clear(w)
      PROVE  BufInv'
  <2>1. UNCHANGED <<recv_buf, send_buf, reply>>
    BY <1>2 DEF WorkerQuits, WorkerLooks, NoSocket, TakeSocket, RecvNothing, Peek,
                ConnectUpstream, ConnectFails, ForwardBlocks, Close, WorkerGets, Clear,
                workVars, netVars
  <2>2. /\ wpc' = [wpc EXCEPT ![w] = wpc'[w]]
        /\ wpc'[w] \in {"loop", "poll", "end"} => wpc[w] \in {"loop", "poll", "end"}
        /\ wpc'[w] \in {"recv", "peek", "answer", "upstream", "send", "blocked", "close"} =>
             wpc[w] \in {"recv", "peek", "answer", "upstream", "send", "blocked", "close",
                         "poll"}
    BY <1>2 DEF Inv, WorkerQuits, WorkerLooks, NoSocket, TakeSocket, RecvNothing, Peek,
                ConnectUpstream, ConnectFails, ForwardBlocks, Close, WorkerGets, Clear
  <2>3. \A v \in Workers : /\ Using(v)' => Using(v) \/ wpc[v] = "poll"
                           /\ wpc'[v] \in {"loop", "poll", "end"} =>
                                wpc[v] \in {"loop", "poll", "end"}
    BY <2>2 DEF Inv, Using
  <2>. QED BY <2>1, <2>3, BufsUntouched
<1>3. ASSUME NEW w \in Workers, Recv(w) PROVE BufInv'
  <2>1. PICK k \in 1..inbox[peer(w)] :
          recv_buf' = [recv_buf EXCEPT ![w] = @ \o [i \in 1..k |-> peer(w)]]
    BY <1>3 DEF Recv
  <2>2. /\ wpc[w] = "recv" /\ wpc' = [wpc EXCEPT ![w] = "peek"]
        /\ UNCHANGED <<send_buf, reply>>
    BY <1>3 DEF Recv
  <2>3. Using(w) /\ peer(w)' = peer(w)
    BY <2>2, PeerStays DEF Using, Inv
  <2>4. recv_buf[w] \in Seq({peer(w)}) /\ [i \in 1..k |-> peer(w)] \in Seq({peer(w)})
    BY <2>3 DEF BufInv
  <2>5. recv_buf'[w] \in Seq({peer(w)}) /\ send_buf'[w] \in Seq({peer(w)})
    <3>1. recv_buf'[w] = recv_buf[w] \o [i \in 1..k |-> peer(w)]
      BY <2>1 DEF BufInv
    <3>2. recv_buf[w] \o [i \in 1..k |-> peer(w)] \in Seq({peer(w)})
      BY <2>4
    <3>. QED BY <2>2, <2>3, <3>1, <3>2 DEF BufInv
  <2>6. recv_buf' = [v \in Workers |-> recv_buf'[v]] /\ wpc'[w] = "peek"
        /\ wpc' = [wpc EXCEPT ![w] = wpc'[w]]
        /\ \A v \in Workers : v # w => recv_buf'[v] = recv_buf[v] /\ send_buf'[v] = send_buf[v]
    BY <2>1, <2>2 DEF BufInv, Inv
  <2>. QED BY <2>2, <2>3, <2>5, <2>6, OtherBufs DEF BufInv
<1>4. ASSUME NEW w \in Workers, make_respose(w) \/ UpstreamAnswers(w) PROVE BufInv'
  <2>1. /\ wpc[w] \in {"answer", "upstream"} /\ wpc' = [wpc EXCEPT ![w] = "send"]
        /\ \E answer \in {recv_buf[w], <<>>} : send_buf' = [send_buf EXCEPT ![w] = answer]
        /\ UNCHANGED <<recv_buf, reply>>
    BY <1>4 DEF make_respose, UpstreamAnswers, netVars
  <2>2. Using(w) /\ peer(w)' = peer(w)
    BY <2>1, PeerStays DEF Using, Inv
  <2>3. recv_buf'[w] \in Seq({peer(w)}) /\ send_buf'[w] \in Seq({peer(w)})
    <3>1. send_buf'[w] \in {recv_buf[w], <<>>} /\ recv_buf' = recv_buf
      BY <2>1 DEF BufInv
    <3>2. recv_buf[w] \in Seq({peer(w)})
      BY <2>2 DEF BufInv
    <3>3. <<>> \in Seq({peer(w)})
      OBVIOUS
    <3>. QED BY ONLY <3>1, <3>2, <3>3
  <2>4. send_buf' = [v \in Workers |-> send_buf'[v]] /\ wpc'[w] = "send"
        /\ wpc' = [wpc EXCEPT ![w] = wpc'[w]]
        /\ \A v \in Workers : v # w => recv_buf'[v] = recv_buf[v] /\ send_buf'[v] = send_buf[v]
    BY <2>1 DEF BufInv, Inv
  <2>. QED BY <2>1, <2>2, <2>3, <2>4, OtherBufs DEF BufInv
<1>5. ASSUME NEW w \in Workers, Send(w) \/ SendBlocks(w) PROVE BufInv'
  <2>1. /\ wpc[w] = "send" /\ wpc' = [wpc EXCEPT ![w] = wpc'[w]]
        /\ wpc'[w] \in {"close", "blocked"}
        /\ UNCHANGED <<recv_buf, send_buf>>
    BY <1>5 DEF Send, SendBlocks, workVars, Inv
  <2>2. Using(w) /\ peer(w)' = peer(w) /\ peer(w) \in Clients
    BY <2>1, PeerStays, Uses DEF Using
  <2>3. send_buf[w] \in Seq({peer(w)}) /\ reply[peer(w)] \in Seq({peer(w)})
    BY <2>2 DEF BufInv
\* What was sent, all of it or the beginning.
  <2>4. PICK part \in Seq({peer(w)}) :
          reply' = [reply EXCEPT ![peer(w)] = @ \o part]
    <3>1. CASE Send(w)
      BY <2>3, <3>1 DEF Send
    <3>2. CASE SendBlocks(w)
      <4>1. PICK k \in 0..(Len(send_buf[w]) - 1) :
              reply' = [reply EXCEPT ![peer(w)] = @ \o SubSeq(send_buf[w], 1, k)]
        BY <3>2 DEF SendBlocks
      <4>2. SubSeq(send_buf[w], 1, k) \in Seq({peer(w)})
        BY <2>3, <4>1
      <4>. QED BY <4>1, <4>2
    <3>. QED BY <1>5, <3>1, <3>2
  <2>5. reply[peer(w)] \o part \in Seq({peer(w)})
    BY <2>3
  <2>6. /\ reply' = [c \in Clients |-> reply'[c]]
        /\ \A c \in Clients : reply'[c] \in Seq({c})
    BY <2>2, <2>4, <2>5 DEF BufInv
  <2>7. recv_buf'[w] \in Seq({peer(w)}) /\ send_buf'[w] \in Seq({peer(w)})
    BY <2>1, <2>2 DEF BufInv
  <2>8. /\ wpc'[w] \notin {"loop", "poll", "end"}
        /\ \A v \in Workers : v # w => recv_buf'[v] = recv_buf[v] /\ send_buf'[v] = send_buf[v]
    BY <2>1
  <2>. QED BY <2>1, <2>2, <2>6, <2>7, <2>8, OtherBufs DEF BufInv
<1>6. ASSUME NEW w \in Workers, WorkerReleases(w) PROVE BufInv'
  <2>1. /\ wpc' = [wpc EXCEPT ![w] = "loop"]
        /\ recv_buf' = [recv_buf EXCEPT ![w] = <<>>]
        /\ send_buf' = [send_buf EXCEPT ![w] = <<>>] /\ UNCHANGED reply
    BY <1>6 DEF WorkerReleases, netVars
  <2>2. /\ wpc'[w] = "loop" /\ wpc' = [wpc EXCEPT ![w] = wpc'[w]]
        /\ recv_buf'[w] = <<>> /\ send_buf'[w] = <<>>
        /\ recv_buf' = [v \in Workers |-> recv_buf'[v]]
        /\ send_buf' = [v \in Workers |-> send_buf'[v]]
        /\ \A v \in Workers : v # w => recv_buf'[v] = recv_buf[v] /\ send_buf'[v] = send_buf[v]
    BY <2>1 DEF BufInv, Inv
  <2>3. ~Using(w)'
    BY <2>2 DEF Using
  <2>. QED BY <2>1, <2>2, <2>3, OtherBufs DEF BufInv
<1>7. ASSUME NEW w \in Workers, socket_worker(w) \/ SendBlocks(w) \/ ForwardBlocks(w)
      PROVE  BufInv'
  BY <1>2, <1>3, <1>4, <1>5, <1>6, <1>7 DEF socket_worker
<1>. QED BY <1>1, <1>7 DEF Next

LEMMA Bufs == Spec => []BufInv
<1>1. Inv /\ DescInv /\ BufInv /\ [Next]_vars => BufInv'
  BY NextBuf
<1>. QED BY <1>1, InitBuf, Invariance, Descs, PTL DEF Spec

\* A client gets answers to its own requests only, although connections share descriptors,
\* slots and workers.
THEOREM AnswersOwn == Spec => []OwnAnswer
<1>1. BufInv => OwnAnswer
  <2> SUFFICES ASSUME BufInv, NEW c \in Clients PROVE Range(reply[c]) \subseteq {c}
    BY DEF OwnAnswer
  <2>1. reply[c] \in Seq({c})
    BY DEF BufInv
  <2>2. \A i \in DOMAIN reply[c] : reply[c][i] = c
    BY <2>1
  <2>. QED BY <2>2 DEF Range
<1>. QED BY <1>1, Bufs, PTL

-----------------------------------------------------------------------------
(* Types *)

WorkerPlaces == {"loop", "poll", "recv", "peek", "answer", "upstream", "send", "blocked",
                 "close", "cGet", "clear", "cRelease", "end"}

\* Who has a connection has sent no more than a request, and less than that waits to be read.
TypeInv ==
  /\ serverOn \in BOOLEAN
  /\ lpc \in {"loop", "accept", "pGet", "place", "pRelease", "end"}
  /\ wpc \in [Workers -> WorkerPlaces]
  /\ sent \in [Clients -> -1..Pieces] /\ inbox \in [Clients -> 0..Pieces]
  /\ \A c \in Clients : /\ sent[c] = -1 => inbox[c] = 0
                        /\ sent[c] # -1 => inbox[c] <= sent[c]
                        /\ Connected(c) => sent[c] # -1
  /\ recv_buf \in [Workers -> Seq(Clients)] /\ send_buf \in [Workers -> Seq(Clients)]
  /\ reply \in [Clients -> Seq(Clients)]

LEMMA InitType == Init => TypeInv
  BY HttpServerAssumption
     DEF Init, TypeInv, WorkerPlaces, Connected, NotConnected, Range

\* Nobody is connected by a step but by Connect.
LEMMA StaysApart ==
  ASSUME Inv, DescInv, [Next]_vars, NEW c \in Clients, Connected(c)', ~Connect(c)
  PROVE  Connected(c)
<1>0. {Upstream, Nobody} \cap Clients = {}
  BY HttpServerAssumption
<1>1. ASSUME NEW e \in Clients, Connect(e) PROVE Connected(c)
  <2>1. backlog' = Append(backlog, e) /\ owner' = owner /\ e # c /\ backlog \in Seq(Clients)
    BY <1>1 DEF Connect, DescInv
  <2>2. c \in Range(backlog') => c \in Range(backlog)
    BY <2>1 DEF Range
  <2>. QED BY <2>1, <2>2 DEF Connected
<1>2. CASE Accept
  <2>1. /\ backlog # <<>> /\ backlog' = Tail(backlog) /\ backlog \in Seq(Clients)
        /\ \E d \in Descriptors : owner' = [owner EXCEPT ![d] = Head(backlog)]
    BY <1>2 DEF Accept, DescInv
  <2>2. c \in Range(backlog') => c \in Range(backlog)
    BY <2>1 DEF Range
  <2>3. Head(backlog) \in Range(backlog)
    BY <2>1 DEF Range
  <2>4. \A d \in Descriptors : owner'[d] \in {owner[d], Head(backlog)}
    BY <2>1 DEF DescInv
  <2>. QED BY <2>2, <2>3, <2>4 DEF Connected
<1>3. ASSUME NEW w \in Workers,
             ConnectUpstream(w) \/ ConnectFails(w) \/ UpstreamAnswers(w) \/ Close(w)
      PROVE  Connected(c)
  <2>1. backlog' = backlog
    BY <1>3 DEF ConnectUpstream, ConnectFails, UpstreamAnswers, Close, netVars
  <2>2. \A d \in Descriptors : owner'[d] \in {owner[d], Upstream, Nobody}
    BY <1>3 DEF ConnectUpstream, ConnectFails, UpstreamAnswers, Close, DescInv
  <2>. QED BY <1>0, <2>1, <2>2 DEF Connected
<1>4. CASE UNCHANGED <<backlog, owner>>
  BY <1>4 DEF Connected
<1>5. CASE \/ Quit \/ (\E e \in Clients : SendPiece(e)) \/ UNCHANGED vars
           \/ thread_scheduling /\ ~Accept
  BY <1>4, <1>5 DEF Quit, SendPiece, vars, netVars, thread_scheduling, ListenerQuits,
                    ListenerLooks, AcceptTimeout, ListenerGets, Place, ListenerReleases
<1>6. ASSUME NEW w \in Workers,
             \/ WorkerQuits(w) \/ WorkerLooks(w) \/ NoSocket(w) \/ TakeSocket(w)
             \/ Recv(w) \/ RecvNothing(w) \/ Peek(w) \/ make_respose(w)
             \/ Send(w) \/ SendBlocks(w) \/ ForwardBlocks(w) \/ WorkerGets(w) \/ Clear(w)
             \/ WorkerReleases(w)
      PROVE  Connected(c)
  BY <1>4, <1>6 DEF WorkerQuits, WorkerLooks, NoSocket, TakeSocket, Recv, RecvNothing, Peek,
                    make_respose, Send, SendBlocks, ForwardBlocks, WorkerGets, Clear,
                    WorkerReleases, netVars
<1>. QED BY <1>1, <1>2, <1>3, <1>5, <1>6 DEF Next, socket_worker, thread_scheduling

LEMMA NextType == Inv /\ DescInv /\ TypeInv /\ [Next]_vars => TypeInv'
<1> SUFFICES ASSUME Inv, DescInv, TypeInv, [Next]_vars PROVE TypeInv'
  OBVIOUS
<1> DEFINE Sent(c) == /\ sent[c] = -1 => inbox[c] = 0
                      /\ sent[c] # -1 => inbox[c] <= sent[c]
                      /\ Connected(c) => sent[c] # -1
<1>1. ASSUME NEW e \in Clients, Connect(e) PROVE TypeInv'
  <2>1. /\ sent[e] = -1 /\ sent' = [sent EXCEPT ![e] = 0]
        /\ UNCHANGED <<serverOn, lpc, wpc, inbox, recv_buf, send_buf, reply>>
    BY <1>1 DEF Connect, NotConnected, listenVars, workVars
  <2>2. sent' \in [Clients -> -1..Pieces]
    BY <2>1, HttpServerAssumption DEF TypeInv
  <2>3. ASSUME NEW c \in Clients PROVE Sent(c)'
    <3>1. CASE c = e
      BY <2>1, <3>1 DEF TypeInv
    <3>2. CASE c # e
      <4>1. sent'[c] = sent[c] /\ ~Connect(c)
        BY <2>1, <1>1, <3>2, HttpServerAssumption DEF TypeInv, Connect, NotConnected
      <4>. QED BY <2>1, <4>1, StaysApart DEF TypeInv
    <3>. QED BY <3>1, <3>2
  <2>. QED BY <2>1, <2>2, <2>3 DEF TypeInv
<1>2. ASSUME NEW e \in Clients, SendPiece(e) PROVE TypeInv'
  <2>1. /\ Connected(e) /\ sent[e] < Pieces
        /\ sent' = [sent EXCEPT ![e] = @ + 1] /\ inbox' = [inbox EXCEPT ![e] = @ + 1]
        /\ UNCHANGED <<serverOn, lpc, wpc, recv_buf, send_buf, reply, backlog, owner>>
    BY <1>2 DEF SendPiece, listenVars, workVars
  <2>2. sent[e] \in 0..(Pieces - 1) /\ inbox[e] \in 0..sent[e]
    BY <2>1, HttpServerAssumption DEF TypeInv
  <2>3. sent' \in [Clients -> -1..Pieces] /\ inbox' \in [Clients -> 0..Pieces]
    BY <2>1, <2>2, HttpServerAssumption DEF TypeInv
  <2>4. ASSUME NEW c \in Clients PROVE Sent(c)'
    <3>1. Connected(c)' = Connected(c)
      BY <2>1 DEF Connected
    <3>2. CASE c = e
      BY <2>1, <2>2, <3>2, HttpServerAssumption DEF TypeInv
    <3>3. CASE c # e
      BY <2>1, <3>1, <3>3 DEF TypeInv
    <3>. QED BY <3>2, <3>3
  <2>. QED BY <2>1, <2>3, <2>4 DEF TypeInv
<1>3. ASSUME NEW w \in Workers, Recv(w) PROVE TypeInv'
  <2>1. PICK k \in 1..inbox[peer(w)] :
          /\ inbox' = [inbox EXCEPT ![peer(w)] = @ - k]
          /\ recv_buf' = [recv_buf EXCEPT ![w] = @ \o [i \in 1..k |-> peer(w)]]
    BY <1>3 DEF Recv
  <2>2. /\ wpc[w] = "recv" /\ wpc' = [wpc EXCEPT ![w] = "peek"]
        /\ UNCHANGED <<serverOn, lpc, sent, send_buf, reply, backlog, owner>>
    BY <1>3 DEF Recv, listenVars
  <2>3. peer(w) \in Clients
    BY <2>2, Uses DEF Using
  <2>4. inbox' \in [Clients -> 0..Pieces] /\ \A c \in Clients : inbox'[c] <= inbox[c]
    BY <2>1, <2>3, HttpServerAssumption DEF TypeInv
  <2>5. recv_buf' \in [Workers -> Seq(Clients)]
    <3>1. [i \in 1..k |-> peer(w)] \in Seq(Clients) /\ recv_buf[w] \in Seq(Clients)
      BY <2>3 DEF TypeInv
    <3>2. recv_buf[w] \o [i \in 1..k |-> peer(w)] \in Seq(Clients)
      BY <3>1
    <3>. QED BY <2>1, <3>2 DEF TypeInv
  <2>6. \A c \in Clients : Sent(c)'
    BY <2>2, <2>4, HttpServerAssumption DEF TypeInv, Connected
  <2>7. wpc' \in [Workers -> WorkerPlaces]
    BY <2>2 DEF TypeInv, WorkerPlaces
  <2>. QED BY <2>2, <2>4, <2>5, <2>6, <2>7 DEF TypeInv
<1>4. ASSUME wpc' \in [Workers -> WorkerPlaces], serverOn' \in BOOLEAN,
             lpc' \in {"loop", "accept", "pGet", "place", "pRelease", "end"},
             UNCHANGED <<sent, inbox>>, \A c \in Clients : ~Connect(c),
             recv_buf' \in [Workers -> Seq(Clients)], send_buf' \in [Workers -> Seq(Clients)],
             reply' \in [Clients -> Seq(Clients)]
      PROVE  TypeInv'
  BY <1>4, StaysApart DEF TypeInv
<1>5. CASE sent' = sent
  <2>. \A c \in Clients : ~Connect(c)
    BY <1>5, HttpServerAssumption DEF Connect, TypeInv, NotConnected
  <2>1. CASE Quit \/ thread_scheduling \/ UNCHANGED vars
    <3>1. UNCHANGED <<wpc, inbox>>
      BY <2>1 DEF Quit, vars, netVars, thread_scheduling, ListenerQuits, ListenerLooks,
                  AcceptTimeout, Accept, ListenerGets, Place, ListenerReleases
    <3>2. UNCHANGED <<recv_buf, send_buf, reply>>
      BY <2>1 DEF Quit, vars, workVars, netVars, thread_scheduling, ListenerQuits,
                  ListenerLooks, AcceptTimeout, Accept, ListenerGets, Place, ListenerReleases
    <3>3. lpc' \in {"loop", "accept", "pGet", "place", "pRelease", "end"}
          /\ serverOn' \in BOOLEAN
      BY <2>1 DEF TypeInv, Quit, vars, listenVars, thread_scheduling, ListenerQuits,
                  ListenerLooks, AcceptTimeout, Accept, ListenerGets, Place, ListenerReleases
    <3>. QED BY <1>4, <1>5, <3>1, <3>2, <3>3 DEF TypeInv
  <2>2. ASSUME NEW w \in Workers, ~Recv(w),
               socket_worker(w) \/ SendBlocks(w) \/ ForwardBlocks(w)
        PROVE  TypeInv'
    <3>1. UNCHANGED <<serverOn, lpc, inbox>> /\ wpc' \in [Workers -> WorkerPlaces]
      BY <2>2 DEF TypeInv, WorkerPlaces, socket_worker, WorkerQuits, WorkerLooks, NoSocket,
                  TakeSocket, RecvNothing, Peek, make_respose, ConnectUpstream, ConnectFails,
                  UpstreamAnswers, Send, SendBlocks, ForwardBlocks, Close, WorkerGets, Clear,
                  WorkerReleases, listenVars, netVars
    <3>2. CASE Send(w) \/ SendBlocks(w)
      <4>1. wpc[w] = "send" /\ UNCHANGED <<recv_buf, send_buf>>
        BY <3>2 DEF Send, SendBlocks, workVars
      <4>2. peer(w) \in Clients
        BY <4>1, Uses DEF Using
      <4>3. send_buf[w] \in Seq(Clients) /\ reply[peer(w)] \in Seq(Clients)
        BY <4>2 DEF TypeInv
      <4>4. PICK part \in Seq(Clients) : reply' = [reply EXCEPT ![peer(w)] = @ \o part]
        <5>1. CASE Send(w)
          BY <4>3, <5>1 DEF Send
        <5>2. CASE SendBlocks(w)
          <6>1. PICK k \in 0..(Len(send_buf[w]) - 1) :
                  reply' = [reply EXCEPT ![peer(w)] = @ \o SubSeq(send_buf[w], 1, k)]
            BY <5>2 DEF SendBlocks
          <6>2. SubSeq(send_buf[w], 1, k) \in Seq(Clients)
            BY <4>3, <6>1
          <6>. QED BY <6>1, <6>2
        <5>. QED BY <3>2, <5>1, <5>2
      <4>5. reply[peer(w)] \o part \in Seq(Clients)
        BY <4>3
      <4>6. reply' \in [Clients -> Seq(Clients)]
        BY <4>2, <4>4, <4>5 DEF TypeInv
      <4>. QED BY <1>4, <1>5, <3>1, <4>1, <4>6 DEF TypeInv
    <3>3. CASE make_respose(w) \/ UpstreamAnswers(w) \/ WorkerReleases(w)
      <4>1. /\ UNCHANGED reply
            /\ \E a, b \in {recv_buf[w], <<>>} : /\ recv_buf' = [recv_buf EXCEPT ![w] = a]
                                                 /\ send_buf' = [send_buf EXCEPT ![w] = b]
        BY <3>3 DEF make_respose, UpstreamAnswers, WorkerReleases, netVars, TypeInv
      <4>2. recv_buf[w] \in Seq(Clients) /\ <<>> \in Seq(Clients)
        BY DEF TypeInv
      <4>3. PICK a, b \in {recv_buf[w], <<>>} : /\ recv_buf' = [recv_buf EXCEPT ![w] = a]
                                               /\ send_buf' = [send_buf EXCEPT ![w] = b]
        BY <4>1
      <4>4. a \in Seq(Clients) /\ b \in Seq(Clients)
        BY <4>2
      <4>5. recv_buf' \in [Workers -> Seq(Clients)]
        BY <4>3, <4>4 DEF TypeInv
      <4>6. send_buf' \in [Workers -> Seq(Clients)]
        BY <4>3, <4>4 DEF TypeInv
      <4>. QED BY <1>4, <1>5, <3>1, <4>1, <4>5, <4>6 DEF TypeInv
    <3>4. CASE ~(Send(w) \/ SendBlocks(w) \/ make_respose(w) \/ UpstreamAnswers(w)
                \/ WorkerReleases(w))
      <4>1. UNCHANGED <<recv_buf, send_buf, reply>>
        BY <2>2, <3>4 DEF socket_worker, WorkerQuits, WorkerLooks, NoSocket,
                  TakeSocket, RecvNothing, Peek, ConnectUpstream, ConnectFails,
                  ForwardBlocks, Close, WorkerGets, Clear, workVars, netVars
      <4>. QED BY <1>4, <1>5, <3>1, <4>1 DEF TypeInv
    <3>. QED BY <3>2, <3>3, <3>4
  <2>. QED BY <1>1, <1>2, <1>3, <2>1, <2>2 DEF Next
<1>6. ASSUME NEW w \in Workers, socket_worker(w) \/ SendBlocks(w) \/ ForwardBlocks(w)
      PROVE  sent' = sent
  BY <1>6 DEF socket_worker, WorkerQuits, WorkerLooks, NoSocket, TakeSocket, Recv, RecvNothing,
              Peek, make_respose, ConnectUpstream, ConnectFails, UpstreamAnswers, Send,
              SendBlocks, ForwardBlocks, Close, WorkerGets, Clear, WorkerReleases, netVars
<1>7. CASE Quit \/ thread_scheduling \/ UNCHANGED vars
  <2>1. sent' = sent
    BY <1>7 DEF Quit, vars, netVars, thread_scheduling, ListenerQuits, ListenerLooks,
                AcceptTimeout, Accept, ListenerGets, Place, ListenerReleases
  <2>. QED BY <1>5, <2>1
<1>. QED BY <1>1, <1>2, <1>5, <1>6, <1>7 DEF Next

LEMMA Types == Spec => []TypeInv
<1>1. Inv /\ DescInv /\ TypeInv /\ [Next]_vars => TypeInv'
  BY NextType
<1>. QED BY <1>1, InitType, Invariance, Descs, PTL DEF Spec

\* Type correctness; in particular neither semaphore exceeds the number of slots, and no more
\* than a request waits to be read.
THEOREM Typing == Spec => []TypeOK
<1>1. Inv /\ DescInv /\ PostsInv /\ TypeInv => TypeOK
  <2> SUFFICES ASSUME Inv, DescInv, PostsInv, TypeInv PROVE TypeOK
    OBVIOUS
  <2>1. /\ Cardinality(Taken) \in Nat /\ Cardinality(Releasing) \in Nat
        /\ Cardinality(Clearing) \in Nat
    <3>1. /\ Taken \in SUBSET Workers /\ Releasing \in SUBSET Workers
          /\ Clearing \in SUBSET Workers /\ 0 \in Workers
      BY HttpServerAssumption DEF Taken, Releasing, Clearing, Workers
    <3>. QED BY <3>1, Counts
  <2>2. empty \in 0..thread_num /\ Cardinality(Taken) <= thread_num
    BY <2>1, HttpServerAssumption DEF Inv
  <2>3. full \in 0..thread_num
    BY <2>1, <2>2, HttpServerAssumption DEF PostsInv, PostsMatch, Taken, Clearing
  <2>. QED BY <2>2, <2>3 DEF Inv, DescInv, TypeInv, WorkerPlaces, TypeOK
<1>. QED BY <1>1, Invariance, Descs, Posts, Types, PTL
=============================================================================
