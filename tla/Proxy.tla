------------------------------- MODULE Proxy -------------------------------
(***************************************************************************)
(* Lab2: one connection in the hands of a worker in proxy mode             *)
(* (socket_worker, sockethandle.cpp): it reads the request until the       *)
(* client is silent, sends it to the proxied server and reads the answer   *)
(* by its Content-Length.  The connection as one of many, and the slots,   *)
(* are in HttpServer.                                                      *)
(*                                                                         *)
(* Recv takes up to BUF pieces of what has arrived (HttpText: pieces), so  *)
(* a text may be cut between any two.  A Send may take any time and ends   *)
(* in one step, when it ends: the two peers may also stop reading for good *)
(* (ServerStops, ClientStops), and ::send has no timeout.                  *)
(***************************************************************************)
EXTENDS HttpText

CONSTANTS BUF,       \* 1024
          Requested, \* what clients send
          Served(_)  \* the answers that the proxied server may give to what reaches it

Junk == <<"junk">>
Nul  == <<"NUL">>  \* a byte 0 in a request, which ends a C string

ASSUME ProxyAssumption ==
  /\ BUF \in Nat \ {0}
  /\ \A r \in Requested : IsText(r) /\ Junk \notin Range(r)

VARIABLES
  ppc,
  request, response,             \* what is sent in all
  outgoing, incoming,            \* how much of each is sent, how much is read
  recv_buf, send_buf,
  content_pos, content_length,   \* 0 and -1 before the header is complete
  reply,                         \* what reaches the client
  clientOpen, serverOpen,
  silent,                        \* history: a Recv that ended a loop
  origin                         \* history: which piece of request each of recv_buf is; 0: junk

counts == <<outgoing, incoming>>
parsed == <<content_pos, content_length>>
peers  == <<request, response, clientOpen, serverOpen>>
history == <<silent, origin>>
proxyVars == <<ppc, peers, counts, recv_buf, send_buf, parsed, reply, history>>

ProxyInit ==
  /\ ppc = "recv" /\ request \in Requested /\ response = <<>>
  /\ outgoing = [client |-> 0, server |-> 0] /\ incoming = [client |-> 0, server |-> 0]
  /\ recv_buf = <<>> /\ send_buf = <<>> /\ content_pos = 0 /\ content_length = -1
  /\ reply = <<>>
  /\ clientOpen = TRUE /\ serverOpen = TRUE
  /\ silent = [client |-> FALSE, server |-> FALSE] /\ origin = <<>>

-----------------------------------------------------------------------------
(* The client and the proxied server *)

Arrived(who) == outgoing[who] - incoming[who]

ClientSends ==
  /\ ppc \in {"recv", "peek"} /\ clientOpen /\ outgoing.client < Len(request)
  /\ outgoing' = [outgoing EXCEPT !.client = @ + 1]
  /\ UNCHANGED <<ppc, peers, incoming, recv_buf, send_buf, parsed, reply, history>>

ClientCloses ==
  /\ ppc # "closed" /\ clientOpen /\ clientOpen' = FALSE
  /\ UNCHANGED <<ppc, request, response, serverOpen, counts, recv_buf, send_buf, parsed, reply, history>>

ServerSends ==
  /\ ppc = "answer" /\ serverOpen /\ outgoing.server < Len(response)
  /\ outgoing' = [outgoing EXCEPT !.server = @ + 1]
  /\ UNCHANGED <<ppc, peers, incoming, recv_buf, send_buf, parsed, reply, history>>

ServerCloses ==
  /\ ppc \in {"answer", "stuckForward"} /\ serverOpen /\ serverOpen' = FALSE
  /\ UNCHANGED <<ppc, request, response, clientOpen, counts, recv_buf, send_buf, parsed, reply, history>>

\* A peer reads no more of a text that is larger than the kernel buffers, and stays connected.
Stops(from, to) ==
  /\ ppc = from /\ ppc' = to
  /\ UNCHANGED <<peers, counts, recv_buf, send_buf, parsed, reply, history>>

ServerStops == serverOpen /\ recv_buf # <<>> /\ Stops("send", "stuckForward")
ClientStops == clientOpen /\ send_buf # <<>> /\ Stops("reply", "stuckReply")

-----------------------------------------------------------------------------
(* The request *)

Taken(who) == IF Arrived(who) <= BUF THEN Arrived(who) ELSE BUF
Part(text, who) == SubSeq(text, incoming[who] + 1, incoming[who] + Taken(who))

\* What += takes of a C string: the part before the first byte 0.
Nuls(part) == {i \in DOMAIN part : part[i] = Nul}
c_str(part) == IF Nuls(part) = {} THEN part ELSE SubSeq(part, 1, Min(Nuls(part)) - 1)

\* A Recv that fills tmp with other bytes than 0 leaves no end behind it: += takes along what
\* follows in memory.
RecvRequest ==
  /\ ppc = "recv" /\ Arrived("client") > 0 /\ ppc' = "peek"
  /\ LET part == Part(request, "client")
         full == Taken("client") = BUF /\ Nuls(part) = {}
     IN  \E junk \in IF full THEN {<<>>, <<Junk>>} ELSE {<<>>} :
           /\ recv_buf' = recv_buf \o c_str(part) \o junk
           /\ origin' = origin \o [i \in DOMAIN c_str(part) |-> incoming.client + i]
                               \o [i \in DOMAIN junk |-> 0]
  /\ incoming' = [incoming EXCEPT !.client = @ + Taken("client")]
  /\ UNCHANGED <<peers, outgoing, send_buf, parsed, reply, silent>>

\* Ten seconds, or the end of the connection.
RecvNothing ==
  /\ ppc = "recv" /\ Arrived("client") = 0 /\ ppc' = "peek"
  /\ UNCHANGED <<peers, counts, recv_buf, send_buf, parsed, reply, history>>

\* Mutant: the Recv that looks for more is without MSG_PEEK.
PeekTakes ==
  /\ ppc = "peek" /\ Arrived("client") > 0 /\ ppc' = "recv"
  /\ incoming' = [incoming EXCEPT !.client = @ + 1]
  /\ UNCHANGED <<peers, outgoing, recv_buf, send_buf, parsed, reply, history>>

PeekMore ==
  /\ ppc = "peek" /\ Arrived("client") > 0 /\ ppc' = "recv"
  /\ UNCHANGED <<peers, counts, recv_buf, send_buf, parsed, reply, history>>

\* 100 microseconds without a byte end the request.
PeekNothing ==
  /\ ppc = "peek" /\ Arrived("client") = 0
  /\ ppc' = "send" /\ silent' = [silent EXCEPT !.client = TRUE]
  /\ UNCHANGED <<peers, counts, recv_buf, send_buf, parsed, reply, origin>>

-----------------------------------------------------------------------------
(* The answer *)

\* Connect or Send fails: the client gets no answer.  A blocked ::send fails with the connection.
ForwardFails ==
  /\ \/ ppc = "send"
     \/ ppc = "stuckForward" /\ ~serverOpen
  /\ ppc' = "closed"
  /\ UNCHANGED <<peers, counts, recv_buf, send_buf, parsed, reply, history>>

\* Nothing is sent for an empty request, but the answer is waited for.
Forward ==
  /\ ppc = "send" /\ ppc' = "answer"
  /\ response' \in IF recv_buf = <<>> THEN {<<>>} ELSE Served(recv_buf)
  /\ UNCHANGED <<request, clientOpen, serverOpen, counts, recv_buf, send_buf, parsed, reply,
                 history>>

\* The place of the empty line.
HeaderEnd(text) ==
  LET ends == {k \in 1..(Len(text) - 1) : text[k] = EOL /\ text[k + 1] = EOL}
  IN  IF ends = {} THEN 0 ELSE Min(ends)

LengthsIn(text, k) == {i \in DOMAIN text : text[i][1] = "length" /\ text[i][2] = k}

\* The spellings are looked for one after the other in all that was read; if none is there
\* atoi reads the end of the status line, which has no number.
LengthOf(text) ==
  LET known == {k \in 1..4 : LengthsIn(text, k) # {}}
  IN  IF known = {} THEN 0 ELSE text[Min(LengthsIn(text, Min(known)))][3]

\* Mutant: the empty line is counted as content.
CompleteEarly(text, pos, length) == length # -1 /\ Len(text) - pos + 1 >= length

\* send_buf.size() - content_pos - 4 >= content_length
Complete(text, pos, length) == length # -1 /\ Len(text) - (pos + 1) >= length

RecvAnswer ==
  /\ ppc = "answer" /\ Arrived("server") > 0
  /\ send_buf' = send_buf \o Part(response, "server")
  /\ incoming' = [incoming EXCEPT !.server = @ + Taken("server")]
  /\ content_pos' = (IF content_pos = 0 THEN HeaderEnd(send_buf') ELSE content_pos)
  /\ content_length' = (IF content_pos = 0 /\ content_pos' # 0 THEN LengthOf(send_buf')
                        ELSE content_length)
  /\ ppc' = (IF Complete(send_buf', content_pos', content_length') THEN "reply" ELSE "answer")
  /\ UNCHANGED <<peers, outgoing, recv_buf, reply, history>>

\* Mutant: the loop goes on.
AnswerEndsNot ==
  /\ ppc = "answer" /\ Arrived("server") = 0 /\ silent' = [silent EXCEPT !.server = TRUE]
  /\ UNCHANGED <<ppc, peers, counts, recv_buf, send_buf, parsed, reply, origin>>

\* Ten seconds without a byte, or the end of the connection.
AnswerEnds ==
  /\ ppc = "answer" /\ Arrived("server") = 0
  /\ ppc' = "reply" /\ silent' = [silent EXCEPT !.server = TRUE]
  /\ UNCHANGED <<peers, counts, recv_buf, send_buf, parsed, reply, origin>>

Reply ==
  /\ ppc = "reply" /\ ppc' = "closed"
  /\ reply' = IF clientOpen THEN send_buf ELSE <<>>
  /\ UNCHANGED <<peers, counts, recv_buf, send_buf, parsed, history>>

\* The client has gone: what had come of the answer counts for nothing.
ReplyFails ==
  /\ ppc = "stuckReply" /\ ~clientOpen /\ ppc' = "closed"
  /\ UNCHANGED <<peers, counts, recv_buf, send_buf, parsed, reply, history>>

socket_worker ==
  \/ RecvRequest \/ RecvNothing \/ PeekMore \/ PeekNothing
  \/ ForwardFails \/ Forward \/ RecvAnswer \/ AnswerEnds \/ Reply \/ ReplyFails

ProxyNext ==
  \/ ClientSends \/ ClientCloses \/ ClientStops
  \/ ServerSends \/ ServerCloses \/ ServerStops
  \/ socket_worker

ProxySpec == ProxyInit /\ [][ProxyNext]_proxyVars /\ WF_proxyVars(socket_worker)

-----------------------------------------------------------------------------
\* The BUF pieces before the ith came in one Recv.
AfterFull(i) == i > BUF /\ \A d \in 1..BUF : /\ recv_buf[i - d] # Junk
                                            /\ origin[i - d] = origin[i - 1] - (d - 1)

\* The kth piece was behind a byte 0 of the same Recv, or is this byte.
LostBehindNul(k) ==
  \E n \in 1..k : n > k - BUF /\ request[n] = Nul /\ \A l \in n..k : l \notin Range(origin)

\* What the proxied server gets is what the client has sent, to where the worker took it for
\* silent, but for two things that a C string does to it.  Of what a Recv brings, all is lost
\* from the first byte 0 on; behind a Recv that filled tmp there may be junk.  Nothing else is
\* lost, doubled, out of order or new, however the request was cut.
ForwardsRequest ==
  ppc \in {"send", "stuckForward", "answer", "reply", "stuckReply"} =>
    /\ silent.client
    /\ \A i \in DOMAIN recv_buf :
         IF recv_buf[i] = Junk THEN AfterFull(i)
         ELSE /\ recv_buf[i] = request[origin[i]]
              /\ \A j \in 1..(i - 1) : recv_buf[j] # Junk => origin[j] < origin[i]
    /\ \A k \in 1..outgoing.client : k \in Range(origin) \/ LostBehindNul(k)

\* A response that says its length where the proxy finds it with the header, however much of the
\* rest has come: a length in a spelling that it knows, and in none that it looks for earlier.
Header(text) == SubSeq(text, 1, HeaderEnd(text) + 1)
Declares(text) ==
  /\ HeaderEnd(text) # 0
  /\ \E k \in 1..4 : /\ LengthsIn(Header(text), k) # {}
                     /\ \A j \in 1..(k - 1) : LengthsIn(text, j) = {}
Undeclared(text) == \A k \in 1..4 : LengthsIn(text, k) = {}

\* Where the content ends.
ContentEnd(text) == HeaderEnd(text) + 1 + LengthOf(text)

\* However the answer is cut on its way, it is read to its end and not waited for afterwards:
\* unless the proxied server stops, the client gets all the content when the length is declared,
\* and of every other answer at least the header.
AnswersWhole ==
  /\ ppc = "answer" =>
       /\ Declares(response) => Len(send_buf) < ContentEnd(response)
       /\ Undeclared(response) => HeaderEnd(send_buf) = 0
  /\ ppc \in {"reply", "stuckReply"} =>
       /\ send_buf = SubSeq(response, 1, Len(send_buf))
       /\ \/ silent.server
          \/ /\ HeaderEnd(send_buf) # 0
             /\ Declares(response) => Len(send_buf) >= ContentEnd(response)

\* The proxy in front of this same program: a page of the site gets through whole, and what the
\* client takes as its content, by the length, is the page and no more; whatever the page holds,
\* length headers and empty lines too, and however requests and answers are cut.
PageDelivered ==
  ppc = "closed" /\ reply # <<>> /\ ~silent.server
    /\ recv_buf = request /\ response = make_respose(request) =>
    LET url == file_url(apart(request).URL)
        end == HeaderEnd(reply) + 1 + LengthOf(reply)
    IN  apart(request).mean = <<"GET">> /\ url \in DOMAIN Site =>
          end <= Len(reply) /\ SubSeq(reply, HeaderEnd(reply) + 2, end) = Site[url]

\* The worker ends with the connection and is free again, unless in the end one of the two peers
\* keeps it for ever by staying connected and not reading what it sends.  No other behaviour of
\* theirs keeps it: each Recv ends by its timeout, and each Send when the peer goes.
Stuck ==
  \/ ppc = "stuckForward" /\ serverOpen
  \/ ppc = "stuckReply" /\ clientOpen
WorkerFreed == <>[]Stuck \/ (ppc = "peek" ~> ppc = "closed")
=============================================================================
