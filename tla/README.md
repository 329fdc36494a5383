# A TLA+ verification of the labs in Cloud-Computing-Labs-2020

The repository holds three programs:

* **Lab1**, a multi-threaded Sudoku solver (`src/Lab1`),
* **Lab2**, a small HTTP server with a proxy mode (`src/Lab2`),
* **Lab3**, *T6DB*, a key-value store replicated by two-phase commit, with recovery of
  participants that come back (`src/Lab3`).

T6DB carries the hardest behaviour - threads, a network, crashes and recovery - and has the
largest model, and a second one for what its clients see: connections, framing, text. Of Lab1 the threads, the lock
and the solver are modelled, of Lab2 the server, a connection of the proxy, and the text of requests and answers.

## 1. Inventory

### Lab3: T6DB

| part | source | state | operations | interacts with |
|---|---|---|---|---|
| coordinator, work thread | `coordinator.cc` `Working`, `UpdateDB`, `Request` | `_TXID`, `_cstate`, `_lg` | one client command at a time, under `_workingMutex` | client socket; slots of every `pWorking` |
| coordinator, recovery thread | `Recovery`, `recoveryFromP`, `recoveryFromC`, `getRecoveryLeader` | `maxTxidTB`, `_tmpNum` | collect last ids, choose a leader, copy records, put participants to work; under `_recoveryMutex` and `_workingMutex` | slots of every `pRecovery`, and of the leader's `pWorking` |
| `keepAlive(id)`, `pWorking(id)`, `pRecovery(id)` | `coordinator.cc` | `_pstate[id]`, the socket `_pnet[id]`, four one-slot buffers | connect; send a task and store its result | one TCP session, used by all three |
| participant | `participant.cc` | `_TXID`, `_lg`, `_kvdb`, all in memory | answer GET, vote, commit, last id, log record; accept again when the coordinator hangs up | its session |
| network | `network.cc` over the vendored `ossSocket` | the sockets | `reconnect`, `reaccept`, `send`, `recv`, `sendAndRecv`, `recvCommand` | |
| logger, parser, KV, configuration | `logger.cc`, `parser.cc`, `kv.cc`, `conf.cc` | records; text; a string map | | called by the above |

Hard behaviours: 3 * n + 2 threads over shared tables and one-slot buffers; a participant that dies between its
vote and its commit, or while its log is copied to others; a coordinator that restarts empty
while participants know more than it; a reply that comes after the coordinator gave up; a
flag (`_cstate`) tested before the mutex it announces.

What makes it correct: the clients see one store (`ImplementsStore`); no two nodes disagree
about a transaction (`LogsAgree`); outside a command a working participant is exactly at the coordinator's
transaction (`InSync`); after a recovery nobody knows more than the coordinator
(`NewestAdopted`); as long as one participant works, a command that was admitted succeeds
(`OneSurvivorSuffices`); a participant that stays up is taken back (`Rejoins`) and every
client is answered (`ClientAnswered`).

At the front, one thread reads a command byte by byte from one connection at a time and throws away all others that were completed
meanwhile. Hard: a client that stops, hangs up or sends a wrong byte anywhere, or does not read its answer; text that is written, parsed, put into a log record, cut
out and parsed again; a connection that is reset while it waits. Correct when a client's command is executed at most once, on one map,
and as it was sent (`ImplementsService`, `ResetNotExecuted`; `WholeCommand` does not hold), and everybody is come to (`EveryoneServed`).

### Lab1: Sudoku

| part | source | state | operations |
|---|---|---|---|
| file-name reader | `fileManager.cpp` `filenameReadThread` | queue of names, `readFile` | one name per line of stdin |
| puzzle reader | `fileManager.cpp` `problemReadThread`, `problemWriter`, `eofIntoProblemBuffer` | chunk buffer, next solver index | cut a file into 82-byte lines, deal them round robin |
| solvers | `solverManager.cpp` `solveManager`, `solver.cpp` | one bounded buffer in, one out, per solver | dancing links |
| printer | `solverManager.cpp` `answerPrinter` | next solver index | collect answers in the order the puzzles were dealt |
| locks | `lock.hpp` `cpLock`, `exclusiveLock` | three semaphores | producer/consumer |

Hard: order of answers whatever the solvers' speeds, end of input through bounded buffers,
chunk boundaries, the handshake of the two readers; in the solver, four-way linked lists that a search takes apart and must restore
exactly. Correct when: the answers are those of the
puzzles in input order, none lost or repeated, and the program ends; the lists are at every call what the rows chosen so far
leave open (`Submatrix`), and the answer is a solution, or there is none (`Solves`).

### Lab2: HTTP server

| part | source | state | operations |
|---|---|---|---|
| listener | `sockethandle.cpp` `thread_scheduling` | the listening socket | accept, put the descriptor into a free slot |
| workers | `sockethandle.cpp` `socket_worker` | a slot each, `cpLock(thread_num)` | parse a request, answer a file or forward to the proxied server |
| shutdown | `main.cpp` | `serverOn` | `quit` on stdin, join everybody |
| transport, utilities | `transport.cpp`, `util.cpp`, `fileOp.hpp` | a socket | connect, send, receive; HTTP text |

Hard: shutdown while workers are busy, slots that are read without the lock, descriptors that are closed
and handed out again while a slot still holds their number, requests and proxied answers that arrive in parts, whose ends are guessed
from a silence and from a search in what has arrived, requests that hold a byte 0 in a program that appends C strings, peers that stop reading
in the middle of a send without a timeout, a failed `accept`.
Correct when: every accepted connection is served by exactly one worker and closed, a client gets its own answer, the
search for a free slot ends, a proxied answer is neither cut nor waited for (`AnswersWhole`), a page gets through the proxy whole (`PageDelivered`), and
`quit` ends the program.

### Not modelled

Vendored code (`third_party/parallel_hashmap`, `third_party/ossSocket`), the course's baseline
solvers (`Lab1/src/Resource`), test generators and scripts, HTML assets, toy client and server.
`ossSocket` appears only through how `Network` uses it.

## 2. Plan

1. *(done)* T6DB: `Logger`, `Network`, `Participant`, `Coordinator`, composed in `T6DB`; the abstract
   store `Store`; the inductive invariant `T6DBInv` and its proof
   (`T6DBProofs`).
2. *(done)* `CpLock`: `cGet`/`pGet`/`cRelease`/`pRelease` over three semaphores, shown to implement
   `BoundedBuffer`, the abstraction that `Coordinator` and `Sudoku` use; `CpLockProofs`.
3. *(done)* `Sudoku` (Lab1): readers, solvers and printer over bounded buffers, with the cutting of files in
   `size_t`; the abstract `SolveInOrder`; `SudokuProofs`, from the handshake of the readers to the answers in order.
4. *(done)* `HttpServer` (Lab2): listener, slots and workers, proxy mode, shutdown; `HttpServerProofs`.
5. *(done)* `Resp` (text and map) and `Frontend` (connections and framing) of Lab3, which implement the abstract `KvService`;
   `FrontendProofs`.
6. *(done)* `DancingLinks` (Lab1), pointer by pointer; `HttpText` and `Proxy` (Lab2), a connection in proxy mode in front of any server or of
   this same program.
7. *(done)* Proofs of what needs more than one component's invariant: `LogsAgree`, `NewestAdopted` and the step simulation behind
   `ImplementsStore` (`T6DBHistory`, `T6DBProofs`), `OneSurvivorSuffices`, and in Lab1 `RoundRobin`, `DealtAsTyped` and the
   sequential order; `ForwardsRequest`, `AnswersWhole` and `PageDelivered` of the proxy (`ProxyProofs`).
8. *(done)* Proofs about `DancingLinks`: `uncover` undoes `cover`, the lists are right at every call, the answer is right, and a puzzle
   that is given up has no solution (`Loops`, `DancingLinksProofs`).

## 3. The model of T6DB

| module | what it is |
|---|---|
| `Logger` | constants, transaction ids, records, requests and replies (`logger.hpp`, `logger.cc`) |
| `Network` | the session between the coordinator and each participant (`network.cc`) |
| `Participant` | the participant's one thread (`participant.cc`) |
| `Coordinator` | all threads of the coordinator (`coordinator.cc`) |
| `T6DB` | the composition, the faults, the properties and the fairness |
| `Store` | what a client is promised: one store, one command at a time |
| `T6DBInv` | the inductive invariant `IInv`, and `SurvivorInv` on top of it |
| `T6DBHistory` | `HInv`, the invariant of a system whose replies come in time |
| `T6DBProofs` | lemmas about messages, records and results; one lemma per action and invariant: it is preserved; the theorems that hold with every fault; those about one history and one store |
| `MCT6DB` | bounds on faults for TLC, with five configurations |

**Variables.** `txid`, `cstate`, `pstate`, `tmpNum`, `maxTx` are `_TXID`, `_cstate`, `_pstate`, `_tmpNum` and `maxTxidTB`
(0: no entry); `clog` is `_lg`. `task`/`ret` are the slots `_ptask` with `_ptaskSem` and
`_pworkingRet`, `_pworkingDataRet` with `_pRetSem`; `rtask`/`rret` are those of `pRecovery`. A slot
holds a value from `pRelease` of its producer to `cRelease` of its consumer, which is what
`cpLock(1)` gives. What is in `_pworkingDataRet` stays there when the value is taken and when the next task is skipped
(`Taken`, `Skip`): only the code next to it says whether it is an answer, and `ImplementsStore` fails when a GET does not look at the code. `workMtx` and `recMtx` say who holds `_workingMutex` and
`_recoveryMutex`. `wpc`, `rpc`, `ka`, `pw`, `pr` are the places of the threads; the variables that begin
with `w` or `r` are the locals of the work and recovery threads. `ptxid` and `plog` are a
participant's `_TXID` and `_lg`; its database is the effect of its log (a commit executes and logs in
one branch of `pWorker`), so a GET is answered with the log. `csock`, `psock`, `req`, `rep` are the two ends
of a session and what is in flight on it.

**Steps.** An action runs from one point where a thread can be held up (a mutex, a slot, the
network, a busy wait) to the next. The pushes of one task to all participants are one step, and so is
the collection of all results: every push and every collection touches the slots of one
participant only and commutes with the steps of the others. Within `recoveryFromP` and `recoveryFromC` participants are
served one after the other in the code, and so they are in the model. `Recovery` reads `minID` and
clears the table *before* it waits (`REnter`, `RWake`), sets `_cstate` before it has a mutex
(`RWake`) and after it has released both (`RDone`); `Working` tests `_cstate` before it locks
(`WAdmit`). `Launch`'s `sleep(2)` is `RStart`, which may happen at once unless `StartWait`.

**Data.** A SET or DEL is a member of `Cmds`; those of `BadCmds` have a wrong number of arguments. `+OK` and
the count a DEL returns are one reply, as every participant computes the same count from the same
log. A GET is well formed (with a wrong number of arguments every participant answers `-ERROR`, a
refusal like that of `Junk`). A client's command arrives whole; an unreadable one is `Junk`: what happens before is in `Frontend`.

**Faults.** `Kill` and `Run` of a participant (all its memory is lost), `KillCoordinator` (at once started again,
when `CoordCrash`), and late replies (`GiveUp`, when `NetFaults`): the coordinator hangs up, what it
sent may still be executed, and the reply is lost.

**Refusals.** `OneSurvivorSuffices` is about every `-ERROR` a client gets, wherever `Working` decides it (`Refusal`). While there is a
participant in `P_WORKING` with a live session, there are two reasons for one: the command is one that a parser refuses, or it came while `_cstate`
was `C_RECOVERY` (`WRefuse`). The second is what the code does, though a survivor could serve: `Working` does not wait for the end of a recovery,
it refuses what comes meanwhile. A command that was admitted, and that a recovery then overtakes, is not refused.

## 4. The front end of T6DB

`Frontend` is the coordinator's work thread as its clients see it. Replication is one step here (`Perform`: executed on *the* database,
or `Refuse`), which is what `Store` allows and section 3 shows T6DB to implement; `Frontend` adds everything before and after that step.

| variable | code |
|---|---|
| `listening`, `backlog` | `_server`: is there a listening socket, and which completed connections wait in the kernel |
| `peer` | `_peer`, by the client at the other end |
| `phase` | where `Working` is: `bind`, `accept`, in the three loops of `recvCommand` (`count`, `length`, `content`), `exec`, `send`, `blocked` (in `::send` with a full kernel buffer), `close` |
| `step`, `header`, `left`, `task` | the locals of `recvCommand`; `left` is `str_num - i` |
| `sent`, `read` | how many bytes the peer has sent, and how many `recvCommand` has read |
| `db` | the databases of the participants |
| `conn`, `req`, `hung` | the clients: connection, request, hung up |
| `answer`, `done`, `refused` | what `Working` answers; histories of what was executed or refused for whom |

`recvCommand` reads one byte per action (`SkipByte` to `ContentRead`), each with the code's tests in their order; `CountTimeout` is the one
second it waits for every byte of the count line, and it has no timeout later. `Working` ignores what it returns, so `PeerClosed`, `BadByte`
and `CountTimeout` all lead to `exec` with the words that were read. `CloseAll` is `Network::close`, which ends the listening socket as well:
the connections in its backlog are reset, and a client that was reset may call again.

`sendResult` loops around `::send`, and no socket has a timeout for sending. An answer of more than `SendBuffer` bytes, which stand for what the two
kernels take when nobody reads, may find a client that stops reading (`StopsReading`): then the thread stays there until that connection ends (`SendFails`). A client that
reads on, however late, is `SendResult`.

`Resp` is the text: the RESP messages of `parser.cc`, log records (`logger.cc`), the map (`kv.cc`) and `eventParser`. A text is a
sequence of bytes, of which the fixed words are one each; numbers are written in `Base`, so that lengths of two digits are short. A value may
consist of framing bytes. `EventSent` is the way of a command through a record's text to the participant, and `eventParser` parses it again there.

`KvService` is the promise: a call is served once, whole, on one map, with the answer the README names, or refused without effect, or the
connection is dropped. To a client that breaks off, or sends something else than its command's text (`~intact`), it may serve a beginning of the
command: that is what the code does, and the doubt is put as a property of its own, `WholeCommand` (section 11).

What a client sends, or that it hangs up, is one step at the moment the server waits for it; before, it makes no difference. The `"nil"` of a
missing key is one byte, told from a stored value. An answer counts as delivered once it is sent; the kernel may
discard it when the connection is closed with bytes unread.

## 5. The model of the lock

`lock.hpp` is the same in the three labs (only the default length differs). `CpLock` has `empty`, `full`, `mutex` and the
`std::queue` they protect, any producers and any consumers. Every `sem_wait`, every `sem_post` and every
use of the queue is a step: `pGet`, `Enter`, `Push`, `Leave`, `pRelease` of a producer, `cGet`, `Enter`, `Pop`,
`Leave`, `cRelease` of a consumer, and `pc` says how far a thread has come. `BoundedBuffer` is what the
users rely on: `Put` waits for a place, `Take` for a value, and what is put is taken.

`Coordinator` uses this with one place (a slot), `Sudoku` with `Capacity` places. `HttpServer` uses
the semaphores without a queue and therefore has `empty` and `full` itself.

## 6. The model of Lab1

| variable | code |
|---|---|
| `filenameBuffer`, `readFile` | the same; `typed` is the history of the names |
| `rpc`, `file`, `pos`, `lastSize`, `lineBuf`, `line`, `lines`, `after` | `problemReadThread`: its place, locals, loop index and bound, and where a dealing loop returns to |
| `problemNumber`, `problemBuffer`, `resultBuffer` | the same; `dealt` is the history of what was dealt |
| `spc`, `problem` | `solveManager` |
| `resultNumber`, `resultBuf`, `endNumber`, `ppc`, `out` | `answerPrinter`; `out` is stdout |

A file is a sequence of lines and whether the last one ends in a newline; its size in bytes, the whole batches, the
rest and the lines in a rest are computed as in the code, modulo `SizeT`. A line in the buffer that no read has filled is `Junk`.
A solver turns a puzzle into `Answer(puzzle)`: dancing links itself is not part of this model. `filenameLock`
is held exactly while `rpc` is `"empty"` or `"eof"`, so it has no variable.

`SolveInOrder` is the promise: names are typed, answers come out in the order of the puzzles, batch by batch, and
the rest when the input has ended. `ImplementsSequential` shows that `Sudoku` implements it, with its liveness.

`DancingLinks` is what `Answer` stands for: `solver.cpp`, for one puzzle. `links` holds the four pointers and `size` as functions on nodes, and a node
is named by what it stands for (a constraint, or a constraint of a value in a cell), where the code has an address and `name`. `AppendCell` to `RowsDone` are
the constructor, with `loop` as the indices `i` and `v` of its three loops, one action for a turn of each and one for its end; `Choose`, `TryRow`, `NextRow` and `Fail` are `solve`, cut at its calls and returns, with `frames` as the call stack (`col`, `row`) and `stack_`
as in the code; `Solve` is the branch that writes the answer. `cover` and `uncover` are folds of the body of each loop over the nodes that it visits, and `Walk` finds these by following
the pointers of the moment the loop begins: no loop changes a pointer that it follows. Only the side of the board is a parameter.

## 7. The model of Lab2

| variable | code |
|---|---|
| `serverOn`, `socketFlag` | the same (a slot of 0 is free) |
| `empty`, `full` | the semaphores of `cplock`; the work under its mutex is one step |
| `lpc`, `clientSocket`, `lastFitPos` | `thread_scheduling` |
| `wpc`, `newSocket`, `clientSock`, `recv_buf`, `send_buf` | `socket_worker` |
| `owner` | which connection each descriptor of the process is: a client's, `Upstream` or `Nobody` |
| `backlog`, `inbox`, `sent`, `reply` | what clients have connected, sent and received |

A request is `Pieces` parts that arrive one after the other; a buffer records for each part whose it is, and the answer to a
buffer is that buffer, so an answer to the wrong client is visible. What the text of a request or a response is
makes no difference here; it is in `HttpText`. (That an answer can be large enough for its send to block is all that matters of its size, and any but
the empty one may be.) A read may return any part of what has arrived; it may
also time out or find the connection closed (`RecvNothing`), with the same effect in the code. The proxied server may be
unreachable (`ConnectFails`), silent, or answer (`UpstreamAnswers`). `Quit` may happen at any time or never.

`TransSocket::Send` waits in `select` for at most its timeout and then loops around `::send`, which has none (`initSocket` sets no `SO_SNDTIMEO`, and an
accepted socket has none either). A peer that reads no more and does not hang up keeps the worker there for ever: `SendBlocks` with a client, who may have got the beginning of
the answer, `ForwardBlocks` with the proxied server. The worker is `blocked` and no action of its own follows. A peer that reads on or goes, however late, is `Send`,
`UpstreamAnswers` or `ConnectFails`. Whether a peer ever does is up to it, so these two are steps of the environment, any number of them, one for each worker.

## 8. A connection of the proxy

`Proxy` is one connection in the hands of a worker in proxy mode, from the first `Recv` to `Close`: `HttpServer` takes these as few steps, here each
`Recv` gets any part of what has arrived, up to `BUF`.

| variable | code |
|---|---|
| `ppc` | `recv`, `peek` (the request loop), `send` (connect and send), `answer` (the response loop), `reply`, `closed`; `stuckForward` and `stuckReply`: in `::send` to a peer that has stopped reading |
| `recv_buf`, `send_buf`, `content_pos`, `content_length` | the same |
| `request`, `response`, `outgoing`, `incoming` | what the client and the proxied server send, how much of it is sent and read |
| `clientOpen`, `serverOpen` | they have not closed |
| `reply` | what the client has received |
| `silent` | history: a loop ended because nothing came |
| `origin` | history: which piece of the request each piece of `recv_buf` is |

A text is a sequence of pieces (`HttpText`), cut between any two; line ends are pieces of their own, so that the empty line is cut too. A piece of a request may be `Nul`, a byte 0. `recv_buf += tmp` takes `tmp` for a C string:
`RecvRequest` appends the part of what was read before its first `Nul` (`c_str`) and drops the rest; after a `Recv` that fills the buffer without a `Nul` it appends
junk or nothing, as `tmp` then has no terminator. `ForwardsRequest` says that a request suffers these two things and nothing else: pieces are dropped only behind a `Nul` of
the same `Recv` (`LostBehindNul`), junk is only behind a full buffer (`AfterFull`), and all other pieces are there, once and in order. That junk is *admitted* by the
property, not excluded: what lies behind `tmp` is undefined. A response is appended with its length, and suffers neither. `LengthOf` looks for the four spellings one after the other in all that
has arrived, at the moment the empty line has.

`AnswersWhole` is about answers that say their length where the proxy is sure to find it (`Declares`): in the header, in a spelling that
it knows, and with none anywhere in the answer that it looks for earlier, because how much of the body has arrived with the empty line is a matter
of the cut. A body with an earlier spelling, or with the only one, may end an answer anywhere, which the instance has too
(`Foreign`). Of an answer that has no known spelling at all (`Undeclared`) the proxy takes what came with the empty line.

`HttpText` is the server's own text: `apart`, `get_respose`, `post_respose`, `no_found_respose`, `not_implemented`, `create_text`. The program is its own
proxied server in the `parts` run, next to servers whose answers have a body, none, no length, a length in an unknown spelling, or a length in their body.
A request that was cut inside its first line makes `apart` read words that are not there; then every answer, or none, is possible.

The two peers may stop reading while the worker sends to them (`ServerStops`, `ClientStops`). The worker then waits until they go (`ForwardFails`, `ReplyFails`); if they stay, for
ever. `WorkerFreed` says that nothing else keeps it.

## 9. What is checked

| run | instance | shows |
|---|---|---|
| `t6db_kill` | 2 participants, one killed at any point, two commands and a refused one, ids 5-6 | `TypeOK`, `LogsAgree`, `OneSurvivorSuffices`, and that T6DB implements `Store` |
| `t6db_restart` | the same with a restarted coordinator and `StartWait` | `NewestAdopted`, `LogsAgree` |
| `t6db_live` | a kill and a late reply, no assumption on `sleep(2)`, ids 5-6, weak fairness | `InSync`, `CLogCommitted`, `TmpNumExact`, `SocketOwner`, `Rejoins`, `ClientAnswered` |
| `t6db_late` | a late reply | **violation** of `LogsAgree` |
| `t6db_early` | a restart without `StartWait` | **violation** of `NewestAdopted` |
| `parts`, lock | 3 producers, 2 consumers, 3 places | `Tokens` (`MutualExclusion` follows), `PopDefined`, and that the lock implements `BoundedBuffer` |
| `parts`, solver | 11 boards of 4 x 4 | `Submatrix`, `Restored`, `Solves`, `SolverEnds` |
| `parts`, front end | 2 clients, 5 requests, numbers of base 2, answers that fill the kernel buffer and others | `ResetNotExecuted`, `EveryoneServed`, and that front end and text implement `KvService` |
| `parts`, proxy | 6 requests, one with a byte 0, a buffer of 3 pieces, this program and others as proxied server, peers that stop reading | `ForwardsRequest`, `AnswersWhole`, `PageDelivered`, `WorkerFreed` |
| `frontend_cut` | the same front end | **violation** of `WholeCommand` |
| `sudoku` | 3 solvers, batches of 2, buffers of 1, two files of 1 to 4 puzzles | `TypeOK`, `RoundRobin`, `DealtAsTyped`, `NoNameLost`, `Terminates`, and that Lab1 implements `SolveInOrder` |
| `sudoku_lone` | a file of one puzzle and no newline | **violation** of `NothingLost` |
| `http` | proxy mode, 2 workers, 3 clients, blocked sends, quit | `TypeOK`, `FreeSlot`, `PostsMatch`, `OneUserPerDescriptor`, `NoneForgotten`, `OwnAnswer` |
| `http_live` | 2 workers, 2 clients, requests in two parts, blocked sends, quit | `Served`, `WorkersQuit` |
| `http_quit` | 1 worker, 2 clients | **violation** of `Quits` |

`parts` checks four parts that have no state in common. Its first state says which part runs (`part`), and the others keep their initial states, so the run
has the behaviours of every part and none of the product. Each part brings its own fairness. A part that has ended, or waits for clients
that do not call, rests (`Rest`); anything else without a next step would be a deadlock, which the run checks.

**Bounds of T6DB.** Two participants are enough for a leader and a follower, a survivor and a victim, and a
last answer that differs from the first; kills and restarts meet in `t6db_restart`, kills and
late replies in `t6db_live`; all three kinds of fault together, and more participants, are covered by the proof of `IInv`. Two
ids let a participant miss none, one or all of the log. `MaxTx` ends the commands (a further update is
refused); `MaxKills`, `MaxRestarts` and `MaxTimeouts` count the faults. Each fault once is what it takes for every
recovery branch: an empty participant, a leader ahead of the coordinator, a leader that fails.
Commands are not symmetric in the model (`BadCmds`), and no symmetry is used.

**Bounds of the others.** Lock: three producers and two consumers let two threads be between their waits while a
third passes, and three places are fewer than what is pushed. `sudoku`: the files have every remainder of lines by a batch,
with and without a last newline; a line of 3 bytes has, like one of 82, sizes one less than a multiple; buffers of one place are
full at once; three solvers and two do not divide the batches and the files alike. A lone last line without newline, and an empty file (section 11), are left
out of the `sudoku` run (`Readable`). `SizeT` only has to exceed every offset. `http`: three clients on two workers make the
listener wait and descriptors be reused, and let a worker take the token posted for the other; proxy mode is the one with more steps, as the
other differs in `make_respose` alone, which `http_live` uses. Solver: on four boards a row is taken back and an answer found afterwards, on two
others up to three are taken back and there is none; one is blank, one solved, one full and wrong. Boards of 4 x 4 go through every branch of the code,
which has the side only as a number of rounds. Front end: two clients let one wait, and be reset, while the other is served; the requests are
one of each command, a SET without a value, a DEL with a wrong byte in its second length, a value of framing bytes with a length of two digits. `SendBuffer` is such that
the answer that carries this value does not fit and the others do.
Proxy: a buffer of three pieces is filled by the first line of a request and cuts every answer in several ways; the page served has an empty line and a length in it. Clients are symmetric in `http`. The liveness runs use no symmetry.
`CHECK_DEADLOCK FALSE` is set for the runs of `Sudoku` and `HttpServer`, as these programs end, and for `frontend_cut`, where the server waits for clients.

**Fairness.** Every thread of the coordinator, and every running participant, is weakly fair: they are
OS threads that wait on semaphores, mutexes and sockets or spin. No client, kill, start or timeout is
fair. A mutex that is free infinitely often but not always would need strong fairness; weak fairness suffices here
because no other thread asks for the mutex for ever (updates are bounded).
In `CpLock` consumers and every producer that has begun are weakly fair; `parts` shows that this is enough for the buffer to be
emptied. In `Sudoku` the threads are weakly fair and nobody has to type; in `HttpServer` the listener and the workers are, and every wait for a
client or for data ends by its timeout; a send ends unless its peer blocks it (`SendBlocks`, `ForwardBlocks`), and then nothing is assumed; no client and no user has to do anything.
`Served` and `WorkersQuit` therefore except workers that are blocked, and the connections they are blocked for. In `Frontend` the work thread is weakly fair and clients are not; `EveryoneServed` says that one
client's wait ends unless in the end the thread is with a client that stays connected and neither goes on with its command nor reads its answer. In `Proxy` the worker is weakly fair:
each `Recv` ends by its timeout, and each send unless a peer stops reading, which is a step of the peer's. `DancingLinks` is sequential, and its fairness, that it goes on until it is done, is written without `ENABLED`.

## 10. What is proved

### T6DB

`T6DBProofs` proves, for every number of participants, every set of commands and every bound on the ids,
with processes killed and started, the coordinator restarted and replies late, all any number of times:

| theorem | property | |
|---|---|---|
| `Inductive` | `IInv` | the inductive invariant |
| `Synchronised` | `InSync` | while nobody holds `_workingMutex`, working participants are at the coordinator's id |
| `OneSocketOwner` | `SocketOwner` | the threads of a participant never use its socket together |
| `CounterExact` | `TmpNumExact` | `_tmpNum` counts the participants in `P_TEMP` |
| `LogComplete` | `CLogCommitted` | the coordinator's log has no gap and no record that was only prepared |
| `Typing` | `TypeOK` | |
| `SurvivorAnswers` | `OneSurvivorSuffices` | with a survivor, `-ERROR` is given only for what a parser refuses, or on admission while a recovery is under way |

The proofs assume `LoggerAssumption` only: at least one participant, `MaxTx >= TXID_START`, and
`BadCmds` a subset of `Cmds`.

**Why `IInv`.** None of these properties survives a step by itself. `InSync` speaks of the moments when the mutex is free;
between two of them a command or a recovery has gone through all its phases. `IInv` follows it:

* `MutexInv`: who holds which mutex is a matter of where the two threads are;
* `SlotInv`: a slot is in use only in the phase that uses it, for the one request of that phase;
* `SessionInv`: a live session belongs to the thread the participant's state names, and carries the request
  that thread waits for, or its reply, never both;
* `PhaseInv`, `TableInv`: the ranges of the recovery thread's locals, and whom an entry of `maxTxidTB`
  belongs to;
* `AnswerInv`: what the replies in flight and in the slots say in each phase;
* `SyncInv`: by how much a participant with a live session is ahead of the coordinator: by one while its `+OK` to a commit is on
  its way, by the length of the copy while it leads a recovery, by what the table says while it is recovered;
* `TmpInv`, `CLogCommitted`, `TypeOK`.

It holds initially (`InitInv`). The first part of `T6DBProofs` has a lemma for each of the 40 actions and for stuttering;
where a conjunct takes an argument, a lemma of its own states it (for example `WCommitsSync`: when the id
advances, every working participant with a live session has executed the command; `ServeAnswer`: what the reply to
each request means). `NextInv` combines them, and each theorem but the last follows from `IInv` in one step. `SurvivorAnswers` adds `SurvivorInv`: what a
participant that stays in the working state has answered to a vote or a GET is never an error, and whoever a GET has asked in vain is
out; and `IdleInv`: `C_RECOVERY` without a recovery under way, as at the start, means that nobody is in the working state. It holds with every fault, late replies included, because a participant whose reply was late leaves the working state in the same step.

The third part of `T6DBProofs` proves what is false with every fault at once:

| theorem | property | hypothesis |
|---|---|---|
| `History` | `HInv` | `Punctual` |
| `OneHistory` | `LogsAgree` | `Punctual` |
| `NothingMissed` | `NewestAdopted` | `Punctual` |
| `OneStore` | `ImplementsStore` | no late replies, coordinator not killed |

`Punctual` is `~NetFaults /\ (CoordCrash => StartWait)`: no reply comes after its timeout, and if the coordinator may be killed, every
running participant connects before its first recovery. Participants are killed and started at any time, any number of times. The hypothesis is
the weakest the code allows: the runs `t6db_late` and `t6db_early` violate `LogsAgree` and `NewestAdopted` without the one half and without
the other. `OneStore` excludes restarts of the coordinator as well, since a restarted coordinator
has an empty log until its recovery ends, and the client it was serving gets no answer; `Store` knows neither.

**Why `HInv`.** `LogsAgree` compares logs, and two logs change at different times for one command: each participant executes it when its commit
arrives. `Holds(p, t, c)` therefore says that `p` has executed `c` under `t` *or* that the commit is on its way to it. With that, executing a commit
changes nothing, and only two threads ever let anybody gain something: a `pWorking` that sends a commit and a `pRecovery` that sends a
record. `AgreeInv` is `LogsAgree` for `Holds`. For the sends it needs to know who may be ahead of the coordinator and with
what (`AheadInv`: the command that is being committed, or, after a restart, records the running recovery will take in), what the
leader's answers are (`LeaderInv`), what the coordinator has under the id it sends (`RecordInv`), and that whoever has lost its session has lost
its memory too (`FreshInv`), which is where late replies and early recoveries break in. `LogInv` rules out gaps, `LevelInv`, `GetInv` and
`CallInv` serve the refinement: `OneStore` maps `T6DB` to `Store` by `CommittedDb` and `ClientAnswer`, and every step but the admission,
the first counted commit answer, the reading of a `GET`, the refusal and the reply is a stutter.

TLC checked both invariants before they were proved, on the runs' instances (up to 453,666 states).

### The lock

`CpLockProofs` proves for any finite sets of producers and consumers, any capacity and any values: `Typed` (`TypeOK`), `TokensKept` (`Tokens`), `Exclusive`
(`MutualExclusion`), `NeverPopsEmpty` (`PopDefined`) and `BuffersSafely` (every step is a step of `BoundedBuffer` or none). It assumes that the two sets are disjoint and the
capacity positive. The inductive invariant is `TypeOK /\ Tokens`: it counts, for each semaphore, its tokens and the threads
that have one in their hands. `Moves` says what one thread's move does to such a count, and `Counted` that a thread which is
somewhere counts; exclusion and the non-empty queue follow from the counts.

### The front end

`FrontendProofs` proves `ResetIsSafe` (`ResetNotExecuted`) for any clients, requests and base of the numbers. The invariant `OnceInv` says that the
backlog holds open connections, each once and none of them the one that is served, for which nothing has been executed; that the client
that is served has its connection, and nothing executed, until its command is; and that a client without a connection has nothing
executed. It is needed because a reset touches clients by their place in the backlog alone: a connection that was there twice, or
there and served, would be reset after its command was executed.

### Lab1

`SudokuProofs` proves, for any number of solvers, any batches, capacities, sizes and files:

| theorem | property | hypothesis |
|---|---|---|
| `NamesRead` | `NoNameLost` | |
| `Typing` | `TypeOK` | |
| `TurnsMatch` | `RoundRobin` | |
| `CutRight` | `DealtAsTyped` | `AllReadable` |
| `AllPrinted` | `NothingLost` | `AllReadable` |
| `OneSolver` | `Sequential!SeqSafety`, the safety part of `ImplementsSequential` | `AllReadable` |

`AllReadable` says that no file is empty and no last line without newline is alone in its batch: with such files the program does lose
puzzles (section 11), and `sudoku_lone` violates `NothingLost`. The other assumptions (`SudokuAssumption`) are that the numbers are positive, that
a line has at least two bytes, and that sizes and one batch fit into `size_t`. There are four invariants, each on top of the ones before:

* `ReadersInv` ties the place of the reader to the lock: while it is between its two looks, nothing is added to the queue of names;
* `PipeInv` is `TypeOK`, `RoundRobin`, and `At(q)`: between batches `pos` is the beginning of the `q`-th line, `q` a multiple of the
  batch, and not behind the end of the file; without it a read could leave the file, and types break. `RoundRobin` is inductive because `Turn` is given by
  a remainder: what a solver has are the numbers of its remainder after `resultNumber`, so that dealing appends to the one solver whose next
  turn is the next number of all, and printing takes from the one whose first turn is (`NthFirst`, `NthPrint`). `Fits` states this of a
  sequence, and `Flow` shows that the solver's own steps do not change the sequence;
* `CutInv` says that what was dealt is the lines of all files opened before this one, and a beginning of this one's, and that the batch in `lineBuf` is
  what comes next. `BatchRead` and `TailRead` are the arithmetic of the code in `size_t`: how many lines a read
  of a batch, or of the rest, contains, and where it ends;
* `PrintInv` says that what is printed, with what is collected, is the answers in order, and all of them once an end marker has come.

The lines of several files are joined by the `FlattenSeq` of the community modules, a recursive function. That appending a file appends its
lines (`FlattenAppend`) is proved by induction over sets of numbers (`SetInduction`, from the well-foundedness of `<`), which needs no
operator as a parameter.

### The solver of one puzzle

`DancingLinksProofs` proves, for every board of every size, with `DancingLinksAssumption` only (boards have numbers up to their side, grids are solutions):

| theorem | property |
|---|---|
| `SubmatrixHolds` | `Submatrix` |
| `RestoredHolds` | `Restored` |
| `SolvesHolds` | `Solves` |
| `GivesUpRightlyHolds` | `GivesUpRightly` |
| `DlInvHolds` | `DlInv`, the inductive invariant |

`Solves` compares a puzzle that is given up with the solved boards that `Grids` lists, which TLC can have for 4 x 4 only. `GivesUpRightly` says that there is no
solution at all, and names no list. That the search comes to an end is `SolverEnds`, which TLC checks.

The argument goes from below:

* **Lists.** `Ring(next, prev, h, s)` says that from `h` the pointers lead through the sequence `s` and back, and backwards the other way. A walk along the
  pointers is `s` (`WalkRing`), taking a node out takes it out of `s` (`RingRemove`), putting one in before `h` appends it (`RingAppend`), and a change of the pointers
  of other nodes is none (`RingSame`).
* **Loops.** A loop is a `FoldLeft`, which is a recursive function. `Loops` shows for any body what it computes: there are values from the first to the
  last, each made from the one before by one turn (`LoopSteps`), and the last is the result. `DancingLinksProofs` instantiates it with the bodies of the six loops. Inductions along a
  list are over the set of the turns for which the claim holds (`SetInduction`).
* **Cover and uncover.** `Lists` says which columns are in the list of the root and which nodes are in those of the columns. One node taken out and put back by the pointers
  it kept is as before, every pointer included (`DetachLists`); then a row (`DetachRowLists`), then a column (`CoverLists`), then the columns of a row
  (`CoverRowMatrix`), each in the reverse order of the one before it. That nothing was lost needs the names of nodes: a row meets a column once (`Shape`), so that the
  loops of `cover` do not touch the pointers they follow.
* **The constructor.** `BuildInv` says which columns and rows are in the lists at each turn of the three loops; at its end these are `ColumnSet` and `OptionSet`.
* **The search.** `SolveInv` is `Submatrix`, `Restored` and `Solves` with what they need. For the calls of `solve` that have not returned there are `B`, the lists
  with which each began, `S`, the rows of its column, and `P`, how far it has got (`Levels`). `B` is needed because `Restored` speaks of the end only: `uncover` gives back
  the lists of that very call. A solution of the puzzle meets every column once (`AnswerRow`), so one row of every column that a call chooses belongs to it; `Ahead` says that each solution
  is among the rows that are being tried or still to be tried. When the first call has no row left there is none, which is `GivesUpRightly`.
* **The answer.** When no column is left the rows of the stack meet each column exactly once, which makes every row, column and box of the board complete
  (`FilledAnswers`); there the board's own numbers count as well, whose columns the constructor left out.

### Lab2

`HttpServerProofs` proves for any number of workers and any finite set of clients: `AlwaysFreeSlot` (`FreeSlot`), `AllRemembered` (`NoneForgotten`), `NoSharedDescriptor`
(`OneUserPerDescriptor`), `TokensMatch` (`PostsMatch`), `AnswersOwn` (`OwnAnswer`) and `Typing` (`TypeOK`). They come in five layers, which use the ones before:

* `Inv` counts the tokens of `empty` - in the semaphore, with the listener, spent on a taken slot, or with a worker that has cleared
  its slot - and ties the descriptor of a worker that serves to its slot;
* `DescInv` says that each open connection is held once: the descriptor the listener has, those in the slots whose worker has not closed
  them, and those of the connections to the proxied server are open and pairwise different. It is needed because a slot keeps the number of a
  closed descriptor, so that equal numbers alone are no error;
* `PostsInv` counts the tokens of `full`;
* `BufInv` says that while a worker has a connection its buffers hold only what came from the client at the other end, and that they are
  empty when it looks for the next one; `OwnAnswer` alone is not inductive, since it says nothing of what is still to be sent;
* `TypeInv` bounds what a client has sent and what of it waits to be read; that the semaphores stay within the number of slots comes
  from the counts of the first and the third layer.

No proof uses that the kernel gives out the lowest free number, only that the number is free.

`ProxyProofs` proves, for any request, site and size of the buffer, and however the texts are cut:

| theorem | property | hypothesis |
|---|---|---|
| `Forwarded` | `ForwardsRequest` | |
| `Whole` | `AnswersWhole` | `AnswersOnly` |
| `Delivered` | `PageDelivered` | |

`AnswersOnly` says that the proxied server answers with texts and that the lengths in them are natural numbers. (A negative one is,
as `size_t`, more than ever comes.) `ProxyAssumption` and `HttpTextAssumption` are that the buffer has a place and that requests and pages are texts.

* `RequestInv` says what the buffer `Holds` at every point of the two loops: each piece is the one of the request that `origin` names, in order, or junk
  behind a full buffer, and each piece that was read is there or behind a byte 0. `ForwardsRequest` says so only of the places behind the loop. The step is
  `Holds` of a buffer with one more part (`HoldsPart`), of which only what stands before its first byte 0 is taken (`CutFacts`), and then perhaps with junk
  behind it (`HoldsJunk`).
* `AnswerInv` says that `send_buf` is a prefix of the answer, `content_pos` the place of the empty line as soon as that is in it, and
  `content_length` what *some* prefix says that holds the empty line (`ParsedInv`), since more has come when it is asked for; and
  that the loop is left when the answer is complete and not before (`LoopInv`). `LengthOfFirst` makes it useful: of an answer that `Declares` its
  length, every prefix with the empty line says the same one.
* For `PageDelivered`, `PageFacts` computes the header of a page, whose length comes before all that is in the page.

An earlier form of `AnswersWhole` held on the instance but could not be proved: it took a length anywhere in the answer for declared, and
with one in the body only, or an earlier spelling there, `LengthOfFirst` is false. `Declares` and the answers added to the instance came from that.

**What is only model-checked.** Liveness under fairness is beyond the prover: `Rejoins` and `ClientAnswered` in T6DB, the liveness of `ImplementsBuffer` in the
lock, `EveryoneServed` in the front end, `Terminates`, `SolverEnds` and the liveness of `ImplementsSequential` in Lab1, `Served`, `WorkersQuit` and `WorkerFreed`
in Lab2. `ImplementsService` rests on texts that are recursive functions and folds over bytes: that parsing gives back what was written is induction over them.
Every invariant of a run that is expected to pass is proved.

## 11. Disagreements with the documentation

`logger.hpp:20-27` promises consistency and recovery "until the newest trasaction".

* **Late commit reply** (`t6db_late`). `UpdateDB` answers `-ERROR` and keeps `_TXID` when no commit reply arrived in
  time, but a participant may have executed the command. The next update uses the same id;
  if another participant executes it, the two disagree, with equal last ids, so that recovery cannot notice.
* **Early recovery** (`t6db_early`). After a restart the coordinator recovers with whoever has connected
  after two seconds; a participant with newer transactions that connects later is left behind its own history.

Lab1's `README.md:29-30` says that files of any size can be given and the program ends by itself.

* **A lone last line** (`sudoku_lone`). A rest of 81 bytes is no multiple of 82 and is skipped, though the line
  count below accepts a last line without newline: that puzzle is not answered.
* **An empty file** (no run of its own). `getSize() - 1` wraps around, and the reader deals junk without end; the model shows it
  when `Files` has an empty one.

Lab3's coordinator says of its loop "get the task from the client" (`coordinator.cc:175`), and the test of DEL that it returns the number of
keys removed by the command (`lab3test.sh:802`).

* **Half a command** (`frontend_cut`). What `recvCommand` returns is ignored. A DEL of two keys whose client hangs up before the second, or whose second length has a
  letter, removes the first.

Lab2's `README.md:19` says that `quit` ends the server, and `README.md:27` that a request gets its response.

* **Quit with all slots filled** (`http_quit`). The workers leave, the listener waits for a slot, `main` for the listener.
* **A request in two parts** (no run of its own). If the second comes more than 100 microseconds after the first, only
  the first is answered, and in proxy mode only the first is forwarded: `ForwardsRequest` has the pieces that were read before the silence, and no others.
* **A request with a byte 0 in it** (no run of its own), such as a posted file: of every `Recv` what stands behind its first byte 0 is lost, and the request that is
  forwarded, or answered, has a hole there (`LostBehindNul`).
* **Clients that do not read** (no run of its own). A client that asks for a file larger than the kernel buffers, stays connected and reads nothing keeps a worker for ever, in Lab2, and
  the only work thread, in Lab3; `quit` then waits for that worker. `Served`, `WorkersQuit`, `WorkerFreed` and `EveryoneServed` name this as the exception.
* **Answers without a known Content-Length** (no run of its own) are cut by the proxy after their header; `AnswersWhole` promises no more for them. The
  404 answer to a POST ends its header with a line feed and an empty line (`no_found_respose`), so a proxy waits for its connection to close.

## 12. What is left out, and why

* Frames between coordinator and participant are one message each: both ends are this program, and a part of a message is never acted upon. Their
  lengths are not bounded in the code.
* Sends of the coordinator to a participant, and of a participant to the coordinator, which use the same `::send` without a timeout: a peer process that is stopped, without being killed,
  while a kernel buffer is full of its unread bytes would hold the sender. Here a send is delivered or fails.
* Whether a participant that was killed and started again unnoticed, with no command since, is taken back: `P_WORKING` is what the coordinator believes, and `Rejoins` is
  about that. The next command to it fails and makes it reconnect.
* Bytes left unread when the coordinator closes a connection: the kernel may then reset it and discard the answer.
* Races on the `std::map` tables: undefined behaviour has no state the model could be in. The model keeps one cell per
  participant, which is what the code intends.
* In Lab1, files that cannot be opened: `readAt` then writes through a null pointer, and the process ends.
* In Lab2, the wording of answers, content types, a failed `accept` (a select on descriptor -1 follows, which is undefined), and `task.cpp`, which the
  makefile does not build.
* Configuration, options and addresses (`conf.cc`, `util.cpp`), which are read once before anything runs.
* The coordinator's reconnection loop is a busy wait; `KeepAliveConnect` is enabled while it spins.
