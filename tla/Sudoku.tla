------------------------------- MODULE Sudoku -------------------------------
(***************************************************************************)
(* Lab1: the threads that read file names, cut the files into puzzles,     *)
(* solve and print.  A queue under a cpLock is a bounded buffer (CpLock).  *)
(*                                                                         *)
(* A line is a puzzle or, in a buffer that nothing was read into, Junk.    *)
(* The answer of a puzzle p is Answer(p).  Offsets and sizes are size_t.   *)
(***************************************************************************)
EXTENDS Naturals, Sequences, SequencesExt

CONSTANTS N,        \* SOLVER_NUMBER
          Batch,    \* BATCH_NUMBER
          LINE,     \* the bytes of a line (82)
          SizeT,    \* 2^64
          Capacity, \* of a buffer (1000)
          Puzzles,
          Files, MaxFiles,
          NULL, Junk

VARIABLES filenameBuffer, readFile,      \* shared by the two readers
          typed,                         \* history: the names typed
          rpc, file, pos, lastSize,      \* problemReadThread and its locals
          lineBuf, line, lines, after,
          problemNumber,
          problemBuffer, resultBuffer,
          spc, problem,                  \* solveManager, for each solver
          resultNumber, resultBuf, endNumber, ppc, \* answerPrinter
          out,                           \* what is printed
          dealt                          \* history: the lines dealt to the solvers

nameVars   == <<filenameBuffer, readFile, typed>>
fileVars   == <<file, pos, lastSize, lineBuf, lines, after>>
dealVars   == <<problemNumber, problemBuffer, dealt>>
solverVars == <<spc, problem>>
printVars  == <<resultNumber, resultBuf, endNumber, ppc, out>>
vars == <<nameVars, rpc, line, fileVars, dealVars, resultBuffer, solverVars, printVars>>

Solvers == 0..(N - 1)
Size(f) == IF f.lines = <<>> THEN 0 ELSE Len(f.lines) * LINE - (IF f.nl THEN 0 ELSE 1)
NoFile  == [lines |-> <<>>, nl |-> FALSE]
Answer(p) == [answer |-> p]

\* What is dealt, and what comes back; NULL is the end marker.
Slots   == Puzzles \cup {Junk, NULL}
Results == [answer : Puzzles \cup {Junk}] \cup {NULL}

\* An offset is a size_t: no file comes near its limit.
ASSUME SudokuAssumption ==
  /\ {N, Batch, Capacity} \subseteq Nat \ {0}
  /\ LINE \in Nat \ {0, 1} /\ SizeT \in Nat /\ SizeT > LINE * Batch
  /\ Files \subseteq [lines : Seq(Puzzles), nl : BOOLEAN]
  /\ \A f \in Files : Size(f) + LINE * Batch <= SizeT
  /\ NULL \notin Puzzles \cup {Junk} /\ NULL \notin [answer : Puzzles \cup {Junk}]

Init ==
  /\ filenameBuffer = <<>> /\ readFile = TRUE /\ typed = <<>>
  /\ rpc = "loop" /\ file = NoFile /\ pos = 0 /\ lastSize = 0
  /\ lineBuf = [i \in 0..(Batch - 1) |-> Junk] /\ line = 0 /\ lines = 0 /\ after = "loop"
  /\ problemNumber = 0 /\ dealt = <<>>
  /\ problemBuffer = [s \in Solvers |-> <<>>]
  /\ resultBuffer = [s \in Solvers |-> <<>>]
  /\ spc = [s \in Solvers |-> "get"] /\ problem = [s \in Solvers |-> NULL]
  /\ resultNumber = 0 /\ resultBuf = <<>> /\ endNumber = 0 /\ ppc = "loop" /\ out = <<>>

-----------------------------------------------------------------------------
(* filenameReadThread *)

\* Mutant: filenameLock is not held from the look at the queue to the look at readFile.
FilenameLockNone == TRUE

\* filenameLock is held by problemReadThread from its look at the queue to its look at
\* readFile, and while it deals the end markers.
FilenameLockFree == rpc \notin {"empty", "eof"}

ReadName(f) ==
  /\ readFile /\ Len(typed) < MaxFiles /\ FilenameLockFree
  /\ filenameBuffer' = Append(filenameBuffer, f)
  /\ typed' = Append(typed, f)
  /\ UNCHANGED <<readFile, rpc, line, fileVars, dealVars, resultBuffer, solverVars, printVars>>

\* Ctrl-d; no lock is taken for the flag.
EndOfNames ==
  /\ readFile /\ readFile' = FALSE
  /\ UNCHANGED <<filenameBuffer, typed, rpc, line, fileVars, dealVars, resultBuffer,
                 solverVars, printVars>>

-----------------------------------------------------------------------------
(* problemReadThread *)

\* Whose turn it is for the number-th problem, or result.
NextSolver(number) == number % N

\* Mutant: the number is increased after it has chosen the solver.
problemWriterLate(p) ==
  LET id == NextSolver(problemNumber)
  IN  /\ Len(problemBuffer[id]) < Capacity
      /\ problemNumber' = problemNumber + 1
      /\ problemBuffer' = [problemBuffer EXCEPT ![id] = Append(@, p)]
      /\ dealt' = Append(dealt, p)

\* Mutant: pGet is left out.
problemWriterAtOnce(p) ==
  LET id == NextSolver(problemNumber + 1)
  IN  /\ problemNumber' = problemNumber + 1
      /\ problemBuffer' = [problemBuffer EXCEPT ![id] = Append(@, p)]
      /\ dealt' = Append(dealt, p)

\* problemWriter: problemNumber is increased, then pGet waits for a free place.
problemWriter(p) ==
  LET id == NextSolver(problemNumber + 1)
  IN  /\ Len(problemBuffer[id]) < Capacity
      /\ problemNumber' = problemNumber + 1
      /\ problemBuffer' = [problemBuffer EXCEPT ![id] = Append(@, p)]
      /\ dealt' = Append(dealt, p)

\* No name: the lock is kept and the flag looked at.
NoName ==
  /\ rpc = "loop" /\ filenameBuffer = <<>>
  /\ rpc' = "empty"
  /\ UNCHANGED <<nameVars, line, fileVars, dealVars, resultBuffer, solverVars, printVars>>

NoMoreNames ==
  /\ rpc = "empty" /\ rpc' = (IF readFile THEN "loop" ELSE "eof")
  /\ line' = 0
  /\ UNCHANGED <<nameVars, fileVars, dealVars, resultBuffer, solverVars, printVars>>

\* Mutant: one end marker, whatever the number of solvers.
eofOnce ==
  /\ rpc = "eof" /\ problemWriter(NULL) /\ rpc' = "end"
  /\ UNCHANGED <<nameVars, line, fileVars, resultBuffer, solverVars, printVars>>

\* One turn of the loop that deals an end marker to every solver.
eofIntoProblemBuffer ==
  /\ rpc = "eof" /\ problemWriter(NULL)
  /\ line' = line + 1 /\ rpc' = (IF line + 1 = N THEN "end" ELSE "eof")
  /\ UNCHANGED <<nameVars, fileVars, resultBuffer, solverVars, printVars>>

\* The name is taken and the file opened; an empty file makes lastSize wrap around.
OpenFile ==
  /\ rpc = "loop" /\ filenameBuffer # <<>>
  /\ file' = Head(filenameBuffer) /\ filenameBuffer' = Tail(filenameBuffer)
  /\ pos' = 0 /\ lastSize' = (Size(file') + SizeT - 1) % SizeT
  /\ rpc' = "read"
  /\ UNCHANGED <<readFile, typed, line, lineBuf, lines, after, dealVars, resultBuffer,
                 solverVars, printVars>>

\* The bytes that a read of count bytes at pos returns, and the whole lines in them; the
\* rest of the buffer stays as it was.
BytesRead(count) ==
  IF pos >= Size(file) THEN 0
  ELSE IF count <= Size(file) - pos THEN count ELSE Size(file) - pos

readAt(count) ==
  lineBuf' = [i \in 0..(Batch - 1) |->
                IF i < (BytesRead(count) + 1) \div LINE
                THEN file.lines[(pos \div LINE) + i + 1] ELSE lineBuf[i]]

WholeBatch == (pos + LINE * Batch - 1) % SizeT <= lastSize

ReadBatch ==
  /\ rpc = "read" /\ WholeBatch
  /\ readAt(LINE * Batch - 1)
  /\ lines' = Batch /\ line' = 0 /\ after' = "read" /\ rpc' = "deal"
  /\ pos' = (pos + LINE * Batch) % SizeT
  /\ UNCHANGED <<nameVars, file, lastSize, dealVars, resultBuffer, solverVars, printVars>>

\* Mutant: the last line counts only with its newline.
TailLinesWhole(count) == count \div LINE

\* The lines in the bytes of the rest; the last one may lack its newline.
TailLines(count) == (count + 1) \div LINE

ReadTail ==
  LET left == IF pos <= lastSize THEN lastSize - pos + 1 ELSE 0
  IN  /\ rpc = "read" /\ ~WholeBatch
      /\ IF left \div LINE > 0
           THEN /\ readAt(left) /\ lines' = TailLines(BytesRead(left))
                /\ rpc' = (IF lines' > 0 THEN "deal" ELSE "loop") /\ after' = "loop"
           ELSE rpc' = "loop" /\ UNCHANGED <<lineBuf, lines, after>>
      /\ line' = 0
      /\ UNCHANGED <<nameVars, file, pos, lastSize, dealVars, resultBuffer, solverVars,
                     printVars>>

\* One turn of either loop over the lines that were read.
DealLine ==
  /\ rpc = "deal" /\ problemWriter(lineBuf[line])
  /\ line' = line + 1 /\ rpc' = (IF line + 1 = lines THEN after ELSE "deal")
  /\ UNCHANGED <<nameVars, fileVars, resultBuffer, solverVars, printVars>>

-----------------------------------------------------------------------------
(* solveManager *)

GetProblem(s) ==
  /\ spc[s] = "get" /\ problemBuffer[s] # <<>>
  /\ problem' = [problem EXCEPT ![s] = Head(problemBuffer[s])]
  /\ problemBuffer' = [problemBuffer EXCEPT ![s] = Tail(@)]
  /\ spc' = [spc EXCEPT ![s] = "put"]
  /\ UNCHANGED <<nameVars, rpc, line, fileVars, problemNumber, dealt, resultBuffer, printVars>>

\* solver(problem) writes the answer over the puzzle; the end marker is passed on.
PutResult(s) ==
  /\ spc[s] = "put" /\ Len(resultBuffer[s]) < Capacity
  /\ resultBuffer' = [resultBuffer EXCEPT
       ![s] = Append(@, IF problem[s] = NULL THEN NULL ELSE Answer(problem[s]))]
  /\ spc' = [spc EXCEPT ![s] = IF problem[s] = NULL THEN "end" ELSE "get"]
  /\ UNCHANGED <<nameVars, rpc, line, fileVars, dealVars, problem, printVars>>

-----------------------------------------------------------------------------
(* answerPrinter *)

\* Mutant: a batch is printed when it is one answer too long.
BatchFullLate(buf) == Len(buf) > Batch

\* pos >= bufSize.
BatchFull(buf) == Len(buf) >= Batch

\* A result is collected from the solver whose turn it is; a full batch is printed.
PrintAnswer ==
  LET id == NextSolver(resultNumber + 1)
  IN  /\ ppc = "loop" /\ resultBuffer[id] # <<>> /\ Head(resultBuffer[id]) # NULL
      /\ resultNumber' = resultNumber + 1
      /\ resultBuffer' = [resultBuffer EXCEPT ![id] = Tail(@)]
      /\ LET buf == Append(resultBuf, Head(resultBuffer[id]))
         IN  IF BatchFull(buf) THEN out' = out \o buf /\ resultBuf' = <<>>
                               ELSE resultBuf' = buf /\ UNCHANGED out
      /\ UNCHANGED <<nameVars, rpc, line, fileVars, dealVars, solverVars, endNumber, ppc>>

\* An end marker is counted; after the last, what is left is printed.
PrintEnd ==
  LET id == NextSolver(resultNumber + 1)
  IN  /\ ppc = "loop" /\ resultBuffer[id] # <<>> /\ Head(resultBuffer[id]) = NULL
      /\ resultNumber' = resultNumber + 1
      /\ resultBuffer' = [resultBuffer EXCEPT ![id] = Tail(@)]
      /\ endNumber' = endNumber + 1
      /\ IF endNumber' = N THEN ppc' = "end" /\ out' = out \o resultBuf /\ resultBuf' = <<>>
                    ELSE UNCHANGED <<ppc, out, resultBuf>>
      /\ UNCHANGED <<nameVars, rpc, line, fileVars, dealVars, solverVars>>

-----------------------------------------------------------------------------
problemReadThread ==
  \/ NoName \/ NoMoreNames \/ eofIntoProblemBuffer
  \/ OpenFile \/ ReadBatch \/ ReadTail \/ DealLine

solveManager(s) == GetProblem(s) \/ PutResult(s)

answerPrinter == PrintAnswer \/ PrintEnd

\* main has joined every thread.
Joined == ~readFile /\ rpc = "end" /\ ppc = "end" /\ \A s \in Solvers : spc[s] = "end"

Next ==
  \/ \E f \in Files : ReadName(f)
  \/ EndOfNames \/ problemReadThread \/ answerPrinter
  \/ \E s \in Solvers : solveManager(s)

\* The threads run; nobody has to type.
Fairness ==
  /\ WF_vars(problemReadThread) /\ WF_vars(answerPrinter)
  /\ \A s \in Solvers : WF_vars(solveManager(s))

Spec == Init /\ [][Next]_vars /\ Fairness

-----------------------------------------------------------------------------
\* Types and ranges: no buffer holds more than its cpLock admits, the index into lineBuf
\* stays inside it, and only lines of files and of lineBuf are dealt (fileManager.cpp,
\* solverManager.cpp).
TypeOK ==
  /\ filenameBuffer \in Seq(Files) /\ typed \in Seq(Files) /\ readFile \in BOOLEAN
  /\ rpc \in {"loop", "empty", "eof", "read", "deal", "end"} /\ after \in {"loop", "read"}
  /\ file \in Files \cup {NoFile} /\ lineBuf \in [0..(Batch - 1) -> Puzzles \cup {Junk}]
  /\ pos \in 0..(SizeT - 1) /\ lastSize \in 0..(SizeT - 1)
  /\ lines \in 0..Batch /\ line \in Nat /\ (rpc = "deal" => line < lines)
  /\ dealt \in Seq(Slots) /\ problemNumber = Len(dealt) /\ resultNumber \in 0..problemNumber
  /\ problemBuffer \in [Solvers -> Seq(Slots)] /\ problem \in [Solvers -> Slots]
  /\ resultBuffer \in [Solvers -> Seq(Results)]
  /\ \A s \in Solvers : Len(problemBuffer[s]) <= Capacity /\ Len(resultBuffer[s]) <= Capacity
  /\ {out, resultBuf} \subseteq Seq(Results) /\ Len(resultBuf) < Batch /\ endNumber \in 0..N
  /\ spc \in [Solvers -> {"get", "put", "end"}] /\ ppc \in {"loop", "end"}

\* The lines on their way from the reader to the printer through solver s.
Plain(result) == IF result = NULL THEN NULL ELSE result.answer

InFlight(s) ==
  [k \in DOMAIN resultBuffer[s] |-> Plain(resultBuffer[s][k])]
    \o (IF spc[s] = "put" THEN <<problem[s]>> ELSE <<>>)
    \o problemBuffer[s]

\* Of the lines not yet printed, the i-th that is solver s's turn has this number.
Turn(s, i) == resultNumber + i * N - ((resultNumber + N - s) % N)

\* However fast each solver is, what solver s has is every N-th of the lines that were
\* dealt and not yet printed, in order, and all of them: the numbers that problemWriter and
\* answerPrinter count separately always name the same solver for the same line.
RoundRobin ==
  \A s \in Solvers :
    /\ Len(dealt) \in Turn(s, Len(InFlight(s)))..(Turn(s, Len(InFlight(s)) + 1) - 1)
    /\ \A i \in DOMAIN InFlight(s) : InFlight(s)[i] = dealt[Turn(s, i)]

\* The puzzles of the files that were typed.
Expected == FlattenSeq([k \in DOMAIN typed |-> typed[k].lines])

\* The files that are read to their end.  An empty one is never finished (lastSize wraps around),
\* and a last line that lacks its newline and is alone in its batch is skipped.
Readable(f) == f.lines # <<>> /\ (f.nl \/ (Len(f.lines) - 1) % Batch # 0)

\* What is cut from the files is the puzzles of the files that were named, in order, and
\* after all of them the end markers (fileManager.cpp: batches, tail, wrapped sizes).
DealtAsTyped ==
  \A k \in DOMAIN dealt : dealt[k] = (IF k <= Len(Expected) THEN Expected[k] ELSE NULL)

\* When the reader gives up, no name is left unread: the queue and the flag are looked at
\* one after the other, and the other thread runs in between.
NoNameLost == rpc \in {"eof", "end"} => filenameBuffer = <<>> /\ ~readFile

\* When the program ends, every puzzle has its answer.
NothingLost == Joined => out = [k \in DOMAIN Expected |-> Answer(Expected[k])]

\* The users see a sequential solver that prints in batches.
Sequential == INSTANCE SolveInOrder WITH closed <- ~readFile
ImplementsSequential == Sequential!SeqSpec

\* After the end of input the program ends by itself.
Terminates == ~readFile ~> Joined
=============================================================================
