---------------------------- MODULE SudokuProofs ----------------------------
(***************************************************************************)
(* Proofs about Sudoku, for any number of solvers, any buffers, any files: *)
(*   ReadersInv  the two readers and the end of the names                  *)
(*   PipeInv     types, the reader's place in its file, round robin        *)
(*   CutInv      what was dealt is what was typed                          *)
(*   PrintInv    what is printed is the answers, in order                  *)
(* and, from all of them, that Sudoku implements SolveInOrder.             *)
(***************************************************************************)
EXTENDS Sudoku, Integers, WellFoundedInduction, TLAPS

\* While problemReadThread holds filenameLock the queue stays as it was found, and once it
\* has seen the flag down nobody types any more.
ReadersInv ==
  /\ after \in {"loop", "read"}
  /\ rpc = "empty" => filenameBuffer = <<>>
  /\ NoNameLost

LEMMA ReadersInit == Init => ReadersInv
BY DEF Init, ReadersInv, NoNameLost

LEMMA ReadersNext == ReadersInv /\ [Next]_vars => ReadersInv'
<1> SUFFICES ASSUME ReadersInv, [Next]_vars PROVE ReadersInv'
  OBVIOUS
<1> USE DEF ReadersInv, NoNameLost, nameVars, fileVars, dealVars, solverVars, printVars
<1>1. CASE UNCHANGED vars
  BY <1>1 DEF vars
<1>2. ASSUME NEW f \in Files, ReadName(f) PROVE ReadersInv'
  BY <1>2 DEF ReadName, FilenameLockFree
<1>3. CASE EndOfNames
  BY <1>3 DEF EndOfNames
<1>4. CASE NoName
  BY <1>4 DEF NoName
<1>5. CASE NoMoreNames
  BY <1>5 DEF NoMoreNames
<1>6. CASE eofIntoProblemBuffer
  BY <1>6 DEF eofIntoProblemBuffer
<1>7. CASE OpenFile
  BY <1>7 DEF OpenFile
<1>8. CASE ReadBatch
  BY <1>8 DEF ReadBatch
<1>9. CASE ReadTail
  BY <1>9 DEF ReadTail
<1>10. CASE DealLine
  BY <1>10 DEF DealLine
<1>11. ASSUME NEW s \in Solvers, solveManager(s) PROVE ReadersInv'
  BY <1>11 DEF solveManager, GetProblem, PutResult
<1>12. CASE answerPrinter
  BY <1>12 DEF answerPrinter, PrintAnswer, PrintEnd
<1>. QED BY <1>1, <1>2, <1>3, <1>4, <1>5, <1>6, <1>7, <1>8, <1>9, <1>10, <1>11, <1>12
         DEF Next, problemReadThread

\* problemReadThread gives up only when every name that was typed has been read
\* (NoNameLost; fileManager.cpp 47-60), whatever filenameReadThread does meanwhile.
THEOREM NamesRead == Spec => []NoNameLost
<1>1. ReadersInv => NoNameLost
  BY DEF ReadersInv
<1>. QED BY <1>1, ReadersInit, ReadersNext, PTL DEF Spec

-----------------------------------------------------------------------------
(* Remainders *)

\* A number is given by its quotient and its remainder, in one way only.
LEMMA DivMod ==
  ASSUME NEW n \in Nat \ {0}, NEW a \in Nat
  PROVE  \E q \in Nat, r \in 0..(n - 1) : a = n * q + r /\ a \div n = q /\ a % n = r
<1>1. a = n * (a \div n) + (a % n) /\ a \div n \in Nat /\ a % n \in 0..(n - 1)
  OBVIOUS
<1>. QED BY <1>1

LEMMA Quotient ==
  ASSUME NEW n \in Nat \ {0}, NEW q \in Int, NEW r \in 0..(n - 1), NEW a \in Int, a = n * q + r
  PROVE  a \div n = q
OBVIOUS

LEMMA Remainder ==
  ASSUME NEW n \in Nat \ {0}, NEW q \in Int, NEW r \in 0..(n - 1), NEW a \in Int, a = n * q + r
  PROVE  a % n = r
OBVIOUS

\* The numbers among the constants.
LEMMA Numbers ==
  /\ N \in Nat \ {0} /\ Batch \in Nat \ {0} /\ Capacity \in Nat \ {0}
  /\ LINE \in Nat \ {0, 1} /\ LINE * Batch \in Nat \ {0}
  /\ SizeT \in Nat \ {0} /\ SizeT > LINE * Batch
<1>1. /\ N \in Nat \ {0} /\ Batch \in Nat \ {0} /\ Capacity \in Nat \ {0}
      /\ LINE \in Nat \ {0, 1} /\ SizeT \in Nat /\ SizeT > LINE * Batch
  BY SudokuAssumption
<1>2. LINE * Batch \in Nat \ {0}
  BY <1>1
<1>. QED BY <1>1, <1>2

\* The remainders go round.
LEMMA ModNext ==
  ASSUME NEW n \in Nat \ {0}, NEW a \in Nat
  PROVE  (a + 1) % n = IF a % n = n - 1 THEN 0 ELSE (a % n) + 1
<1>1. PICK q \in Nat, r \in 0..(n - 1) : a = n * q + r /\ a % n = r
  BY DivMod
<1>2. CASE r = n - 1
  <2>1. a + 1 = n * (q + 1) + 0 /\ q + 1 \in Nat
    BY <1>1, <1>2
  <2>2. (a + 1) % n = 0
    BY <1>1, <1>2, <2>1, Remainder
  <2>. QED BY <1>1, <1>2, <2>2
<1>3. CASE r # n - 1
  <2>1. a + 1 = n * q + (r + 1) /\ r + 1 \in 0..(n - 1)
    BY <1>1, <1>3
  <2>2. (a + 1) % n = r + 1
    BY <1>1, <1>3, <2>1, Remainder
  <2>. QED BY <1>1, <1>3, <2>2
<1>. QED BY <1>2, <1>3

\* Of n numbers in a row no two have the same remainder.
LEMMA ModSame ==
  ASSUME NEW n \in Nat \ {0}, NEW a \in Nat, NEW b \in Nat,
         a <= b, b < a + n, a % n = b % n
  PROVE  a = b
<1>1. PICK q \in Nat, r \in 0..(n - 1) : a = n * q + r /\ a % n = r
  BY DivMod
<1>2. PICK p \in Nat, t \in 0..(n - 1) : b = n * p + t /\ b % n = t
  BY DivMod
<1>3. ASSUME p >= q + 1 PROVE n * p >= n * q + n
  BY <1>3
<1>4. ASSUME q >= p + 1 PROVE n * q >= n * p + n
  BY <1>4
<1>. QED BY <1>1, <1>2, <1>3, <1>4

-----------------------------------------------------------------------------
(* Whose turn it is *)

\* Turn, when the printer has r results.
Nth(r, s, i) == r + i * N - ((r + N - s) % N)

\* A solver's turns are N apart and later than what was printed; they have its remainder.
LEMMA NthFacts ==
  ASSUME NEW r \in Nat, NEW s \in Solvers, NEW i \in Nat
  PROVE  /\ Nth(r, s, i) \in Int /\ Nth(r, s, i + 1) = Nth(r, s, i) + N
         /\ Nth(r, s, 0) \in (r - N + 1)..r
         /\ i > 0 => Nth(r, s, i) > r /\ Nth(r, s, i) % N = s
<1> USE Numbers DEF Solvers
<1>1. PICK p \in Nat, m \in 0..(N - 1) : r + N - s = N * p + m /\ (r + N - s) % N = m
  BY DivMod
<1>2. Nth(r, s, i) = r + i * N - m /\ Nth(r, s, i + 1) = r + (i + 1) * N - m /\ Nth(r, s, 0) = r - m
  BY <1>1 DEF Nth
<1>3. i * N \in Nat /\ (i + 1) * N = i * N + N
  OBVIOUS
<1>4. ASSUME i > 0 PROVE Nth(r, s, i) > r /\ Nth(r, s, i) % N = s
  <2>1. i * N >= N
    BY <1>4
  <2>2. r + i * N - m = N * (p + i - 1) + s /\ p + i - 1 \in Nat
    BY <1>1, <1>4
  <2>3. r + i * N - m > r
    BY <2>1, <1>3
  <2>4. \A x, q \in Int : x = N * q + s => x % N = s
    BY Remainder
  <2>5. r + i * N - m \in Int /\ p + i - 1 \in Int
    BY <1>3, <2>2
  <2>. QED BY <1>2, <2>2, <2>3, <2>4, <2>5
<1>. QED BY <1>2, <1>3, <1>4

\* The first turn, and only that, may be the next number of all.
LEMMA NthFirst ==
  ASSUME NEW r \in Nat, NEW s \in Solvers
  PROVE  NextSolver(r + 1) = s <=> Nth(r, s, 1) = r + 1
<1>1. Nth(r, s, 1) % N = s /\ Nth(r, s, 1) \in (r + 1)..(r + N)
  BY NthFacts, Numbers
<1>. QED BY <1>1, ModSame, Numbers DEF NextSolver

LEMMA NthMono ==
  ASSUME NEW r \in Nat, NEW s \in Solvers, NEW i \in Nat, NEW j \in Nat, i <= j
  PROVE  Nth(r, s, i) <= Nth(r, s, j)
<1>1. i * N <= j * N /\ i * N \in Nat /\ j * N \in Nat
  BY Numbers
<1>2. (r + N - s) % N \in Int
  BY Numbers DEF Solvers
<1>. QED BY <1>1, <1>2 DEF Nth

\* When a result is printed every solver's turns stay, but the first of the one it was from.
LEMMA NthPrint ==
  ASSUME NEW r \in Nat, NEW s \in Solvers, NEW i \in Nat
  PROVE  Nth(r + 1, s, i) = (IF NextSolver(r + 1) = s THEN Nth(r, s, i + 1) ELSE Nth(r, s, i))
<1> USE Numbers
<1>1. r + N - s \in Nat /\ (r + N - s) + 1 = (r + 1) + N - s
  BY DEF Solvers
<1> DEFINE m == (r + N - s) % N
<1>2. m \in 0..(N - 1)
  BY <1>1
<1>3. ((r + 1) + N - s) % N = IF m = N - 1 THEN 0 ELSE m + 1
  BY <1>1, ModNext
<1>4. i * N \in Nat /\ (i + 1) * N = i * N + N /\ 1 * N = N
  OBVIOUS
<1>5. /\ Nth(r, s, i) = r + i * N - m /\ Nth(r, s, i + 1) = r + (i + 1) * N - m
      /\ Nth(r, s, 1) = r + 1 * N - m
      /\ Nth(r + 1, s, i) = (r + 1) + i * N - (((r + 1) + N - s) % N)
  BY DEF Nth
<1> HIDE DEF m
<1>6. NextSolver(r + 1) = s <=> m = N - 1
  BY <1>2, <1>4, <1>5, NthFirst
<1>. QED BY <1>2, <1>3, <1>4, <1>5, <1>6

-----------------------------------------------------------------------------
(* Round robin: what a solver has fits what was dealt *)

\* RoundRobin, for solver s, which has q, when d was dealt and the printer has r results.
Fits(r, s, q, d) ==
  /\ \A i \in DOMAIN q : q[i] = d[Nth(r, s, i)]
  /\ Len(d) \in Nth(r, s, Len(q))..(Nth(r, s, Len(q) + 1) - 1)

\* What a solver has are lines that were dealt and not printed.
LEMMA FitsRange ==
  ASSUME NEW r \in Nat, NEW s \in Solvers, NEW T, NEW q \in Seq(T), NEW d \in Seq(T),
         Fits(r, s, q, d), NEW i \in 1..Len(q)
  PROVE  Nth(r, s, i) \in (r + 1)..Len(d)
<1>1. Nth(r, s, i) <= Nth(r, s, Len(q))
  BY NthMono
<1>2. Nth(r, s, i) > r /\ Nth(r, s, i) \in Int /\ Nth(r, s, Len(q)) \in Int
  BY NthFacts
<1>3. Len(d) \in Nth(r, s, Len(q))..(Nth(r, s, Len(q) + 1) - 1) /\ Nth(r, s, Len(q) + 1) \in Int
  BY NthFacts DEF Fits
<1>. QED BY <1>1, <1>2, <1>3

\* The line that is dealt goes to the solver whose next turn has its number.
LEMMA FitsDeal ==
  ASSUME NEW r \in Nat, NEW s \in Solvers, NEW T, NEW q \in Seq(T), NEW d \in Seq(T), NEW p \in T,
         Fits(r, s, q, d)
  PROVE  Fits(r, s, IF NextSolver(Len(d) + 1) = s THEN Append(q, p) ELSE q, Append(d, p))
<1> DEFINE n == Nth(r, s, Len(q) + 1)
<1>1. /\ n \in (Len(d) + 1)..(Len(d) + N) /\ n % N = s
      /\ Nth(r, s, Len(q)) \in Int /\ Nth(r, s, Len(q)) <= Len(d)
      /\ Nth(r, s, (Len(q) + 1) + 1) = n + N
  <2>1. Nth(r, s, Len(q)) \in Int /\ n = Nth(r, s, Len(q)) + N /\ n % N = s
    BY NthFacts
  <2>2. Nth(r, s, (Len(q) + 1) + 1) = n + N
    BY NthFacts
  <2>3. Len(d) \in Nth(r, s, Len(q))..(n - 1)
    BY DEF Fits
  <2> HIDE DEF n
  <2>. QED BY <2>1, <2>2, <2>3, Numbers
<1> HIDE DEF n
<1>2. NextSolver(Len(d) + 1) = s <=> n = Len(d) + 1
  <2>1. Len(d) + 1 \in Nat /\ n \in Nat /\ Len(d) + 1 <= n /\ n < (Len(d) + 1) + N
    BY <1>1, Numbers
  <2>2. (Len(d) + 1) % N = s => n = Len(d) + 1
    BY <1>1, <2>1, ModSame, Numbers
  <2>. QED BY <1>1, <2>2 DEF NextSolver
<1>3. \A i \in 1..Len(q) : Nth(r, s, i) \in 1..Len(d) /\ Append(d, p)[Nth(r, s, i)] = q[i]
  BY FitsRange DEF Fits
<1>4. Append(d, p)[Len(d) + 1] = p /\ Len(Append(d, p)) = Len(d) + 1
  OBVIOUS
<1>5. CASE NextSolver(Len(d) + 1) = s
  <2>1. /\ Len(Append(q, p)) = Len(q) + 1 /\ DOMAIN Append(q, p) = 1..(Len(q) + 1)
        /\ Append(q, p)[Len(q) + 1] = p /\ \A i \in 1..Len(q) : Append(q, p)[i] = q[i]
    OBVIOUS
  <2>2. Len(d) + 1 \in n..((n + N) - 1)
    BY <1>1, <1>2, <1>5, Numbers
  <2>. QED BY <1>1, <1>2, <1>3, <1>4, <1>5, <2>1, <2>2 DEF Fits, n
<1>6. CASE NextSolver(Len(d) + 1) # s
  <2>1. Len(d) + 1 \in Nth(r, s, Len(q))..(n - 1)
    BY <1>1, <1>2, <1>6, Numbers
  <2>. QED BY <1>3, <1>4, <1>6, <2>1 DEF Fits, n
<1>. QED BY <1>5, <1>6

\* The solver whose turn it is gives the line after those that were printed.
LEMMA FitsHead ==
  ASSUME NEW r \in Nat, NEW T, NEW q \in Seq(T), NEW d \in Seq(T), q # <<>>,
         NextSolver(r + 1) \in Solvers, Fits(r, NextSolver(r + 1), q, d)
  PROVE  r + 1 <= Len(d) /\ Head(q) = d[r + 1]
<1>1. Nth(r, NextSolver(r + 1), 1) = r + 1 /\ 1 \in 1..Len(q)
  BY NthFirst
<1>2. r + 1 \in (r + 1)..Len(d)
  BY <1>1, FitsRange
<1>. QED BY <1>1, <1>2 DEF Fits

\* What is printed is taken away from the solver whose turn it was.
LEMMA FitsPrint ==
  ASSUME NEW r \in Nat, NEW s \in Solvers, NEW T, NEW q \in Seq(T), NEW d \in Seq(T),
         Fits(r, s, q, d), NextSolver(r + 1) = s => q # <<>>
  PROVE  Fits(r + 1, s, IF NextSolver(r + 1) = s THEN Tail(q) ELSE q, d)
<1>1. CASE NextSolver(r + 1) = s
  <2>1. /\ Tail(q) \in Seq(T) /\ Len(Tail(q)) = Len(q) - 1 /\ DOMAIN Tail(q) = 1..(Len(q) - 1)
        /\ \A i \in 1..(Len(q) - 1) : Tail(q)[i] = q[i + 1]
    BY <1>1
  <2>2. \A i \in Nat : Nth(r + 1, s, i) = Nth(r, s, i + 1)
    BY <1>1, NthPrint
  <2>3. Len(q) - 1 \in Nat /\ (Len(q) - 1) + 1 = Len(q)
    BY <1>1
  <2>4. Nth(r + 1, s, Len(q) - 1) = Nth(r, s, Len(q))
        /\ Nth(r + 1, s, (Len(q) - 1) + 1) = Nth(r, s, Len(q) + 1)
    BY <2>2, <2>3
  <2>5. ASSUME NEW i \in 1..(Len(q) - 1) PROVE Tail(q)[i] = d[Nth(r + 1, s, i)]
    <3>1. i + 1 \in DOMAIN q /\ i \in Nat
      BY <2>3
    <3>. QED BY <2>1, <2>2, <3>1 DEF Fits
  <2>6. Len(d) \in Nth(r + 1, s, Len(q) - 1)..(Nth(r + 1, s, (Len(q) - 1) + 1) - 1)
    BY <2>4 DEF Fits
  <2>. QED BY <1>1, <2>1, <2>5, <2>6 DEF Fits
<1>2. CASE NextSolver(r + 1) # s
  <2>1. \A i \in Nat : Nth(r + 1, s, i) = Nth(r, s, i)
    BY <1>2, NthPrint
  <2>. QED BY <1>2, <2>1 DEF Fits
<1>. QED BY <1>1, <1>2

-----------------------------------------------------------------------------
(* What a solver has *)

\* InFlight, for a solver with these results, at this place, with problem p and these problems.
Flow(results, place, p, problems) ==
  [k \in DOMAIN results |-> Plain(results[k])]
    \o (IF place = "put" THEN <<p>> ELSE <<>>) \o problems

\* What the solver writes for problem p.
Written(p) == IF p = NULL THEN NULL ELSE Answer(p)

LEMMA PlainFacts ==
  /\ \A x \in Results : Plain(x) \in Slots
  /\ \A p \in Slots : Written(p) \in Results /\ Plain(Written(p)) = p
BY SudokuAssumption DEF Plain, Written, Answer, Results, Slots

Held(place) == IF place = "put" THEN 1 ELSE 0

\* What a solver has, place by place.
LEMMA FlowFacts ==
  ASSUME NEW results \in Seq(Results), NEW place, NEW p \in Slots, NEW problems \in Seq(Slots)
  PROVE  /\ Flow(results, place, p, problems) \in Seq(Slots)
         /\ Len(Flow(results, place, p, problems)) = Len(results) + Held(place) + Len(problems)
         /\ \A i \in 1..(Len(results) + Held(place) + Len(problems)) :
              Flow(results, place, p, problems)[i] =
                IF i <= Len(results) THEN Plain(results[i])
                ELSE IF i <= Len(results) + Held(place) THEN p
                ELSE problems[i - (Len(results) + Held(place))]
<1> DEFINE a == [k \in DOMAIN results |-> Plain(results[k])]
           b == IF place = "put" THEN <<p>> ELSE <<>>
<1>1. a \in Seq(Slots) /\ Len(a) = Len(results) /\ \A i \in 1..Len(results) : a[i] = Plain(results[i])
  <2>1. \A i \in 1..Len(results) : Plain(results[i]) \in Slots
    BY PlainFacts
  <2>. QED BY <2>1
<1>2. b \in Seq(Slots) /\ Len(b) = Held(place) /\ (\A i \in 1..Held(place) : b[i] = p) /\ Held(place) \in 0..1
  BY DEF Held
<1>3. Flow(results, place, p, problems) = a \o b \o problems
  BY DEF Flow
<1> HIDE DEF a, b
<1>4. /\ a \o b \in Seq(Slots) /\ Len(a \o b) = Len(results) + Held(place)
      /\ \A i \in 1..(Len(results) + Held(place)) :
           (a \o b)[i] = IF i <= Len(results) THEN Plain(results[i]) ELSE p
  BY <1>1, <1>2
<1> DEFINE c == a \o b
<1> HIDE DEF c
<1>5. /\ c \o problems \in Seq(Slots) /\ Len(c \o problems) = Len(c) + Len(problems)
      /\ \A i \in 1..(Len(c) + Len(problems)) :
           (c \o problems)[i] = IF i <= Len(c) THEN c[i] ELSE problems[i - Len(c)]
  BY <1>4 DEF c
<1>. QED BY <1>2, <1>3, <1>4, <1>5 DEF c

\* The first of the problems becomes the one that is being solved, and nothing moves.
LEMMA FlowGet ==
  ASSUME NEW results \in Seq(Results), NEW p \in Slots, NEW problems \in Seq(Slots),
         problems # <<>>
  PROVE  Flow(results, "put", Head(problems), Tail(problems)) = Flow(results, "get", p, problems)
<1>1. <<Head(problems)>> \o Tail(problems) = <<>> \o problems
  OBVIOUS
<1> DEFINE a == [k \in DOMAIN results |-> Plain(results[k])]
<1>2. a \in Seq(Slots)
  BY PlainFacts
<1>3. Head(problems) \in Slots /\ Tail(problems) \in Seq(Slots)
  OBVIOUS
<1> HIDE DEF a
<1>4. (a \o <<Head(problems)>>) \o Tail(problems) = (a \o <<>>) \o problems
  BY <1>2, <1>3
<1>. QED BY <1>4 DEF Flow, a

\* What was being solved becomes the last of the results.
LEMMA FlowPut ==
  ASSUME NEW results \in Seq(Results), NEW p \in Slots, NEW problems \in Seq(Slots),
         NEW place, place # "put"
  PROVE  Flow(Append(results, Written(p)), place, p, problems) = Flow(results, "put", p, problems)
<1> DEFINE w == Append(results, Written(p))
           q == Flow(results, "put", p, problems)
           t == Flow(w, place, p, problems)
<1>1. /\ w \in Seq(Results) /\ Len(w) = Len(results) + 1 /\ Plain(w[Len(results) + 1]) = p
      /\ \A i \in 1..Len(results) : w[i] = results[i]
  BY PlainFacts
<1>2. Held("put") = 1 /\ Held(place) = 0
  BY DEF Held
<1> HIDE DEF w
<1>3. /\ q \in Seq(Slots) /\ Len(q) = Len(results) + Held("put") + Len(problems)
      /\ \A i \in 1..(Len(results) + Held("put") + Len(problems)) :
           q[i] = IF i <= Len(results) THEN Plain(results[i])
                  ELSE IF i <= Len(results) + Held("put") THEN p
                  ELSE problems[i - (Len(results) + Held("put"))]
  BY FlowFacts
<1>4. /\ t \in Seq(Slots) /\ Len(t) = Len(w) + Held(place) + Len(problems)
      /\ \A i \in 1..(Len(w) + Held(place) + Len(problems)) :
           t[i] = IF i <= Len(w) THEN Plain(w[i])
                  ELSE IF i <= Len(w) + Held(place) THEN p
                  ELSE problems[i - (Len(w) + Held(place))]
  <2>1. w \in Seq(Results)
    BY <1>1
  <2>. QED BY <2>1, FlowFacts
<1> HIDE DEF q, t
<1>5. Len(q) = Len(t) /\ Len(w) + Held(place) = Len(results) + Held("put")
  BY <1>1, <1>2, <1>3, <1>4
<1>6. ASSUME NEW i \in 1..Len(q) PROVE q[i] = t[i]
  <2>1. i \in 1..(Len(results) + Held("put") + Len(problems)) /\ i \in 1..(Len(w) + Held(place) + Len(problems))
    BY <1>3, <1>5
  <2>2. CASE i <= Len(results)
    BY <1>1, <1>3, <1>4, <2>1, <2>2
  <2>3. CASE i = Len(results) + 1
    BY <1>1, <1>2, <1>3, <1>4, <2>1, <2>3
  <2>4. CASE i > Len(results) + 1
    BY <1>1, <1>2, <1>3, <1>4, <2>1, <2>4, SMTT(30)
  <2>. QED BY <2>2, <2>3, <2>4
<1>7. q = t
  BY <1>3, <1>4, <1>5, <1>6
<1>. QED BY <1>7 DEF q, t, w

\* A line that is dealt comes last.  Added is Append, under a name that the provers do not
\* expand when they use the lemma.
Added(q, x) == Append(q, x)

LEMMA FlowDeal ==
  ASSUME NEW results \in Seq(Results), NEW place, NEW p \in Slots, NEW problems \in Seq(Slots),
         NEW x \in Slots
  PROVE  Flow(results, place, p, Added(problems, x)) = Added(Flow(results, place, p, problems), x)
<1> DEFINE a == [k \in DOMAIN results |-> Plain(results[k])]
           b == IF place = "put" THEN <<p>> ELSE <<>>
<1>1. a \in Seq(Slots) /\ b \in Seq(Slots)
  BY PlainFacts
<1> HIDE DEF a, b
<1>2. a \o b \o Append(problems, x) = Append(a \o b \o problems, x)
  BY <1>1
<1>. QED BY <1>2 DEF Flow, Added, a, b

\* The first of the results is the first of all.
LEMMA FlowPrint ==
  ASSUME NEW results \in Seq(Results), NEW place, NEW p \in Slots, NEW problems \in Seq(Slots),
         results # <<>>
  PROVE  LET q == Flow(results, place, p, problems)
         IN  /\ q # <<>> /\ Head(q) = Plain(Head(results))
             /\ Flow(Tail(results), place, p, problems) = Tail(q)
<1> DEFINE u == Tail(results)
           q == Flow(results, place, p, problems)
           t == Flow(u, place, p, problems)
           h == Held(place)
<1>1. /\ u \in Seq(Results) /\ Len(u) = Len(results) - 1 /\ Len(results) > 0
      /\ \A i \in 1..(Len(results) - 1) : u[i] = results[i + 1]
  OBVIOUS
<1>2. h \in 0..1
  BY DEF Held
<1> HIDE DEF u, h
<1>3. /\ q \in Seq(Slots) /\ Len(q) = Len(results) + h + Len(problems)
      /\ \A i \in 1..(Len(results) + h + Len(problems)) :
           q[i] = IF i <= Len(results) THEN Plain(results[i])
                  ELSE IF i <= Len(results) + h THEN p ELSE problems[i - (Len(results) + h)]
  BY FlowFacts DEF h
<1>4. /\ t \in Seq(Slots) /\ Len(t) = Len(u) + h + Len(problems)
      /\ \A i \in 1..(Len(u) + h + Len(problems)) :
           t[i] = IF i <= Len(u) THEN Plain(u[i])
                  ELSE IF i <= Len(u) + h THEN p ELSE problems[i - (Len(u) + h)]
  BY <1>1, FlowFacts DEF h
<1> HIDE DEF q, t
<1>5. Len(t) = Len(q) - 1 /\ Len(q) > 0
  BY <1>1, <1>2, <1>3, <1>4
<1>6. ASSUME NEW i \in 1..Len(t) PROVE t[i] = q[i + 1]
  <2>1. i - (Len(u) + h) = (i + 1) - (Len(results) + h)
    BY <1>1, <1>2
  <2>2. i \in 1..(Len(u) + h + Len(problems)) /\ i + 1 \in 1..(Len(results) + h + Len(problems))
    BY <1>3, <1>4, <1>5
  <2>3. CASE i <= Len(u)
    BY <1>1, <1>3, <1>4, <2>2, <2>3
  <2>4. CASE i > Len(u) /\ i <= Len(u) + h
    BY <1>1, <1>2, <1>3, <1>4, <2>2, <2>4
  <2>5. CASE i > Len(u) + h
    BY <1>1, <1>2, <1>3, <1>4, <2>1, <2>2, <2>5
  <2>. QED BY <1>1, <1>2, <2>2, <2>3, <2>4, <2>5
<1>7. /\ Tail(q) \in Seq(Slots) /\ Len(Tail(q)) = Len(q) - 1
      /\ \A i \in 1..(Len(q) - 1) : Tail(q)[i] = q[i + 1]
  BY <1>3, <1>5
<1>8. t = Tail(q)
  <2> DEFINE v == Tail(q)
  <2> HIDE DEF v
  <2>1. v \in Seq(Slots) /\ Len(v) = Len(t) /\ \A i \in 1..Len(t) : v[i] = t[i]
    BY <1>5, <1>6, <1>7 DEF v
  <2>2. v = t
    BY <1>4, <2>1
  <2>. QED BY <2>2 DEF v
<1>9. q # <<>> /\ Head(q) = Plain(Head(results))
  BY <1>1, <1>2, <1>3, <1>5
<1>. QED BY <1>8, <1>9 DEF q, t, u

-----------------------------------------------------------------------------
(* Cutting a file into lines *)

\* The bytes of a file are those of its lines; the last one may lack its newline.
LEMMA SizeFacts ==
  ASSUME NEW f \in Files
  PROVE  /\ f.lines \in Seq(Puzzles) /\ f.nl \in BOOLEAN
         /\ Size(f) \in Nat /\ Size(f) + LINE * Batch <= SizeT
         /\ f.lines = <<>> => Size(f) = 0
         /\ f.lines # <<>> => /\ Size(f) = LINE * Len(f.lines) - (IF f.nl THEN 0 ELSE 1)
                              /\ Size(f) > 0 /\ (Size(f) + SizeT - 1) % SizeT = Size(f) - 1
<1>1. f.lines \in Seq(Puzzles) /\ f.nl \in BOOLEAN /\ Size(f) + LINE * Batch <= SizeT
  BY SudokuAssumption
<1>2. f.lines = <<>> => Size(f) = 0
  BY DEF Size
<1>3. ASSUME f.lines # <<>>
      PROVE  /\ Size(f) = LINE * Len(f.lines) - (IF f.nl THEN 0 ELSE 1)
             /\ Size(f) \in Nat \ {0} /\ (Size(f) + SizeT - 1) % SizeT = Size(f) - 1
  <2>1. Len(f.lines) \in Nat \ {0}
    BY <1>1, <1>3
  <2>2. LINE * Len(f.lines) \in Nat /\ LINE * Len(f.lines) > 1 /\ LINE * Len(f.lines) = Len(f.lines) * LINE
    BY <2>1, Numbers
  <2>3. Size(f) = LINE * Len(f.lines) - (IF f.nl THEN 0 ELSE 1)
    BY <1>3, <2>2 DEF Size
  <2>4. Size(f) \in Nat \ {0}
    BY <1>1, <2>2, <2>3
  <2>5. LINE * Batch \in Nat \ {0}
    BY Numbers
  <2>6. Size(f) + SizeT - 1 = SizeT * 1 + (Size(f) - 1) /\ Size(f) - 1 \in 0..(SizeT - 1)
        /\ SizeT \in Nat \ {0} /\ Size(f) + SizeT - 1 \in Int
    BY <1>1, <2>4, <2>5, Numbers
  <2>7. (Size(f) + SizeT - 1) % SizeT = Size(f) - 1
    BY <2>6, Remainder, SMTT(30)
  <2>. QED BY <2>3, <2>4, <2>7
<1>. QED BY <1>1, <1>2, <1>3

\* The reader is at the beginning of the q-th line of the file, of which it knows the size.
At(q) ==
  /\ q \in Nat /\ q % Batch = 0 /\ pos = LINE * q /\ pos <= Size(file)
  /\ file \in Files /\ file.lines # <<>> /\ lastSize = Size(file) - 1

\* The size of the file that is read.
LEMMA AtFacts ==
  ASSUME NEW q, At(q)
  PROVE  /\ Len(file.lines) \in Nat /\ Size(file) \in Nat /\ Size(file) + LINE * Batch <= SizeT
         /\ Size(file) = LINE * Len(file.lines) - (IF file.nl THEN 0 ELSE 1)
<1>1. file \in Files /\ file.lines # <<>>
  BY DEF At
<1>2. file.lines \in Seq(Puzzles) /\ Size(file) \in Nat /\ Size(file) + LINE * Batch <= SizeT
  BY <1>1, SizeFacts
<1>3. Size(file) = LINE * Len(file.lines) - (IF file.nl THEN 0 ELSE 1)
  BY <1>1, SizeFacts
<1>. QED BY <1>2, <1>3

\* A product with LINE that is one too large is still the same number of lines.
LEMMA LineBound ==
  ASSUME NEW a \in Int, NEW b \in Int, LINE * a <= LINE * b + 1
  PROVE  a <= b
<1>1. ASSUME a >= b + 1 PROVE LINE * a >= LINE * b + LINE
  BY <1>1, Numbers
<1>. QED BY <1>1, Numbers

\* A whole batch is read whole, and the next one begins where it ends.
LEMMA BatchRead ==
  ASSUME NEW q, At(q), WholeBatch
  PROVE  /\ BytesRead(LINE * Batch - 1) = LINE * Batch - 1
         /\ (BytesRead(LINE * Batch - 1) + 1) \div LINE = Batch
         /\ pos \div LINE = q /\ q + Batch <= Len(file.lines)
         /\ (pos + LINE * Batch) % SizeT = LINE * (q + Batch)
         /\ LINE * (q + Batch) <= Size(file) /\ (q + Batch) % Batch = 0
<1> USE Numbers
<1> DEFINE B == LINE * Batch
           Z == Size(file)
           L == Len(file.lines)
<1>1. /\ B \in Nat /\ B > 1 /\ Z \in Nat /\ L \in Nat /\ Z + B <= SizeT /\ Z <= LINE * L
      /\ LINE * L \in Nat
  <2>1. L \in Nat /\ Z \in Nat /\ Z + B <= SizeT /\ Z = LINE * L - (IF file.nl THEN 0 ELSE 1)
    BY AtFacts
  <2>2. LINE * L \in Nat /\ B \in Nat /\ B > 1
    BY <2>1
  <2> HIDE DEF B, Z, L
  <2>. QED BY <2>1, <2>2
<1>2. q \in Nat /\ pos = LINE * q /\ LINE * q \in Nat /\ pos <= Z /\ lastSize = Z - 1
  BY DEF At
<1>3. LINE * (q + Batch) = LINE * q + B
  BY <1>2
<1> HIDE DEF B, Z, L
<1>4. (pos + B - 1) % SizeT = pos + B - 1
  <2>1. pos + B - 1 = SizeT * 0 + (pos + B - 1) /\ pos + B - 1 \in 0..(SizeT - 1)
        /\ SizeT \in Nat \ {0} /\ pos + B - 1 \in Int
    BY <1>1, <1>2
  <2>. QED BY <2>1, Remainder
<1>5. pos + B <= Z
  BY <1>1, <1>2, <1>4 DEF WholeBatch, B
<1>6. (pos + B) % SizeT = pos + B
  <2>1. pos + B = SizeT * 0 + (pos + B) /\ pos + B \in 0..(SizeT - 1)
        /\ SizeT \in Nat \ {0} /\ pos + B \in Int
    BY <1>1, <1>2, <1>5
  <2>. QED BY <2>1, Remainder
<1>7. BytesRead(B - 1) = B - 1
  BY <1>1, <1>2, <1>5 DEF BytesRead, Z
<1>8. B \div LINE = Batch /\ (LINE * q) \div LINE = q
  <2>1. B = LINE * Batch + 0 /\ LINE * q = LINE * q + 0 /\ 0 \in 0..(LINE - 1)
    BY <1>1, <1>2 DEF B
  <2>. QED BY <1>1, <1>2, <2>1, Quotient
<1>9. q + Batch <= L
  BY <1>1, <1>2, <1>3, <1>5, LineBound
<1>10. (q + Batch) % Batch = 0
  <2>1. PICK k \in Nat, t \in 0..(Batch - 1) : q = Batch * k + t /\ q % Batch = t
    BY <1>2, DivMod
  <2>2. t = 0
    BY <2>1 DEF At
  <2>3. q + Batch = Batch * (k + 1) + 0 /\ k + 1 \in Int /\ q + Batch \in Int /\ 0 \in 0..(Batch - 1)
    BY <1>2, <2>1, <2>2
  <2>. QED BY <2>3, Remainder
<1>. QED BY <1>1, <1>2, <1>3, <1>5, <1>6, <1>7, <1>8, <1>9, <1>10 DEF B, Z, L

\* The bytes that are left when there is no whole batch.
Left == IF pos <= lastSize THEN lastSize - pos + 1 ELSE 0

\* All the lines of the rest are read, unless there is one only and it has no newline.
LEMMA TailRead ==
  ASSUME NEW q, At(q), ~WholeBatch
  PROVE  /\ pos \div LINE = q /\ q <= Len(file.lines)
         /\ Left \div LINE > 0 => /\ BytesRead(Left) = Left
                                  /\ (BytesRead(Left) + 1) \div LINE = Len(file.lines) - q
                                  /\ Len(file.lines) - q \in 1..Batch
         /\ ~(Left \div LINE > 0) =>
              q = Len(file.lines) \/ (~file.nl /\ q = Len(file.lines) - 1)
<1> USE Numbers
<1> DEFINE B == LINE * Batch
           Z == Size(file)
           L == Len(file.lines)
           e == IF file.nl THEN 0 ELSE 1
           n == L - q
<1>1. /\ B \in Nat /\ B > 1 /\ Z \in Nat /\ L \in Nat /\ Z + B <= SizeT /\ Z = LINE * L - e
      /\ LINE * L \in Nat /\ e \in 0..1 /\ (e = 0 <=> file.nl)
  <2>1. /\ L \in Nat /\ Z \in Nat /\ Z + B <= SizeT /\ Z = LINE * L - (IF file.nl THEN 0 ELSE 1)
    BY AtFacts
  <2>2. LINE * L \in Nat /\ B \in Nat /\ B > 1
    BY <2>1
  <2>3. e \in 0..1 /\ (e = 0 <=> file.nl)
    OBVIOUS
  <2>4. Z = LINE * L - e
    BY <2>1
  <2> HIDE DEF B, Z, L, e
  <2>. QED BY <2>1, <2>2, <2>3, <2>4
<1>2. q \in Nat /\ pos = LINE * q /\ LINE * q \in Nat /\ pos <= Z /\ lastSize = Z - 1
  BY DEF At
<1> HIDE DEF B, Z, L, e
<1>3. n \in Int /\ LINE * n = LINE * L - LINE * q /\ LINE * n \in Int
  BY <1>1, <1>2
<1> HIDE DEF n
<1>4. (pos + B - 1) % SizeT = pos + B - 1
  <2>1. pos + B - 1 = SizeT * 0 + (pos + B - 1) /\ pos + B - 1 \in 0..(SizeT - 1)
        /\ SizeT \in Nat \ {0} /\ pos + B - 1 \in Int
    BY <1>1, <1>2
  <2>. QED BY <2>1, Remainder
<1>5. pos + B > Z
  BY <1>1, <1>2, <1>4 DEF WholeBatch, B
<1>6. Left = Z - pos /\ Left \in Nat /\ Left = LINE * n - e
  BY <1>1, <1>2, <1>3 DEF Left
<1>7. pos \div LINE = q
  <2>1. LINE * q = LINE * q + 0 /\ 0 \in 0..(LINE - 1)
    BY <1>2
  <2>. QED BY <1>2, <2>1, Quotient
<1>8. n >= 0 /\ q <= L
  <2>1. LINE * q <= LINE * L + 1
    BY <1>1, <1>2
  <2>. QED BY <1>1, <1>2, <2>1, LineBound DEF n
<1>9. n <= Batch
  <2>1. LINE * n <= LINE * Batch + 1
    BY <1>1, <1>2, <1>3, <1>5, <1>6 DEF B
  <2>. QED BY <1>3, <2>1, LineBound
<1>10. ASSUME Left \div LINE > 0
       PROVE  BytesRead(Left) = Left /\ (BytesRead(Left) + 1) \div LINE = n /\ n \in 1..Batch
  <2>1. Left >= LINE
    <3>1. PICK k \in Nat, t \in 0..(LINE - 1) : Left = LINE * k + t /\ Left \div LINE = k /\ Left % LINE = t
      BY <1>6, DivMod, LINE \in Nat \ {0}
    <3>2. LINE * k >= LINE
      BY <1>10, <3>1
    <3>. QED BY <3>1, <3>2
  <2>2. BytesRead(Left) = Left
    BY <1>1, <1>2, <1>6, <2>1 DEF BytesRead, Z
  <2>3. Left + 1 = LINE * n + (1 - e) /\ 1 - e \in 0..(LINE - 1) /\ Left + 1 \in Int
    BY <1>1, <1>3, <1>6
  <2>4. (Left + 1) \div LINE = n
    <3>1. \A x \in Int, t \in 0..(LINE - 1) : x = LINE * n + t => x \div LINE = n
      BY <1>3, Quotient
    <3>. QED BY <2>3, <3>1
  <2>5. n # 0
    BY <1>1, <1>6, <2>1
  <2>. QED BY <1>3, <1>8, <1>9, <2>2, <2>4, <2>5
<1>11. ASSUME ~(Left \div LINE > 0)
       PROVE  n = 0 \/ (~file.nl /\ n = 1)
  <2>1. Left < LINE
    <3>1. PICK k \in Nat, t \in 0..(LINE - 1) : Left = LINE * k + t /\ Left \div LINE = k /\ Left % LINE = t
      BY <1>6, DivMod, LINE \in Nat \ {0}
    <3>2. k = 0
      BY <1>11, <3>1
    <3>. QED BY <3>1, <3>2
  <2>2. n <= 1
    <3>1. ASSUME n >= 2 PROVE LINE * n >= LINE + LINE
      BY <1>3, <3>1
    <3>. QED BY <1>1, <1>3, <1>6, <2>1, <3>1
  <2>3. n = 1 => LINE * n = LINE
    BY <1>3
  <2>. QED BY <1>1, <1>3, <1>6, <1>8, <2>1, <2>2, <2>3
<1>. QED BY <1>1, <1>2, <1>7, <1>8, <1>10, <1>11 DEF L, n

-----------------------------------------------------------------------------
(* Types and round robin *)

\* Where the reader is in its file, unless that is empty, and that the printer has not seen
\* all the end markers before it ends.
PlaceInv ==
  /\ ppc = "loop" => endNumber < N
  /\ rpc \in {"read", "deal"} => file \in Files /\ lastSize = (Size(file) + SizeT - 1) % SizeT
  /\ (rpc = "read" \/ (rpc = "deal" /\ after = "read")) /\ file.lines # <<>> =>
       \E q \in Nat : At(q)

PipeInv == TypeOK /\ PlaceInv /\ RoundRobin

LEMMA PipeInit == Init => PipeInv
<1> SUFFICES ASSUME Init PROVE PipeInv
  OBVIOUS
<1> USE Numbers
<1>1. Junk \in Puzzles \cup {Junk} /\ NULL \in Slots
  BY DEF Slots
<1>2. TypeOK
  <2>1. /\ lineBuf \in [0..(Batch - 1) -> Puzzles \cup {Junk}]
        /\ problemBuffer \in [Solvers -> Seq(Slots)] /\ problem \in [Solvers -> Slots]
        /\ resultBuffer \in [Solvers -> Seq(Results)]
        /\ spc \in [Solvers -> {"get", "put", "end"}]
    BY <1>1 DEF Init
  <2>2. \A s \in Solvers : Len(problemBuffer[s]) <= Capacity /\ Len(resultBuffer[s]) <= Capacity
    BY DEF Init
  <2>3. pos \in 0..(SizeT - 1) /\ lastSize \in 0..(SizeT - 1) /\ lines \in 0..Batch /\ line \in Nat
        /\ endNumber \in 0..N /\ Len(resultBuf) < Batch
    BY DEF Init
  <2>4. dealt \in Seq(Slots) /\ problemNumber = Len(dealt) /\ resultNumber \in 0..problemNumber
        /\ {out, resultBuf} \subseteq Seq(Results)
        /\ filenameBuffer \in Seq(Files) /\ typed \in Seq(Files)
    BY DEF Init
  <2>. QED BY <2>1, <2>2, <2>3, <2>4 DEF Init, TypeOK
<1>3. PlaceInv
  BY DEF Init, PlaceInv
<1>4. RoundRobin
  <2> SUFFICES ASSUME NEW s \in Solvers
               PROVE  InFlight(s) = <<>> /\ 0 \in Turn(s, 0)..(Turn(s, 1) - 1)
    BY DEF RoundRobin, Init
  <2>1. InFlight(s) = <<>>
    BY DEF InFlight, Init
  <2>2. Turn(s, 0) = Nth(0, s, 0) /\ Turn(s, 1) = Nth(0, s, 1)
    BY DEF Turn, Nth, Init
  <2>3. Nth(0, s, 0) \in (0 - N + 1)..0 /\ Nth(0, s, 1) > 0 /\ Nth(0, s, 1) \in Int
    BY NthFacts
  <2>. QED BY <2>1, <2>2, <2>3
<1>. QED BY <1>2, <1>3, <1>4 DEF PipeInv

LEMMA SolverTurn == \A k \in Nat : NextSolver(k) \in Solvers
BY Numbers DEF NextSolver, Solvers

\* What was read are lines of the file.
LEMMA ReadTypes ==
  ASSUME NEW q, At(q), NEW n \in Nat, q + n <= Len(file.lines), pos \div LINE = q,
         lineBuf \in [0..(Batch - 1) -> Puzzles \cup {Junk}]
  PROVE  [i \in 0..(Batch - 1) |->
            IF i < n THEN file.lines[(pos \div LINE) + i + 1] ELSE lineBuf[i]]
           \in [0..(Batch - 1) -> Puzzles \cup {Junk}]
<1>1. file.lines \in Seq(Puzzles) /\ q \in Nat
  BY SizeFacts DEF At
<1>2. \A i \in 0..(Batch - 1) : i < n => file.lines[q + i + 1] \in Puzzles
  BY <1>1
<1>. QED BY <1>2

\* Types and the place of the reader, action by action.
LEMMA ReadNameTypes ==
  ASSUME TypeOK, PlaceInv, NEW f \in Files, ReadName(f)
  PROVE  TypeOK' /\ PlaceInv'
BY DEF TypeOK, PlaceInv, At, ReadName, fileVars, dealVars, solverVars, printVars

LEMMA EndOfNamesTypes ==
  ASSUME TypeOK, PlaceInv, EndOfNames
  PROVE  TypeOK' /\ PlaceInv'
BY DEF TypeOK, PlaceInv, At, EndOfNames, fileVars, dealVars, solverVars, printVars

LEMMA NoNameTypes ==
  ASSUME TypeOK, PlaceInv, NoName
  PROVE  TypeOK' /\ PlaceInv'
BY DEF TypeOK, PlaceInv, At, NoName, nameVars, fileVars, dealVars, solverVars, printVars

LEMMA NoMoreNamesTypes ==
  ASSUME TypeOK, PlaceInv, NoMoreNames
  PROVE  TypeOK' /\ PlaceInv'
BY DEF TypeOK, PlaceInv, At, NoMoreNames, nameVars, fileVars, dealVars, solverVars, printVars

\* Whatever is dealt, the buffers keep their types.
LEMMA DealTypes ==
  ASSUME TypeOK, NEW p \in Slots, problemWriter(p)
  PROVE  /\ dealt' \in Seq(Slots) /\ problemNumber' = Len(dealt') /\ Len(dealt') = Len(dealt) + 1
         /\ problemBuffer' \in [Solvers -> Seq(Slots)]
         /\ \A s \in Solvers : Len(problemBuffer'[s]) <= Capacity
<1>1. NextSolver(problemNumber + 1) \in Solvers
  BY SolverTurn DEF TypeOK
<1>. QED BY <1>1, Numbers DEF TypeOK, problemWriter

LEMMA EofTypes ==
  ASSUME TypeOK, PlaceInv, eofIntoProblemBuffer
  PROVE  TypeOK' /\ PlaceInv'
<1>1. NULL \in Slots
  BY DEF Slots
<1>2. problemWriter(NULL)
  BY DEF eofIntoProblemBuffer
<1>3. PlaceInv'
  BY DEF PlaceInv, At, eofIntoProblemBuffer, nameVars, fileVars, solverVars, printVars
<1>. QED BY <1>1, <1>2, <1>3, DealTypes
         DEF TypeOK, eofIntoProblemBuffer, nameVars, fileVars, solverVars, printVars

LEMMA OpenFileTypes ==
  ASSUME TypeOK, PlaceInv, OpenFile
  PROVE  TypeOK' /\ PlaceInv'
<1>1. file' \in Files /\ filenameBuffer' \in Seq(Files)
  BY DEF OpenFile, TypeOK
<1>2. lastSize' = (Size(file') + SizeT - 1) % SizeT /\ lastSize' \in 0..(SizeT - 1)
  <2>1. Size(file') \in Nat /\ SizeT \in Nat \ {0}
    BY <1>1, SizeFacts, Numbers
  <2>. QED BY <2>1 DEF OpenFile
<1>3. ASSUME file'.lines # <<>> PROVE At(0)'
  <2>1. Size(file') \in Nat /\ (Size(file') + SizeT - 1) % SizeT = Size(file') - 1
    BY <1>1, <1>3, SizeFacts
  <2>2. 0 % Batch = 0 /\ LINE * 0 = 0
    BY Numbers
  <2>. QED BY <1>1, <1>2, <1>3, <2>1, <2>2 DEF At, OpenFile
<1>4. PlaceInv'
  <2>1. file'.lines # <<>> => \E q \in Nat : At(q)'
    BY <1>3
  <2>. QED BY <1>1, <1>2, <2>1 DEF PlaceInv, OpenFile, printVars
<1>5. 0 \in 0..(SizeT - 1)
  BY Numbers
<1>6. TypeOK'
  <2>1. typed' \in Seq(Files) /\ readFile' \in BOOLEAN /\ rpc' = "read" /\ after' = after
        /\ pos' = 0 /\ lines' = lines /\ line' = line /\ lineBuf' = lineBuf
    BY DEF TypeOK, OpenFile
  <2>2. UNCHANGED <<problemNumber, dealt, problemBuffer, resultBuffer, spc, problem, resultNumber,
                    resultBuf, endNumber, ppc, out>>
    BY DEF OpenFile, dealVars, solverVars, printVars
  <2>. QED BY <1>1, <1>2, <1>5, <2>1, <2>2 DEF TypeOK
<1>. QED BY <1>4, <1>6

\* Nothing is read from an empty file.
LEMMA NothingRead ==
  ASSUME file \in Files, file.lines = <<>>, pos \in Nat, NEW count
  PROVE  BytesRead(count) = 0 /\ (0 + 1) \div LINE = 0
<1>1. BytesRead(count) = 0
  BY SizeFacts DEF BytesRead
<1>2. 1 = LINE * 0 + 1 /\ 1 \in 0..(LINE - 1)
  BY Numbers
<1>3. 1 \div LINE = 0
  BY <1>2, Quotient, Numbers
<1>. QED BY <1>1, <1>3

LEMMA ReadBatchTypes ==
  ASSUME TypeOK, PlaceInv, ReadBatch
  PROVE  TypeOK' /\ PlaceInv'
<1> DEFINE B == LINE * Batch
           n == (BytesRead(B - 1) + 1) \div LINE
<1>1. /\ file \in Files /\ lastSize = (Size(file) + SizeT - 1) % SizeT
      /\ file.lines # <<>> => \E q \in Nat : At(q)
      /\ WholeBatch /\ pos \in Nat /\ lineBuf \in [0..(Batch - 1) -> Puzzles \cup {Junk}]
  BY DEF PlaceInv, ReadBatch, TypeOK
<1>2. lineBuf' = [i \in 0..(Batch - 1) |->
                    IF i < n THEN file.lines[(pos \div LINE) + i + 1] ELSE lineBuf[i]]
      /\ pos' = (pos + B) % SizeT
      /\ UNCHANGED <<file, lastSize>> /\ rpc' = "deal" /\ after' = "read"
  BY DEF ReadBatch, readAt
<1> HIDE DEF n
<1>3. ASSUME file.lines = <<>>
      PROVE  lineBuf' \in [0..(Batch - 1) -> Puzzles \cup {Junk}]
  <2>1. n = 0
    BY <1>1, <1>3, NothingRead DEF n
  <2>2. lineBuf' = [i \in 0..(Batch - 1) |-> lineBuf[i]]
    BY <1>2, <2>1
  <2>. QED BY <1>1, <2>2
<1>4. ASSUME file.lines # <<>>
      PROVE  lineBuf' \in [0..(Batch - 1) -> Puzzles \cup {Junk}] /\ \E q \in Nat : At(q)'
  <2>1. PICK q \in Nat : At(q)
    BY <1>1, <1>4
  <2>2. n = Batch /\ pos \div LINE = q /\ q + Batch <= Len(file.lines)
    BY <1>1, <2>1, BatchRead DEF n
  <2>3. pos' = LINE * (q + Batch) /\ LINE * (q + Batch) <= Size(file) /\ (q + Batch) % Batch = 0
    BY <1>1, <1>2, <2>1, BatchRead
  <2>4. lineBuf' \in [0..(Batch - 1) -> Puzzles \cup {Junk}]
    BY <1>1, <1>2, <2>1, <2>2, ReadTypes, Numbers
  <2>5. At(q + Batch)'
    <3>1. q + Batch \in Nat
      BY Numbers
    <3>. QED BY <1>2, <2>1, <2>3, <3>1 DEF At
  <2>. QED BY <2>4, <2>5, Numbers
<1>5. lineBuf' \in [0..(Batch - 1) -> Puzzles \cup {Junk}]
  BY <1>3, <1>4
<1>6. PlaceInv'
  <2>1. file'.lines # <<>> => \E q \in Nat : At(q)'
    BY <1>2, <1>4
  <2>. QED BY <1>1, <1>2, <2>1 DEF PlaceInv, ReadBatch, printVars
<1>7. pos' \in 0..(SizeT - 1) /\ 0 < Batch /\ Batch \in 0..Batch
  BY <1>1, <1>2, Numbers
<1>8. TypeOK'
  BY <1>2, <1>5, <1>7
     DEF TypeOK, ReadBatch, nameVars, dealVars, solverVars, printVars
<1>. QED BY <1>6, <1>8

LEMMA ReadTailTypes ==
  ASSUME TypeOK, PlaceInv, ReadTail
  PROVE  TypeOK' /\ PlaceInv'
<1> DEFINE n == (BytesRead(Left) + 1) \div LINE
<1>1. /\ file \in Files
      /\ file.lines # <<>> => \E q \in Nat : At(q)
      /\ ~WholeBatch /\ pos \in Nat /\ lineBuf \in [0..(Batch - 1) -> Puzzles \cup {Junk}]
      /\ lines \in 0..Batch /\ after \in {"loop", "read"} /\ line' = 0
  BY DEF PlaceInv, ReadTail, TypeOK
<1>2. /\ lineBuf' \in [0..(Batch - 1) -> Puzzles \cup {Junk}] /\ lines' \in 0..Batch
      /\ after' \in {"loop", "read"} /\ rpc' \in {"deal", "loop"}
      /\ rpc' = "deal" => 0 < lines' /\ after' = "loop"
  <2>1. CASE ~(Left \div LINE > 0)
    <3>1. UNCHANGED <<lineBuf, lines, after>> /\ rpc' = "loop"
      BY <2>1 DEF ReadTail, Left
    <3>. QED BY <1>1, <3>1
  <2>2. CASE Left \div LINE > 0
    <3>1. /\ lineBuf' = [i \in 0..(Batch - 1) |->
                           IF i < n THEN file.lines[(pos \div LINE) + i + 1] ELSE lineBuf[i]]
          /\ lines' = n /\ rpc' = (IF n > 0 THEN "deal" ELSE "loop") /\ after' = "loop"
      BY <2>2 DEF ReadTail, readAt, TailLines, Left
    <3> HIDE DEF n
    <3>2. CASE file.lines = <<>>
      <4>1. n = 0
        BY <1>1, <3>2, NothingRead DEF n
      <4>2. lineBuf' = [i \in 0..(Batch - 1) |-> lineBuf[i]]
        BY <3>1, <4>1
      <4>. QED BY <1>1, <3>1, <4>1, <4>2, Numbers
    <3>3. CASE file.lines # <<>>
      <4>1. PICK q \in Nat : At(q)
        BY <1>1, <3>3
      <4>2. n = Len(file.lines) - q /\ n \in 1..Batch /\ pos \div LINE = q
        BY <1>1, <2>2, <4>1, TailRead DEF n
      <4>3. n \in Nat /\ q + n <= Len(file.lines)
        BY <4>1, <4>2, AtFacts, Numbers
      <4>4. lineBuf' \in [0..(Batch - 1) -> Puzzles \cup {Junk}]
        BY <1>1, <3>1, <4>1, <4>2, <4>3, ReadTypes
      <4>5. n \in 0..Batch /\ n > 0
        BY <4>2, Numbers
      <4>. QED BY <3>1, <4>4, <4>5
    <3>. QED BY <3>2, <3>3
  <2>. QED BY <2>1, <2>2
<1>3. UNCHANGED <<nameVars, file, pos, lastSize, dealVars, resultBuffer, solverVars, printVars>>
  BY DEF ReadTail
<1>4. PlaceInv'
  BY <1>2, <1>3 DEF PlaceInv, ReadTail, printVars
<1>5. TypeOK'
  BY <1>1, <1>2, <1>3 DEF TypeOK, nameVars, dealVars, solverVars, printVars
<1>. QED BY <1>4, <1>5

\* The line that is dealt was read.
LEMMA LineRead ==
  ASSUME TypeOK, rpc = "deal"
  PROVE  lineBuf[line] \in Slots /\ line + 1 \in Nat /\ line + 1 <= lines /\ lines \in Nat
<1>1. line \in 0..(Batch - 1) /\ line + 1 <= lines /\ lines \in Nat
  BY Numbers DEF TypeOK
<1>2. lineBuf[line] \in Puzzles \cup {Junk}
  BY <1>1 DEF TypeOK
<1>. QED BY <1>1, <1>2 DEF Slots

LEMMA DealLineTypes ==
  ASSUME TypeOK, PlaceInv, DealLine
  PROVE  TypeOK' /\ PlaceInv'
<1>1. lineBuf[line] \in Slots /\ line + 1 \in Nat /\ line + 1 <= lines /\ lines \in Nat
  BY LineRead DEF DealLine
<1>2. problemWriter(lineBuf[line])
  BY DEF DealLine
<1>3. rpc' = (IF line + 1 = lines THEN after ELSE "deal") /\ line' = line + 1 /\ rpc = "deal"
      /\ UNCHANGED <<nameVars, fileVars, resultBuffer, solverVars, printVars>>
  BY DEF DealLine
<1>4. PlaceInv'
  BY <1>3 DEF PlaceInv, At, TypeOK, fileVars, printVars
<1>5. /\ dealt' \in Seq(Slots) /\ problemNumber' = Len(dealt') /\ Len(dealt') = Len(dealt) + 1
      /\ problemBuffer' \in [Solvers -> Seq(Slots)]
      /\ \A s \in Solvers : Len(problemBuffer'[s]) <= Capacity
  BY <1>1, <1>2, DealTypes
<1>6. TypeOK'
  BY <1>1, <1>3, <1>5 DEF TypeOK, nameVars, fileVars, solverVars, printVars
<1>. QED BY <1>4, <1>6

LEMMA GetProblemTypes ==
  ASSUME TypeOK, PlaceInv, NEW s \in Solvers, GetProblem(s)
  PROVE  TypeOK' /\ PlaceInv'
<1>1. PlaceInv'
  BY DEF PlaceInv, At, GetProblem, fileVars, printVars
<1>2. /\ problemBuffer[s] \in Seq(Slots) /\ problemBuffer[s] # <<>>
      /\ problemBuffer' = [problemBuffer EXCEPT ![s] = Tail(problemBuffer[s])]
      /\ problem' = [problem EXCEPT ![s] = Head(problemBuffer[s])]
      /\ spc' = [spc EXCEPT ![s] = "put"]
  BY DEF TypeOK, GetProblem
<1>3. /\ Tail(problemBuffer[s]) \in Seq(Slots) /\ Head(problemBuffer[s]) \in Slots
      /\ Len(Tail(problemBuffer[s])) <= Capacity
  BY <1>2, Numbers DEF TypeOK
<1>4. /\ problemBuffer' \in [Solvers -> Seq(Slots)] /\ problem' \in [Solvers -> Slots]
      /\ spc' \in [Solvers -> {"get", "put", "end"}]
      /\ \A x \in Solvers : Len(problemBuffer'[x]) <= Capacity
  BY <1>2, <1>3 DEF TypeOK
<1>5. TypeOK'
  BY <1>4 DEF TypeOK, GetProblem, nameVars, fileVars, printVars
<1>. QED BY <1>1, <1>5

LEMMA PutResultTypes ==
  ASSUME TypeOK, PlaceInv, NEW s \in Solvers, PutResult(s)
  PROVE  TypeOK' /\ PlaceInv'
<1>1. PlaceInv'
  BY DEF PlaceInv, At, PutResult, fileVars, printVars
<1>2. resultBuffer' = [resultBuffer EXCEPT ![s] = Append(resultBuffer[s], Written(problem[s]))]
      /\ Len(resultBuffer[s]) < Capacity /\ resultBuffer[s] \in Seq(Results)
      /\ spc' = [spc EXCEPT ![s] = IF problem[s] = NULL THEN "end" ELSE "get"]
  BY DEF TypeOK, PutResult, Written
<1>3. Append(resultBuffer[s], Written(problem[s])) \in Seq(Results)
      /\ Len(Append(resultBuffer[s], Written(problem[s]))) <= Capacity
  BY <1>2, PlainFacts, Numbers DEF TypeOK
<1>4. /\ resultBuffer' \in [Solvers -> Seq(Results)] /\ spc' \in [Solvers -> {"get", "put", "end"}]
      /\ \A x \in Solvers : Len(resultBuffer'[x]) <= Capacity
  BY <1>2, <1>3 DEF TypeOK
<1>5. TypeOK'
  BY <1>4 DEF TypeOK, PutResult, nameVars, fileVars, dealVars, printVars
<1>. QED BY <1>1, <1>5

\* What is printed is taken from the solver whose turn it is, and was dealt.
LEMMA PrintTurn ==
  ASSUME PipeInv, resultBuffer[NextSolver(resultNumber + 1)] # <<>>
  PROVE  /\ NextSolver(resultNumber + 1) \in Solvers
         /\ resultNumber + 1 \in 1..Len(dealt)
         /\ Plain(Head(resultBuffer[NextSolver(resultNumber + 1)])) = dealt[resultNumber + 1]
         /\ Head(resultBuffer[NextSolver(resultNumber + 1)]) \in Results
<1> DEFINE id == NextSolver(resultNumber + 1)
           q == Flow(resultBuffer[id], spc[id], problem[id], problemBuffer[id])
<1>1. id \in Solvers /\ resultNumber \in Nat
  BY SolverTurn DEF PipeInv, TypeOK
<1>2. /\ resultBuffer[id] \in Seq(Results) /\ problem[id] \in Slots
      /\ problemBuffer[id] \in Seq(Slots) /\ dealt \in Seq(Slots)
  BY <1>1 DEF PipeInv, TypeOK
<1>3. q # <<>> /\ Head(q) = Plain(Head(resultBuffer[id])) /\ q \in Seq(Slots)
  BY <1>2, FlowPrint, FlowFacts, ZenonT(40)
<1>4. Fits(resultNumber, id, q, dealt)
  BY <1>1 DEF PipeInv, RoundRobin, Fits, InFlight, Flow, Turn, Nth
<1>5. Head(resultBuffer[id]) \in Results
  BY <1>2
<1> HIDE DEF q
<1>6. resultNumber + 1 <= Len(dealt) /\ Head(q) = dealt[resultNumber + 1]
  BY <1>1, <1>2, <1>3, <1>4, FitsHead
<1>. QED BY <1>1, <1>2, <1>3, <1>5, <1>6

\* The result that is printed is taken from its buffer.
LEMMA TakeTypes ==
  ASSUME TypeOK, NEW id \in Solvers, resultBuffer[id] # <<>>,
         resultBuffer' = [resultBuffer EXCEPT ![id] = Tail(@)]
  PROVE  /\ resultBuffer' \in [Solvers -> Seq(Results)]
         /\ \A s \in Solvers : Len(resultBuffer'[s]) <= Capacity
<1>1. /\ resultBuffer[id] \in Seq(Results) /\ Len(resultBuffer[id]) <= Capacity
      /\ resultBuffer' = [resultBuffer EXCEPT ![id] = Tail(resultBuffer[id])]
  BY DEF TypeOK
<1>2. Tail(resultBuffer[id]) \in Seq(Results) /\ Len(Tail(resultBuffer[id])) <= Capacity
  BY <1>1, Numbers
<1>. QED BY <1>1, <1>2 DEF TypeOK

LEMMA PrintAnswerTypes ==
  ASSUME PipeInv, PrintAnswer
  PROVE  TypeOK' /\ PlaceInv'
<1> DEFINE id == NextSolver(resultNumber + 1)
           x == Head(resultBuffer[id])
           buf == Append(resultBuf, x)
<1>0. TypeOK /\ PlaceInv
  BY DEF PipeInv
<1>1. PlaceInv'
  BY <1>0 DEF PlaceInv, At, PrintAnswer, fileVars
<1>2. /\ resultBuffer[id] # <<>> /\ resultNumber' = resultNumber + 1
      /\ resultBuffer' = [resultBuffer EXCEPT ![id] = Tail(@)]
      /\ IF Len(buf) >= Batch THEN out' = out \o buf /\ resultBuf' = <<>>
                             ELSE resultBuf' = buf /\ out' = out
      /\ UNCHANGED <<nameVars, rpc, line, fileVars, dealVars, solverVars, endNumber, ppc>>
  BY DEF PrintAnswer, BatchFull
<1>3. id \in Solvers /\ resultNumber + 1 \in 1..Len(dealt) /\ x \in Results
  BY <1>2, PrintTurn
<1>4. /\ resultBuffer' \in [Solvers -> Seq(Results)]
      /\ \A s \in Solvers : Len(resultBuffer'[s]) <= Capacity
  BY <1>0, <1>2, <1>3, TakeTypes
<1>5. buf \in Seq(Results) /\ out \in Seq(Results) /\ Len(buf) \in Nat
  BY <1>0, <1>3 DEF TypeOK
<1> HIDE DEF x, buf, id
<1>6. {out', resultBuf'} \subseteq Seq(Results) /\ Len(resultBuf') < Batch
  <2>1. CASE Len(buf) >= Batch
    <3>1. out \o buf \in Seq(Results)
      BY <1>5
    <3>2. out' = out \o buf /\ resultBuf' = <<>>
      BY <1>2, <2>1
    <3>3. <<>> \in Seq(Results) /\ Len(<<>>) < Batch
      BY Numbers
    <3>. QED BY <3>1, <3>2, <3>3
  <2>2. CASE ~(Len(buf) >= Batch)
    BY <1>2, <1>5, <2>2, Numbers
  <2>. QED BY <2>1, <2>2
<1>7. resultNumber' \in 0..problemNumber'
  BY <1>0, <1>2, <1>3 DEF TypeOK, dealVars
<1>8. TypeOK'
  BY <1>0, <1>2, <1>4, <1>6, <1>7 DEF TypeOK, nameVars, fileVars, dealVars, solverVars
<1>. QED BY <1>1, <1>8

LEMMA PrintEndTypes ==
  ASSUME PipeInv, PrintEnd
  PROVE  TypeOK' /\ PlaceInv'
<1> DEFINE id == NextSolver(resultNumber + 1)
<1>0. TypeOK /\ PlaceInv
  BY DEF PipeInv
<1>1. /\ resultBuffer[id] # <<>> /\ resultNumber' = resultNumber + 1 /\ ppc = "loop"
      /\ resultBuffer' = [resultBuffer EXCEPT ![id] = Tail(@)]
      /\ endNumber' = endNumber + 1
      /\ IF endNumber' = N THEN ppc' = "end" /\ out' = out \o resultBuf /\ resultBuf' = <<>>
                           ELSE UNCHANGED <<ppc, out, resultBuf>>
      /\ UNCHANGED <<nameVars, rpc, line, fileVars, dealVars, solverVars>>
  BY DEF PrintEnd
<1>2. id \in Solvers /\ resultNumber + 1 \in 1..Len(dealt)
  BY <1>1, PrintTurn
<1>3. /\ resultBuffer' \in [Solvers -> Seq(Results)]
      /\ \A s \in Solvers : Len(resultBuffer'[s]) <= Capacity
  BY <1>0, <1>1, <1>2, TakeTypes
<1> HIDE DEF id
<1>4. /\ {out', resultBuf'} \subseteq Seq(Results) /\ Len(resultBuf') < Batch
      /\ ppc' \in {"loop", "end"} /\ endNumber' \in 0..N /\ (ppc' = "loop" => endNumber' < N)
  <2>1. out \in Seq(Results) /\ resultBuf \in Seq(Results) /\ Len(resultBuf) < Batch
        /\ endNumber \in Nat /\ endNumber < N
    BY <1>0, <1>1, Numbers DEF TypeOK, PlaceInv
  <2>2. out \o resultBuf \in Seq(Results)
    BY <2>1
  <2>3. CASE endNumber' = N
    <3>1. <<>> \in Seq(Results) /\ Len(<<>>) < Batch
      BY Numbers
    <3>2. out' = out \o resultBuf /\ resultBuf' = <<>> /\ ppc' = "end" /\ endNumber' \in 0..N
      BY <1>1, <2>3, Numbers
    <3>. QED BY <2>2, <3>1, <3>2
  <2>4. CASE endNumber' # N
    BY <1>1, <2>1, <2>4, Numbers
  <2>. QED BY <2>3, <2>4
<1>5. resultNumber' \in 0..problemNumber'
  BY <1>0, <1>1, <1>2 DEF TypeOK, dealVars
<1>6. PlaceInv'
  BY <1>0, <1>1, <1>4 DEF PlaceInv, At, fileVars
<1>7. TypeOK'
  BY <1>0, <1>1, <1>3, <1>4, <1>5 DEF TypeOK, nameVars, fileVars, dealVars, solverVars
<1>. QED BY <1>6, <1>7

\* RoundRobin is a matter of what each solver has.
LEMMA RoundRobinFits ==
  RoundRobin <=> \A s \in Solvers : Fits(resultNumber, s, InFlight(s), dealt)
BY DEF RoundRobin, Fits, Turn, Nth

LEMMA InFlightTypes ==
  ASSUME TypeOK, NEW s \in Solvers
  PROVE  /\ resultBuffer[s] \in Seq(Results) /\ problem[s] \in Slots
         /\ problemBuffer[s] \in Seq(Slots) /\ InFlight(s) \in Seq(Slots)
         /\ dealt \in Seq(Slots) /\ resultNumber \in Nat
         /\ InFlight(s) = Flow(resultBuffer[s], spc[s], problem[s], problemBuffer[s])
<1>1. /\ resultBuffer[s] \in Seq(Results) /\ problem[s] \in Slots
      /\ problemBuffer[s] \in Seq(Slots) /\ dealt \in Seq(Slots) /\ resultNumber \in Nat
  BY DEF TypeOK
<1>2. InFlight(s) = Flow(resultBuffer[s], spc[s], problem[s], problemBuffer[s])
  BY DEF InFlight, Flow
<1>3. Flow(resultBuffer[s], spc[s], problem[s], problemBuffer[s]) \in Seq(Slots)
  BY <1>1, FlowFacts
<1>. QED BY <1>1, <1>2, <1>3

\* A line that is dealt keeps every solver in turn.
LEMMA DealFits ==
  ASSUME PipeInv, NEW p \in Slots, problemWriter(p), UNCHANGED <<resultBuffer, solverVars, printVars>>
  PROVE  RoundRobin'
<1> SUFFICES ASSUME NEW s \in Solvers
             PROVE  Fits(resultNumber', s, InFlight(s)', dealt')
  BY DEF RoundRobin, Fits, Turn, Nth
<1> DEFINE id == NextSolver(Len(dealt) + 1)
<1>1. /\ resultBuffer[s] \in Seq(Results) /\ problem[s] \in Slots
      /\ problemBuffer[s] \in Seq(Slots) /\ InFlight(s) \in Seq(Slots)
      /\ dealt \in Seq(Slots) /\ resultNumber \in Nat
      /\ InFlight(s) = Flow(resultBuffer[s], spc[s], problem[s], problemBuffer[s])
  BY InFlightTypes DEF PipeInv
<1>2. /\ dealt' = Append(dealt, p) /\ resultNumber' = resultNumber
      /\ problemBuffer'[s] = IF id = s THEN Append(problemBuffer[s], p) ELSE problemBuffer[s]
      /\ resultBuffer' = resultBuffer /\ spc' = spc /\ problem' = problem
  <2>1. id \in Solvers /\ problemNumber = Len(dealt) /\ problemBuffer \in [Solvers -> Seq(Slots)]
    <3>1. Len(dealt) + 1 \in Nat /\ problemNumber = Len(dealt)
      BY <1>1 DEF PipeInv, TypeOK
    <3>. QED BY <3>1, SolverTurn DEF PipeInv, TypeOK
  <2>2. problemBuffer' = [problemBuffer EXCEPT ![id] = Append(problemBuffer[id], p)]
    BY <2>1 DEF problemWriter
  <2>. QED BY <2>1, <2>2 DEF problemWriter, solverVars, printVars
<1>3. InFlight(s)' = Flow(resultBuffer[s], spc[s], problem[s], problemBuffer'[s])
  BY <1>2 DEF InFlight, Flow
<1>4. InFlight(s)' = IF id = s THEN Append(InFlight(s), p) ELSE InFlight(s)
  <2>1. Flow(resultBuffer[s], spc[s], problem[s], Append(problemBuffer[s], p))
          = Append(Flow(resultBuffer[s], spc[s], problem[s], problemBuffer[s]), p)
    <3>1. /\ resultBuffer[s] \in Seq(Results) /\ problem[s] \in Slots
          /\ problemBuffer[s] \in Seq(Slots)
      BY <1>1
    <3>2. Flow(resultBuffer[s], spc[s], problem[s], Added(problemBuffer[s], p))
            = Added(Flow(resultBuffer[s], spc[s], problem[s], problemBuffer[s]), p)
      BY <3>1, FlowDeal
    <3>. QED BY <3>2 DEF Added
  <2>. QED BY <1>1, <1>2, <1>3, <2>1
<1>5. Fits(resultNumber, s, InFlight(s), dealt)
  BY RoundRobinFits DEF PipeInv
<1>. QED BY <1>1, <1>2, <1>4, <1>5, FitsDeal

\* A solver moves nothing.
LEMMA SolverFits ==
  ASSUME PipeInv, NEW s \in Solvers, solveManager(s)
  PROVE  RoundRobin'
<1> SUFFICES ASSUME NEW z \in Solvers
             PROVE  InFlight(z)' = InFlight(z) /\ UNCHANGED <<resultNumber, dealt>>
  BY DEF PipeInv, RoundRobin, Turn
<1>1. /\ resultBuffer[z] \in Seq(Results) /\ problem[z] \in Slots
      /\ problemBuffer[z] \in Seq(Slots)
      /\ InFlight(z) = Flow(resultBuffer[z], spc[z], problem[z], problemBuffer[z])
  BY InFlightTypes DEF PipeInv
<1>2. InFlight(z)' = Flow(resultBuffer'[z], spc'[z], problem'[z], problemBuffer'[z])
  BY DEF InFlight, Flow
<1>3. CASE GetProblem(s)
  <2>1. z # s => UNCHANGED <<resultBuffer[z], spc[z], problem[z], problemBuffer[z]>>
    BY <1>3 DEF PipeInv, TypeOK, GetProblem
  <2>2. ASSUME z = s
        PROVE  /\ spc[z] = "get" /\ problemBuffer[z] # <<>> /\ spc'[z] = "put"
               /\ problem'[z] = Head(problemBuffer[z]) /\ problemBuffer'[z] = Tail(problemBuffer[z])
               /\ resultBuffer'[z] = resultBuffer[z]
    BY <1>3, <2>2 DEF PipeInv, TypeOK, GetProblem
  <2>3. InFlight(z)' = InFlight(z)
    BY <1>1, <1>2, <2>1, <2>2, FlowGet
  <2>. QED BY <1>3, <2>3 DEF GetProblem, printVars
<1>4. CASE PutResult(s)
  <2>1. z # s => UNCHANGED <<resultBuffer[z], spc[z], problem[z], problemBuffer[z]>>
    BY <1>4 DEF PipeInv, TypeOK, PutResult, dealVars
  <2>2. ASSUME z = s
        PROVE  /\ spc[z] = "put" /\ spc'[z] \in {"get", "end"} /\ problem'[z] = problem[z]
               /\ problemBuffer'[z] = problemBuffer[z]
               /\ resultBuffer'[z] = Append(resultBuffer[z], Written(problem[z]))
    BY <1>4, <2>2 DEF PipeInv, TypeOK, PutResult, dealVars, Written
  <2>3. InFlight(z)' = InFlight(z)
    BY <1>1, <1>2, <2>1, <2>2, FlowPut
  <2>. QED BY <1>4, <2>3 DEF PutResult, dealVars, printVars
<1>. QED BY <1>3, <1>4 DEF solveManager

\* The printer takes the first line of the solver whose turn it is.
LEMMA PrinterFits ==
  ASSUME PipeInv, answerPrinter
  PROVE  RoundRobin'
<1> SUFFICES ASSUME NEW s \in Solvers
             PROVE  Fits(resultNumber', s, InFlight(s)', dealt')
  BY DEF RoundRobin, Fits, Turn, Nth
<1> DEFINE id == NextSolver(resultNumber + 1)
<1>1. /\ resultBuffer[s] \in Seq(Results) /\ problem[s] \in Slots
      /\ problemBuffer[s] \in Seq(Slots) /\ InFlight(s) \in Seq(Slots)
      /\ dealt \in Seq(Slots) /\ resultNumber \in Nat
      /\ InFlight(s) = Flow(resultBuffer[s], spc[s], problem[s], problemBuffer[s])
  BY InFlightTypes DEF PipeInv
<1>2. /\ resultBuffer[id] # <<>> /\ resultNumber' = resultNumber + 1
      /\ resultBuffer' = [resultBuffer EXCEPT ![id] = Tail(resultBuffer[id])]
      /\ UNCHANGED <<dealt, spc, problem, problemBuffer>>
  BY DEF answerPrinter, PrintAnswer, PrintEnd, dealVars, solverVars
<1>3. resultBuffer'[s] = IF id = s THEN Tail(resultBuffer[s]) ELSE resultBuffer[s]
  BY <1>2 DEF PipeInv, TypeOK
<1>4. InFlight(s)' = Flow(resultBuffer'[s], spc[s], problem[s], problemBuffer[s])
  BY <1>2 DEF InFlight, Flow
<1>5. /\ InFlight(s)' = IF id = s THEN Tail(InFlight(s)) ELSE InFlight(s)
      /\ id = s => InFlight(s) # <<>>
  <2>1. CASE id = s
    <3>1. /\ Flow(resultBuffer[s], spc[s], problem[s], problemBuffer[s]) # <<>>
          /\ Flow(Tail(resultBuffer[s]), spc[s], problem[s], problemBuffer[s])
               = Tail(Flow(resultBuffer[s], spc[s], problem[s], problemBuffer[s]))
      BY <1>1, <1>2, <2>1, FlowPrint, ZenonT(40)
    <3>. QED BY <1>1, <1>3, <1>4, <2>1, <3>1
  <2>2. CASE id # s
    BY <1>1, <1>3, <1>4, <2>2
  <2>. QED BY <2>1, <2>2
<1>6. Fits(resultNumber, s, InFlight(s), dealt)
  BY RoundRobinFits DEF PipeInv
<1>. QED BY <1>1, <1>2, <1>5, <1>6, FitsPrint

LEMMA PipeNext == PipeInv /\ [Next]_vars => PipeInv'
<1> SUFFICES ASSUME PipeInv, [Next]_vars PROVE PipeInv'
  OBVIOUS
<1>0. TypeOK /\ PlaceInv /\ RoundRobin
  BY DEF PipeInv
<1> DEFINE Kept == UNCHANGED <<dealt, problemBuffer, resultBuffer, spc, problem, resultNumber>>
<1>a. Kept => RoundRobin'
  BY <1>0 DEF RoundRobin, InFlight, Turn
<1>1. CASE UNCHANGED vars
  <2>1. Kept
    BY <1>1 DEF vars, dealVars, solverVars, printVars
  <2>2. TypeOK' /\ PlaceInv'
    BY <1>0, <1>1 DEF TypeOK, PlaceInv, At, vars, nameVars, fileVars, dealVars, solverVars, printVars
  <2>. QED BY <1>a, <2>1, <2>2 DEF PipeInv
<1>2. ASSUME NEW f \in Files, ReadName(f) PROVE PipeInv'
  <2>1. Kept
    BY <1>2 DEF ReadName, dealVars, solverVars, printVars
  <2>. QED BY <1>0, <1>a, <1>2, <2>1, ReadNameTypes DEF PipeInv
<1>3. CASE EndOfNames
  <2>1. Kept
    BY <1>3 DEF EndOfNames, dealVars, solverVars, printVars
  <2>. QED BY <1>0, <1>a, <1>3, <2>1, EndOfNamesTypes DEF PipeInv
<1>4. CASE NoName
  <2>1. Kept
    BY <1>4 DEF NoName, dealVars, solverVars, printVars
  <2>. QED BY <1>0, <1>a, <1>4, <2>1, NoNameTypes DEF PipeInv
<1>5. CASE NoMoreNames
  <2>1. Kept
    BY <1>5 DEF NoMoreNames, dealVars, solverVars, printVars
  <2>. QED BY <1>0, <1>a, <1>5, <2>1, NoMoreNamesTypes DEF PipeInv
<1>6. CASE eofIntoProblemBuffer
  <2>1. RoundRobin'
    BY <1>6, DealFits DEF eofIntoProblemBuffer, Slots
  <2>. QED BY <1>0, <1>6, <2>1, EofTypes DEF PipeInv
<1>7. CASE OpenFile
  <2>1. Kept
    BY <1>7 DEF OpenFile, dealVars, solverVars, printVars
  <2>. QED BY <1>0, <1>a, <1>7, <2>1, OpenFileTypes DEF PipeInv
<1>8. CASE ReadBatch
  <2>1. Kept
    BY <1>8 DEF ReadBatch, dealVars, solverVars, printVars
  <2>. QED BY <1>0, <1>a, <1>8, <2>1, ReadBatchTypes DEF PipeInv
<1>9. CASE ReadTail
  <2>1. Kept
    BY <1>9 DEF ReadTail, dealVars, solverVars, printVars
  <2>. QED BY <1>0, <1>a, <1>9, <2>1, ReadTailTypes DEF PipeInv
<1>10. CASE DealLine
  <2>1. lineBuf[line] \in Slots
    BY <1>0, <1>10, LineRead DEF DealLine
  <2>2. RoundRobin'
    BY <1>10, <2>1, DealFits DEF DealLine
  <2>. QED BY <1>0, <1>10, <2>2, DealLineTypes DEF PipeInv
<1>11. ASSUME NEW s \in Solvers, solveManager(s) PROVE PipeInv'
  BY <1>0, <1>11, SolverFits, GetProblemTypes, PutResultTypes DEF PipeInv, solveManager
<1>12. CASE answerPrinter
  BY <1>12, PrinterFits, PrintAnswerTypes, PrintEndTypes DEF PipeInv, answerPrinter
<1>. QED BY <1>1, <1>2, <1>3, <1>4, <1>5, <1>6, <1>7, <1>8, <1>9, <1>10, <1>11, <1>12
         DEF Next, problemReadThread

LEMMA Pipe == Spec => []PipeInv
BY PipeInit, PipeNext, PTL DEF Spec

\* Types and ranges hold (TypeOK): no buffer holds more than its lock admits, the index into
\* lineBuf stays inside it and only lines that were read are dealt, whatever the files.
THEOREM Typing == Spec => []TypeOK
<1>1. PipeInv => TypeOK
  BY DEF PipeInv
<1>. QED BY <1>1, Pipe, PTL

\* Round robin (RoundRobin): whatever the speed of the solvers, the printer asks for each line
\* the solver that has it.
THEOREM TurnsMatch == Spec => []RoundRobin
<1>1. PipeInv => RoundRobin
  BY DEF PipeInv
<1>. QED BY <1>1, Pipe, PTL

-----------------------------------------------------------------------------
(* The lines of several files *)

\* Induction over the numbers, for a set: a number that is missing has a least one.
LEMMA SetInduction ==
  ASSUME NEW S, 0 \in S, \A n \in Nat : n \in S => n + 1 \in S
  PROVE  Nat \subseteq S
<1> SUFFICES ASSUME ~(Nat \subseteq S) PROVE FALSE
  OBVIOUS
<1> DEFINE T == Nat \ S
<1>1. \E x \in T : \A y \in T : ~(<<y, x>> \in OpToRel(<, Nat))
  BY NatLessThanWellFounded, WFMin, T # {}
<1>2. PICK x \in T : \A y \in T : ~(y < x)
  BY <1>1 DEF OpToRel
<1>3. x # 0 /\ x - 1 \in Nat
  OBVIOUS
<1>4. x - 1 \in T
  BY <1>3
<1>. QED BY <1>2, <1>3, <1>4

\* g flattens the first n of ss.
Flattens(g, ss, n) == g = [i \in 1..n |-> IF i = 1 THEN ss[i] ELSE g[i - 1] \o ss[i]]

LEMMA FlattensAt ==
  ASSUME NEW ss, NEW n \in Nat, NEW g, Flattens(g, ss, n), NEW i \in 1..n
  PROVE  g[i] = IF i = 1 THEN ss[i] ELSE g[i - 1] \o ss[i]
BY DEF Flattens

\* There is such a function, for every length.
LEMMA FlattensExists ==
  ASSUME NEW ss, NEW n \in Nat
  PROVE  \E g : Flattens(g, ss, n)
<1> DEFINE S == {m \in Nat : \E g : Flattens(g, ss, m)}
<1>1. 0 \in S
  <2>1. Flattens([i \in 1..0 |-> 0], ss, 0)
    BY DEF Flattens
  <2>. QED BY <2>1
<1>2. ASSUME NEW m \in Nat, m \in S PROVE m + 1 \in S
  <2>1. PICK g : Flattens(g, ss, m)
    BY <1>2
  <2> DEFINE h == [i \in 1..(m + 1) |->
                     IF i <= m THEN g[i] ELSE IF i = 1 THEN ss[i] ELSE g[i - 1] \o ss[i]]
  <2>2. ASSUME NEW i \in 1..(m + 1)
        PROVE  h[i] = IF i = 1 THEN ss[i] ELSE h[i - 1] \o ss[i]
    <3>1. CASE i <= m
      <4>1. i \in 1..m /\ (i # 1 => i - 1 \in 1..m)
        BY <3>1
      <4>2. g[i] = IF i = 1 THEN ss[i] ELSE g[i - 1] \o ss[i]
        BY <2>1, <4>1 DEF Flattens
      <4>. QED BY <3>1, <4>1, <4>2
    <3>2. CASE i = m + 1
      BY <3>2
    <3>. QED BY <3>1, <3>2
  <2>3. Flattens(h, ss, m + 1)
    BY <2>2 DEF Flattens
  <2>. QED BY <2>3
<1> HIDE DEF S
<1>3. Nat \subseteq S
  BY <1>1, <1>2, SetInduction
<1>. QED BY <1>3 DEF S

Agree(s, t, m) == \A i \in 1..m : s[i] = t[i]

\* What two of them make of the sequences they have in common is the same.
LEMMA FlattensUnique ==
  ASSUME NEW ss, NEW tt, NEW m \in Nat, NEW n \in Nat, NEW g, NEW h,
         Flattens(g, ss, m), Flattens(h, tt, n), m <= n, Agree(ss, tt, m)
  PROVE  Agree(g, h, m)
<1> DEFINE S == {i \in Nat : i \in 1..m => g[i] = h[i]}
<1>1. 0 \in S
  OBVIOUS
<1>2. ASSUME NEW i \in Nat, i \in S PROVE i + 1 \in S
  <2> SUFFICES ASSUME i + 1 \in 1..m PROVE g[i + 1] = h[i + 1]
    OBVIOUS
  <2>1. i + 1 \in 1..n /\ (i + 1) - 1 = i /\ ss[i + 1] = tt[i + 1]
    BY DEF Agree
  <2>2. g[i + 1] = IF i + 1 = 1 THEN ss[i + 1] ELSE g[(i + 1) - 1] \o ss[i + 1]
    BY FlattensAt
  <2>3. h[i + 1] = IF i + 1 = 1 THEN tt[i + 1] ELSE h[(i + 1) - 1] \o tt[i + 1]
    BY <2>1, FlattensAt
  <2>4. i + 1 # 1 => g[i] = h[i]
    BY <1>2
  <2>. QED BY <2>1, <2>2, <2>3, <2>4
<1> HIDE DEF S
<1>3. Nat \subseteq S
  BY <1>1, <1>2, SetInduction
<1>. QED BY <1>3 DEF S, Agree

\* FlattenSeq of the community modules, by its equation.
LEMMA FlattenDef ==
  ASSUME NEW ss, Len(ss) \in Nat \ {0}
  PROVE  \E g : Flattens(g, ss, Len(ss)) /\ FlattenSeq(ss) = g[Len(ss)]
<1> DEFINE flatten[i \in 1..Len(ss)] == IF i = 1 THEN ss[i] ELSE flatten[i - 1] \o ss[i]
<1>1. FlattenSeq(ss) = flatten[Len(ss)]
  BY DEF FlattenSeq
<1>2. Flattens(flatten, ss, Len(ss))
  BY FlattensExists DEF Flattens
<1>. QED BY <1>1, <1>2

\* One sequence more is appended to the rest.
LEMMA FlattenAppend ==
  ASSUME NEW T, NEW ss \in Seq(Seq(T)), NEW s \in Seq(T)
  PROVE  FlattenSeq(Append(ss, s)) = FlattenSeq(ss) \o s
<1> DEFINE tt == Append(ss, s)
<1>1. /\ Len(tt) = Len(ss) + 1 /\ Len(ss) \in Nat /\ tt[Len(ss) + 1] = s
      /\ \A i \in 1..Len(ss) : tt[i] = ss[i]
  OBVIOUS
<1> HIDE DEF tt
<1>2. PICK h : Flattens(h, tt, Len(ss) + 1) /\ FlattenSeq(tt) = h[Len(ss) + 1]
  BY <1>1, FlattenDef
<1>3. h[Len(ss) + 1] = IF Len(ss) = 0 THEN s ELSE h[Len(ss)] \o s
  <2>1. h[Len(ss) + 1] = IF Len(ss) + 1 = 1 THEN tt[Len(ss) + 1]
                         ELSE h[(Len(ss) + 1) - 1] \o tt[Len(ss) + 1]
    <3>1. Len(ss) + 1 \in Nat /\ Len(ss) + 1 \in 1..(Len(ss) + 1)
      BY <1>1
    <3>. QED BY <1>2, <3>1, FlattensAt, ZenonT(40)
  <2>. QED BY <1>1, <2>1
<1>4. CASE Len(ss) = 0
  <2>1. FlattenSeq(ss) = <<>>
    BY <1>4 DEF FlattenSeq
  <2>. QED BY <1>2, <1>3, <1>4, <2>1 DEF tt
<1>5. CASE Len(ss) # 0
  <2>1. PICK g : Flattens(g, ss, Len(ss)) /\ FlattenSeq(ss) = g[Len(ss)]
    BY <1>1, <1>5, FlattenDef
  <2>2. Agree(g, h, Len(ss))
    <3>1. Len(ss) \in Nat /\ Len(ss) + 1 \in Nat /\ Len(ss) <= Len(ss) + 1
          /\ Agree(ss, tt, Len(ss))
      BY <1>1 DEF Agree
    <3>. QED BY <1>2, <2>1, <3>1, FlattensUnique
  <2>3. g[Len(ss)] = h[Len(ss)]
    BY <1>1, <1>5, <2>2 DEF Agree
  <2>. QED BY <1>2, <1>3, <1>5, <2>1, <2>3 DEF tt
<1>. QED BY <1>4, <1>5

\* The lines of the files fs, one file after the other.
LinesOf(fs) == FlattenSeq([k \in DOMAIN fs |-> fs[k].lines])

LEMMA LinesOfAppend ==
  ASSUME NEW fs \in Seq(Files), NEW f \in Files
  PROVE  LinesOf(Append(fs, f)) = LinesOf(fs) \o f.lines
<1> DEFINE ss == [k \in DOMAIN fs |-> fs[k].lines]
           tt == [k \in DOMAIN Append(fs, f) |-> Append(fs, f)[k].lines]
<1>1. ss \in Seq(Seq(Puzzles)) /\ Len(ss) = Len(fs) /\ f.lines \in Seq(Puzzles)
  BY SizeFacts
<1>2. tt = Append(ss, f.lines)
  OBVIOUS
<1>. QED BY <1>1, <1>2, FlattenAppend DEF LinesOf

LEMMA LinesOfEmpty == LinesOf(<<>>) = <<>>
BY DEF LinesOf, FlattenSeq

\* The first k + 1 of a sequence are its first k and one more.
LEMMA FirstNext ==
  ASSUME NEW T, NEW s \in Seq(T), NEW k \in Nat, k < Len(s)
  PROVE  /\ SubSeq(s, 1, k) \in Seq(T) /\ Len(SubSeq(s, 1, k)) = k
         /\ SubSeq(s, 1, k + 1) = Append(SubSeq(s, 1, k), s[k + 1]) /\ s[k + 1] \in T
OBVIOUS

\* Joining sequences.
LEMMA Joins ==
  ASSUME NEW T, NEW a \in Seq(T), NEW b \in Seq(T)
  PROVE  a \o b \in Seq(T) /\ a \o <<>> = a
OBVIOUS

\* The lines of files are puzzles.
LEMMA LinesOfType ==
  ASSUME NEW fs \in Seq(Files), NEW k \in 0..Len(fs)
  PROVE  LinesOf(SubSeq(fs, 1, k)) \in Seq(Puzzles)
<1> DEFINE S == {j \in Nat : j <= Len(fs) => LinesOf(SubSeq(fs, 1, j)) \in Seq(Puzzles)}
<1>1. 0 \in S
  <2>1. SubSeq(fs, 1, 0) = <<>> /\ <<>> \in Seq(Puzzles)
    OBVIOUS
  <2>. QED BY <2>1, LinesOfEmpty
<1>2. ASSUME NEW j \in Nat, j \in S PROVE j + 1 \in S
  <2> SUFFICES ASSUME j + 1 <= Len(fs) PROVE LinesOf(SubSeq(fs, 1, j + 1)) \in Seq(Puzzles)
    OBVIOUS
  <2>1. /\ SubSeq(fs, 1, j) \in Seq(Files) /\ fs[j + 1] \in Files
        /\ SubSeq(fs, 1, j + 1) = Append(SubSeq(fs, 1, j), fs[j + 1])
    BY FirstNext
  <2>2. LinesOf(SubSeq(fs, 1, j + 1)) = LinesOf(SubSeq(fs, 1, j)) \o fs[j + 1].lines
    BY <2>1, LinesOfAppend
  <2>3. fs[j + 1].lines \in Seq(Puzzles) /\ LinesOf(SubSeq(fs, 1, j)) \in Seq(Puzzles)
    BY <1>2, <2>1, SizeFacts
  <2>. QED BY <2>2, <2>3, Joins
<1> HIDE DEF S
<1>3. Nat \subseteq S
  BY <1>1, <1>2, SetInduction
<1>. QED BY <1>3 DEF S

\* The lines of the first files come first.
LEMMA LinesOfPrefix ==
  ASSUME NEW fs \in Seq(Files), NEW k \in 0..Len(fs)
  PROVE  \E rest \in Seq(Puzzles) : LinesOf(fs) = LinesOf(SubSeq(fs, 1, k)) \o rest
<1> DEFINE P(j) == \E rest \in Seq(Puzzles) :
                     LinesOf(SubSeq(fs, 1, j)) = LinesOf(SubSeq(fs, 1, k)) \o rest
           S == {j \in Nat : k + j <= Len(fs) => P(k + j)}
<1>0. LinesOf(SubSeq(fs, 1, k)) \in Seq(Puzzles)
  BY LinesOfType
<1>1. 0 \in S
  <2>1. LinesOf(SubSeq(fs, 1, k)) = LinesOf(SubSeq(fs, 1, k)) \o <<>>
    BY <1>0, Joins
  <2>2. k + 0 = k /\ <<>> \in Seq(Puzzles)
    OBVIOUS
  <2>. QED BY <2>1, <2>2
<1>2. ASSUME NEW j \in Nat, j \in S PROVE j + 1 \in S
  <2> SUFFICES ASSUME k + (j + 1) <= Len(fs) PROVE P((k + j) + 1)
    OBVIOUS
  <2>1. PICK rest \in Seq(Puzzles) : LinesOf(SubSeq(fs, 1, k + j)) = LinesOf(SubSeq(fs, 1, k)) \o rest
    BY <1>2
  <2>2. /\ SubSeq(fs, 1, k + j) \in Seq(Files) /\ fs[(k + j) + 1] \in Files
        /\ SubSeq(fs, 1, (k + j) + 1) = Append(SubSeq(fs, 1, k + j), fs[(k + j) + 1])
    BY FirstNext
  <2>3. LinesOf(SubSeq(fs, 1, (k + j) + 1)) = LinesOf(SubSeq(fs, 1, k + j)) \o fs[(k + j) + 1].lines
    BY <2>2, LinesOfAppend
  <2>4. fs[(k + j) + 1].lines \in Seq(Puzzles)
    BY <2>2, SizeFacts
  <2> DEFINE a == LinesOf(SubSeq(fs, 1, k))
             b == fs[(k + j) + 1].lines
  <2>5. (a \o rest) \o b = a \o (rest \o b)
    <3>1. a \in Seq(Puzzles) /\ b \in Seq(Puzzles)
      BY <1>0, <2>4
    <3> HIDE DEF a, b
    <3>. QED BY <3>1
  <2>6. rest \o fs[(k + j) + 1].lines \in Seq(Puzzles)
    BY <2>4, Joins
  <2>. QED BY <2>1, <2>3, <2>5, <2>6
<1> HIDE DEF S
<1>3. Nat \subseteq S
  BY <1>1, <1>2, SetInduction
<1>4. P(k + (Len(fs) - k)) /\ k + (Len(fs) - k) = Len(fs)
  <2>1. Len(fs) - k \in Nat /\ k + (Len(fs) - k) = Len(fs)
    OBVIOUS
  <2>2. Len(fs) - k \in S
    BY <1>3, <2>1
  <2>. QED BY <2>1, <2>2 DEF S
<1>5. SubSeq(fs, 1, Len(fs)) = fs
  OBVIOUS
<1>. QED BY <1>4, <1>5

-----------------------------------------------------------------------------
(* What was dealt *)

\* Every file can be read to its end.
AllReadable == \A f \in Files : Readable(f)

\* d is a and the first m of l.
IsCut(d, a, l, m) == d = a \o SubSeq(l, 1, m)

\* The number of files that were opened, the lines of the first k files that were typed, and
\* that the reader has dealt all files before its own, and m lines of that.
Opened    == Len(typed) - Len(filenameBuffer)
Before(k) == LinesOf(SubSeq(typed, 1, k))
Cut(m)    == IsCut(dealt, Before(Opened - 1), file.lines, m)
Ends      == [s \in 1..N |-> NULL]

\* The lines from the q-th on are in lineBuf, and the batch ends where the reader goes on.
InBatch(q) ==
  /\ q + lines <= Len(file.lines) /\ Cut(q + line)
  /\ \A i \in 0..(lines - 1) : lineBuf[i] = file.lines[q + i + 1]
  /\ after = "read" => At(q + lines)
  /\ after = "loop" => q + lines = Len(file.lines)

CutInv ==
  /\ Opened \in Nat
  /\ \A j \in DOMAIN filenameBuffer : filenameBuffer[j] = typed[Opened + j]
  /\ rpc \in {"loop", "empty"} => dealt = Before(Opened)
  /\ rpc = "eof" => line < N /\ IsCut(dealt, Expected, Ends, line)
  /\ rpc = "end" => IsCut(dealt, Expected, Ends, N)
  /\ rpc \in {"read", "deal"} => Opened > 0 /\ file = typed[Opened]
  /\ rpc = "read" => \E q \in Nat : At(q) /\ Cut(q)
  /\ rpc = "deal" => \E q \in Nat : InBatch(q)

\* Its elements.
LEMMA IsCutFacts ==
  ASSUME NEW T, NEW a \in Seq(T), NEW l \in Seq(T), NEW m \in 0..Len(l), NEW d, IsCut(d, a, l, m)
  PROVE  /\ d \in Seq(T) /\ Len(d) = Len(a) + m
         /\ \A i \in 1..Len(a) : d[i] = a[i]
         /\ \A i \in 1..m : d[Len(a) + i] = l[i]
         /\ m = 0 => d = a
BY DEF IsCut

LEMMA IsCutNone ==
  ASSUME NEW T, NEW a \in Seq(T), NEW l \in Seq(T)
  PROVE  IsCut(a, a, l, 0)
BY DEF IsCut

LEMMA IsCutJoin ==
  ASSUME NEW T, NEW a \in Seq(T), NEW b \in Seq(T), NEW x \in T, NEW l, NEW m, NEW d
  PROVE  d = a \o b /\ SubSeq(l, 1, m) = Added(b, x) => IsCut(Added(d, x), a, l, m)
<1>1. Added(a \o b, x) = a \o Added(b, x)
  BY DEF Added
<1>. QED BY <1>1 DEF IsCut

\* One line more is dealt.
LEMMA IsCutNext ==
  ASSUME NEW T, NEW a \in Seq(T), NEW l \in Seq(T), NEW m \in Nat, m < Len(l), NEW d,
         IsCut(d, a, l, m)
  PROVE  IsCut(Added(d, l[m + 1]), a, l, m + 1)
<1> DEFINE b == SubSeq(l, 1, m)
           x == l[m + 1]
<1>1. SubSeq(l, 1, m + 1) = Added(b, x) /\ b \in Seq(T) /\ x \in T
  BY FirstNext DEF Added
<1>2. d = a \o b
  BY DEF IsCut
<1> HIDE DEF b, x
<1>3. IsCut(Added(d, x), a, l, m + 1)
  BY <1>1, <1>2, IsCutJoin
<1>. QED BY <1>3 DEF x

\* The lines of one file more.
LEMMA BeforeNext ==
  ASSUME typed \in Seq(Files), NEW k \in Nat, k < Len(typed)
  PROVE  /\ Before(k) \in Seq(Puzzles) /\ typed[k + 1] \in Files /\ typed[k + 1].lines \in Seq(Puzzles)
         /\ Before(k + 1) = Before(k) \o typed[k + 1].lines
<1>1. /\ SubSeq(typed, 1, k) \in Seq(Files) /\ typed[k + 1] \in Files
      /\ SubSeq(typed, 1, k + 1) = Append(SubSeq(typed, 1, k), typed[k + 1])
  BY FirstNext
<1>2. Before(k + 1) = Before(k) \o typed[k + 1].lines
  BY <1>1, LinesOfAppend DEF Before
<1>3. k \in 0..Len(typed)
  OBVIOUS
<1>4. Before(k) \in Seq(Puzzles)
  BY <1>3, LinesOfType DEF Before
<1>. QED BY <1>1, <1>2, <1>4, SizeFacts

\* All the files that were typed.
LEMMA BeforeAll ==
  ASSUME typed \in Seq(Files)
  PROVE  Before(Len(typed)) = Expected /\ Expected \in Seq(Puzzles)
<1>1. SubSeq(typed, 1, Len(typed)) = typed /\ Len(typed) \in 0..Len(typed)
  OBVIOUS
<1>2. LinesOf(SubSeq(typed, 1, Len(typed))) \in Seq(Puzzles)
  BY <1>1, LinesOfType
<1>. QED BY <1>1, <1>2 DEF Before, Expected, LinesOf

\* The lines of the file that is read.
LEMMA FileFacts ==
  ASSUME TypeOK, CutInv, rpc \in {"read", "deal"}
  PROVE  /\ file.lines \in Seq(Puzzles) /\ Before(Opened - 1) \in Seq(Puzzles)
         /\ Before(Opened) = Before(Opened - 1) \o file.lines
<1>1. Opened - 1 \in Nat /\ (Opened - 1) + 1 = Opened /\ file = typed[Opened]
  BY DEF CutInv
<1>2. Opened - 1 < Len(typed) /\ typed \in Seq(Files)
  <2>1. Len(filenameBuffer) \in Nat /\ Len(typed) \in Nat /\ typed \in Seq(Files)
    BY DEF TypeOK
  <2>. QED BY <1>1, <2>1 DEF Opened
<1>. QED BY <1>1, <1>2, BeforeNext

-----------------------------------------------------------------------------
LEMMA CutInit == Init => CutInv
<1> SUFFICES ASSUME Init PROVE CutInv
  OBVIOUS
<1>1. Opened = 0 /\ typed = <<>>
  BY DEF Init, Opened
<1>2. Before(0) = <<>>
  <2>1. SubSeq(<<>>, 1, 0) = <<>>
    OBVIOUS
  <2>. QED BY <1>1, <2>1, LinesOfEmpty DEF Before
<1>. QED BY <1>1, <1>2 DEF Init, CutInv

\* Steps that do not concern the reader.
LEMMA CutKept ==
  ASSUME CutInv, UNCHANGED <<typed, filenameBuffer, dealt, rpc, line, fileVars>>
  PROVE  CutInv'
BY DEF CutInv, Opened, Before, Cut, IsCut, InBatch, At, Expected, fileVars

\* A name that is typed comes after all others; the lock is free only while the reader has not
\* found the end.
LEMMA ReadNameCut ==
  ASSUME TypeOK, ReadersInv, CutInv, NEW f \in Files, ReadName(f)
  PROVE  CutInv'
<1>1. /\ typed \in Seq(Files) /\ filenameBuffer \in Seq(Files)
      /\ typed' = Append(typed, f) /\ filenameBuffer' = Append(filenameBuffer, f)
  BY DEF ReadName, TypeOK
<1>2. UNCHANGED <<dealt, rpc, line, fileVars>> /\ rpc \notin {"empty", "eof", "end"}
  BY DEF ReadName, FilenameLockFree, ReadersInv, NoNameLost, dealVars
<1>3. Opened' = Opened /\ Opened \in Nat /\ Opened + Len(filenameBuffer) = Len(typed)
  <2>1. Opened \in Nat
    BY DEF CutInv
  <2>. QED BY <1>1, <2>1 DEF Opened
<1>4. ASSUME NEW k \in 0..Len(typed) PROVE Before(k)' = Before(k)
  <2>1. SubSeq(Append(typed, f), 1, k) = SubSeq(typed, 1, k)
    BY <1>1
  <2>. QED BY <1>1, <2>1 DEF Before
<1>5. \A j \in DOMAIN filenameBuffer' : filenameBuffer'[j] = typed'[Opened' + j]
  <2>1. \A j \in DOMAIN filenameBuffer : filenameBuffer[j] = typed[Opened + j]
    BY DEF CutInv
  <2>. QED BY <1>1, <1>3, <2>1
<1>6. rpc = "loop" => dealt' = Before(Opened)'
  <2>1. Opened \in 0..Len(typed)
    BY <1>1, <1>3
  <2>. QED BY <1>2, <1>3, <1>4, <2>1 DEF CutInv
<1>7. ASSUME rpc \in {"read", "deal"}
      PROVE  Opened' > 0 /\ file' = typed'[Opened'] /\ Before(Opened - 1)' = Before(Opened - 1)
  <2>1. Opened > 0 /\ file = typed[Opened]
    BY <1>7 DEF CutInv
  <2>2. Opened - 1 \in 0..Len(typed) /\ Opened \in 1..Len(typed)
    BY <1>1, <1>3, <2>1
  <2>. QED BY <1>1, <1>2, <1>3, <1>4, <2>1, <2>2 DEF fileVars
<1>8. rpc = "read" => \E q \in Nat : At(q)' /\ Cut(q)'
  BY <1>2, <1>3, <1>7 DEF CutInv, At, Cut, fileVars
<1>9. rpc = "deal" => \E q \in Nat : InBatch(q)'
  BY <1>2, <1>3, <1>7 DEF CutInv, At, Cut, InBatch, fileVars
<1>. QED BY <1>2, <1>3, <1>5, <1>6, <1>7, <1>8, <1>9 DEF CutInv, ReadersInv

\* Nobody reads or types: the rest of the steps of the two readers.
LEMMA NoNameCut ==
  ASSUME CutInv, NoName
  PROVE  CutInv'
BY DEF CutInv, Opened, Before, NoName, nameVars, dealVars

LEMMA EndsType == Ends \in Seq(Slots) /\ Len(Ends) = N /\ \A i \in 1..N : Ends[i] = NULL
BY Numbers DEF Ends, Slots

LEMMA ExpectedType ==
  ASSUME TypeOK
  PROVE  Expected \in Seq(Puzzles) /\ Expected \in Seq(Slots) /\ Before(Len(typed)) = Expected
<1>1. Expected \in Seq(Puzzles) /\ Before(Len(typed)) = Expected
  BY BeforeAll DEF TypeOK
<1>2. Seq(Puzzles) \subseteq Seq(Slots)
  BY DEF Slots
<1>. QED BY <1>1, <1>2

LEMMA NoMoreNamesCut ==
  ASSUME TypeOK, ReadersInv, CutInv, NoMoreNames
  PROVE  CutInv'
<1>1. /\ rpc = "empty" /\ rpc' \in {"loop", "eof"} /\ line' = 0 /\ filenameBuffer = <<>>
      /\ UNCHANGED <<typed, filenameBuffer, dealt, fileVars>>
  BY DEF NoMoreNames, ReadersInv, nameVars, dealVars
<1>2. dealt = Before(Opened) /\ Opened = Len(typed)
  <2>1. Len(typed) \in Nat
    BY DEF TypeOK
  <2>. QED BY <1>1, <2>1 DEF CutInv, Opened
<1>3. Opened' = Opened /\ Before(Opened)' = Before(Opened) /\ Expected' = Expected
  BY <1>1 DEF Opened, Before, Expected
<1>4. IsCut(Expected, Expected, Ends, 0)
  BY ExpectedType, EndsType, IsCutNone
<1>5. rpc' = "eof" => line' < N /\ IsCut(dealt', Expected', Ends, line')
  BY <1>1, <1>2, <1>3, <1>4, ExpectedType, Numbers
<1>. QED BY <1>1, <1>2, <1>3, <1>5 DEF CutInv, Ends

LEMMA EofCut ==
  ASSUME TypeOK, CutInv, eofIntoProblemBuffer
  PROVE  CutInv'
<1>1. /\ rpc = "eof" /\ line' = line + 1 /\ rpc' = (IF line + 1 = N THEN "end" ELSE "eof")
      /\ dealt' = Added(dealt, NULL) /\ UNCHANGED <<typed, filenameBuffer, fileVars>>
  BY DEF eofIntoProblemBuffer, problemWriter, Added, nameVars
<1>2. line \in Nat /\ line < N /\ IsCut(dealt, Expected, Ends, line)
  BY <1>1 DEF CutInv, TypeOK
<1>3. Opened' = Opened /\ Expected' = Expected
  BY <1>1 DEF Opened, Expected
<1>4. line + 1 \in 1..N /\ line + 1 <= N
  BY <1>2, Numbers
<1>5. IsCut(Added(dealt, NULL), Expected, Ends, line + 1)
  <2>1. Expected \in Seq(Slots) /\ Ends \in Seq(Slots) /\ line < Len(Ends) /\ Ends[line + 1] = NULL
    BY <1>2, <1>4, ExpectedType, EndsType
  <2>2. IsCut(Added(dealt, Ends[line + 1]), Expected, Ends, line + 1)
    BY <1>2, <2>1, IsCutNext
  <2>. QED BY <2>1, <2>2
<1>6. IsCut(dealt', Expected', Ends, line')
  BY <1>1, <1>3, <1>5
<1>. QED BY <1>1, <1>3, <1>4, <1>6, Numbers DEF CutInv, Ends

\* The reader begins at the beginning of the file.
LEMMA OpenFileAt ==
  ASSUME TypeOK, OpenFile, file'.lines # <<>>
  PROVE  At(0)'
<1>1. file' \in Files
  BY DEF OpenFile, TypeOK
<1>2. Size(file') \in Nat /\ (Size(file') + SizeT - 1) % SizeT = Size(file') - 1
  BY <1>1, SizeFacts
<1>3. 0 % Batch = 0 /\ LINE * 0 = 0
  BY Numbers
<1>. QED BY <1>1, <1>2, <1>3 DEF At, OpenFile

LEMMA OpenFileCut ==
  ASSUME AllReadable, TypeOK, CutInv, OpenFile
  PROVE  CutInv'
<1>1. /\ rpc = "loop" /\ rpc' = "read" /\ filenameBuffer # <<>>
      /\ file' = Head(filenameBuffer) /\ filenameBuffer' = Tail(filenameBuffer)
      /\ UNCHANGED <<typed, dealt>>
  BY DEF OpenFile, dealVars
<1>2. filenameBuffer \in Seq(Files) /\ typed \in Seq(Files) /\ file' \in Files
  BY <1>1 DEF TypeOK
<1>3. /\ Opened \in Nat /\ dealt = Before(Opened)
      /\ \A j \in DOMAIN filenameBuffer : filenameBuffer[j] = typed[Opened + j]
  BY <1>1 DEF CutInv
<1>4. Opened' = Opened + 1 /\ Opened + 1 <= Len(typed)
  BY <1>1, <1>2, <1>3 DEF Opened
<1>5. file' = typed[Opened + 1]
  BY <1>1, <1>2, <1>3
<1>6. \A j \in DOMAIN filenameBuffer' : filenameBuffer'[j] = typed'[Opened' + j]
  <2>1. ASSUME NEW j \in DOMAIN Tail(filenameBuffer)
        PROVE  Tail(filenameBuffer)[j] = typed[(Opened + 1) + j]
    <3>1. j + 1 \in DOMAIN filenameBuffer /\ Tail(filenameBuffer)[j] = filenameBuffer[j + 1]
          /\ (Opened + 1) + j = Opened + (j + 1)
      BY <1>1, <1>2, <1>3
    <3>. QED BY <1>3, <3>1
  <2>. QED BY <1>1, <1>4, <2>1
<1>7. Before(Opened - 1)' = Before(Opened) /\ Before(Opened) \in Seq(Puzzles)
  <2>1. Opened' - 1 = Opened /\ Opened \in Nat /\ Opened < Len(typed)
    BY <1>2, <1>3, <1>4
  <2>. QED BY <1>1, <1>2, <2>1, BeforeNext DEF Before
<1>8. file'.lines \in Seq(Puzzles) /\ file'.lines # <<>>
  BY <1>2, SizeFacts DEF AllReadable, Readable
<1>9. Cut(0)'
  <2>1. IsCut(Before(Opened), Before(Opened), file'.lines, 0)
    BY <1>7, <1>8, IsCutNone
  <2>. QED BY <1>1, <1>3, <1>7, <2>1 DEF Cut
<1>10. At(0)'
  BY <1>8, OpenFileAt
<1>11. \E q \in Nat : At(q)' /\ Cut(q)'
  BY <1>9, <1>10
<1>. QED BY <1>1, <1>3, <1>4, <1>5, <1>6, <1>11 DEF CutInv

LEMMA ReadBatchCut ==
  ASSUME TypeOK, CutInv, ReadBatch
  PROVE  CutInv'
<1> DEFINE B == LINE * Batch
<1>1. /\ rpc = "read" /\ rpc' = "deal" /\ WholeBatch
      /\ lineBuf' = [i \in 0..(Batch - 1) |->
                       IF i < (BytesRead(B - 1) + 1) \div LINE
                       THEN file.lines[(pos \div LINE) + i + 1] ELSE lineBuf[i]]
      /\ lines' = Batch /\ line' = 0 /\ after' = "read" /\ pos' = (pos + B) % SizeT
      /\ UNCHANGED <<typed, filenameBuffer, dealt, file, lastSize>>
  BY DEF ReadBatch, readAt, nameVars, dealVars
<1>2. Opened > 0 /\ file = typed[Opened]
  BY <1>1 DEF CutInv
<1>3. PICK q \in Nat : At(q) /\ Cut(q)
  BY <1>1 DEF CutInv
<1>4. /\ (BytesRead(B - 1) + 1) \div LINE = Batch /\ pos \div LINE = q
      /\ q + Batch <= Len(file.lines) /\ (pos + B) % SizeT = LINE * (q + Batch)
      /\ LINE * (q + Batch) <= Size(file) /\ (q + Batch) % Batch = 0 /\ q + Batch \in Nat
  BY <1>1, <1>3, BatchRead, Numbers
<1> HIDE DEF B
<1>5. \A i \in 0..(Batch - 1) : lineBuf'[i] = file.lines[q + i + 1]
  <2>1. \A i \in 0..(Batch - 1) : i < Batch
    BY Numbers
  <2>. QED BY <1>1, <1>4, <2>1
<1>6. At(q + Batch)'
  BY <1>1, <1>3, <1>4 DEF At
<1>7. Cut(q + 0)'
  <2>1. q + 0 = q
    OBVIOUS
  <2>. QED BY <1>1, <1>3, <2>1 DEF Cut, Before, Opened
<1>8. InBatch(q)'
  BY <1>1, <1>4, <1>5, <1>6, <1>7 DEF InBatch
<1>9. \E p \in Nat : InBatch(p)'
  BY <1>8
<1>. QED BY <1>1, <1>2, <1>9 DEF CutInv, Opened

\* A file that can be read to its end leaves no line behind.
LEMMA TailWhole ==
  ASSUME AllReadable, NEW q, At(q), q = Len(file.lines) \/ (~file.nl /\ q = Len(file.lines) - 1)
  PROVE  q = Len(file.lines)
BY DEF AllReadable, Readable, At

\* All the lines of its file are dealt.
LEMMA FileDealt ==
  ASSUME TypeOK, CutInv, rpc \in {"read", "deal"}, NEW d, NEW q, q = Len(file.lines),
         IsCut(d, Before(Opened - 1), file.lines, q)
  PROVE  d = Before(Opened)
<1>1. /\ file.lines \in Seq(Puzzles) /\ Before(Opened - 1) \in Seq(Puzzles)
      /\ Before(Opened) = Before(Opened - 1) \o file.lines
  BY FileFacts
<1>2. IsCut(d, Before(Opened - 1), file.lines, Len(file.lines))
  OBVIOUS
<1>3. d = Before(Opened - 1) \o file.lines
  <2>1. SubSeq(file.lines, 1, Len(file.lines)) = file.lines
    BY <1>1
  <2>. QED BY <1>2, <2>1 DEF IsCut
<1>. QED BY <1>1, <1>3

\* The rest of a file is dealt whole, or there is none.
LEMMA ReadTailCut ==
  ASSUME AllReadable, TypeOK, CutInv, ReadTail
  PROVE  CutInv'
<1>1. /\ rpc = "read" /\ ~WholeBatch /\ line' = 0
      /\ UNCHANGED <<typed, filenameBuffer, dealt, file, pos, lastSize>>
  BY DEF ReadTail, nameVars, dealVars
<1>2. Opened > 0 /\ file = typed[Opened]
  BY <1>1 DEF CutInv
<1>3. PICK q \in Nat : At(q) /\ Cut(q)
  BY <1>1 DEF CutInv
<1>4. Opened' = Opened /\ Before(Opened)' = Before(Opened) /\ Before(Opened - 1)' = Before(Opened - 1)
  BY <1>1 DEF Opened, Before
<1>5. CASE ~(Left \div LINE > 0)
  <2>1. rpc' = "loop"
    BY <1>5 DEF ReadTail, Left
  <2>2. q = Len(file.lines)
    BY <1>1, <1>3, <1>5, TailRead, TailWhole
  <2>3. dealt = Before(Opened)
    BY <1>1, <1>3, <2>2, FileDealt DEF Cut
  <2>. QED BY <1>1, <1>4, <2>1, <2>3 DEF CutInv
<1>6. CASE Left \div LINE > 0
  <2> DEFINE n == (BytesRead(Left) + 1) \div LINE
  <2>1. /\ lineBuf' = [i \in 0..(Batch - 1) |->
                         IF i < n THEN file.lines[(pos \div LINE) + i + 1] ELSE lineBuf[i]]
        /\ lines' = n /\ rpc' = (IF n > 0 THEN "deal" ELSE "loop") /\ after' = "loop"
    BY <1>6 DEF ReadTail, readAt, TailLines, Left
  <2>2. n = Len(file.lines) - q /\ n \in 1..Batch /\ pos \div LINE = q /\ Len(file.lines) \in Nat
    BY <1>1, <1>3, <1>6, TailRead, AtFacts
  <2> HIDE DEF n
  <2>3. \A i \in 0..(n - 1) : i \in 0..(Batch - 1) /\ i < n
    BY <2>2, Numbers
  <2>4. \A i \in 0..(n - 1) : lineBuf'[i] = file.lines[q + i + 1]
    BY <2>1, <2>2, <2>3
  <2>5. Cut(q + 0)'
    <3>1. q + 0 = q
      OBVIOUS
    <3>. QED BY <1>1, <1>3, <1>4, <3>1 DEF Cut
  <2>6. rpc' = "deal" /\ q + n <= Len(file.lines) /\ q + n = Len(file.lines)
    BY <2>1, <2>2, Numbers
  <2>7. InBatch(q)'
    BY <1>1, <2>1, <2>4, <2>5, <2>6 DEF InBatch
  <2>8. \E p \in Nat : InBatch(p)'
    BY <2>7
  <2>. QED BY <1>1, <1>2, <1>4, <2>6, <2>8 DEF CutInv
<1>. QED BY <1>5, <1>6

\* After the last line of a batch the next one begins, after the last of a file all of it is dealt.
LEMMA DealLineCut ==
  ASSUME TypeOK, CutInv, DealLine
  PROVE  CutInv'
<1>1. /\ rpc = "deal" /\ line' = line + 1 /\ dealt' = Added(dealt, lineBuf[line])
      /\ rpc' = (IF line + 1 = lines THEN after ELSE "deal")
      /\ UNCHANGED <<typed, filenameBuffer, file, pos, lastSize, lineBuf, lines, after>>
  BY DEF DealLine, problemWriter, Added, nameVars, fileVars
<1>2. Opened > 0 /\ file = typed[Opened]
  BY <1>1 DEF CutInv
<1>3. PICK q \in Nat : InBatch(q)
  BY <1>1 DEF CutInv
<1>4. Opened' = Opened /\ Before(Opened)' = Before(Opened) /\ Before(Opened - 1)' = Before(Opened - 1)
  BY <1>1 DEF Opened, Before
<1>5. line \in Nat /\ lines \in Nat /\ line < lines /\ after \in {"loop", "read"}
  BY <1>1 DEF TypeOK
<1>6. /\ file.lines \in Seq(Puzzles) /\ Before(Opened - 1) \in Seq(Puzzles)
      /\ Before(Opened) = Before(Opened - 1) \o file.lines
  BY <1>1, FileFacts
<1>7. /\ q + lines <= Len(file.lines) /\ Cut(q + line)
      /\ \A i \in 0..(lines - 1) : lineBuf[i] = file.lines[q + i + 1]
      /\ after = "read" => At(q + lines)
      /\ after = "loop" => q + lines = Len(file.lines)
  BY <1>3 DEF InBatch
<1>8. lineBuf[line] = file.lines[(q + line) + 1] /\ q + line \in Nat /\ q + line < Len(file.lines)
      /\ (q + line) + 1 = q + (line + 1)
  BY <1>5, <1>6, <1>7
<1>9. IsCut(Added(dealt, lineBuf[line]), Before(Opened - 1), file.lines, q + (line + 1))
  <2>1. IsCut(Added(dealt, file.lines[(q + line) + 1]), Before(Opened - 1), file.lines, (q + line) + 1)
    BY <1>6, <1>7, <1>8, IsCutNext DEF Cut
  <2>. QED BY <1>8, <2>1
<1>10. Cut(q + line)'
  BY <1>1, <1>4, <1>9 DEF Cut
<1>11. CASE line + 1 # lines
  <2>1. InBatch(q)'
    BY <1>1, <1>7, <1>10 DEF InBatch, At
  <2>2. \E p \in Nat : InBatch(p)'
    BY <2>1
  <2>. QED BY <1>1, <1>2, <1>4, <1>11, <2>2 DEF CutInv
<1>12. CASE line + 1 = lines /\ after = "read"
  <2>1. At(q + lines)' /\ Cut(q + lines)' /\ (q + lines)' \in Nat
    BY <1>1, <1>5, <1>7, <1>10, <1>12 DEF At
  <2>2. \E p \in Nat : At(p)' /\ Cut(p)'
    BY <2>1
  <2>. QED BY <1>1, <1>2, <1>4, <1>12, <2>2 DEF CutInv
<1>13. CASE line + 1 = lines /\ after = "loop"
  <2>1. dealt' = Before(Opened)
    BY <1>1, <1>7, <1>9, <1>13, FileDealt
  <2>. QED BY <1>1, <1>4, <1>13, <2>1 DEF CutInv
<1>. QED BY <1>5, <1>11, <1>12, <1>13

LEMMA CutNext ==
  ASSUME AllReadable, TypeOK, ReadersInv, CutInv, [Next]_vars
  PROVE  CutInv'
<1> DEFINE Kept == UNCHANGED <<typed, filenameBuffer, dealt, rpc, line, fileVars>>
<1>1. CASE UNCHANGED vars
  <2>1. Kept
    BY <1>1 DEF vars, nameVars, dealVars
  <2>. QED BY <2>1, CutKept
<1>2. ASSUME NEW f \in Files, ReadName(f) PROVE CutInv'
  BY <1>2, ReadNameCut
<1>3. CASE EndOfNames
  <2>1. Kept
    BY <1>3 DEF EndOfNames, dealVars
  <2>. QED BY <2>1, CutKept
<1>4. ASSUME NEW s \in Solvers, solveManager(s) PROVE CutInv'
  <2>1. Kept
    BY <1>4 DEF solveManager, GetProblem, PutResult, nameVars, dealVars
  <2>. QED BY <2>1, CutKept
<1>5. CASE answerPrinter
  <2>1. Kept
    BY <1>5 DEF answerPrinter, PrintAnswer, PrintEnd, nameVars, dealVars
  <2>. QED BY <2>1, CutKept
<1>6. CASE problemReadThread
  BY <1>6, NoNameCut, NoMoreNamesCut, EofCut, OpenFileCut, ReadBatchCut, ReadTailCut, DealLineCut
     DEF problemReadThread
<1>. QED BY <1>1, <1>2, <1>3, <1>4, <1>5, <1>6 DEF Next

-----------------------------------------------------------------------------
(* What was dealt is what was typed *)

\* d is the beginning of e.
Leads(d, e) == Len(d) <= Len(e) /\ \A k \in 1..Len(d) : d[k] = e[k]

\* A cut is a beginning of the whole.
LEMMA LeadsCut ==
  ASSUME NEW T, NEW a \in Seq(T), NEW l \in Seq(T), NEW m \in 0..Len(l), NEW d, IsCut(d, a, l, m)
  PROVE  d \in Seq(T) /\ Leads(d, a \o l)
<1>1. /\ d \in Seq(T) /\ Len(d) = Len(a) + m
      /\ \A i \in 1..Len(a) : d[i] = a[i]
      /\ \A i \in 1..m : d[Len(a) + i] = l[i]
  BY IsCutFacts
<1>2. ASSUME NEW k \in 1..Len(d) PROVE d[k] = (a \o l)[k]
  <2>1. CASE k <= Len(a)
    BY <1>1, <2>1
  <2>2. CASE k > Len(a)
    <3>1. k - Len(a) \in 1..m /\ Len(a) + (k - Len(a)) = k
      BY <1>1, <2>2
    <3>2. d[k] = l[k - Len(a)]
      BY <1>1, <3>1
    <3>3. (a \o l)[k] = l[k - Len(a)]
      BY <1>1, <2>2, <3>1
    <3>. QED BY <3>2, <3>3
  <2>. QED BY <1>1, <2>1, <2>2
<1>3. Len(d) <= Len(a \o l)
  BY <1>1
<1>. QED BY <1>1, <1>2, <1>3 DEF Leads

LEMMA LeadsJoin ==
  ASSUME NEW T, NEW d \in Seq(T), NEW e \in Seq(T), NEW r \in Seq(T), Leads(d, e)
  PROVE  Leads(d, e \o r)
BY DEF Leads

\* The files that were opened are a part of those that were typed.
LEMMA OpenedLeads ==
  ASSUME TypeOK, CutInv, NEW d \in Seq(Puzzles), Leads(d, Before(Opened))
  PROVE  Leads(d, Expected)
<1>1. Opened \in 0..Len(typed) /\ typed \in Seq(Files)
  <2>1. Opened \in Nat /\ Len(filenameBuffer) \in Nat /\ Len(typed) \in Nat
    BY DEF TypeOK, CutInv
  <2>. QED BY <2>1 DEF Opened, TypeOK
<1>2. PICK r \in Seq(Puzzles) : LinesOf(typed) = LinesOf(SubSeq(typed, 1, Opened)) \o r
  BY <1>1, LinesOfPrefix
<1>3. Expected = Before(Opened) \o r
  BY <1>2 DEF Before, Expected, LinesOf
<1>4. Before(Opened) \in Seq(Puzzles)
  BY <1>1, LinesOfType DEF Before
<1>5. Leads(d, Before(Opened) \o r)
  BY <1>2, <1>4, LeadsJoin
<1>. QED BY <1>3, <1>5

\* The reader does not leave its file.
LEMMA AtInside ==
  ASSUME NEW q, At(q)
  PROVE  q \in 0..Len(file.lines)
<1>1. /\ Len(file.lines) \in Nat /\ Size(file) = LINE * Len(file.lines) - (IF file.nl THEN 0 ELSE 1)
      /\ q \in Nat /\ LINE * q <= Size(file)
  BY AtFacts DEF At
<1>2. LINE * Len(file.lines) \in Nat /\ LINE * q \in Nat
  BY <1>1, Numbers
<1>3. LINE * q <= LINE * Len(file.lines) + 1
  BY <1>1, <1>2
<1>4. q <= Len(file.lines)
  BY <1>1, <1>3, LineBound
<1>. QED BY <1>1, <1>4

\* While the reader cuts, what it dealt is a part of what was typed.
LEMMA ReadingLeads ==
  ASSUME TypeOK, CutInv, rpc \in {"read", "deal"}
  PROVE  dealt \in Seq(Puzzles) /\ Leads(dealt, Expected)
<1>1. /\ file.lines \in Seq(Puzzles) /\ Before(Opened - 1) \in Seq(Puzzles)
      /\ Before(Opened) = Before(Opened - 1) \o file.lines
  BY FileFacts
<1>2. \E m \in 0..Len(file.lines) : Cut(m)
  <2>1. CASE rpc = "read"
    BY <2>1, AtInside DEF CutInv
  <2>2. CASE rpc = "deal"
    <3>1. PICK q \in Nat : InBatch(q)
      BY <2>2 DEF CutInv
    <3>2. line \in Nat /\ lines \in Nat /\ line < lines
      BY <2>2 DEF TypeOK
    <3>3. q + line \in 0..Len(file.lines)
      BY <1>1, <3>1, <3>2 DEF InBatch
    <3>. QED BY <3>1, <3>3 DEF InBatch
  <2>. QED BY <2>1, <2>2
<1>3. PICK m \in 0..Len(file.lines) : IsCut(dealt, Before(Opened - 1), file.lines, m)
  BY <1>2 DEF Cut
<1>4. dealt \in Seq(Puzzles) /\ Leads(dealt, Before(Opened))
  BY <1>1, <1>3, LeadsCut
<1>. QED BY <1>4, OpenedLeads

LEMMA WaitingLeads ==
  ASSUME TypeOK, CutInv, rpc \in {"loop", "empty"}
  PROVE  dealt \in Seq(Puzzles) /\ Leads(dealt, Expected)
<1>1. Opened \in 0..Len(typed) /\ typed \in Seq(Files) /\ dealt = Before(Opened)
  <2>1. Opened \in Nat /\ Len(filenameBuffer) \in Nat /\ Len(typed) \in Nat
    BY DEF TypeOK, CutInv
  <2>. QED BY <2>1 DEF Opened, TypeOK, CutInv
<1>2. Before(Opened) \in Seq(Puzzles)
  BY <1>1, LinesOfType DEF Before
<1>3. Leads(dealt, Before(Opened))
  BY <1>1, <1>2 DEF Leads
<1>. QED BY <1>1, <1>2, <1>3, OpenedLeads

\* Until the names end, the lines of the files; after that, end markers.
LEMMA Dealt ==
  ASSUME TypeOK, CutInv
  PROVE  /\ DealtAsTyped
         /\ \A k \in DOMAIN dealt : dealt[k] = NULL <=> k > Len(Expected)
         /\ \A k \in DOMAIN dealt : k > Len(Expected) => rpc \in {"eof", "end"}
<1>1. Expected \in Seq(Puzzles) /\ Expected \in Seq(Slots) /\ dealt \in Seq(Slots)
  BY ExpectedType DEF TypeOK
<1>2. CASE rpc \notin {"eof", "end"}
  <2>1. Leads(dealt, Expected)
    BY <1>2, ReadingLeads, WaitingLeads DEF TypeOK
  <2>2. \A k \in DOMAIN dealt : k <= Len(Expected) /\ dealt[k] = Expected[k]
    BY <1>1, <2>1 DEF Leads
  <2>. QED BY <1>1, <2>2, SudokuAssumption DEF DealtAsTyped
<1>3. CASE rpc \in {"eof", "end"}
  <2>1. PICK m \in 0..N : IsCut(dealt, Expected, Ends, m)
    <3>1. CASE rpc = "eof"
      <4>1. line \in 0..N
        <5>1. line \in Nat /\ line < N
          BY <3>1 DEF CutInv, TypeOK
        <5>. QED BY <5>1, Numbers
      <4>2. IsCut(dealt, Expected, Ends, line)
        BY <3>1 DEF CutInv
      <4>. QED BY <4>1, <4>2
    <3>2. CASE rpc = "end"
      <4>1. N \in 0..N /\ IsCut(dealt, Expected, Ends, N)
        BY <3>2, Numbers DEF CutInv
      <4>. QED BY <4>1
    <3>. QED BY <1>3, <3>1, <3>2
  <2>2. /\ Len(dealt) = Len(Expected) + m
        /\ \A i \in 1..Len(Expected) : dealt[i] = Expected[i]
        /\ \A i \in 1..m : dealt[Len(Expected) + i] = Ends[i]
    <3>1. Expected \in Seq(Slots) /\ Ends \in Seq(Slots) /\ m \in 0..Len(Ends)
      BY <1>1, EndsType
    <3>. QED BY <2>1, <3>1, IsCutFacts
  <2>3. ASSUME NEW k \in DOMAIN dealt
        PROVE  dealt[k] = (IF k <= Len(Expected) THEN Expected[k] ELSE NULL)
    <3>1. CASE k <= Len(Expected)
      BY <1>1, <2>2, <3>1
    <3>2. CASE k > Len(Expected)
      <4>1. k - Len(Expected) \in 1..m /\ Len(Expected) + (k - Len(Expected)) = k
        BY <1>1, <2>2, <3>2
      <4>2. dealt[k] = Ends[k - Len(Expected)] /\ k - Len(Expected) \in 1..N
        BY <2>2, <4>1, Numbers
      <4>. QED BY <1>1, <3>2, <4>2, EndsType
    <3>. QED BY <1>1, <3>1, <3>2
  <2>4. \A k \in 1..Len(Expected) : Expected[k] # NULL
    BY <1>1, SudokuAssumption
  <2>5. ASSUME NEW k \in DOMAIN dealt PROVE dealt[k] = NULL <=> k > Len(Expected)
    BY <1>1, <2>3, <2>4
  <2>. QED BY <1>3, <2>3, <2>5 DEF DealtAsTyped
<1>. QED BY <1>2, <1>3

LEMMA CutAlways ==
  ASSUME AllReadable
  PROVE  Spec => [](PipeInv /\ ReadersInv /\ CutInv)
<1>1. Init => PipeInv /\ ReadersInv /\ CutInv
  BY PipeInit, ReadersInit, CutInit
<1>2. PipeInv /\ ReadersInv /\ CutInv /\ [Next]_vars => (PipeInv /\ ReadersInv /\ CutInv)'
  <2> SUFFICES ASSUME PipeInv, ReadersInv, CutInv, [Next]_vars
               PROVE  PipeInv' /\ ReadersInv' /\ CutInv'
    OBVIOUS
  <2>1. TypeOK
    BY DEF PipeInv
  <2>. QED BY <2>1, PipeNext, ReadersNext, CutNext
<1>. QED BY <1>1, <1>2, PTL DEF Spec

\* The puzzles of the files, in the order of their names, and then the end markers are what is
\* dealt (DealtAsTyped; fileManager.cpp 62-125), whatever the sizes of the files and of a batch,
\* when no file is empty and no last line without a newline is alone in its batch.
THEOREM CutRight == ASSUME AllReadable PROVE Spec => []DealtAsTyped
<1>1. PipeInv /\ ReadersInv /\ CutInv => DealtAsTyped
  BY Dealt DEF PipeInv
<1>. QED BY <1>1, CutAlways, PTL

-----------------------------------------------------------------------------
(* What is printed *)

\* What is printed, or ready to be, is the answers in order; after an end marker it is all of them.
PrintInv ==
  /\ resultNumber = Len(out) + Len(resultBuf) + endNumber
  /\ Len(out) + Len(resultBuf) <= Len(Expected)
  /\ \A k \in 1..Len(out) : out[k] = Answer(Expected[k])
  /\ \A k \in 1..Len(resultBuf) : resultBuf[k] = Answer(Expected[Len(out) + k])
  /\ endNumber > 0 => Len(out) + Len(resultBuf) = Len(Expected) /\ ~readFile
  /\ ppc = "end" => endNumber = N /\ resultBuf = <<>>

\* The types of what is printed.
LEMMA PrintTypes ==
  ASSUME TypeOK
  PROVE  /\ out \in Seq(Results) /\ resultBuf \in Seq(Results) /\ Len(resultBuf) < Batch
         /\ Len(out) \in Nat /\ Len(resultBuf) \in Nat /\ endNumber \in Nat
         /\ Expected \in Seq(Puzzles) /\ Len(Expected) \in Nat
BY ExpectedType DEF TypeOK

LEMMA PrintInit == Init => PrintInv
<1> SUFFICES ASSUME Init PROVE PrintInv
  OBVIOUS
<1>1. Len(Expected) \in Nat
  <2>1. typed \in Seq(Files)
    BY DEF Init
  <2>2. Expected \in Seq(Puzzles)
    BY <2>1, BeforeAll
  <2>. QED BY <2>2
<1>. QED BY <1>1 DEF Init, PrintInv

\* Steps that print nothing and name nothing.
LEMMA PrintKept ==
  ASSUME PrintInv, UNCHANGED <<typed, printVars>>, readFile' => readFile
  PROVE  PrintInv'
BY DEF PrintInv, Expected, printVars

\* More names leave what was printed as it is.
LEMMA ReadNamePrint ==
  ASSUME TypeOK, PrintInv, NEW f \in Files, ReadName(f)
  PROVE  PrintInv'
<1>1. typed \in Seq(Files) /\ typed' = Append(typed, f) /\ readFile /\ UNCHANGED printVars
  BY DEF ReadName, TypeOK
<1>2. Expected' = Expected \o f.lines
  <2>1. LinesOf(Append(typed, f)) = LinesOf(typed) \o f.lines
    BY <1>1, LinesOfAppend
  <2>2. Expected' = LinesOf(Append(typed, f)) /\ Expected = LinesOf(typed)
    BY <1>1 DEF Expected, LinesOf
  <2>. QED BY <2>1, <2>2
<1>3. /\ out \in Seq(Results) /\ resultBuf \in Seq(Results)
      /\ Expected \in Seq(Puzzles) /\ f.lines \in Seq(Puzzles)
  BY PrintTypes, SizeFacts
<1>4. /\ Len(Expected') \in Nat /\ Len(Expected) <= Len(Expected')
      /\ \A k \in 1..Len(Expected) : Expected'[k] = Expected[k]
  BY <1>2, <1>3
<1>5. /\ UNCHANGED <<out, resultBuf, resultNumber, endNumber, ppc>>
      /\ endNumber > 0 => ~readFile
      /\ Len(out) \in Nat /\ Len(resultBuf) \in Nat /\ Len(Expected) \in Nat
  BY <1>1, <1>3 DEF printVars, PrintInv
<1>6. \A k \in 1..Len(out) : out[k] = Answer(Expected'[k])
  BY <1>4, <1>5, SMTT(30) DEF PrintInv
<1>7. \A k \in 1..Len(resultBuf) : resultBuf[k] = Answer(Expected'[Len(out) + k])
  <2>1. \A k \in 1..Len(resultBuf) : Len(out) + k \in 1..Len(Expected)
    BY <1>5 DEF PrintInv
  <2>. QED BY <1>4, <2>1 DEF PrintInv
<1>8. Len(out) + Len(resultBuf) <= Len(Expected')
  BY <1>4, <1>5 DEF PrintInv
<1>9. /\ resultNumber = Len(out) + Len(resultBuf) + endNumber /\ ~(endNumber > 0)
      /\ ppc = "end" => endNumber = N /\ resultBuf = <<>>
  BY <1>1, <1>5 DEF PrintInv
<1>. QED BY <1>5, <1>6, <1>7, <1>8, <1>9 DEF PrintInv

\* What the printer takes is the answer to the next puzzle, as long as there is one, and then
\* an end marker.
LEMMA PrintNext ==
  ASSUME PipeInv, ReadersInv, CutInv, PrintInv, NEW x,
         resultBuffer[NextSolver(resultNumber + 1)] # <<>>,
         x = Head(resultBuffer[NextSolver(resultNumber + 1)])
  PROVE  /\ x # NULL => /\ endNumber = 0 /\ Len(out) + Len(resultBuf) + 1 <= Len(Expected)
                        /\ x = Answer(Expected[Len(out) + Len(resultBuf) + 1])
         /\ x = NULL => Len(out) + Len(resultBuf) = Len(Expected) /\ ~readFile
<1> DEFINE n == Len(out) + Len(resultBuf)
<1>1. n \in Nat /\ Len(Expected) \in Nat /\ endNumber \in Nat /\ n <= Len(Expected)
      /\ resultNumber = n + endNumber /\ (endNumber > 0 => n = Len(Expected))
  BY PrintTypes DEF PrintInv, PipeInv
<1>2. resultNumber + 1 \in 1..Len(dealt) /\ Plain(x) = dealt[resultNumber + 1] /\ x \in Results
  BY PrintTurn
<1>3. dealt \in Seq(Slots) /\ TypeOK
  BY DEF PipeInv, TypeOK
<1>4. /\ DealtAsTyped /\ resultNumber + 1 \in DOMAIN dealt
      /\ dealt[resultNumber + 1] = NULL <=> resultNumber + 1 > Len(Expected)
      /\ resultNumber + 1 > Len(Expected) => rpc \in {"eof", "end"}
  BY <1>2, <1>3, Dealt
<1> HIDE DEF n
<1>5. ASSUME x # NULL
      PROVE  endNumber = 0 /\ n + 1 <= Len(Expected) /\ x = Answer(Expected[n + 1])
  <2>1. x = Answer(Plain(x)) /\ Plain(x) # NULL
    BY <1>2, <1>5, SudokuAssumption DEF Results, Plain, Answer
  <2>2. resultNumber + 1 <= Len(Expected)
    BY <1>1, <1>2, <1>4, <2>1
  <2>3. endNumber = 0 /\ resultNumber + 1 = n + 1
    BY <1>1, <2>2
  <2>4. dealt[resultNumber + 1] = Expected[resultNumber + 1]
    BY <1>4, <2>2 DEF DealtAsTyped
  <2>. QED BY <1>2, <2>1, <2>2, <2>3, <2>4
<1>6. ASSUME x = NULL
      PROVE  n = Len(Expected) /\ ~readFile
  <2>1. dealt[resultNumber + 1] = NULL
    BY <1>2, <1>6 DEF Plain
  <2>2. resultNumber + 1 > Len(Expected) /\ rpc \in {"eof", "end"}
    BY <1>4, <2>1
  <2>3. n = Len(Expected)
    BY <1>1, <2>2
  <2>. QED BY <2>2, <2>3 DEF ReadersInv, NoNameLost
<1>. QED BY <1>5, <1>6 DEF n

\* A batch is printed when it has Batch answers: never later, for one is added at a time.
LEMMA PrintAnswerCases ==
  ASSUME PipeInv, ReadersInv, CutInv, PrintInv, PrintAnswer
  PROVE  \E x \in Results :
           /\ x = Answer(Expected[Len(out) + Len(resultBuf) + 1])
           /\ Len(out) + Len(resultBuf) + 1 <= Len(Expected) /\ endNumber = 0
           /\ resultNumber' = resultNumber + 1
           /\ IF Len(resultBuf) + 1 = Batch
                THEN out' = out \o Append(resultBuf, x) /\ resultBuf' = <<>>
                ELSE out' = out /\ resultBuf' = Append(resultBuf, x)
           /\ UNCHANGED <<typed, readFile, endNumber, ppc>>
<1> DEFINE id == NextSolver(resultNumber + 1)
           x == Head(resultBuffer[id])
           buf == Append(resultBuf, x)
<1>1. /\ resultBuffer[id] # <<>> /\ x # NULL /\ resultNumber' = resultNumber + 1
      /\ IF Len(buf) >= Batch THEN out' = out \o buf /\ resultBuf' = <<>>
                             ELSE resultBuf' = buf /\ out' = out
      /\ UNCHANGED <<typed, readFile, endNumber, ppc>>
  BY DEF PrintAnswer, BatchFull, nameVars
<1>2. x \in Results
  BY <1>1, PrintTurn
<1>3. /\ endNumber = 0 /\ Len(out) + Len(resultBuf) + 1 <= Len(Expected)
      /\ x = Answer(Expected[Len(out) + Len(resultBuf) + 1])
  BY <1>1, PrintNext
<1>4. resultBuf \in Seq(Results) /\ Len(resultBuf) < Batch /\ Len(buf) = Len(resultBuf) + 1
  BY PrintTypes DEF PipeInv
<1>5. Len(buf) >= Batch <=> Len(resultBuf) + 1 = Batch
  BY <1>4, Numbers
<1> HIDE DEF x, id
<1>. QED BY <1>1, <1>2, <1>3, <1>5

LEMMA PrintEndCases ==
  ASSUME PipeInv, ReadersInv, CutInv, PrintInv, PrintEnd
  PROVE  /\ Len(out) + Len(resultBuf) = Len(Expected) /\ ~readFile
         /\ resultNumber' = resultNumber + 1 /\ endNumber' = endNumber + 1
         /\ IF endNumber' = N THEN ppc' = "end" /\ out' = out \o resultBuf /\ resultBuf' = <<>>
                              ELSE UNCHANGED <<ppc, out, resultBuf>>
         /\ ppc = "loop" /\ UNCHANGED <<typed, readFile>>
<1> DEFINE x == Head(resultBuffer[NextSolver(resultNumber + 1)])
<1>1. resultBuffer[NextSolver(resultNumber + 1)] # <<>> /\ x = NULL
  BY DEF PrintEnd
<1>2. Len(out) + Len(resultBuf) = Len(Expected) /\ ~readFile
  BY <1>1, PrintNext
<1>. QED BY <1>2 DEF PrintEnd, nameVars

\* a holds the answers to what was typed from the n-th on.
Holds(a, n) == \A k \in 1..Len(a) : a[k] = Answer(Expected[n + k])

LEMMA HoldsMore ==
  ASSUME NEW T, NEW a \in Seq(T), NEW x \in T, NEW n \in Nat, Holds(a, n),
         x = Answer(Expected[n + Len(a) + 1])
  PROVE  Holds(Append(a, x), n)
BY DEF Holds

LEMMA HoldsJoin ==
  ASSUME NEW T, NEW a \in Seq(T), NEW b \in Seq(T), Holds(a, 0), Holds(b, Len(a))
  PROVE  Holds(a \o b, 0)
<1>1. ASSUME NEW k \in 1..(Len(a) + Len(b)) PROVE (a \o b)[k] = Answer(Expected[0 + k])
  <2>1. CASE k <= Len(a)
    BY <2>1 DEF Holds
  <2>2. CASE k > Len(a)
    <3>1. k - Len(a) \in 1..Len(b) /\ Len(a) + (k - Len(a)) = k /\ 0 + k = k
      BY <2>2
    <3>2. (a \o b)[k] = b[k - Len(a)]
      BY <2>2, <3>1
    <3>3. b[k - Len(a)] = Answer(Expected[Len(a) + (k - Len(a))])
      BY <3>1 DEF Holds
    <3>. QED BY <3>1, <3>2, <3>3
  <2>. QED BY <2>1, <2>2
<1>. QED BY <1>1 DEF Holds

\* PrintInv, with these names.
LEMMA PrintHolds ==
  ASSUME TypeOK
  PROVE  PrintInv <=>
           /\ resultNumber = Len(out) + Len(resultBuf) + endNumber
           /\ Len(out) + Len(resultBuf) <= Len(Expected)
           /\ Holds(out, 0) /\ Holds(resultBuf, Len(out))
           /\ endNumber > 0 => Len(out) + Len(resultBuf) = Len(Expected) /\ ~readFile
           /\ ppc = "end" => endNumber = N /\ resultBuf = <<>>
<1>1. \A k \in 1..Len(out) : 0 + k = k
  BY PrintTypes
<1>. QED BY <1>1 DEF PrintInv, Holds

\* An answer is kept, or printed with its batch.
LEMMA PrintAnswerPrint ==
  ASSUME PipeInv, ReadersInv, CutInv, PrintInv, PrintAnswer
  PROVE  PrintInv'
<1> DEFINE m == Len(out)
           n == Len(resultBuf)
<1>1. PICK x \in Results :
        /\ x = Answer(Expected[m + n + 1])
        /\ m + n + 1 <= Len(Expected) /\ endNumber = 0
        /\ resultNumber' = resultNumber + 1
        /\ IF n + 1 = Batch
             THEN out' = out \o Append(resultBuf, x) /\ resultBuf' = <<>>
             ELSE out' = out /\ resultBuf' = Append(resultBuf, x)
        /\ UNCHANGED <<typed, readFile, endNumber, ppc>>
  BY PrintAnswerCases
<1>2. /\ out \in Seq(Results) /\ resultBuf \in Seq(Results) /\ m \in Nat /\ n \in Nat
      /\ Len(Expected) \in Nat /\ TypeOK /\ ppc = "loop"
  BY PrintTypes DEF PipeInv, PrintAnswer
<1>3. Holds(out, 0) /\ Holds(resultBuf, m) /\ resultNumber = m + n + endNumber
  BY <1>2, PrintHolds
<1> DEFINE buf == Append(resultBuf, x)
<1>4. buf \in Seq(Results) /\ Len(buf) = n + 1 /\ Holds(buf, m)
  <2>1. x = Answer(Expected[m + Len(resultBuf) + 1])
    BY <1>1
  <2>. QED BY <1>2, <1>3, <2>1, HoldsMore
<1> HIDE DEF m, n, buf
<1>5. Expected' = Expected
  BY <1>1 DEF Expected
<1>6. ASSUME NEW a, NEW k PROVE Holds(a, k)' <=> \A i \in 1..Len(a') : a'[i] = Answer(Expected[k' + i])
  BY <1>5 DEF Holds
<1>7. TypeOK'
  BY PrintAnswerTypes
<1>8. CASE n + 1 = Batch
  <2>1. out' = out \o buf /\ resultBuf' = <<>> /\ endNumber' = 0 /\ ppc' = "loop"
    BY <1>1, <1>2, <1>8 DEF n, buf
  <2>2. out \o buf \in Seq(Results) /\ Len(out \o buf) = m + n + 1
    BY <1>2, <1>4 DEF m
  <2>3. Holds(out \o buf, 0)
    BY <1>2, <1>3, <1>4, HoldsJoin DEF m
  <2>4. \A k \in 1..Len(out') : out'[k] = Answer(Expected[k])
    BY <2>1, <2>2, <2>3, <1>2 DEF Holds
  <2>5. Len(out') = m + n + 1 /\ Len(resultBuf') = 0 /\ resultNumber' = m + n + 1
    BY <1>1, <1>2, <1>3, <2>1, <2>2
  <2>. QED BY <1>1, <1>2, <1>5, <2>1, <2>4, <2>5 DEF PrintInv
<1>9. CASE n + 1 # Batch
  <2>1. out' = out /\ resultBuf' = buf /\ endNumber' = 0 /\ ppc' = "loop"
    BY <1>1, <1>2, <1>9 DEF n, buf
  <2>2. \A k \in 1..Len(resultBuf') : resultBuf'[k] = Answer(Expected[Len(out') + k])
    BY <1>4, <2>1 DEF Holds, m
  <2>3. \A k \in 1..Len(out') : out'[k] = Answer(Expected[k])
    BY <1>2, <2>1 DEF PrintInv
  <2>4. Len(out') = m /\ Len(resultBuf') = n + 1 /\ resultNumber' = m + n + 1
    BY <1>1, <1>2, <1>3, <1>4, <2>1 DEF m
  <2>. QED BY <1>1, <1>2, <1>5, <2>1, <2>2, <2>3, <2>4 DEF PrintInv
<1>. QED BY <1>8, <1>9

\* The last end marker prints what is left.
LEMMA PrintEndPrint ==
  ASSUME PipeInv, ReadersInv, CutInv, PrintInv, PrintEnd
  PROVE  PrintInv'
<1> DEFINE m == Len(out)
           n == Len(resultBuf)
<1>1. /\ m + n = Len(Expected) /\ ~readFile
      /\ resultNumber' = resultNumber + 1 /\ endNumber' = endNumber + 1
      /\ IF endNumber' = N THEN ppc' = "end" /\ out' = out \o resultBuf /\ resultBuf' = <<>>
                           ELSE UNCHANGED <<ppc, out, resultBuf>>
      /\ ppc = "loop" /\ UNCHANGED <<typed, readFile>>
  BY PrintEndCases
<1>2. /\ out \in Seq(Results) /\ resultBuf \in Seq(Results) /\ m \in Nat /\ n \in Nat
      /\ Len(Expected) \in Nat /\ endNumber \in Nat /\ TypeOK
  BY PrintTypes DEF PipeInv
<1>3. Holds(out, 0) /\ Holds(resultBuf, m) /\ resultNumber = m + n + endNumber
  BY <1>2, PrintHolds
<1>4. Expected' = Expected
  BY <1>1 DEF Expected
<1>5. CASE endNumber' = N
  <2>1. out' = out \o resultBuf /\ resultBuf' = <<>> /\ ppc' = "end"
    BY <1>1, <1>5
  <2>2. out \o resultBuf \in Seq(Results) /\ Len(out \o resultBuf) = m + n
    BY <1>2
  <2>3. Holds(out \o resultBuf, 0)
    BY <1>2, <1>3, HoldsJoin
  <2> HIDE DEF m, n
  <2>4. \A k \in 1..Len(out') : out'[k] = Answer(Expected[k])
    BY <1>2, <2>1, <2>2, <2>3 DEF Holds
  <2>5. Len(out') = m + n /\ Len(resultBuf') = 0 /\ resultNumber' = m + n + endNumber'
    BY <1>1, <1>2, <1>3, <2>1, <2>2
  <2>6. \A k \in 1..Len(resultBuf') : resultBuf'[k] = Answer(Expected[Len(out') + k])
    BY <2>5
  <2>7. ~readFile'
    BY <1>1
  <2>8. /\ Len(out') + Len(resultBuf') = Len(Expected)
        /\ resultNumber' = Len(out') + Len(resultBuf') + endNumber'
        /\ Len(out') + Len(resultBuf') <= Len(Expected)
    <3>1. m \in Nat /\ n \in Nat /\ Len(Expected) \in Nat /\ endNumber' \in Nat /\ m + n = Len(Expected)
      BY <1>1, <1>2
    <3>. QED BY <2>5, <3>1
  <2>. QED BY <1>4, <1>5, <2>1, <2>4, <2>6, <2>7, <2>8 DEF PrintInv
<1>6. CASE endNumber' # N
  <2>1. UNCHANGED <<ppc, out, resultBuf>>
    BY <1>1, <1>6
  <2>2. resultNumber' = m + n + endNumber'
    BY <1>1, <1>2, <1>3
  <2>. QED BY <1>1, <1>2, <1>4, <2>1, <2>2 DEF PrintInv
<1>. QED BY <1>5, <1>6

LEMMA PrintStep ==
  ASSUME PipeInv, ReadersInv, CutInv, PrintInv, [Next]_vars
  PROVE  PrintInv'
<1> DEFINE Kept == UNCHANGED <<typed, printVars>> /\ (readFile' => readFile)
<1>1. CASE UNCHANGED vars
  <2>1. Kept
    BY <1>1 DEF vars, nameVars
  <2>. QED BY <2>1, PrintKept
<1>2. ASSUME NEW f \in Files, ReadName(f) PROVE PrintInv'
  BY <1>2, ReadNamePrint DEF PipeInv
<1>3. CASE EndOfNames
  <2>1. Kept
    BY <1>3 DEF EndOfNames
  <2>. QED BY <2>1, PrintKept
<1>4. ASSUME NEW s \in Solvers, solveManager(s) PROVE PrintInv'
  <2>1. Kept
    BY <1>4 DEF solveManager, GetProblem, PutResult, nameVars
  <2>. QED BY <2>1, PrintKept
<1>5. CASE problemReadThread
  <2>1. Kept
    BY <1>5 DEF problemReadThread, NoName, NoMoreNames, eofIntoProblemBuffer, OpenFile, ReadBatch,
                ReadTail, DealLine, nameVars
  <2>. QED BY <2>1, PrintKept
<1>6. CASE answerPrinter
  BY <1>6, PrintAnswerPrint, PrintEndPrint DEF answerPrinter
<1>. QED BY <1>1, <1>2, <1>3, <1>4, <1>5, <1>6 DEF Next

\* The inductive invariant of the whole pipeline.
LineInv == PipeInv /\ ReadersInv /\ CutInv /\ PrintInv

LEMMA LineAlways ==
  ASSUME AllReadable
  PROVE  Spec => []LineInv
<1>1. Init => LineInv
  BY PipeInit, ReadersInit, CutInit, PrintInit DEF LineInv
<1>2. LineInv /\ [Next]_vars => LineInv'
  <2> SUFFICES ASSUME LineInv, [Next]_vars
               PROVE  PipeInv' /\ ReadersInv' /\ CutInv' /\ PrintInv'
    BY DEF LineInv
  <2>1. PipeInv /\ ReadersInv /\ CutInv /\ PrintInv /\ TypeOK
    BY DEF LineInv, PipeInv
  <2>. QED BY <2>1, PipeNext, ReadersNext, CutNext, PrintStep
<1>. QED BY <1>1, <1>2, PTL DEF Spec

\* When main has joined every thread, every puzzle of every file has its answer, in order
\* (NothingLost), when no file is empty and no last line without a newline is alone in its batch.
THEOREM AllPrinted == ASSUME AllReadable PROVE Spec => []NothingLost
<1>1. LineInv => NothingLost
  <2> SUFFICES ASSUME LineInv, Joined PROVE out = [k \in DOMAIN Expected |-> Answer(Expected[k])]
    BY DEF NothingLost
  <2>1. endNumber = N /\ resultBuf = <<>> /\ PrintInv /\ TypeOK
    BY DEF LineInv, Joined, PrintInv, PipeInv
  <2>2. out \in Seq(Results) /\ Len(out) \in Nat /\ Expected \in Seq(Puzzles) /\ Len(Expected) \in Nat
    BY <2>1, PrintTypes
  <2>3. Len(out) = Len(Expected)
    BY <2>1, <2>2, Numbers DEF PrintInv
  <2>4. \A k \in 1..Len(out) : out[k] = Answer(Expected[k])
    BY <2>1 DEF PrintInv
  <2>. QED BY <2>2, <2>3, <2>4
<1>. QED BY <1>1, LineAlways, PTL

-----------------------------------------------------------------------------
(* A sequential solver that prints in batches *)

\* A beginning of e is cut from e.
LEMMA FirstOf ==
  ASSUME NEW T, NEW s \in Seq(T), NEW e \in Seq(T), Len(s) <= Len(e),
         \A k \in 1..Len(s) : s[k] = e[k]
  PROVE  s = SubSeq(e, 1, Len(s))
OBVIOUS

\* The answers in order, in the words of SolveInOrder.
LEMMA AnswersSame ==
  ASSUME TypeOK
  PROVE  /\ Sequential!Answers(typed) \in Seq(Results)
         /\ Len(Sequential!Answers(typed)) = Len(Expected)
         /\ \A k \in 1..Len(Expected) : Sequential!Answers(typed)[k] = Answer(Expected[k])
<1>1. Sequential!LinesOf(typed) = Expected
  BY DEF Sequential!LinesOf, Expected, Sequential!FlattenSeq, FlattenSeq
<1>2. Sequential!Answers(typed) = [k \in DOMAIN Expected |-> Sequential!Answer(Expected[k])]
  BY <1>1 DEF Sequential!Answers
<1>3. Expected \in Seq(Puzzles)
  BY ExpectedType
<1>4. \A k \in 1..Len(Expected) :
        Sequential!Answer(Expected[k]) \in Results /\ Sequential!Answer(Expected[k]) = Answer(Expected[k])
  BY <1>3 DEF Sequential!Answer, Answer, Results
<1>. QED BY <1>2, <1>3, <1>4

\* Printing a batch that is full, or the rest after the end of input, is PrintBatch.
LEMMA PrintedBatch ==
  ASSUME TypeOK, UNCHANGED <<typed, readFile>>, out' \in Seq(Results), Len(out') <= Len(Expected),
         \A k \in 1..Len(out') : out'[k] = Answer(Expected[k]),
         \/ Len(out') = Len(out) + Batch
         \/ ~readFile /\ Len(out') = Len(Expected) /\ Len(out') - Len(out) \in 1..(Batch - 1)
  PROVE  Sequential!PrintBatch
<1> DEFINE e == Sequential!Answers(typed)
           left == Len(e) - Len(out)
<1>1. e \in Seq(Results) /\ Len(e) = Len(Expected) /\ \A k \in 1..Len(Expected) : e[k] = Answer(Expected[k])
  BY AnswersSame
<1>2. Len(out) \in Nat /\ Len(Expected) \in Nat /\ Len(out') \in Nat
  BY PrintTypes
<1> HIDE DEF e
<1>3. out' = SubSeq(e, 1, Len(out'))
  BY <1>1, <1>2, FirstOf
<1>4. left > 0 /\ (left >= Batch \/ ~readFile)
      /\ Len(out') = Len(out) + (IF left >= Batch THEN Batch ELSE left)
  BY <1>1, <1>2, Numbers
<1>5. out' = SubSeq(e, 1, Len(out) + (IF left >= Batch THEN Batch ELSE left))
  BY <1>3, <1>4
<1>6. typed' = typed /\ (~readFile)' = ~readFile
  OBVIOUS
<1>. QED BY <1>4, <1>5, <1>6 DEF Sequential!PrintBatch, e

\* The steps of the printer, in the words of SolveInOrder.
LEMMA PrintAnswerSeq ==
  ASSUME LineInv, PrintAnswer
  PROVE  Sequential!PrintBatch \/ UNCHANGED <<typed, readFile, out>>
<1>1. PipeInv /\ ReadersInv /\ CutInv /\ PrintInv /\ TypeOK /\ PrintInv' /\ TypeOK'
  BY PrintAnswerTypes, PrintAnswerPrint DEF LineInv, PipeInv
<1>2. PICK x \in Results :
        /\ x = Answer(Expected[Len(out) + Len(resultBuf) + 1])
        /\ Len(out) + Len(resultBuf) + 1 <= Len(Expected) /\ endNumber = 0
        /\ resultNumber' = resultNumber + 1
        /\ IF Len(resultBuf) + 1 = Batch
             THEN out' = out \o Append(resultBuf, x) /\ resultBuf' = <<>>
             ELSE out' = out /\ resultBuf' = Append(resultBuf, x)
        /\ UNCHANGED <<typed, readFile, endNumber, ppc>>
  BY <1>1, PrintAnswerCases
<1>3. CASE Len(resultBuf) + 1 = Batch
  <2>1. out \in Seq(Results) /\ resultBuf \in Seq(Results)
    BY <1>1, PrintTypes
  <2>2. out' = out \o Append(resultBuf, x)
    BY <1>2, <1>3
  <2>3. out' \in Seq(Results) /\ Len(out') = Len(out) + Batch
    BY <1>3, <2>1, <2>2
  <2>4. Expected' = Expected
    BY <1>2 DEF Expected
  <2>5. Len(out') <= Len(Expected) /\ \A k \in 1..Len(out') : out'[k] = Answer(Expected[k])
    <3>1. Len(out') + Len(resultBuf') <= Len(Expected) /\ resultBuf' = <<>>
      BY <1>1, <1>2, <1>3, <2>4 DEF PrintInv
    <3>2. Len(out') \in Nat /\ Len(Expected) \in Nat
      BY <1>1, <2>3, PrintTypes
    <3>. QED BY <1>1, <2>4, <3>1, <3>2 DEF PrintInv
  <2>. QED BY <1>1, <1>2, <2>3, <2>5, PrintedBatch
<1>4. CASE Len(resultBuf) + 1 # Batch
  BY <1>2, <1>4
<1>. QED BY <1>3, <1>4

LEMMA PrintEndSeq ==
  ASSUME LineInv, PrintEnd
  PROVE  Sequential!PrintBatch \/ UNCHANGED <<typed, readFile, out>>
<1>1. PipeInv /\ ReadersInv /\ CutInv /\ PrintInv /\ TypeOK /\ PrintInv'
  BY PrintEndPrint DEF LineInv, PipeInv
<1>2. /\ Len(out) + Len(resultBuf) = Len(Expected) /\ ~readFile
      /\ resultNumber' = resultNumber + 1 /\ endNumber' = endNumber + 1
      /\ IF endNumber' = N THEN ppc' = "end" /\ out' = out \o resultBuf /\ resultBuf' = <<>>
                           ELSE UNCHANGED <<ppc, out, resultBuf>>
      /\ ppc = "loop" /\ UNCHANGED <<typed, readFile>>
  BY <1>1, PrintEndCases
<1>3. /\ out \in Seq(Results) /\ resultBuf \in Seq(Results) /\ Len(resultBuf) < Batch
      /\ Len(Expected) \in Nat
  BY <1>1, PrintTypes
<1>4. CASE endNumber' = N /\ resultBuf # <<>>
  <2>1. out' = out \o resultBuf
    BY <1>2, <1>4
  <2>2. /\ out' \in Seq(Results) /\ Len(out') = Len(out) + Len(resultBuf)
        /\ Len(resultBuf) \in 1..(Batch - 1)
    BY <1>3, <1>4, <2>1, Numbers
  <2>3. Len(out') = Len(Expected) /\ Len(out') - Len(out) \in 1..(Batch - 1)
    BY <1>2, <1>3, <2>2
  <2>4. Expected' = Expected
    BY <1>2 DEF Expected
  <2>5. \A k \in 1..Len(out') : out'[k] = Answer(Expected[k])
    BY <1>1, <2>4 DEF PrintInv
  <2>6. Len(out') <= Len(Expected)
    BY <1>3, <2>3
  <2>. QED BY <1>1, <1>2, <2>2, <2>3, <2>5, <2>6, PrintedBatch
<1>5. CASE endNumber' = N /\ resultBuf = <<>>
  BY <1>2, <1>3, <1>5
<1>6. CASE endNumber' # N
  BY <1>2, <1>6
<1>. QED BY <1>4, <1>5, <1>6

\* Every step is a step of the sequential solver, or none.
LEMMA SequentialStep ==
  ASSUME LineInv, [Next]_vars
  PROVE  [Sequential!SeqNext]_(Sequential!sVars)
<1> DEFINE Kept == UNCHANGED <<typed, readFile, out>>
<1>1. ASSUME Kept PROVE [Sequential!SeqNext]_(Sequential!sVars)
  BY <1>1 DEF Sequential!sVars
<1>2. CASE UNCHANGED vars
  <2>1. Kept
    BY <1>2 DEF vars, nameVars, printVars
  <2>. QED BY <1>1, <2>1
<1>3. ASSUME NEW f \in Files, ReadName(f) PROVE [Sequential!SeqNext]_(Sequential!sVars)
  <2>1. readFile /\ typed' = Append(typed, f) /\ readFile' = readFile /\ out' = out
    BY <1>3 DEF ReadName, printVars
  <2>2. Sequential!Type(f)
    BY <2>1 DEF Sequential!Type
  <2>. QED BY <2>2 DEF Sequential!SeqNext
<1>4. CASE EndOfNames
  <2>1. readFile /\ readFile' = FALSE /\ typed' = typed /\ out' = out
    BY <1>4 DEF EndOfNames, printVars
  <2>2. Sequential!Close
    BY <2>1 DEF Sequential!Close
  <2>. QED BY <2>2 DEF Sequential!SeqNext
<1>5. ASSUME NEW s \in Solvers, solveManager(s) PROVE [Sequential!SeqNext]_(Sequential!sVars)
  <2>1. Kept
    BY <1>5 DEF solveManager, GetProblem, PutResult, nameVars, printVars
  <2>. QED BY <1>1, <2>1
<1>6. CASE problemReadThread
  <2>1. Kept
    BY <1>6 DEF problemReadThread, NoName, NoMoreNames, eofIntoProblemBuffer, OpenFile, ReadBatch,
                ReadTail, DealLine, nameVars, printVars
  <2>. QED BY <1>1, <2>1
<1>7. CASE answerPrinter
  <2>1. Sequential!PrintBatch \/ Kept
    BY <1>7, PrintAnswerSeq, PrintEndSeq DEF answerPrinter
  <2>. QED BY <1>1, <2>1 DEF Sequential!SeqNext
<1>. QED BY <1>2, <1>3, <1>4, <1>5, <1>6, <1>7 DEF Next

\* The safety part of ImplementsSequential: with any number of solvers of any speed the users
\* see one that solves the puzzles in their order and prints a batch at a time, when no file
\* is empty and no last line without a newline is alone in its batch.
THEOREM OneSolver == ASSUME AllReadable PROVE Spec => Sequential!SeqSafety
<1>1. Init => Sequential!SeqInit
  BY DEF Init, Sequential!SeqInit
<1>2. LineInv /\ [Next]_vars => [Sequential!SeqNext]_(Sequential!sVars)
  BY SequentialStep
<1>. QED BY <1>1, <1>2, LineAlways, PTL DEF Spec, Sequential!SeqSafety
=============================================================================
