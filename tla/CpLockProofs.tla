---------------------------- MODULE CpLockProofs ----------------------------
(***************************************************************************)
(* Proofs about CpLock, for any number of threads, any capacity and any    *)
(* values.  The invariant counts: every token of a semaphore is in the     *)
(* semaphore, in the queue or in the hands of a thread.                    *)
(***************************************************************************)
EXTENDS CpLock, FiniteSetTheorems, TLAPS

\* A thread that moves changes by one, or not at all, how many there are at some places.
LEMMA Moves ==
  ASSUME NEW S \in SUBSET Threads, NEW P, NEW t \in Threads, NEW to \in Places,
         pc \in [Threads -> Places], pc' = [pc EXCEPT ![t] = to]
  PROVE  /\ At(S, P) \in Nat
         /\ At(S, P)' = At(S, P)
                        - (IF t \in S /\ pc[t] \in P THEN 1 ELSE 0)
                        + (IF t \in S /\ to \in P THEN 1 ELSE 0)
<1> DEFINE Old == {s \in S : pc[s] \in P}
           New == {s \in S : pc'[s] \in P}
           Rest == Old \ {t}
<1>1. IsFiniteSet(Old) /\ Cardinality(Old) \in Nat
  <2>1. IsFiniteSet(Threads)
    BY CpLockAssumption, FS_Union DEF Threads
  <2>. QED BY <2>1, FS_Subset, FS_CardinalityType
<1>2. IsFiniteSet(Rest) /\ Cardinality(Rest) \in Nat
      /\ Cardinality(Rest) = IF t \in Old THEN Cardinality(Old) - 1 ELSE Cardinality(Old)
  BY <1>1, FS_RemoveElement, FS_CardinalityType
<1>3. New = IF t \in S /\ to \in P THEN Rest \cup {t} ELSE Rest
  OBVIOUS
<1>4. Cardinality(Rest \cup {t}) = Cardinality(Rest) + 1
  <2>1. t \notin Rest
    OBVIOUS
  <2>. QED BY <1>2, <2>1, FS_AddElement
<1>5. At(S, P)' = Cardinality(New) /\ At(S, P) = Cardinality(Old)
  BY DEF At
<1>. HIDE DEF Old, New, Rest
<1>6. t \in Old <=> t \in S /\ pc[t] \in P
  BY DEF Old
<1>. QED BY <1>1, <1>2, <1>3, <1>4, <1>5, <1>6

\* Counting finds every thread there is.
LEMMA Counted ==
  ASSUME NEW S \in SUBSET Threads, NEW P
  PROVE  /\ At(S, P) \in Nat
         /\ \A t \in S : pc[t] \in P => At(S, P) >= 1
         /\ \A s, t \in S : pc[s] \in P /\ pc[t] \in P /\ s # t => At(S, P) >= 2
<1> DEFINE Old == {s \in S : pc[s] \in P}
<1>1. IsFiniteSet(Old) /\ Cardinality(Old) \in Nat
  <2>1. IsFiniteSet(Threads)
    BY CpLockAssumption, FS_Union DEF Threads
  <2>. QED BY <2>1, FS_Subset, FS_CardinalityType
<1>2. \A t \in Old : Cardinality(Old) >= 1
  BY <1>1, FS_EmptySet
<1>3. \A s, t \in Old : s # t => Cardinality(Old) # 1
  BY <1>1, FS_Singleton
<1>. QED BY <1>1, <1>2, <1>3 DEF At

-----------------------------------------------------------------------------
Inv == TypeOK /\ Tokens

LEMMA InitInv == Init => Inv
<1> SUFFICES ASSUME Init PROVE Inv
  OBVIOUS
<1>1. \A S \in SUBSET Threads : \A P \in SUBSET (Places \ {"out"}) : At(S, P) = 0
  <2>1. ASSUME NEW S \in SUBSET Threads, NEW P \in SUBSET (Places \ {"out"})
        PROVE  {t \in S : pc[t] \in P} = {}
    BY DEF Init, Places
  <2>. QED BY <2>1, FS_EmptySet DEF At
<1>2. TypeOK
  BY CpLockAssumption DEF Init, TypeOK, Places
<1>3. Tokens
  <2>1. Len(queue) = 0
    BY DEF Init
  <2>2. Threads \in SUBSET Threads /\ Producers \in SUBSET Threads
        /\ Consumers \in SUBSET Threads
    BY DEF Threads
  <2>3. {"in", "used"} \in SUBSET (Places \ {"out"})
        /\ {"waited", "in"} \in SUBSET (Places \ {"out"})
        /\ {"used", "left"} \in SUBSET (Places \ {"out"})
    BY DEF Places
  <2>. QED BY <1>1, <2>1, <2>2, <2>3, CpLockAssumption DEF Init, Tokens
<1>. QED BY <1>2, <1>3 DEF Inv

\* One step of one thread: what a move does to each of the counts, and the five kinds of
\* step of a producer and of a consumer.
LEMMA NextInv == Inv /\ [Next]_vars => Inv'
<1> SUFFICES ASSUME Inv, [Next]_vars PROVE Inv'
  OBVIOUS
<1> USE DEF Inv
<1> DEFINE Busy == At(Threads, {"in", "used"})
           PIn == At(Producers, {"waited", "in"})   POut == At(Producers, {"used", "left"})
           CIn == At(Consumers, {"waited", "in"})   COut == At(Consumers, {"used", "left"})
<1>1. CASE UNCHANGED vars
  <2>1. \A S, P : At(S, P)' = At(S, P)
    BY <1>1 DEF vars, At
  <2>. QED BY <1>1, <2>1 DEF vars, TypeOK, Tokens
<1>2. Busy \in Nat /\ PIn \in Nat /\ POut \in Nat /\ CIn \in Nat /\ COut \in Nat
  BY Counted DEF Threads
<1>3. ASSUME NEW t \in Threads, NEW from \in Places, NEW to \in Places, Goes(t, from, to)
      PROVE  /\ pc' \in [Threads -> Places]
             /\ Busy' = Busy - (IF from \in {"in", "used"} THEN 1 ELSE 0)
                            + (IF to \in {"in", "used"} THEN 1 ELSE 0)
             /\ t \in Producers =>
                  /\ PIn' = PIn - (IF from \in {"waited", "in"} THEN 1 ELSE 0)
                               + (IF to \in {"waited", "in"} THEN 1 ELSE 0)
                  /\ POut' = POut - (IF from \in {"used", "left"} THEN 1 ELSE 0)
                                 + (IF to \in {"used", "left"} THEN 1 ELSE 0)
                  /\ CIn' = CIn /\ COut' = COut
             /\ t \in Consumers =>
                  /\ CIn' = CIn - (IF from \in {"waited", "in"} THEN 1 ELSE 0)
                               + (IF to \in {"waited", "in"} THEN 1 ELSE 0)
                  /\ COut' = COut - (IF from \in {"used", "left"} THEN 1 ELSE 0)
                                 + (IF to \in {"used", "left"} THEN 1 ELSE 0)
                  /\ PIn' = PIn /\ POut' = POut
  <2>1. Threads \in SUBSET Threads /\ Producers \in SUBSET Threads
        /\ Consumers \in SUBSET Threads
    BY DEF Threads
  <2>2. pc \in [Threads -> Places] /\ pc' = [pc EXCEPT ![t] = to] /\ pc[t] = from
    BY <1>3 DEF Goes, TypeOK
  <2>3. Producers \cap Consumers = {}
    BY CpLockAssumption
  <2>4. \A S \in SUBSET Threads : \A P :
          At(S, P)' = At(S, P) - (IF t \in S /\ from \in P THEN 1 ELSE 0)
                              + (IF t \in S /\ to \in P THEN 1 ELSE 0)
    <3>1. SUFFICES ASSUME NEW S \in SUBSET Threads, NEW P
                   PROVE  At(S, P)' = At(S, P) - (IF t \in S /\ from \in P THEN 1 ELSE 0)
                                              + (IF t \in S /\ to \in P THEN 1 ELSE 0)
      OBVIOUS
    <3>. QED BY <2>2, Moves
  <2>. QED BY <1>2, <2>1, <2>2, <2>3, <2>4
<1> HIDE DEF Busy, PIn, POut, CIn, COut
<1>4. /\ Tokens <=> /\ mutex + Busy = 1
                   /\ empty + Len(queue) + PIn + COut = Capacity
                   /\ Len(queue) = full + POut + CIn
      /\ Tokens' <=> /\ mutex' + Busy' = 1
                    /\ empty' + Len(queue') + PIn' + COut' = Capacity
                    /\ Len(queue') = full' + POut' + CIn'
  BY DEF Tokens, Busy, PIn, POut, CIn, COut
<1>5. Capacity \in Nat /\ Producers \subseteq Threads /\ Consumers \subseteq Threads
      /\ Producers \cap Consumers = {} /\ Len(queue) \in Nat
  BY CpLockAssumption DEF Threads, TypeOK
<1>6. ASSUME NEW t \in Producers, pGet(t) PROVE Inv'
  <2>1. /\ pc' \in [Threads -> Places]
        /\ PIn' = PIn + 1 /\ POut' = POut /\ CIn' = CIn /\ COut' = COut /\ Busy' = Busy
    <3>1. Goes(t, "out", "waited") /\ t \in Threads /\ (t \in Producers \/ t \in Consumers)
      BY <1>6 DEF pGet, Threads
    <3>2. "out" \in Places /\ "waited" \in Places
      BY DEF Places
    <3>. QED BY <1>2, <1>3, <3>1, <3>2
  <2>. QED BY <1>2, <1>4, <1>5, <1>6, <2>1 DEF pGet, TypeOK
<1>7. ASSUME NEW t \in Consumers, cGet(t) PROVE Inv'
  <2>1. /\ pc' \in [Threads -> Places]
        /\ PIn' = PIn /\ POut' = POut /\ CIn' = CIn + 1 /\ COut' = COut /\ Busy' = Busy
    <3>1. Goes(t, "out", "waited") /\ t \in Threads /\ (t \in Producers \/ t \in Consumers)
      BY <1>7 DEF cGet, Threads
    <3>2. "out" \in Places /\ "waited" \in Places
      BY DEF Places
    <3>. QED BY <1>2, <1>3, <3>1, <3>2
  <2>. QED BY <1>2, <1>4, <1>5, <1>7, <2>1 DEF cGet, TypeOK
<1>8. ASSUME NEW t \in Threads, Enter(t) PROVE Inv'
  <2>1. /\ pc' \in [Threads -> Places]
        /\ PIn' = PIn /\ POut' = POut /\ CIn' = CIn /\ COut' = COut /\ Busy' = Busy + 1
    <3>1. Goes(t, "waited", "in") /\ t \in Threads /\ (t \in Producers \/ t \in Consumers)
      BY <1>8 DEF Enter, Threads
    <3>2. "waited" \in Places /\ "in" \in Places
      BY DEF Places
    <3>. QED BY <1>2, <1>3, <3>1, <3>2
  <2>. QED BY <1>2, <1>4, <1>5, <1>8, <2>1 DEF Enter, TypeOK
<1>9. ASSUME NEW t \in Producers, NEW v \in Values, Push(t, v) PROVE Inv'
  <2>1. /\ pc' \in [Threads -> Places]
        /\ PIn' = PIn - 1 /\ POut' = POut + 1 /\ CIn' = CIn /\ COut' = COut /\ Busy' = Busy
    <3>1. Goes(t, "in", "used") /\ t \in Threads /\ (t \in Producers \/ t \in Consumers)
      BY <1>9 DEF Push, Threads
    <3>2. "in" \in Places /\ "used" \in Places
      BY DEF Places
    <3>. QED BY <1>2, <1>3, <3>1, <3>2
  <2>2. queue' \in Seq(Values) /\ Len(queue') = Len(queue) + 1
    BY <1>9 DEF Push, TypeOK
  <2>3. empty' = empty /\ full' = full /\ mutex' = mutex
    BY <1>9 DEF Push
  <2>4. TypeOK'
    BY <2>1, <2>2, <2>3 DEF TypeOK
  <2>. QED BY <1>2, <1>4, <1>5, <2>1, <2>2, <2>3, <2>4 DEF TypeOK
<1>10. ASSUME NEW t \in Consumers, Pop(t) PROVE Inv'
  <2>1. /\ pc' \in [Threads -> Places]
        /\ PIn' = PIn /\ POut' = POut /\ CIn' = CIn - 1 /\ COut' = COut + 1 /\ Busy' = Busy
    <3>1. Goes(t, "in", "used") /\ t \in Threads /\ (t \in Producers \/ t \in Consumers)
      BY <1>10 DEF Pop, Threads
    <3>2. "in" \in Places /\ "used" \in Places
      BY DEF Places
    <3>. QED BY <1>2, <1>3, <3>1, <3>2
  <2>2. queue' \in Seq(Values) /\ Len(queue') = Len(queue) - 1
    BY <1>10 DEF Pop, TypeOK
  <2>. QED BY <1>2, <1>4, <1>5, <1>10, <2>1, <2>2 DEF Pop, TypeOK
<1>11. ASSUME NEW t \in Threads, Leave(t) PROVE Inv'
  <2>1. /\ pc' \in [Threads -> Places]
        /\ PIn' = PIn /\ POut' = POut /\ CIn' = CIn /\ COut' = COut /\ Busy' = Busy - 1
    <3>1. Goes(t, "used", "left") /\ t \in Threads /\ (t \in Producers \/ t \in Consumers)
      BY <1>11 DEF Leave, Threads
    <3>2. "used" \in Places /\ "left" \in Places
      BY DEF Places
    <3>. QED BY <1>2, <1>3, <3>1, <3>2
  <2>2. Busy >= 1
    BY <1>11, Counted DEF Leave, Goes, Busy
  <2>. QED BY <1>2, <1>4, <1>5, <1>11, <2>1, <2>2 DEF Leave, TypeOK
<1>12. ASSUME NEW t \in Producers, pRelease(t) PROVE Inv'
  <2>1. /\ pc' \in [Threads -> Places]
        /\ PIn' = PIn /\ POut' = POut - 1 /\ CIn' = CIn /\ COut' = COut /\ Busy' = Busy
    <3>1. Goes(t, "left", "out") /\ t \in Threads /\ (t \in Producers \/ t \in Consumers)
      BY <1>12 DEF pRelease, Threads
    <3>2. "left" \in Places /\ "out" \in Places
      BY DEF Places
    <3>. QED BY <1>2, <1>3, <3>1, <3>2
  <2>. QED BY <1>2, <1>4, <1>5, <1>12, <2>1 DEF pRelease, TypeOK
<1>13. ASSUME NEW t \in Consumers, cRelease(t) PROVE Inv'
  <2>1. /\ pc' \in [Threads -> Places]
        /\ PIn' = PIn /\ POut' = POut /\ CIn' = CIn /\ COut' = COut - 1 /\ Busy' = Busy
    <3>1. Goes(t, "left", "out") /\ t \in Threads /\ (t \in Producers \/ t \in Consumers)
      BY <1>13 DEF cRelease, Threads
    <3>2. "left" \in Places /\ "out" \in Places
      BY DEF Places
    <3>. QED BY <1>2, <1>3, <3>1, <3>2
  <2>. QED BY <1>2, <1>4, <1>5, <1>13, <2>1 DEF cRelease, TypeOK
<1>. QED BY <1>1, <1>5, <1>6, <1>7, <1>8, <1>9, <1>10, <1>11, <1>12, <1>13
         DEF Next, Producer, Consumer

LEMMA Invariance == Spec => []Inv
<1>. QED BY InitInv, NextInv, PTL DEF Spec

-----------------------------------------------------------------------------
\* Type correctness; in particular no semaphore falls below zero and the mutex is binary.
THEOREM Typed == Spec => []TypeOK
<1>1. Inv => TypeOK
  BY DEF Inv
<1>. QED BY <1>1, Invariance, PTL

\* Every free place and every value of the queue is a token of a semaphore or in the hands
\* of a thread, at every moment (Tokens; lock.hpp).
THEOREM TokensKept == Spec => []Tokens
<1>1. Inv => Tokens
  BY DEF Inv
<1>. QED BY <1>1, Invariance, PTL

\* Two threads never use the queue at once (MutualExclusion).
THEOREM Exclusive == Spec => []MutualExclusion
<1>1. Inv => MutualExclusion
  <2> SUFFICES ASSUME Inv, NEW s \in Threads, NEW t \in Threads, s # t,
                      pc[s] \in {"in", "used"}, pc[t] \in {"in", "used"}
               PROVE  FALSE
    BY DEF MutualExclusion
  <2>1. At(Threads, {"in", "used"}) >= 2 /\ At(Threads, {"in", "used"}) \in Nat
    BY Counted
  <2>. QED BY <2>1 DEF Inv, TypeOK, Tokens
<1>. QED BY <1>1, Invariance, PTL

\* A consumer that has the mutex finds a value, however many consumers there are
\* (PopDefined).
THEOREM NeverPopsEmpty == Spec => []PopDefined
<1>1. Inv => PopDefined
  <2> SUFFICES ASSUME Inv, NEW t \in Consumers, pc[t] = "in" PROVE queue # <<>>
    BY DEF PopDefined
  <2>1. At(Consumers, {"waited", "in"}) >= 1 /\ At(Consumers, {"waited", "in"}) \in Nat
        /\ At(Producers, {"used", "left"}) \in Nat
    BY Counted DEF Threads
  <2>. QED BY <2>1 DEF Inv, TypeOK, Tokens
<1>. QED BY <1>1, Invariance, PTL

\* Every step of the threads is a put, a take or no step of a bounded buffer: the safety of
\* ImplementsBuffer.
THEOREM BuffersSafely == Spec => Buffer!BufInit /\ [][Buffer!BufNext]_queue
<1>1. Init => Buffer!BufInit
  BY DEF Init, Buffer!BufInit
<1>2. Inv /\ [Next]_vars => [Buffer!BufNext]_queue
  <2> SUFFICES ASSUME Inv, [Next]_vars, queue' # queue PROVE Buffer!BufNext
    OBVIOUS
  <2>1. ASSUME NEW t \in Producers, NEW v \in Values, Push(t, v) PROVE Buffer!BufNext
    <3>1. At(Producers, {"waited", "in"}) >= 1 /\ At(Producers, {"waited", "in"}) \in Nat
          /\ At(Consumers, {"used", "left"}) \in Nat
      BY <2>1, Counted DEF Threads, Push, Goes
    <3>2. Len(queue) < Capacity
      BY <3>1, CpLockAssumption DEF Inv, TypeOK, Tokens
    <3>. QED BY <2>1, <3>2 DEF Push, Buffer!BufNext, Buffer!Put
  <2>2. ASSUME NEW t \in Consumers, Pop(t) PROVE Buffer!BufNext
    BY <2>2 DEF Pop, Buffer!BufNext, Buffer!Take
  <2>. QED BY <2>1, <2>2 DEF Next, Producer, Consumer, vars, pGet, cGet, Enter, Leave,
            pRelease, cRelease
<1>. QED BY <1>1, <1>2, Invariance, PTL DEF Spec
=============================================================================
