------------------------------- MODULE Loops -------------------------------
(***************************************************************************)
(* What FoldLeft of the community modules computes, for any body Op of a   *)
(* loop: there is a sequence of values, each made from the one before by   *)
(* Op and the next element, whose last is the result.  A module that       *)
(* proves something about a loop instantiates this one with the body, and  *)
(* shows that its FoldLeft is Loop by unfolding it.                        *)
(***************************************************************************)
EXTENDS Integers, Sequences, WellFoundedInduction, TLAPS

CONSTANT Op(_, _)

Largest(S) == CHOOSE x \in S : \A y \in S : x >= y

\* What FoldLeft(Op, base, ns) unfolds to.
Loop(base, ns) ==
  LET it[S \in SUBSET DOMAIN ns] == IF S = {} THEN base ELSE Op(it[S \ {Largest(S)}], ns[Largest(S)])
  IN  it[DOMAIN ns]

\* A set with 0 that is closed under + 1 has every number.
LEMMA SetInduction ==
  ASSUME NEW S, 0 \in S, \A n \in Nat : n \in S => n + 1 \in S
  PROVE  Nat \subseteq S
<1> SUFFICES ASSUME ~(Nat \subseteq S) PROVE FALSE
  OBVIOUS
<1> DEFINE T == Nat \ S
<1>1. \E x \in T : \A y \in T : ~(<<y, x>> \in OpToRel(<, Nat))
  BY NatLessThanWellFounded, WFMin, T # {}
<1>2. PICK x \in T : \A y \in T : ~(y < x)
  BY <1>1 DEF OpToRel
<1>3. x # 0 /\ x - 1 \in Nat
  OBVIOUS
<1>4. x - 1 \in T
  BY <1>3
<1>. QED BY <1>2, <1>3, <1>4

\* The largest position.
LEMMA LargestIs ==
  ASSUME NEW n \in Nat, NEW S \in SUBSET (1..(n + 1)), n + 1 \in S
  PROVE  Largest(S) = n + 1
<1>1. n + 1 \in S /\ \A y \in S : n + 1 >= y
  OBVIOUS
<1>2. Largest(S) \in S /\ \A y \in S : Largest(S) >= y
  BY <1>1 DEF Largest
<1>3. Largest(S) \in 1..(n + 1) /\ Largest(S) >= n + 1
  BY <1>1, <1>2
<1>. QED BY <1>3

\* The values of it on the sets of positions up to n.
Folds(it, base, ns, n) ==
  it = [S \in SUBSET (1..n) |-> IF S = {} THEN base ELSE Op(it[S \ {Largest(S)}], ns[Largest(S)])]

\* There is such a function.
LEMMA FoldsExist ==
  ASSUME NEW base, NEW ns, NEW n \in Nat
  PROVE  \E it : Folds(it, base, ns, n)
<1> DEFINE D == {m \in Nat : \E it : Folds(it, base, ns, m)}
<1>1. 0 \in D
  <2> DEFINE it == [S \in SUBSET (1..0) |-> base]
  <2>1. \A S \in SUBSET (1..0) : S = {}
    OBVIOUS
  <2>2. Folds(it, base, ns, 0)
    BY <2>1 DEF Folds
  <2>. QED BY <2>2
<1>2. ASSUME NEW m \in Nat, m \in D PROVE m + 1 \in D
  <2>1. PICK it : Folds(it, base, ns, m)
    BY <1>2
  <2> DEFINE next == [S \in SUBSET (1..(m + 1)) |->
                        IF m + 1 \in S THEN Op(it[S \ {m + 1}], ns[m + 1]) ELSE it[S]]
  <2>2. ASSUME NEW S \in SUBSET (1..(m + 1))
        PROVE  next[S] = IF S = {} THEN base ELSE Op(next[S \ {Largest(S)}], ns[Largest(S)])
    <3>1. CASE m + 1 \in S
      <4>1. Largest(S) = m + 1
        BY <3>1, LargestIs
      <4>2. S \ {m + 1} \in SUBSET (1..(m + 1)) /\ m + 1 \notin S \ {m + 1}
        OBVIOUS
      <4>3. next[S \ {m + 1}] = it[S \ {m + 1}]
        BY <4>2
      <4>4. next[S] = Op(it[S \ {m + 1}], ns[m + 1])
        BY <3>1
      <4>. QED BY <3>1, <4>1, <4>3, <4>4
    <3>2. CASE m + 1 \notin S
      <4>1. S \in SUBSET (1..m)
        BY <3>2
      <4>2. it[S] = IF S = {} THEN base ELSE Op(it[S \ {Largest(S)}], ns[Largest(S)])
        BY <2>1, <4>1 DEF Folds
      <4>3. next[S] = it[S]
        BY <3>2
      <4>4. S \ {Largest(S)} \in SUBSET (1..(m + 1)) /\ m + 1 \notin S \ {Largest(S)}
        BY <3>2
      <4>5. next[S \ {Largest(S)}] = it[S \ {Largest(S)}]
        BY <4>4
      <4>. QED BY <4>2, <4>3, <4>5
    <3>. QED BY <3>1, <3>2
  <2> DEFINE new == [S \in SUBSET (1..(m + 1)) |->
                       IF S = {} THEN base ELSE Op(next[S \ {Largest(S)}], ns[Largest(S)])]
  <2>3. next = new
    <3> HIDE DEF next
    <3>1. \A S \in SUBSET (1..(m + 1)) : next[S] = new[S]
      BY <2>2
    <3>2. next = [S \in SUBSET (1..(m + 1)) |-> next[S]]
      BY DEF next
    <3>. QED BY <3>1, <3>2
  <2>4. Folds(next, base, ns, m + 1)
    BY <2>3 DEF Folds
  <2>. QED BY <2>4
<1> HIDE DEF D
<1>3. Nat \subseteq D
  BY <1>1, <1>2, SetInduction
<1>4. n \in D
  BY <1>3
<1>. QED BY <1>4 DEF D

\* The values of a loop along the first n of ns: one step of it at a time.
LEMMA LoopSteps ==
  ASSUME NEW base, NEW ns, NEW n \in Nat, DOMAIN ns = 1..n
  PROVE  \E at : /\ at[0] = base
                 /\ \A k \in 1..n : at[k] = Op(at[k - 1], ns[k])
                 /\ Loop(base, ns) = at[n]
<1> DEFINE it == CHOOSE it : Folds(it, base, ns, n)
           at == [k \in 0..n |-> it[1..k]]
<1>1. Folds(it, base, ns, n)
  BY FoldsExist
<1>2. Loop(base, ns) = it[1..n]
  BY DEF Loop, Folds
<1> HIDE DEF it
<1>3. at[0] = base
  <2>1. 1..0 = {} /\ 1..0 \in SUBSET (1..n)
    OBVIOUS
  <2>. QED BY <1>1, <2>1 DEF Folds
<1>4. ASSUME NEW k \in 1..n PROVE at[k] = Op(at[k - 1], ns[k])
  <2>1. (1..k) \in SUBSET (1..n) /\ 1..k # {} /\ k - 1 \in Nat
    OBVIOUS
  <2>2. Largest(1..k) = k
    <3>1. (1..k) \in SUBSET (1..((k - 1) + 1)) /\ (k - 1) + 1 = k /\ (k - 1) + 1 \in 1..k
      OBVIOUS
    <3>. QED BY <2>1, <3>1, LargestIs
  <2>3. (1..k) \ {k} = 1..(k - 1)
    OBVIOUS
  <2>4. it[1..k] = Op(it[1..(k - 1)], ns[k])
    <3>1. it[1..k] = IF 1..k = {} THEN base
                     ELSE Op(it[(1..k) \ {Largest(1..k)}], ns[Largest(1..k)])
      BY <1>1, <2>1 DEF Folds
    <3>. QED BY <2>1, <2>2, <2>3, <3>1
  <2>5. k \in 0..n /\ k - 1 \in 0..n
    OBVIOUS
  <2>6. at[k] = it[1..k] /\ at[k - 1] = it[1..(k - 1)]
    BY <2>5
  <2>. QED BY <2>4, <2>6
<1>5. at[n] = it[1..n]
  OBVIOUS
<1> HIDE DEF at
<1>. QED BY <1>2, <1>3, <1>4, <1>5

\* These values are the only ones.
LEMMA LoopIs ==
  ASSUME NEW at, NEW ns, NEW n \in Nat, DOMAIN ns = 1..n,
         \A k \in 1..n : at[k] = Op(at[k - 1], ns[k])
  PROVE  Loop(at[0], ns) = at[n]
<1>1. PICK u : /\ u[0] = at[0]
               /\ \A k \in 1..n : u[k] = Op(u[k - 1], ns[k])
               /\ Loop(at[0], ns) = u[n]
  BY LoopSteps
<1> DEFINE T == {k \in Nat : k <= n => u[k] = at[k]}
<1>2. 0 \in T
  BY <1>1
<1>3. ASSUME NEW k \in Nat, k \in T PROVE k + 1 \in T
  <2> SUFFICES ASSUME k + 1 <= n PROVE u[k + 1] = at[k + 1]
    OBVIOUS
  <2>1. u[k] = at[k] /\ k + 1 \in 1..n /\ (k + 1) - 1 = k
    BY <1>3
  <2>2. u[k + 1] = Op(u[(k + 1) - 1], ns[k + 1]) /\ at[k + 1] = Op(at[(k + 1) - 1], ns[k + 1])
    BY <1>1, <2>1
  <2>. QED BY <2>1, <2>2
<1> HIDE DEF T
<1>4. Nat \subseteq T
  BY <1>2, <1>3, SetInduction
<1>5. n \in T
  BY <1>4
<1>. QED BY <1>1, <1>5 DEF T

\* A loop of three turns.
LEMMA LoopOfThree ==
  ASSUME NEW base, NEW a, NEW b, NEW c
  PROVE  Loop(base, <<a, b, c>>) = Op(Op(Op(base, a), b), c)
<1> DEFINE ns == <<a, b, c>>
<1>1. DOMAIN ns = 1..3 /\ ns[1] = a /\ ns[2] = b /\ ns[3] = c
  OBVIOUS
<1> HIDE DEF ns
<1>2. PICK at : /\ at[0] = base
                /\ \A k \in 1..3 : at[k] = Op(at[k - 1], ns[k])
                /\ Loop(base, ns) = at[3]
  <2> DEFINE Steps(n) == \E at : /\ at[0] = base
                                 /\ \A k \in 1..n : at[k] = Op(at[k - 1], ns[k])
                                 /\ Loop(base, ns) = at[n]
  <2>1. ASSUME NEW n \in Nat, DOMAIN ns = 1..n PROVE Steps(n)
    BY <2>1, LoopSteps
  <2> HIDE DEF Steps
  <2>2. Steps(3)
    BY <1>1, <2>1
  <2>. QED BY <2>2 DEF Steps
<1>3. at[1] = Op(at[0], a) /\ at[2] = Op(at[1], b) /\ at[3] = Op(at[2], c)
  <2>1. at[1] = Op(at[1 - 1], ns[1]) /\ at[2] = Op(at[2 - 1], ns[2]) /\ at[3] = Op(at[3 - 1], ns[3])
    BY <1>2
  <2>2. 1 - 1 = 0 /\ 2 - 1 = 1 /\ 3 - 1 = 2
    OBVIOUS
  <2>. QED BY <1>1, <2>1, <2>2
<1>. QED BY <1>2, <1>3 DEF ns
=============================================================================
