------------------------- MODULE DancingLinksProofs -------------------------
(***************************************************************************)
(* The solver is right for boards of every size: at every call the lists   *)
(* are the open part of the matrix (Submatrix), a search that fails leaves *)
(* every pointer as it was (Restored), and an answer is a solution while a *)
(* puzzle that is given up has none (Solves, GivesUpRightly).              *)
(*                                                                         *)
(* From below: circular lists as sequences, and what a removal, an         *)
(* insertion and a walk do to one; the lists of a matrix, and that uncover *)
(* undoes cover, pointer by pointer, by induction along a column (the      *)
(* loops are instances of Loops); the constructor, with the invariant      *)
(* BuildInv; a call of solve, the calls that have not returned, and where  *)
(* among their rows a given solution still is; the invariant SolveInv.     *)
(***************************************************************************)
EXTENDS DancingLinks, FiniteSetTheorems, SequenceTheorems, TLAPS

Detaching    == INSTANCE Loops WITH Op <- Detach
Attaching    == INSTANCE Loops WITH Op <- Attach
DetachingRow == INSTANCE Loops WITH Op <- DetachRow
AttachingRow == INSTANCE Loops WITH Op <- AttachRow
Covering     == INSTANCE Loops WITH Op <- coverCol
Uncovering   == INSTANCE Loops WITH Op <- uncoverCol

-----------------------------------------------------------------------------
(* Circular lists *)

\* s is the list of h: h itself is at 0 and behind the end.
At(h, s, k) == IF k \in 1..Len(s) THEN s[k] ELSE h
Ring(next, prev, h, s) ==
  /\ h \in DOMAIN next /\ DOMAIN prev = DOMAIN next
  /\ s \in Seq(DOMAIN next)
  /\ \A k \in 1..Len(s) : s[k] # h /\ \A j \in 1..Len(s) : s[j] = s[k] => j = k
  /\ \A k \in 0..Len(s) : /\ next[At(h, s, k)] = At(h, s, k + 1)
                          /\ prev[At(h, s, k + 1)] = At(h, s, k)

\* A list is not longer than there are nodes.
LEMMA RingLength ==
  ASSUME NEW next, NEW prev, NEW h, NEW s, Ring(next, prev, h, s), IsFiniteSet(DOMAIN next)
  PROVE  Len(s) + 1 \in 1..Cardinality(DOMAIN next)
<1> DEFINE f == [k \in 1..(Len(s) + 1) |-> At(h, s, k)]
<1>1. Len(s) \in Nat
  BY DEF Ring
<1>2. f \in Injection(1..(Len(s) + 1), DOMAIN next)
  <2>1. f \in [1..(Len(s) + 1) -> DOMAIN next]
    BY DEF Ring, At
  <2>2. ASSUME NEW j \in 1..(Len(s) + 1), NEW k \in 1..(Len(s) + 1), f[j] = f[k] PROVE j = k
    BY <1>1, <2>2 DEF Ring, At
  <2>. QED BY <2>1, <2>2 DEF Injection, IsInjective
<1>3. Cardinality(1..(Len(s) + 1)) = Len(s) + 1
  BY <1>1, FS_Interval
<1>. QED BY <1>1, <1>2, <1>3, FS_Injection, FS_CardinalityType

\* at steps along next from n.
Steps(at, next, n) == at = [k \in Nat |-> IF k = 0 THEN n ELSE next[at[k - 1]]]

Upto(f, next, n, m) == f[0] = n /\ \A k \in 1..m : f[k] = next[f[k - 1]]

\* Such a function exists for every start.
LEMMA StepsExist ==
  ASSUME NEW next, NEW n
  PROVE  \E at : Steps(at, next, n)
<1> DEFINE S == {m \in Nat : \E f : Upto(f, next, n, m)}
<1>1. 0 \in S
  <2>1. Upto([k \in 0..0 |-> n], next, n, 0)
    BY DEF Upto
  <2>. QED BY <2>1
<1>2. ASSUME NEW m \in Nat, m \in S PROVE m + 1 \in S
  <2>1. PICK f : Upto(f, next, n, m)
    BY <1>2
  <2> DEFINE g == [k \in 0..(m + 1) |-> IF k <= m THEN f[k] ELSE next[f[m]]]
  <2>2. ASSUME NEW k \in 1..(m + 1) PROVE g[k] = next[g[k - 1]]
    <3>1. CASE k <= m
      <4>1. k \in 1..m /\ k - 1 \in 0..m
        BY <3>1
      <4>2. g[k] = f[k] /\ g[k - 1] = f[k - 1]
        BY <4>1
      <4>. QED BY <2>1, <4>1, <4>2 DEF Upto
    <3>2. CASE k = m + 1
      BY <3>2
    <3>. QED BY <3>1, <3>2
  <2>3. g[0] = n
    BY <2>1 DEF Upto
  <2> HIDE DEF g
  <2>4. Upto(g, next, n, m + 1)
    BY <2>2, <2>3 DEF Upto
  <2>. QED BY <2>4
<1>3. ASSUME NEW i \in Nat, NEW j \in Nat, NEW f, NEW g, Upto(f, next, n, i), Upto(g, next, n, j)
      PROVE  \A k \in Nat : k <= i /\ k <= j => f[k] = g[k]
  <2> DEFINE T == {k \in Nat : k <= i /\ k <= j => f[k] = g[k]}
  <2>1. 0 \in T
    BY <1>3 DEF Upto
  <2>2. ASSUME NEW k \in Nat, k \in T PROVE k + 1 \in T
    <3> SUFFICES ASSUME k + 1 <= i, k + 1 <= j PROVE f[k + 1] = g[k + 1]
      OBVIOUS
    <3>1. f[k] = g[k] /\ k + 1 \in 1..i /\ k + 1 \in 1..j /\ (k + 1) - 1 = k
      BY <2>2
    <3>2. f[k + 1] = next[f[(k + 1) - 1]] /\ g[k + 1] = next[g[(k + 1) - 1]]
      BY <1>3, <3>1 DEF Upto
    <3>. QED BY <3>1, <3>2
  <2> HIDE DEF T
  <2>3. Nat \subseteq T
    BY <2>1, <2>2, Detaching!SetInduction
  <2>. QED BY <2>3 DEF T
<1> HIDE DEF S
<1>4. Nat \subseteq S
  BY <1>1, <1>2, Detaching!SetInduction
<1> DEFINE F(m) == CHOOSE f : Upto(f, next, n, m)
           at == [k \in Nat |-> F(k)[k]]
<1>5. ASSUME NEW m \in Nat PROVE Upto(F(m), next, n, m)
  <2>1. \E f : Upto(f, next, n, m)
    BY <1>4 DEF S
  <2>. QED BY <2>1
<1> HIDE DEF F
<1>6. ASSUME NEW k \in Nat PROVE at[k] = IF k = 0 THEN n ELSE next[at[k - 1]]
  <2>1. CASE k = 0
    <3>1. at[0] = F(0)[0] /\ Upto(F(0), next, n, 0)
      BY <1>5
    <3>. QED BY <2>1, <3>1 DEF Upto
  <2>2. CASE k # 0
    <3>1. k - 1 \in Nat /\ k \in 1..k /\ k - 1 <= k
      BY <2>2
    <3>2. F(k)[k] = next[F(k)[k - 1]]
      BY <1>5, <3>1 DEF Upto
    <3>3. F(k)[k - 1] = F(k - 1)[k - 1]
      <4>1. Upto(F(k), next, n, k) /\ Upto(F(k - 1), next, n, k - 1)
        BY <1>5, <3>1
      <4>. QED BY <1>3, <3>1, <4>1
    <3>. QED BY <2>2, <3>1, <3>2, <3>3
  <2>. QED BY <2>1, <2>2
<1>7. at = [k \in Nat |-> IF k = 0 THEN n ELSE next[at[k - 1]]]
  <2> DEFINE u == [k \in Nat |-> IF k = 0 THEN n ELSE next[at[k - 1]]]
  <2>1. at = [k \in Nat |-> at[k]]
    OBVIOUS
  <2> HIDE DEF at
  <2>2. \A k \in Nat : at[k] = u[k]
    BY <1>6
  <2>. QED BY <2>1, <2>2
<1>. QED BY <1>7 DEF Steps

\* A walk visits the list.
LEMMA WalkRing ==
  ASSUME NEW next, NEW prev, NEW h, NEW s, Ring(next, prev, h, s), IsFiniteSet(DOMAIN next)
  PROVE  Walk(next, h) = s
<1> DEFINE at == CHOOSE at : Steps(at, next, h)
           Back(k) == at[k] = h /\ \A j \in 1..(k - 1) : at[j] # h
           back == CHOOSE k \in 1..Cardinality(DOMAIN next) : Back(k)
<1>1. Len(s) \in Nat
  BY DEF Ring
<1>2. Steps(at, next, h)
  BY StepsExist
<1>3. Walk(next, h) = [k \in 1..(back - 1) |-> at[k]]
  BY Zenon DEF Walk, Steps
<1> HIDE DEF at
<1>4. \A k \in Nat : k <= Len(s) + 1 => at[k] = At(h, s, k)
  <2> DEFINE T == {k \in Nat : k <= Len(s) + 1 => at[k] = At(h, s, k)}
  <2>1. 0 \in T
    BY <1>2 DEF Steps, At
  <2>2. ASSUME NEW k \in Nat, k \in T PROVE k + 1 \in T
    <3> SUFFICES ASSUME k + 1 <= Len(s) + 1 PROVE at[k + 1] = At(h, s, k + 1)
      OBVIOUS
    <3>1. k \in 0..Len(s) /\ at[k] = At(h, s, k) /\ (k + 1) - 1 = k /\ k + 1 \in Nat /\ k + 1 # 0
      BY <1>1, <2>2
    <3>2. at[k + 1] = next[at[k]]
      BY <1>2, <3>1 DEF Steps
    <3>. QED BY <3>1, <3>2 DEF Ring
  <2> HIDE DEF T
  <2>3. Nat \subseteq T
    BY <2>1, <2>2, Detaching!SetInduction
  <2>. QED BY <2>3 DEF T
<1>5. Len(s) + 1 \in 1..Cardinality(DOMAIN next) /\ Cardinality(DOMAIN next) \in Nat
  BY RingLength, FS_CardinalityType
<1>6. ASSUME NEW j \in 1..Len(s) PROVE at[j] = s[j] /\ at[j] # h
  <2>1. j \in Nat /\ j <= Len(s) + 1 /\ At(h, s, j) = s[j]
    BY <1>1 DEF At
  <2>. QED BY <1>4, <2>1 DEF Ring
<1>7. at[Len(s) + 1] = h
  <2>1. At(h, s, Len(s) + 1) = h /\ Len(s) + 1 \in Nat
    BY <1>1 DEF At
  <2>. QED BY <1>1, <1>4, <2>1
<1>8. Back(Len(s) + 1)
  BY <1>1, <1>6, <1>7
<1>9. ASSUME NEW k \in 1..Cardinality(DOMAIN next), Back(k) PROVE k = Len(s) + 1
  <2>1. ~(k <= Len(s))
    BY <1>1, <1>6, <1>9
  <2>2. ~(Len(s) + 1 <= k - 1)
    <3>1. Len(s) + 1 <= k - 1 => Len(s) + 1 \in 1..(k - 1)
      BY <1>1, <1>5
    <3>. QED BY <1>7, <1>9, <3>1
  <2>. QED BY <1>1, <1>5, <2>1, <2>2
<1> HIDE DEF Back
<1>10. back = Len(s) + 1
  BY <1>5, <1>8, <1>9
<1> HIDE DEF back
<1>11. Walk(next, h) = [k \in 1..Len(s) |-> s[k]]
  <2>1. back - 1 = Len(s)
    BY <1>1, <1>10
  <2>. QED BY <1>3, <1>6, <2>1
<1>. QED BY <1>11 DEF Ring

\* Backwards the list is the reverse.
LEMMA RingReverse ==
  ASSUME NEW next, NEW prev, NEW h, NEW s, Ring(next, prev, h, s)
  PROVE  Ring(prev, next, h, Reverse(s))
<1> DEFINE t == Reverse(s)
<1>1. /\ Len(s) \in Nat /\ t \in Seq(DOMAIN prev) /\ Len(t) = Len(s)
      /\ \A k \in 1..Len(s) : t[k] = s[(Len(s) - k) + 1]
  BY DEF Ring, Reverse
<1> HIDE DEF t
<1>2. ASSUME NEW k \in 0..(Len(s) + 1) PROVE At(h, t, k) = At(h, s, (Len(s) + 1) - k)
  BY <1>1 DEF At
<1>3. ASSUME NEW k \in 0..Len(s)
      PROVE  prev[At(h, t, k)] = At(h, t, k + 1) /\ next[At(h, t, k + 1)] = At(h, t, k)
  <2> DEFINE m == Len(s) - k
  <2>1. /\ m \in 0..Len(s) /\ (Len(s) + 1) - k = m + 1 /\ (Len(s) + 1) - (k + 1) = m
        /\ k \in 0..(Len(s) + 1) /\ k + 1 \in 0..(Len(s) + 1)
    BY <1>1
  <2> HIDE DEF m
  <2>2. At(h, t, k) = At(h, s, m + 1) /\ At(h, t, k + 1) = At(h, s, m)
    BY <1>2, <2>1
  <2>. QED BY <2>1, <2>2 DEF Ring
<1>4. ASSUME NEW k \in 1..Len(t)
      PROVE  t[k] # h /\ \A j \in 1..Len(t) : t[j] = t[k] => j = k
  <2>1. \A j \in 1..Len(t) : (Len(s) - j) + 1 \in 1..Len(s) /\ t[j] = s[(Len(s) - j) + 1]
    BY <1>1
  <2>2. s[(Len(s) - k) + 1] # h
    BY <2>1 DEF Ring
  <2>3. ASSUME NEW j \in 1..Len(t), t[j] = t[k] PROVE j = k
    <3> DEFINE x == (Len(s) - j) + 1
               y == (Len(s) - k) + 1
    <3>1. x \in 1..Len(s) /\ y \in 1..Len(s) /\ s[x] = s[y]
      BY <2>1, <2>3
    <3> HIDE DEF x, y
    <3>2. x = y
      BY <3>1 DEF Ring
    <3>3. (Len(s) - j) + 1 = (Len(s) - k) + 1
      BY <3>2 DEF x, y
    <3>. QED BY <1>1, <3>3
  <2>. QED BY <2>1, <2>2, <2>3
<1>. QED BY <1>1, <1>3, <1>4 DEF Ring, t

\* A list is the same if its pointers are.
LEMMA RingSame ==
  ASSUME NEW next, NEW prev, NEW h, NEW s, Ring(next, prev, h, s),
         NEW next2, NEW prev2, DOMAIN next \subseteq DOMAIN next2, DOMAIN prev2 = DOMAIN next2,
         \A n \in {h} \cup Range(s) : next2[n] = next[n] /\ prev2[n] = prev[n]
  PROVE  Ring(next2, prev2, h, s)
<1>1. \A k \in 0..(Len(s) + 1) : At(h, s, k) \in {h} \cup Range(s)
  BY DEF Ring, At, Range
<1>2. s \in Seq(DOMAIN next2)
  BY DEF Ring
<1>3. ASSUME NEW k \in 0..Len(s)
      PROVE  next2[At(h, s, k)] = At(h, s, k + 1) /\ prev2[At(h, s, k + 1)] = At(h, s, k)
  <2>1. k \in 0..(Len(s) + 1) /\ k + 1 \in 0..(Len(s) + 1)
    BY DEF Ring
  <2>. QED BY <1>1, <2>1 DEF Ring
<1>. QED BY <1>2, <1>3 DEF Ring

\* The kth node is taken out.
Without(s, k) == [i \in 1..(Len(s) - 1) |-> IF i < k THEN s[i] ELSE s[i + 1]]

\* Taking the k-th node out leaves the list without it.
LEMMA RingRemove ==
  ASSUME NEW next, NEW prev, NEW h, NEW s, Ring(next, prev, h, s), NEW k \in 1..Len(s), NEW j, j = s[k]
  PROVE  /\ next[prev[j]] = j /\ prev[next[j]] = j
         /\ prev[j] \in {h} \cup Range(s) /\ next[j] \in {h} \cup Range(s)
         /\ prev[j] # j /\ next[j] # j
         /\ Ring([next EXCEPT ![prev[j]] = next[j]], [prev EXCEPT ![next[j]] = prev[j]], h, Without(s, k))
<1> DEFINE n2 == [next EXCEPT ![prev[j]] = next[j]]
           p2 == [prev EXCEPT ![next[j]] = prev[j]]
           t  == Without(s, k)
<1>1. Len(s) \in Nat /\ \A i \in 1..Len(s) : s[i] \in DOMAIN next
  BY DEF Ring
<1>2. /\ t \in Seq(DOMAIN next) /\ Len(t) = Len(s) - 1
      /\ \A i \in 1..(Len(s) - 1) : t[i] = IF i < k THEN s[i] ELSE s[i + 1]
  BY <1>1 DEF Without
<1>3. j = At(h, s, k) /\ next[j] = At(h, s, k + 1) /\ prev[j] = At(h, s, k - 1)
  <2>1. k - 1 \in 0..Len(s) /\ k \in 0..Len(s) /\ (k - 1) + 1 = k
    BY <1>1
  <2>2. j = At(h, s, k)
    BY DEF At
  <2>. QED BY <2>1, <2>2 DEF Ring
<1>4. \A a, b \in 0..Len(s) : At(h, s, a) = At(h, s, b) => a = b
  BY <1>1 DEF Ring, At
<1>5. \A a \in 0..(Len(s) + 1) : At(h, s, a) \in {h} \cup Range(s) /\ At(h, s, a) \in DOMAIN next
  BY <1>1 DEF Ring, At, Range
<1>6. At(h, s, Len(s) + 1) = At(h, s, 0)
  BY <1>1 DEF At
<1> HIDE DEF t
<1>7. \A i \in 0..Len(s) : At(h, t, i) = IF i < k THEN At(h, s, i) ELSE At(h, s, i + 1)
  BY <1>1, <1>2 DEF At
<1>8. ASSUME NEW i \in 0..Len(t)
      PROVE  n2[At(h, t, i)] = At(h, t, i + 1) /\ p2[At(h, t, i + 1)] = At(h, t, i)
  <2> DEFINE a == IF i < k THEN i ELSE i + 1
  <2>1. CASE i = k - 1
    <3>1. At(h, t, i) = prev[j] /\ At(h, t, i + 1) = next[j]
      BY <1>1, <1>2, <1>3, <1>7, <2>1
    <3>2. prev[j] \in DOMAIN next /\ next[j] \in DOMAIN prev
      BY <1>1, <1>3, <1>5 DEF Ring
    <3>. QED BY <3>1, <3>2
  <2>2. CASE i # k - 1
    <3>1. /\ a \in 0..Len(s) /\ a # k - 1 /\ a + 1 # k + 1 /\ a # k
          /\ At(h, t, i) = At(h, s, a) /\ At(h, t, i + 1) = At(h, s, a + 1)
      BY <1>1, <1>2, <1>7, <2>2
    <3> HIDE DEF a
    <3>2. next[At(h, s, a)] = At(h, s, a + 1) /\ prev[At(h, s, a + 1)] = At(h, s, a)
      BY <3>1 DEF Ring
    <3>3. At(h, s, a) # prev[j]
      BY <1>1, <1>3, <1>4, <3>1
    <3>4. At(h, s, a + 1) # next[j]
      <4>1. At(h, s, a + 1) = next[j] => At(h, s, a) = prev[next[j]]
        BY <3>2
      <4>2. prev[next[j]] = j
        BY <1>1, <1>3 DEF Ring
      <4>. QED BY <1>1, <1>3, <1>4, <3>1, <4>1, <4>2
    <3>. QED BY <1>1, <1>5, <3>1, <3>2, <3>3, <3>4 DEF Ring
  <2>. QED BY <2>1, <2>2
<1>9. ASSUME NEW i \in 1..Len(t)
      PROVE  t[i] # h /\ \A b \in 1..Len(t) : t[b] = t[i] => b = i
  <2> DEFINE pos(b) == IF b < k THEN b ELSE b + 1
  <2>1. \A b \in 1..Len(t) : pos(b) \in 1..Len(s) /\ t[b] = s[pos(b)]
    BY <1>1, <1>2
  <2>2. \A a, b \in 1..Len(t) : pos(a) = pos(b) => a = b
    BY <1>1, <1>2
  <2> HIDE DEF pos
  <2>3. t[i] # h
    <3>1. \A a \in 1..Len(s) : s[a] # h
      BY DEF Ring
    <3>. QED BY <2>1, <3>1
  <2>4. ASSUME NEW b \in 1..Len(t), t[b] = t[i] PROVE b = i
    <3>1. s[pos(b)] = s[pos(i)]
      BY <2>1, <2>4
    <3>2. pos(b) = pos(i)
      BY <2>1, <3>1 DEF Ring
    <3>. QED BY <2>2, <3>2
  <2>. QED BY <2>3, <2>4
<1>10. Ring(n2, p2, h, t)
  BY <1>2, <1>8, <1>9 DEF Ring
<1>11. next[prev[j]] = j /\ prev[next[j]] = j /\ prev[j] # j /\ next[j] # j
  <2>1. k - 1 \in 0..Len(s) /\ k \in 0..Len(s) /\ (k - 1) + 1 = k
    BY <1>1
  <2>2. next[prev[j]] = j /\ prev[next[j]] = j
    BY <1>3, <2>1 DEF Ring
  <2>3. k - 1 # k
    BY <1>1
  <2>4. prev[j] # j
    BY <1>3, <1>4, <2>1, <2>3
  <2>5. next[j] # j
    BY <2>2, <2>4
  <2>. QED BY <2>2, <2>4, <2>5
<1>. QED BY <1>1, <1>3, <1>5, <1>10, <1>11 DEF t

\* What is then on the list.
LEMMA WithoutRange ==
  ASSUME NEW next, NEW prev, NEW h, NEW s, Ring(next, prev, h, s), NEW k \in 1..Len(s), NEW j, j = s[k]
  PROVE  Range(Without(s, k)) = Range(s) \ {j} /\ Len(Without(s, k)) = Len(s) - 1
<1> DEFINE t == Without(s, k)
<1>1. Len(s) \in Nat /\ DOMAIN s = 1..Len(s)
  BY DEF Ring
<1>2. /\ DOMAIN t = 1..(Len(s) - 1) /\ Len(t) = Len(s) - 1
      /\ \A i \in 1..(Len(s) - 1) : t[i] = IF i < k THEN s[i] ELSE s[i + 1]
  BY <1>1 DEF Without
<1> HIDE DEF t
<1>3. ASSUME NEW x \in Range(t) PROVE x \in Range(s) \ {j}
  <2>1. PICK i \in 1..(Len(s) - 1) : x = t[i]
    BY <1>2 DEF Range
  <2>2. PICK b \in 1..Len(s) : x = s[b] /\ b # k
    BY <1>1, <1>2, <2>1
  <2>. QED BY <1>1, <2>2 DEF Ring, Range
<1>4. ASSUME NEW x \in Range(s), x # j PROVE x \in Range(t)
  <2>1. PICK b \in 1..Len(s) : x = s[b]
    BY <1>1 DEF Range
  <2>2. b # k
    BY <1>4, <2>1
  <2>3. PICK i \in 1..(Len(s) - 1) : x = t[i]
    <3>1. CASE b < k
      BY <1>1, <1>2, <2>1, <3>1
    <3>2. CASE b > k
      <4>1. b - 1 \in 1..(Len(s) - 1) /\ ~(b - 1 < k) /\ (b - 1) + 1 = b
        BY <1>1, <3>2
      <4>. QED BY <1>2, <2>1, <4>1
    <3>. QED BY <2>2, <3>1, <3>2
  <2>. QED BY <1>2, <2>3 DEF Range
<1>. QED BY <1>2, <1>3, <1>4 DEF t

\* A node is put behind the others.
LEMMA RingAppend ==
  ASSUME NEW next, NEW prev, NEW h, NEW s, Ring(next, prev, h, s),
         NEW n \in DOMAIN next, n # h, \A k \in 1..Len(s) : s[k] # n
  PROVE  Ring([next EXCEPT ![n] = h, ![prev[h]] = n], [prev EXCEPT ![n] = prev[h], ![h] = n], h, Append(s, n))
<1> DEFINE n2 == [next EXCEPT ![n] = h, ![prev[h]] = n]
           p2 == [prev EXCEPT ![n] = prev[h], ![h] = n]
           t  == Append(s, n)
<1>1. Len(s) \in Nat /\ \A i \in 1..Len(s) : s[i] \in DOMAIN next
  BY DEF Ring
<1>2. /\ t \in Seq(DOMAIN next) /\ Len(t) = Len(s) + 1 /\ t[Len(s) + 1] = n
      /\ \A i \in 1..Len(s) : t[i] = s[i]
  BY DEF Ring
<1> HIDE DEF t
<1>3. prev[h] = At(h, s, Len(s))
  <2>1. At(h, s, Len(s) + 1) = h /\ Len(s) \in 0..Len(s)
    BY <1>1 DEF At
  <2>. QED BY <2>1 DEF Ring
<1>4. \A a, b \in 0..Len(s) : At(h, s, a) = At(h, s, b) => a = b
  BY <1>1 DEF Ring, At
<1>5. \A a \in 0..(Len(s) + 1) : At(h, s, a) \in DOMAIN next /\ At(h, s, a) # n
  BY <1>1 DEF Ring, At
<1>6. /\ \A a \in 0..Len(s) : At(h, t, a) = At(h, s, a)
      /\ At(h, t, Len(s) + 1) = n /\ At(h, t, (Len(s) + 1) + 1) = h
  BY <1>1, <1>2 DEF At
<1>7. ASSUME NEW i \in 0..Len(t)
      PROVE  n2[At(h, t, i)] = At(h, t, i + 1) /\ p2[At(h, t, i + 1)] = At(h, t, i)
  <2>1. CASE i < Len(s)
    <3>1. i \in 0..Len(s) /\ i + 1 \in 0..Len(s) /\ i # Len(s) /\ i + 1 # 0 /\ 0 \in 0..Len(s)
      BY <1>1, <2>1
    <3>2. At(h, s, i) # prev[h]
      BY <1>1, <1>3, <1>4, <3>1
    <3>3. At(h, s, i + 1) # h
      <4>1. At(h, s, 0) = h
        BY DEF At
      <4>. QED BY <1>4, <3>1, <4>1
    <3>4. next[At(h, s, i)] = At(h, s, i + 1) /\ prev[At(h, s, i + 1)] = At(h, s, i)
      BY <3>1 DEF Ring
    <3>5. At(h, s, i) \in DOMAIN next /\ At(h, s, i) # n /\ At(h, s, i + 1) \in DOMAIN prev /\ At(h, s, i + 1) # n
      <4>1. i \in 0..(Len(s) + 1) /\ i + 1 \in 0..(Len(s) + 1)
        BY <1>1, <2>1
      <4>. QED BY <1>5, <4>1 DEF Ring
    <3>. QED BY <1>6, <3>1, <3>2, <3>3, <3>4, <3>5
  <2>2. CASE i = Len(s)
    <3>1. At(h, t, i) = prev[h] /\ At(h, t, i + 1) = n
      BY <1>1, <1>3, <1>6, <2>2
    <3>2. prev[h] \in DOMAIN next /\ n # h
      <4>1. Len(s) \in 0..(Len(s) + 1)
        BY <1>1
      <4>. QED BY <1>3, <1>5, <4>1
    <3>. QED BY <3>1, <3>2 DEF Ring
  <2>3. CASE i = Len(s) + 1
    <3>1. At(h, t, i) = n /\ At(h, t, i + 1) = h
      BY <1>1, <1>6, <2>3
    <3>2. prev[h] # n /\ h \in DOMAIN prev
      <4>1. Len(s) \in 0..(Len(s) + 1)
        BY <1>1
      <4>. QED BY <1>3, <1>5, <4>1 DEF Ring
    <3>. QED BY <3>1, <3>2
  <2>. QED BY <1>1, <1>2, <2>1, <2>2, <2>3
<1>8. ASSUME NEW i \in 1..Len(t)
      PROVE  t[i] # h /\ \A b \in 1..Len(t) : t[b] = t[i] => b = i
  <2>1. \A b \in 1..Len(t) : b \in 1..Len(s) \/ b = Len(s) + 1
    BY <1>1, <1>2
  <2>2. \A b \in 1..Len(s) : t[b] = s[b] /\ t[b] # n /\ t[b] # h
    BY <1>2 DEF Ring
  <2>3. \A a, b \in 1..Len(s) : t[b] = t[a] => b = a
    BY <1>2 DEF Ring
  <2>. QED BY <1>2, <2>1, <2>2, <2>3
<1>. QED BY <1>2, <1>7, <1>8 DEF Ring, t

-----------------------------------------------------------------------------
(* The lists of a matrix with the columns C and the rows O *)

Sorts == {"cell", "row", "col", "box"}
Live(O) == Sorts \X O

\* The next node of a row, and the three others.
After(sort) == CASE sort = "cell" -> "row" [] sort = "row" -> "col"
                 [] sort = "col" -> "box" [] sort = "box" -> "cell"
Beside(n) == <<After(n[1]), n[2]>>
Others(n) == <<Beside(n), Beside(Beside(n)), Beside(Beside(Beside(n)))>>

\* What the names of nodes have to do with each other; N is all of them.
Shape(N, C, O) ==
  /\ IsFiniteSet(N) /\ {Root} \cup C \cup Live(O) \subseteq N
  /\ Root \notin C /\ Root \notin Live(O) /\ C \cap Live(O) = {}
  /\ \A n \in Live(O) : ColumnOf(n) \in C
  /\ \A m, n \in Live(O) : m[2] = n[2] /\ ColumnOf(m) = ColumnOf(n) => m = n

LinkSet(N, C) ==
  [left : [N -> N], right : [N -> N], up : [N -> N], down : [N -> N], size : [{Root} \cup C -> Int]]

Column(L, c, S) == \E s : Ring(L.down, L.up, c, s) /\ Range(s) = S /\ L.size[c] = Len(s)
Rows(L, O) == \A n \in Live(O) : L.right[n] = Beside(n) /\ L.left[Beside(n)] = n
Heads(L, H) == \E s : Ring(L.right, L.left, Root, s) /\ Range(s) = H

\* The columns H are in the list of the root, the nodes S in those of the columns K.
Lists(L, N, C, O, H, K, S) ==
  /\ L \in LinkSet(N, C)
  /\ Heads(L, H)
  /\ Rows(L, O)
  /\ \A c \in K : Column(L, c, {n \in S : ColumnOf(n) = c})

\* A row has four nodes, which Beside goes round.
LEMMA BesideFacts ==
  ASSUME NEW O, NEW n \in Live(O)
  PROVE  /\ Beside(n) \in Live(O) /\ Beside(n)[2] = n[2]
         /\ Beside(n) # n /\ Beside(Beside(n)) # n /\ Beside(Beside(Beside(n))) # n
         /\ Beside(Beside(Beside(Beside(n)))) = n
         /\ \A x \in Live(O) : x[2] = n[2] =>
              x \in {n, Beside(n), Beside(Beside(n)), Beside(Beside(Beside(n)))}
<1>1. PICK a \in Sorts, o \in O : n = <<a, o>>
  BY DEF Live
<1>2. /\ After("cell") = "row" /\ After("row") = "col" /\ After("col") = "box" /\ After("box") = "cell"
  BY DEF After
<1>3. \A b : Beside(<<b, o>>) = <<After(b), o>>
  BY DEF Beside
<1>4. \A b \in Sorts :
        /\ After(b) \in Sorts /\ After(b) # b /\ After(After(b)) # b /\ After(After(After(b))) # b
        /\ After(After(After(After(b)))) = b
  BY <1>2 DEF Sorts
<1>5. /\ Beside(n) = <<After(a), o>> /\ Beside(Beside(n)) = <<After(After(a)), o>>
      /\ Beside(Beside(Beside(n))) = <<After(After(After(a))), o>>
      /\ Beside(Beside(Beside(Beside(n)))) = <<After(After(After(After(a)))), o>>
  BY <1>1, <1>3
<1>6. \A b \in Sorts : b \in {a, After(a), After(After(a)), After(After(After(a)))}
  BY <1>1, <1>2 DEF Sorts
<1>7. ASSUME NEW x \in Live(O), x[2] = n[2]
      PROVE  x \in {n, Beside(n), Beside(Beside(n)), Beside(Beside(Beside(n)))}
  <2>1. PICK b \in Sorts, p \in O : x = <<b, p>>
    BY DEF Live
  <2>2. p = o
    BY <1>1, <1>7, <2>1
  <2>. QED BY <1>1, <1>5, <1>6, <2>1, <2>2
<1>8. Beside(n) \in Live(O) /\ Beside(n)[2] = n[2]
  BY <1>1, <1>4, <1>5 DEF Live
<1>. QED BY <1>1, <1>4, <1>5, <1>7, <1>8

\* The walks along a row.
LEMMA RowRing ==
  ASSUME NEW O, NEW L, Rows(L, O), NEW n \in Live(O), Live(O) \subseteq DOMAIN L.right,
         DOMAIN L.left = DOMAIN L.right
  PROVE  Ring(L.right, L.left, n, Others(n))
<1> DEFINE a == Beside(n)
           b == Beside(a)
           c == Beside(b)
           s == <<a, b, c>>
<1>1. a \in Live(O) /\ b \in Live(O) /\ c \in Live(O) /\ Beside(c) = n
  BY BesideFacts
<1>2. a # n /\ b # n /\ c # n /\ b # a /\ c # a /\ c # b
  BY <1>1, BesideFacts
<1>3. /\ L.right[n] = a /\ L.right[a] = b /\ L.right[b] = c /\ L.right[c] = n
      /\ L.left[a] = n /\ L.left[b] = a /\ L.left[c] = b /\ L.left[n] = c
  BY <1>1 DEF Rows
<1>4. Others(n) = s
  BY DEF Others
<1> HIDE DEF a, b, c
<1>5. At(n, s, 0) = n /\ At(n, s, 1) = a /\ At(n, s, 2) = b /\ At(n, s, 3) = c /\ At(n, s, 4) = n
  BY DEF At
<1>6. ASSUME NEW k \in 0..3
      PROVE  L.right[At(n, s, k)] = At(n, s, k + 1) /\ L.left[At(n, s, k + 1)] = At(n, s, k)
  <2>1. k = 0 \/ k = 1 \/ k = 2 \/ k = 3
    OBVIOUS
  <2>. QED BY <1>3, <1>5, <2>1
<1>7. ASSUME NEW k \in 1..3 PROVE s[k] # n /\ \A j \in 1..3 : s[j] = s[k] => j = k
  BY <1>2
<1>8. s \in Seq(DOMAIN L.right) /\ Len(s) = 3 /\ n \in DOMAIN L.right
  <2>1. a \in DOMAIN L.right /\ b \in DOMAIN L.right /\ c \in DOMAIN L.right
    BY <1>1
  <2>. QED BY <2>1
<1>9. Ring(L.right, L.left, n, s)
  <2> HIDE DEF s
  <2>. QED BY <1>6, <1>7, <1>8 DEF Ring
<1>. QED BY <1>4, <1>9

\* Taking j out of its column: the rest stays, and Attach puts j back.
Detaches(N, C, O, H, K, S, L, j) ==
  LET D == Detach(L, j)
  IN  /\ Lists(D, N, C, O, H, K, S \ {j})
      /\ Attach(D, j) = L
      /\ D.left = L.left /\ D.right = L.right
      /\ \A c \in C : \A s : /\ c # ColumnOf(j) /\ Ring(L.down, L.up, c, s)
                             /\ Range(s) \subseteq {n \in Live(O) : ColumnOf(n) = c}
                             => Ring(D.down, D.up, c, s)

\* Detaching a node takes it out of its column only, and attaching undoes that.
LEMMA DetachLists ==
  ASSUME NEW N, NEW C, NEW O, Shape(N, C, O), NEW H, NEW K \in SUBSET C, NEW S \in SUBSET Live(O),
         NEW L, Lists(L, N, C, O, H, K, S), H \subseteq C,
         NEW j \in S, ColumnOf(j) \in K
  PROVE  Detaches(N, C, O, H, K, S, L, j)
<1> DEFINE D == Detach(L, j)
           d == ColumnOf(j)
<1>1. PICK s : Ring(L.down, L.up, d, s) /\ Range(s) = {n \in S : ColumnOf(n) = d} /\ L.size[d] = Len(s)
  BY DEF Lists, Column
<1>2. PICK k \in 1..Len(s) : j = s[k]
  <2>1. j \in Range(s)
    BY <1>1
  <2>. QED BY <1>1, <2>1 DEF Range, Ring
<1>3. /\ L.down[L.up[j]] = j /\ L.up[L.down[j]] = j
      /\ L.up[j] \in {d} \cup Range(s) /\ L.down[j] \in {d} \cup Range(s)
      /\ L.up[j] # j /\ L.down[j] # j
      /\ Ring([L.down EXCEPT ![L.up[j]] = L.down[j]], [L.up EXCEPT ![L.down[j]] = L.up[j]], d, Without(s, k))
  BY <1>1, <1>2, RingRemove
<1>4. L \in LinkSet(N, C) /\ j \in N /\ d \in C /\ d \in N /\ d # Root
  BY DEF Lists, Shape
<1>5. /\ D.left = L.left /\ D.right = L.right
      /\ D.up = [L.up EXCEPT ![L.down[j]] = L.up[j]]
      /\ D.down = [L.down EXCEPT ![L.up[j]] = L.down[j]]
      /\ D.size = [L.size EXCEPT ![d] = L.size[d] - 1]
      /\ D \in LinkSet(N, C)
  <2>1. D = [left |-> L.left, right |-> L.right, up |-> [L.up EXCEPT ![L.down[j]] = L.up[j]],
             down |-> [L.down EXCEPT ![L.up[j]] = L.down[j]], size |-> [L.size EXCEPT ![d] = L.size[d] - 1]]
    <3>1. D = [L EXCEPT !.up = [L.up EXCEPT ![L.down[j]] = L.up[j]],
                        !.down = [L.down EXCEPT ![L.up[j]] = L.down[j]],
                        !.size = [L.size EXCEPT ![d] = L.size[d] - 1]]
      BY <1>4 DEF Detach, LinkSet
    <3>. QED BY <1>4, <3>1 DEF LinkSet
  <2>2. L.down[j] \in N /\ L.up[j] \in N
    BY <1>4 DEF LinkSet
  <2>. QED BY <1>4, <2>1, <2>2 DEF LinkSet
<1> HIDE DEF D
<1>6. Attach(D, j) = L
  <2>1. D.down[j] = L.down[j] /\ D.up[j] = L.up[j]
    BY <1>3, <1>4, <1>5 DEF LinkSet
  <2>2. [D.up EXCEPT ![L.down[j]] = j] = L.up /\ [D.down EXCEPT ![L.up[j]] = j] = L.down
        /\ [D.size EXCEPT ![d] = D.size[d] + 1] = L.size
    <3>1. [D.up EXCEPT ![L.down[j]] = j] = L.up
      BY <1>3, <1>4, <1>5 DEF LinkSet
    <3>2. [D.down EXCEPT ![L.up[j]] = j] = L.down
      BY <1>3, <1>4, <1>5 DEF LinkSet
    <3>3. [D.size EXCEPT ![d] = D.size[d] + 1] = L.size
      <4>1. D.size[d] + 1 = L.size[d]
        BY <1>4, <1>5 DEF LinkSet
      <4>. QED BY <1>4, <1>5, <4>1 DEF LinkSet
    <3>. QED BY <3>1, <3>2, <3>3
  <2>3. Attach(D, j) = [left |-> D.left, right |-> D.right, up |-> [D.up EXCEPT ![D.down[j]] = j],
                        down |-> [D.down EXCEPT ![D.up[j]] = j], size |-> [D.size EXCEPT ![d] = D.size[d] + 1]]
    BY <1>5 DEF Attach, LinkSet
  <2>. QED BY <1>4, <1>5, <2>1, <2>2, <2>3 DEF LinkSet
<1>7. \A n \in N : n \notin {d} \cup Range(s) => D.down[n] = L.down[n] /\ D.up[n] = L.up[n]
  BY <1>3, <1>4, <1>5 DEF LinkSet
<1>8. ASSUME NEW c \in C, NEW t, c # d, Ring(L.down, L.up, c, t), Range(t) \subseteq {n \in Live(O) : ColumnOf(n) = c}
      PROVE  Ring(D.down, D.up, c, t)
  <2>1. \A n \in {c} \cup Range(t) : n \in N /\ n \notin {d} \cup Range(s)
    BY <1>1, <1>4, <1>8 DEF Shape
  <2>2. DOMAIN L.down = DOMAIN D.down /\ DOMAIN D.up = DOMAIN D.down
    BY <1>4, <1>5 DEF LinkSet
  <2>. QED BY <1>7, <1>8, <2>1, <2>2, RingSame
<1>9. ASSUME NEW c \in K PROVE Column(D, c, {n \in S \ {j} : ColumnOf(n) = c})
  <2>1. CASE c = d
    <3>1. Ring(D.down, D.up, c, Without(s, k))
      BY <1>3, <1>5, <2>1
    <3>2. Range(Without(s, k)) = Range(s) \ {j} /\ Len(Without(s, k)) = Len(s) - 1
      BY <1>1, <1>2, WithoutRange
    <3>3. D.size[c] = Len(Without(s, k))
      BY <1>1, <1>4, <1>5, <2>1, <3>2 DEF LinkSet
    <3>. QED BY <1>1, <2>1, <3>1, <3>2, <3>3 DEF Column
  <2>2. CASE c # d
    <3>1. PICK t : Ring(L.down, L.up, c, t) /\ Range(t) = {n \in S : ColumnOf(n) = c} /\ L.size[c] = Len(t)
      BY DEF Lists, Column
    <3>2. Ring(D.down, D.up, c, t)
      BY <1>8, <2>2, <3>1
    <3>3. D.size[c] = Len(t) /\ Range(t) = {n \in S \ {j} : ColumnOf(n) = c}
      BY <1>4, <1>5, <2>2, <3>1 DEF LinkSet
    <3>. QED BY <3>2, <3>3 DEF Column
  <2>. QED BY <2>1, <2>2
<1>10. Heads(D, H) /\ Rows(D, O)
  BY <1>5 DEF Lists, Heads, Rows
<1>11. Lists(D, N, C, O, H, K, S \ {j})
  BY <1>5, <1>9, <1>10 DEF Lists
<1>. QED BY <1>5, <1>6, <1>8, <1>11 DEF D, Detaches

-----------------------------------------------------------------------------
(* The loops *)

\* FoldLeft is the loop of the instances.
LEMMA LoopsAre ==
  ASSUME NEW L, NEW ns
  PROVE  /\ Detaching!Loop(L, ns) = FoldLeft(Detach, L, ns)
         /\ Attaching!Loop(L, ns) = FoldLeft(Attach, L, ns)
         /\ DetachingRow!Loop(L, ns) = FoldLeft(DetachRow, L, ns)
         /\ AttachingRow!Loop(L, ns) = FoldLeft(AttachRow, L, ns)
         /\ Covering!Loop(L, ns) = FoldLeft(coverCol, L, ns)
         /\ Uncovering!Loop(L, ns) = FoldLeft(uncoverCol, L, ns)
<1>1. Detaching!Loop(L, ns) = FoldLeft(Detach, L, ns)
  BY DEF Detaching!Loop, Detaching!Largest, FoldLeft, MapThenFoldSet, Max
<1>2. Attaching!Loop(L, ns) = FoldLeft(Attach, L, ns)
  BY DEF Attaching!Loop, Attaching!Largest, FoldLeft, MapThenFoldSet, Max
<1>3. DetachingRow!Loop(L, ns) = FoldLeft(DetachRow, L, ns)
  BY DEF DetachingRow!Loop, DetachingRow!Largest, FoldLeft, MapThenFoldSet, Max
<1>4. AttachingRow!Loop(L, ns) = FoldLeft(AttachRow, L, ns)
  BY DEF AttachingRow!Loop, AttachingRow!Largest, FoldLeft, MapThenFoldSet, Max
<1>5. Covering!Loop(L, ns) = FoldLeft(coverCol, L, ns)
  BY DEF Covering!Loop, Covering!Largest, FoldLeft, MapThenFoldSet, Max
<1>6. Uncovering!Loop(L, ns) = FoldLeft(uncoverCol, L, ns)
  BY DEF Uncovering!Loop, Uncovering!Largest, FoldLeft, MapThenFoldSet, Max
<1>. QED BY <1>1, <1>2, <1>3, <1>4, <1>5, <1>6

\* The walks along a row, in both directions.
LEMMA RowWalks ==
  ASSUME NEW N, NEW C, NEW O, Shape(N, C, O), NEW L \in LinkSet(N, C), Rows(L, O), NEW n \in Live(O)
  PROVE  /\ Walk(L.right, n) = <<Beside(n), Beside(Beside(n)), Beside(Beside(Beside(n)))>>
         /\ Walk(L.left, n) = <<Beside(Beside(Beside(n))), Beside(Beside(n)), Beside(n)>>
<1>1. /\ DOMAIN L.right = N /\ DOMAIN L.left = N /\ Live(O) \subseteq N
      /\ IsFiniteSet(DOMAIN L.right) /\ IsFiniteSet(DOMAIN L.left)
  BY DEF LinkSet, Shape
<1>2. Ring(L.right, L.left, n, Others(n))
  BY <1>1, RowRing
<1>3. Ring(L.left, L.right, n, Reverse(Others(n)))
  BY <1>2, RingReverse
<1>4. Walk(L.right, n) = Others(n) /\ Walk(L.left, n) = Reverse(Others(n))
  BY <1>1, <1>2, <1>3, WalkRing
<1>5. Reverse(Others(n)) = <<Beside(Beside(Beside(n))), Beside(Beside(n)), Beside(n)>>
  BY DEF Reverse, Others
<1>. QED BY <1>4, <1>5 DEF Others

\* The others of a row are taken out of their columns, and put back.
DetachesRow(N, C, O, H, K, S, L, i) ==
  LET D == DetachRow(L, i)
  IN  /\ Lists(D, N, C, O, H, K, {x \in S : x[2] # i[2] \/ x = i})
      /\ AttachRow(D, i) = L
      /\ D.left = L.left /\ D.right = L.right
      /\ \A s : /\ Ring(L.down, L.up, ColumnOf(i), s)
                /\ Range(s) \subseteq {n \in Live(O) : ColumnOf(n) = ColumnOf(i)}
                => Ring(D.down, D.up, ColumnOf(i), s)

\* So does the inner loop of cover with the others of a row, and that of uncover undoes it.
LEMMA DetachRowLists ==
  ASSUME NEW N, NEW C, NEW O, Shape(N, C, O), NEW H, NEW K \in SUBSET C, NEW S \in SUBSET Live(O),
         NEW L, Lists(L, N, C, O, H, K, S), H \subseteq C, NEW i \in Live(O),
         \A x \in Live(O) : x[2] = i[2] /\ x # i => x \in S /\ ColumnOf(x) \in K
  PROVE  DetachesRow(N, C, O, H, K, S, L, i)
<1> DEFINE a == Beside(i)
           b == Beside(a)
           c == Beside(b)
           A == Detach(L, a)
           B == Detach(A, b)
           D == Detach(B, c)
           S1 == S \ {a}
           S2 == S1 \ {b}
           S3 == S2 \ {c}
<1>1. /\ a \in Live(O) /\ b \in Live(O) /\ c \in Live(O)
      /\ a[2] = i[2] /\ b[2] = i[2] /\ c[2] = i[2]
      /\ a # i /\ b # i /\ c # i
  BY BesideFacts
<1>2. b # a /\ c # a /\ c # b
  BY <1>1, BesideFacts
<1>3. \A x \in Live(O) : x[2] = i[2] => x \in {i, a, b, c}
  BY BesideFacts
<1>4. L \in LinkSet(N, C) /\ Rows(L, O)
  BY DEF Lists
<1>5. DetachRow(L, i) = D
  <2>1. Walk(L.right, i) = <<a, b, c>>
    BY <1>4, RowWalks
  <2>2. FoldLeft(Detach, L, <<a, b, c>>) = Detaching!Loop(L, <<a, b, c>>)
    BY LoopsAre
  <2>3. Detaching!Loop(L, <<a, b, c>>) = D
    BY Detaching!LoopOfThree
  <2>. QED BY <2>1, <2>2, <2>3 DEF DetachRow
<1>6. /\ ColumnOf(a) \in K /\ ColumnOf(b) \in K /\ ColumnOf(c) \in K
      /\ ColumnOf(a) # ColumnOf(i) /\ ColumnOf(b) # ColumnOf(i) /\ ColumnOf(c) # ColumnOf(i)
      /\ a \in S /\ b \in S1 /\ c \in S2 /\ ColumnOf(i) \in C
      /\ S1 \in SUBSET Live(O) /\ S2 \in SUBSET Live(O)
  BY <1>1, <1>2 DEF Shape
<1>7. S3 = {x \in S : x[2] # i[2] \/ x = i}
  BY <1>1, <1>3
<1> HIDE DEF a, b, c
<1>8. Detaches(N, C, O, H, K, S, L, a)
  BY <1>6, DetachLists
<1>9. Detaches(N, C, O, H, K, S1, A, b)
  <2>1. Lists(A, N, C, O, H, K, S1)
    BY <1>8 DEF Detaches
  <2>. QED BY <1>6, <2>1, DetachLists
<1>10. Detaches(N, C, O, H, K, S2, B, c)
  <2>1. Lists(B, N, C, O, H, K, S2)
    BY <1>9 DEF Detaches
  <2>. QED BY <1>6, <2>1, DetachLists
<1> HIDE DEF A, B, D, S1, S2, S3
<1>11. /\ Attach(A, a) = L /\ A.left = L.left /\ A.right = L.right
       /\ Attach(B, b) = A /\ B.left = A.left /\ B.right = A.right
       /\ Attach(D, c) = B /\ D.left = B.left /\ D.right = B.right
  BY <1>8, <1>9, <1>10 DEF Detaches, A, B, D
<1>12. Lists(D, N, C, O, H, K, S3)
  BY <1>10 DEF Detaches, D, S3
<1>13. ASSUME NEW s, Ring(L.down, L.up, ColumnOf(i), s),
              Range(s) \subseteq {n \in Live(O) : ColumnOf(n) = ColumnOf(i)}
       PROVE  Ring(D.down, D.up, ColumnOf(i), s)
  <2>1. Ring(A.down, A.up, ColumnOf(i), s)
    BY <1>6, <1>8, <1>13 DEF Detaches, A
  <2>2. Ring(B.down, B.up, ColumnOf(i), s)
    BY <1>6, <1>9, <1>13, <2>1 DEF Detaches, B
  <2>. QED BY <1>6, <1>10, <1>13, <2>2 DEF Detaches, D
<1>14. AttachRow(D, i) = L
  <2>1. Walk(D.left, i) = <<c, b, a>>
    <3>1. D \in LinkSet(N, C) /\ Rows(D, O)
      BY <1>12 DEF Lists
    <3>. QED BY <3>1, RowWalks DEF a, b, c
  <2>2. AttachRow(D, i) = Attach(Attach(Attach(D, c), b), a)
    <3>1. FoldLeft(Attach, D, <<c, b, a>>) = Attaching!Loop(D, <<c, b, a>>)
      BY LoopsAre
    <3>2. Attaching!Loop(D, <<c, b, a>>) = Attach(Attach(Attach(D, c), b), a)
      BY Attaching!LoopOfThree
    <3>. QED BY <2>1, <3>1, <3>2 DEF AttachRow
  <2>. QED BY <1>11, <2>2
<1>. QED BY <1>5, <1>7, <1>14, <1>11, <1>12, <1>13 DEF DetachesRow

\* The header of c is taken out of the list of the root.
Headless(L, c) == [L EXCEPT !.left = [L.left EXCEPT ![L.right[c]] = L.left[c]],
                            !.right = [L.right EXCEPT ![L.left[c]] = L.right[c]]]

Beheads(N, C, O, H, K, S, L, c) ==
  LET D == Headless(L, c)
  IN  /\ D = [L EXCEPT !.left[L.right[c]] = L.left[c], !.right[L.left[c]] = L.right[c]]
      /\ Lists(D, N, C, O, H \ {c}, K, S)
      /\ [D EXCEPT !.left[D.right[c]] = c, !.right[D.left[c]] = c] = L
      /\ D.down = L.down /\ D.up = L.up

\* Taking the header out of the list of the root, and putting it back.
LEMMA HeadlessLists ==
  ASSUME NEW N, NEW C, NEW O, Shape(N, C, O), NEW H \in SUBSET C, NEW K, NEW S,
         NEW L, Lists(L, N, C, O, H, K, S), NEW c \in H
  PROVE  Beheads(N, C, O, H, K, S, L, c)
<1> DEFINE D == Headless(L, c)
<1>1. PICK s : Ring(L.right, L.left, Root, s) /\ Range(s) = H
  BY DEF Lists, Heads
<1>2. PICK k \in 1..Len(s) : c = s[k]
  BY <1>1 DEF Range, Ring
<1>3. /\ L.right[L.left[c]] = c /\ L.left[L.right[c]] = c
      /\ L.left[c] \in {Root} \cup H /\ L.right[c] \in {Root} \cup H
      /\ L.left[c] # c /\ L.right[c] # c
      /\ Ring([L.right EXCEPT ![L.left[c]] = L.right[c]], [L.left EXCEPT ![L.right[c]] = L.left[c]], Root, Without(s, k))
  BY <1>1, <1>2, RingRemove
<1>4. L \in LinkSet(N, C) /\ c \in N
  BY DEF Lists, Shape
<1>5. /\ D.left = [L.left EXCEPT ![L.right[c]] = L.left[c]]
      /\ D.right = [L.right EXCEPT ![L.left[c]] = L.right[c]]
      /\ D.up = L.up /\ D.down = L.down /\ D.size = L.size
      /\ D \in LinkSet(N, C)
  <2>1. L.right[c] \in N /\ L.left[c] \in N
    BY <1>4 DEF LinkSet
  <2>. QED BY <1>4, <2>1 DEF LinkSet, Headless
<1>6. D = [L EXCEPT !.left[L.right[c]] = L.left[c], !.right[L.left[c]] = L.right[c]]
  BY <1>4 DEF Headless, LinkSet
<1> HIDE DEF D
<1>7. Heads(D, H \ {c})
  <2>1. Range(Without(s, k)) = H \ {c}
    BY <1>1, <1>2, WithoutRange
  <2>. QED BY <1>3, <1>5, <2>1 DEF Heads
<1>8. Rows(D, O)
  <2>1. \A n \in Live(O) : n # L.left[c] /\ n # L.right[c] /\ n \in N
    BY <1>3 DEF Shape
  <2>2. \A n \in Live(O) : D.right[n] = L.right[n] /\ D.left[n] = L.left[n]
    BY <1>4, <1>5, <2>1 DEF LinkSet
  <2>3. \A n \in Live(O) : Beside(n) \in Live(O)
    BY BesideFacts
  <2>. QED BY <2>2, <2>3 DEF Lists, Rows
<1>9. \A d \in K : Column(D, d, {n \in S : ColumnOf(n) = d})
  BY <1>5 DEF Lists, Column
<1>10. [D EXCEPT !.left[D.right[c]] = c, !.right[D.left[c]] = c] = L
  <2>1. D.right[c] = L.right[c] /\ D.left[c] = L.left[c]
    BY <1>3, <1>4, <1>5 DEF LinkSet
  <2>2. [D.left EXCEPT ![L.right[c]] = c] = L.left
    BY <1>3, <1>4, <1>5 DEF LinkSet
  <2>3. [D.right EXCEPT ![L.left[c]] = c] = L.right
    BY <1>3, <1>4, <1>5 DEF LinkSet
  <2>4. [D EXCEPT !.left[D.right[c]] = c, !.right[D.left[c]] = c]
          = [D EXCEPT !.left = [D.left EXCEPT ![D.right[c]] = c], !.right = [D.right EXCEPT ![D.left[c]] = c]]
    BY <1>5 DEF LinkSet
  <2>. QED BY <1>4, <1>5, <2>1, <2>2, <2>3, <2>4 DEF LinkSet
<1>. QED BY <1>5, <1>6, <1>7, <1>8, <1>9, <1>10 DEF Lists, D, Beheads

\* The nodes that are in their columns when c is covered: those of the rows that are not under c,
\* and under c itself.
Left(S, c) == {x \in S : ColumnOf(x) = c \/ \A i \in S : ColumnOf(i) = c => i[2] # x[2]}

Covers(N, C, O, H, K, S, L, c) ==
  LET D == cover(L, c)
  IN  /\ Lists(D, N, C, O, H \ {c}, K, Left(S, c))
      /\ uncover(D, c) = L
      /\ \A s : Ring(L.down, L.up, c, s) => Ring(D.down, D.up, c, s)

\* cover takes a column and its rows out, uncover undoes it, by induction along the column.
LEMMA CoverLists ==
  ASSUME NEW N, NEW C, NEW O, Shape(N, C, O), NEW H \in SUBSET C, NEW K \in SUBSET C,
         NEW S \in SUBSET Live(O), NEW L, Lists(L, N, C, O, H, K, S), NEW c \in H, c \in K,
         \A i \in S : ColumnOf(i) = c =>
           \A x \in Live(O) : x[2] = i[2] => x \in S /\ ColumnOf(x) \in K
  PROVE  Covers(N, C, O, H, K, S, L, c)
<1> DEFINE A == Headless(L, c)
           J == H \ {c}
<1>1. /\ A = [L EXCEPT !.left[L.right[c]] = L.left[c], !.right[L.left[c]] = L.right[c]]
      /\ Lists(A, N, C, O, J, K, S)
      /\ [A EXCEPT !.left[A.right[c]] = c, !.right[A.left[c]] = c] = L
      /\ A.down = L.down /\ A.up = L.up
  <2>1. Beheads(N, C, O, H, K, S, L, c)
    BY HeadlessLists
  <2>. QED BY <2>1 DEF Beheads
<1> HIDE DEF A
<1>2. PICK s : Ring(L.down, L.up, c, s) /\ Range(s) = {n \in S : ColumnOf(n) = c}
  BY DEF Lists, Column
<1>3. L \in LinkSet(N, C) /\ IsFiniteSet(N) /\ DOMAIN L.down = N /\ DOMAIN L.up = N
  BY DEF Lists, Shape, LinkSet
<1>4. Walk(L.down, c) = s
  BY <1>2, <1>3, WalkRing
<1> DEFINE n == Len(s)
<1>5. n \in Nat /\ DOMAIN s = 1..n /\ \A k \in 1..n : s[k] \in S /\ ColumnOf(s[k]) = c
  <2>1. n \in Nat /\ DOMAIN s = 1..n
    BY <1>2 DEF Ring
  <2>. QED BY <1>2, <2>1 DEF Range
<1>6. PICK at : /\ at[0] = A
                /\ \A k \in 1..n : at[k] = DetachRow(at[k - 1], s[k])
                /\ FoldLeft(DetachRow, A, s) = at[n]
  <2>1. PICK at : /\ at[0] = A
                  /\ \A k \in 1..n : at[k] = DetachRow(at[k - 1], s[k])
                  /\ DetachingRow!Loop(A, s) = at[n]
    <3>1. n \in Nat /\ DOMAIN s = 1..n
      BY <1>5
    <3> HIDE DEF n
    <3>. QED BY ONLY <3>1, DetachingRow!LoopSteps
  <2>2. FoldLeft(DetachRow, A, s) = DetachingRow!Loop(A, s)
    BY LoopsAre
  <2>. QED BY <2>1, <2>2
<1>7. cover(L, c) = at[n]
  BY <1>1, <1>4, <1>6 DEF cover
<1> DEFINE Open(k) == {x \in S : ColumnOf(x) = c \/ \A m \in 1..k : s[m][2] # x[2]}
           Good(k) == /\ Lists(at[k], N, C, O, J, K, Open(k))
                      /\ at[k].left = A.left /\ at[k].right = A.right
                      /\ Ring(at[k].down, at[k].up, c, s)
           T == {k \in Nat : k <= n => Good(k) /\ (k > 0 => AttachRow(at[k], s[k]) = at[k - 1])}
<1>8. 0 \in T
  <2>1. Open(0) = S
    OBVIOUS
  <2>2. Good(0)
    BY <1>1, <1>2, <1>6, <2>1
  <2> HIDE DEF Good
  <2>. QED BY <2>2
<1>9. ASSUME NEW k \in Nat, k \in T PROVE k + 1 \in T
  <2> SUFFICES ASSUME k + 1 <= n PROVE Good(k + 1) /\ AttachRow(at[k + 1], s[k + 1]) = at[k]
    <3> HIDE DEF Good
    <3>1. (k + 1) - 1 = k
      OBVIOUS
    <3>. QED BY <3>1
  <2> DEFINE i == s[k + 1]
  <2>1. k + 1 \in 1..n /\ (k + 1) - 1 = k /\ i \in S /\ i \in Live(O) /\ ColumnOf(i) = c /\ k <= n
    BY <1>5
  <2>2. Good(k)
    BY <1>9, <2>1
  <2>3. Open(k) \in SUBSET Live(O) /\ J \subseteq C
    OBVIOUS
  <2>4. \A m \in 1..k : s[m][2] # i[2]
    <3> SUFFICES ASSUME NEW m \in 1..k, s[m][2] = i[2] PROVE FALSE
      OBVIOUS
    <3>1. m \in 1..n /\ m # k + 1
      BY <2>1
    <3>2. s[m] \in S /\ s[m] \in Live(O) /\ ColumnOf(s[m]) = c
      BY <1>5, <3>1
    <3>3. s[m] = i
      BY <2>1, <3>2 DEF Shape
    <3>. QED BY <1>2, <2>1, <3>1, <3>3 DEF Ring
  <2>5. \A x \in Live(O) : x[2] = i[2] => x \in Open(k) /\ ColumnOf(x) \in K
    BY <2>1, <2>4
  <2>6. {x \in Open(k) : x[2] # i[2] \/ x = i} = Open(k + 1)
    <3>1. \A m \in 1..(k + 1) : m \in 1..k \/ m = k + 1
      OBVIOUS
    <3>2. \A x \in S : x[2] = i[2] /\ ColumnOf(x) = c => x = i
      BY <2>1 DEF Shape
    <3>. QED BY <2>1, <3>1, <3>2
  <2> HIDE DEF Open, i
  <2>7. DetachesRow(N, C, O, J, K, Open(k), at[k], i)
    BY <2>1, <2>2, <2>3, <2>5, DetachRowLists
  <2>8. at[k + 1] = DetachRow(at[k], i)
    BY <1>6, <2>1 DEF i
  <2>9. Range(s) \subseteq {x \in Live(O) : ColumnOf(x) = c}
    BY <1>2
  <2>10. Ring(at[k + 1].down, at[k + 1].up, c, s)
    BY <2>1, <2>2, <2>7, <2>8, <2>9 DEF DetachesRow
  <2>. QED BY <2>2, <2>6, <2>7, <2>8, <2>10 DEF DetachesRow, i
<1> HIDE DEF T, Good, Open
<1>10. Nat \subseteq T
  BY <1>8, <1>9, Detaching!SetInduction
<1>11. \A k \in 1..n : AttachRow(at[k], s[k]) = at[k - 1]
  BY <1>5, <1>10 DEF T
<1>12. Good(n)
  BY <1>5, <1>10 DEF T
<1>13. Open(n) = Left(S, c)
  <2>1. \A x : (\A m \in 1..n : s[m][2] # x[2]) <=> (\A i \in S : ColumnOf(i) = c => i[2] # x[2])
    BY <1>2, <1>5 DEF Range
  <2>. QED BY <2>1 DEF Open, Left
<1>14. uncover(at[n], c) = L
  <2> DEFINE r == Reverse(s)
             bt == [k \in 0..n |-> at[n - k]]
  <2>1. Walk(at[n].up, c) = r
    <3>1. Ring(at[n].up, at[n].down, c, r)
      BY <1>12, RingReverse DEF Good
    <3>2. IsFiniteSet(DOMAIN at[n].up)
      BY <1>3, <1>12 DEF Good, Lists, LinkSet
    <3>. QED BY <3>1, <3>2, WalkRing
  <2>2. DOMAIN r = 1..n /\ \A k \in 1..n : r[k] = s[(n - k) + 1]
    BY <1>5 DEF Reverse
  <2> HIDE DEF r
  <2>3. ASSUME NEW k \in 1..n PROVE bt[k] = AttachRow(bt[k - 1], r[k])
    <3>1. k - 1 \in 0..n /\ k \in 0..n /\ n - (k - 1) = (n - k) + 1 /\ (n - k) + 1 \in 1..n
          /\ ((n - k) + 1) - 1 = n - k
      BY <1>5
    <3>2. bt[k] = at[n - k] /\ bt[k - 1] = at[(n - k) + 1]
      BY <3>1
    <3>. QED BY <1>11, <2>2, <3>1, <3>2
  <2>4. bt[0] = at[n] /\ bt[n] = at[0]
    BY <1>5
  <2> HIDE DEF bt
  <2>5. AttachingRow!Loop(bt[0], r) = bt[n]
    BY <1>5, <2>2, <2>3, AttachingRow!LoopIs
  <2>6. FoldLeft(AttachRow, at[n], r) = AttachingRow!Loop(at[n], r)
    BY LoopsAre
  <2>7. FoldLeft(AttachRow, at[n], Walk(at[n].up, c)) = A
    BY <1>6, <2>1, <2>4, <2>5, <2>6
  <2>8. at[n].right = A.right /\ at[n].left = A.left
    BY <1>12 DEF Good
  <2>. QED BY <1>1, <2>7, <2>8 DEF uncover
<1>15. \A t : Ring(L.down, L.up, c, t) => Ring(at[n].down, at[n].up, c, t)
  <2> SUFFICES ASSUME NEW t, Ring(L.down, L.up, c, t) PROVE t = s
    BY <1>12 DEF Good
  <2>. QED BY <1>3, <1>4, WalkRing
<1>. QED BY <1>7, <1>12, <1>13, <1>14, <1>15 DEF Covers, Good

-----------------------------------------------------------------------------
(* The part of the matrix that is left when the columns X are covered *)

OpenRows(O, X) == {o \in O : Meets(o) \cap X = {}}
Matrix(L, N, C, O, X) == Lists(L, N, C, O, C \ X, C \ X, Live(OpenRows(O, X)))

\* The nodes of a row and the columns it meets.
LEMMA MeetsIs ==
  ASSUME NEW o
  PROVE  /\ Range(Nodes(o)) = Live({o})
         /\ \A c : c \in Meets(o) <=> \E n \in Live({o}) : ColumnOf(n) = c
<1>1. Range(Nodes(o)) = Live({o})
  BY DEF Range, Nodes, Live, Sorts
<1>. QED BY <1>1 DEF Meets

\* A node is one of the row that it names.
LEMMA LiveIs ==
  ASSUME NEW O
  PROVE  /\ \A n : n \in Live(O) <=> n \in Live({n[2]}) /\ n[2] \in O
         /\ \A o \in O : Live({o}) \subseteq Live(O) /\ \A n \in Live({o}) : n[2] = o
         /\ \A n \in Live(O) : ColumnOf(n) \in Meets(n[2])
<1>1. \A n : n \in Live(O) <=> n \in Live({n[2]}) /\ n[2] \in O
  BY DEF Live
<1>2. \A o \in O : Live({o}) \subseteq Live(O) /\ \A n \in Live({o}) : n[2] = o
  BY DEF Live
<1>3. ASSUME NEW n \in Live(O) PROVE ColumnOf(n) \in Meets(n[2])
  <2>1. n \in Live({n[2]})
    BY <1>1
  <2>. QED BY <2>1, MeetsIs
<1>. QED BY <1>1, <1>2, <1>3

\* The nodes of the rows that meet none of the columns X.
LEMMA OpenIs ==
  ASSUME NEW O, NEW X, NEW n
  PROVE  n \in Live(OpenRows(O, X)) <=> n \in Live(O) /\ Meets(n[2]) \cap X = {}
<1>1. n[2] \in OpenRows(O, X) <=> n[2] \in O /\ Meets(n[2]) \cap X = {}
  BY DEF OpenRows
<1>. QED BY <1>1, LiveIs

CoversMatrix(N, C, O, X, L, c) ==
  LET D == cover(L, c)
  IN  /\ Matrix(D, N, C, O, X \cup {c})
      /\ uncover(D, c) = L
      /\ \A s : Ring(L.down, L.up, c, s) => Ring(D.down, D.up, c, s)

\* cover takes one more open column away, and uncover gives the same lists back.
LEMMA CoverMatrix ==
  ASSUME NEW N, NEW C, NEW O, Shape(N, C, O), NEW X, NEW L, Matrix(L, N, C, O, X), NEW c \in C \ X
  PROVE  CoversMatrix(N, C, O, X, L, c)
<1> DEFINE S == Live(OpenRows(O, X))
           K == C \ X
           D == cover(L, c)
           Y == X \cup {c}
<1>1. S \in SUBSET Live(O) /\ K \in SUBSET C /\ c \in K
  BY DEF Live, OpenRows
<1>2. \A n : n \in S <=> n \in Live(O) /\ Meets(n[2]) \cap X = {}
  BY OpenIs
<1>3. ASSUME NEW i \in S, ColumnOf(i) = c, NEW x \in Live(O), x[2] = i[2]
      PROVE  x \in S /\ ColumnOf(x) \in K
  <2>1. Meets(x[2]) \cap X = {} /\ ColumnOf(x) \in Meets(x[2])
    BY <1>2, <1>3, LiveIs
  <2>. QED BY <1>2, <2>1 DEF Shape
<1>4. Covers(N, C, O, K, K, S, L, c)
  <2>1. Lists(L, N, C, O, K, K, S)
    BY DEF Matrix
  <2> HIDE DEF S, K
  <2>. QED BY <1>1, <1>3, <2>1, CoverLists
<1>5. ASSUME NEW d \in C \ Y
      PROVE  {n \in Left(S, c) : ColumnOf(n) = d} = {n \in Live(OpenRows(O, Y)) : ColumnOf(n) = d}
  <2>1. \A n : n \in Live(OpenRows(O, Y)) <=> n \in S /\ c \notin Meets(n[2])
    BY OpenIs
  <2>2. d # c
    OBVIOUS
  <2>3. ASSUME NEW n \in S PROVE c \in Meets(n[2]) <=> \E i \in S : ColumnOf(i) = c /\ i[2] = n[2]
    <3>1. ASSUME c \in Meets(n[2]) PROVE \E i \in S : ColumnOf(i) = c /\ i[2] = n[2]
      <4>1. PICK i \in Live({n[2]}) : ColumnOf(i) = c
        BY <3>1, MeetsIs
      <4>2. n[2] \in O
        BY <1>1, LiveIs
      <4>3. i \in Live(O) /\ i[2] = n[2]
        BY <4>1, <4>2, LiveIs
      <4>4. i \in S
        BY <1>2, <4>3
      <4>. QED BY <4>1, <4>3, <4>4
    <3>2. ASSUME NEW i \in S, ColumnOf(i) = c, i[2] = n[2] PROVE c \in Meets(n[2])
      BY <1>1, <3>2, LiveIs
    <3>. QED BY <3>1, <3>2
  <2> HIDE DEF S
  <2>. QED BY <2>1, <2>2, <2>3 DEF Left
<1>6. Matrix(D, N, C, O, Y)
  <2>1. Lists(D, N, C, O, K \ {c}, K, Left(S, c))
    BY <1>4 DEF Covers
  <2>2. K \ {c} = C \ Y /\ C \ Y \subseteq K
    OBVIOUS
  <2> HIDE DEF D, S, K, Y
  <2>. QED BY <1>5, <2>1, <2>2 DEF Matrix, Lists
<1>. QED BY <1>4, <1>6 DEF Covers, CoversMatrix

\* The loop of solve that covers the other columns of a row, and the one that uncovers them.
CoversRow(N, C, O, X, L, i) ==
  LET D == coverAll(L, Walk(L.right, i))
  IN  /\ Matrix(D, N, C, O, X \cup Meets(i[2]))
      /\ uncoverAll(D, Walk(D.left, i)) = L

\* The loops over the three other columns of a row, in opposite orders.
LEMMA CoverRowMatrix ==
  ASSUME NEW N, NEW C, NEW O, Shape(N, C, O), NEW X, NEW L, Matrix(L, N, C, O, X),
         NEW i \in Live(O), Meets(i[2]) \cap X = {ColumnOf(i)}
  PROVE  CoversRow(N, C, O, X, L, i)
<1> DEFINE a == Beside(i)
           b == Beside(a)
           c == Beside(b)
           A == cover(L, ColumnOf(a))
           B == cover(A, ColumnOf(b))
           D == cover(B, ColumnOf(c))
           XA == X \cup {ColumnOf(a)}
           XB == XA \cup {ColumnOf(b)}
           XD == XB \cup {ColumnOf(c)}
<1>1. /\ a \in Live(O) /\ b \in Live(O) /\ c \in Live(O)
      /\ a[2] = i[2] /\ b[2] = i[2] /\ c[2] = i[2]
      /\ a # i /\ b # i /\ c # i
  BY BesideFacts
<1>2. b # a /\ c # a /\ c # b
  BY <1>1, BesideFacts
<1>3. \A x \in Live(O) : x[2] = i[2] => x \in {i, a, b, c}
  BY BesideFacts
<1>4. /\ ColumnOf(a) \in C \ X /\ ColumnOf(b) \in C \ XA /\ ColumnOf(c) \in C \ XB
  <2>1. ColumnOf(a) \in Meets(i[2]) /\ ColumnOf(b) \in Meets(i[2]) /\ ColumnOf(c) \in Meets(i[2])
    BY <1>1, LiveIs
  <2>. QED BY <1>1, <1>2, <2>1 DEF Shape
<1>5. XD = X \cup Meets(i[2])
  <2>1. i[2] \in O
    BY LiveIs
  <2>2. Live({i[2]}) = {i, a, b, c}
    <3>1. {i, a, b, c} \subseteq Live({i[2]})
      BY <1>1, LiveIs
    <3>. QED BY <1>3, <2>1, <3>1, LiveIs
  <2>3. \A d : d \in Meets(i[2]) <=> d \in {ColumnOf(i), ColumnOf(a), ColumnOf(b), ColumnOf(c)}
    BY <2>2, MeetsIs
  <2>. QED BY <2>3
<1>6. L \in LinkSet(N, C) /\ Rows(L, O)
  BY DEF Matrix, Lists
<1>7. coverAll(L, Walk(L.right, i)) = D
  <2>1. Walk(L.right, i) = <<a, b, c>>
    BY <1>6, RowWalks
  <2>2. FoldLeft(coverCol, L, <<a, b, c>>) = Covering!Loop(L, <<a, b, c>>)
    BY LoopsAre
  <2>3. Covering!Loop(L, <<a, b, c>>) = coverCol(coverCol(coverCol(L, a), b), c)
    BY Covering!LoopOfThree
  <2>. QED BY <2>1, <2>2, <2>3 DEF coverAll, coverCol
<1> HIDE DEF a, b, c
<1>8. CoversMatrix(N, C, O, X, L, ColumnOf(a))
  BY <1>4, CoverMatrix
<1>9. CoversMatrix(N, C, O, XA, A, ColumnOf(b))
  <2>1. Matrix(A, N, C, O, XA)
    BY <1>8 DEF CoversMatrix
  <2> HIDE DEF A, XA
  <2>. QED BY <1>4, <2>1, CoverMatrix
<1>10. CoversMatrix(N, C, O, XB, B, ColumnOf(c))
  <2>1. Matrix(B, N, C, O, XB)
    BY <1>9 DEF CoversMatrix
  <2> HIDE DEF B, XB
  <2>. QED BY <1>4, <2>1, CoverMatrix
<1>11. Matrix(D, N, C, O, XD)
  BY <1>10 DEF CoversMatrix
<1>12. uncover(D, ColumnOf(c)) = B /\ uncover(B, ColumnOf(b)) = A /\ uncover(A, ColumnOf(a)) = L
  BY <1>8, <1>9, <1>10 DEF CoversMatrix
<1> HIDE DEF A, B, D, XA, XB, XD
<1>13. uncoverAll(D, Walk(D.left, i)) = L
  <2>1. Walk(D.left, i) = <<c, b, a>>
    <3>1. D \in LinkSet(N, C) /\ Rows(D, O)
      BY <1>11 DEF Matrix, Lists
    <3>. QED BY <3>1, RowWalks DEF a, b, c
  <2>2. FoldLeft(uncoverCol, D, <<c, b, a>>) = Uncovering!Loop(D, <<c, b, a>>)
    BY LoopsAre
  <2>3. Uncovering!Loop(D, <<c, b, a>>) = uncoverCol(uncoverCol(uncoverCol(D, c), b), a)
    BY Uncovering!LoopOfThree
  <2>. QED BY <1>12, <2>1, <2>2, <2>3 DEF uncoverAll, uncoverCol
<1>. QED BY <1>5, <1>7, <1>11, <1>13 DEF CoversRow

-----------------------------------------------------------------------------
(* The constructor *)

NewNodes(N, C, L, n) ==
  LET M == new_node(L, n)
  IN  /\ M \in LinkSet(N \cup {n}, C) /\ M.size = L.size
      /\ \A x \in N : /\ M.left[x] = L.left[x] /\ M.right[x] = L.right[x]
                      /\ M.up[x] = L.up[x] /\ M.down[x] = L.down[x]
      /\ M.left[n] = n /\ M.right[n] = n /\ M.up[n] = n /\ M.down[n] = n

\* A new node is a list of its own and changes no other.
LEMMA NewNode ==
  ASSUME NEW N, NEW C, NEW L \in LinkSet(N, C), NEW n, n \notin N
  PROVE  NewNodes(N, C, L, n)
<1> DEFINE P(f) == Extend(f, n, n)
<1>1. /\ L.left \in [N -> N] /\ L.right \in [N -> N] /\ L.up \in [N -> N] /\ L.down \in [N -> N]
      /\ L.size \in [{Root} \cup C -> Int]
  BY DEF LinkSet
<1>2. \A f \in [N -> N] : P(f) \in [N \cup {n} -> N \cup {n}] /\ P(f)[n] = n /\ \A x \in N : P(f)[x] = f[x]
  BY DEF Extend
<1> HIDE DEF P
<1> DEFINE M == new_node(L, n)
<1>3. M = [L EXCEPT !.left = P(L.left), !.right = P(L.right), !.up = P(L.up), !.down = P(L.down)]
  BY DEF new_node, LinkSet, P
<1> HIDE DEF M
<1>4. /\ M.left = P(L.left) /\ M.right = P(L.right) /\ M.up = P(L.up) /\ M.down = P(L.down) /\ M.size = L.size
      /\ M = [left |-> M.left, right |-> M.right, up |-> M.up, down |-> M.down, size |-> M.size]
  BY <1>3 DEF LinkSet
<1>5. M \in LinkSet(N \cup {n}, C)
  <2>1. /\ M.left \in [N \cup {n} -> N \cup {n}] /\ M.right \in [N \cup {n} -> N \cup {n}]
        /\ M.up \in [N \cup {n} -> N \cup {n}] /\ M.down \in [N \cup {n} -> N \cup {n}]
        /\ M.size \in [{Root} \cup C -> Int]
    <3>1. \A f \in {L.left, L.right, L.up, L.down} : P(f) \in [N \cup {n} -> N \cup {n}]
      BY <1>1, <1>2
    <3>. QED BY <1>1, <1>4, <3>1
  <2>. QED BY <1>4, <2>1 DEF LinkSet
<1>6. \A f \in {L.left, L.right, L.up, L.down} : P(f)[n] = n /\ \A x \in N : P(f)[x] = f[x]
  BY <1>1, <1>2
<1>7. /\ \A x \in N : /\ M.left[x] = L.left[x] /\ M.right[x] = L.right[x]
                      /\ M.up[x] = L.up[x] /\ M.down[x] = L.down[x]
      /\ M.left[n] = n /\ M.right[n] = n /\ M.up[n] = n /\ M.down[n] = n /\ M.size = L.size
  BY <1>4, <1>6
<1>. QED BY <1>5, <1>7 DEF M, NewNodes

\* A node is put behind the others of a list.
PutsLeft(N, C, L, h, s, n) ==
  LET P == put_left(L, h, n)
  IN  /\ P \in LinkSet(N, C)
      /\ P.up = L.up /\ P.down = L.down /\ P.size = L.size
      /\ Ring(P.right, P.left, h, Append(s, n))
      /\ \A x \in N : x \notin {h, n} \cup Range(s) => P.right[x] = L.right[x] /\ P.left[x] = L.left[x]

\* put_left(L, Root, c) appends c to the list of the root.
LEMMA PutLeft ==
  ASSUME NEW N, NEW C, NEW L \in LinkSet(N, C), NEW h \in N, NEW s, Ring(L.right, L.left, h, s),
         NEW n \in N, n # h, n \notin Range(s)
  PROVE  PutsLeft(N, C, L, h, s, n)
<1> DEFINE P == put_left(L, h, n)
<1>1. L.left[h] \in N /\ L.left[h] \in {h} \cup Range(s)
  <2>1. At(h, s, Len(s) + 1) = h /\ Len(s) \in 0..Len(s) /\ At(h, s, Len(s)) \in {h} \cup Range(s)
    BY DEF Ring, At, Range
  <2>. QED BY <2>1 DEF Ring, LinkSet
<1>2. P = [L EXCEPT !.left = [L.left EXCEPT ![n] = L.left[h], ![h] = n],
                    !.right = [L.right EXCEPT ![n] = h, ![L.left[h]] = n]]
  BY DEF put_left, LinkSet
<1>3. L.left \in [N -> N] /\ [L.left EXCEPT ![n] = L.left[h], ![h] = n] \in [N -> N]
      /\ [L.right EXCEPT ![n] = h, ![L.left[h]] = n] \in [N -> N]
  BY <1>1 DEF LinkSet
<1>4. /\ P.left = [L.left EXCEPT ![n] = L.left[h], ![h] = n]
      /\ P.right = [L.right EXCEPT ![n] = h, ![L.left[h]] = n]
      /\ P.up = L.up /\ P.down = L.down /\ P.size = L.size
      /\ P \in LinkSet(N, C)
  BY <1>2, <1>3 DEF LinkSet
<1> HIDE DEF P
<1>5. \A k \in 1..Len(s) : s[k] # n
  BY DEF Ring, Range
<1>6. n \in DOMAIN L.right
  BY DEF LinkSet
<1>7. Ring(P.right, P.left, h, Append(s, n))
  BY <1>4, <1>5, <1>6, RingAppend
<1>8. \A x \in N : x \notin {h, n} \cup Range(s) => P.right[x] = L.right[x] /\ P.left[x] = L.left[x]
  BY <1>1, <1>4 DEF LinkSet
<1>. QED BY <1>4, <1>7, <1>8 DEF PutsLeft, P

PutsUp(N, C, L, c, s, n) ==
  LET P == put_up(L, c, n)
  IN  /\ P \in LinkSet(N, C)
      /\ P.left = L.left /\ P.right = L.right
      /\ P.size[c] = L.size[c] + 1 /\ \A d \in C : d # c => P.size[d] = L.size[d]
      /\ Ring(P.down, P.up, c, Append(s, n))
      /\ \A x \in N : x \notin {c, n} \cup Range(s) => P.down[x] = L.down[x] /\ P.up[x] = L.up[x]

\* put_up(L, c, n) appends n to the list of the column c.
LEMMA PutUp ==
  ASSUME NEW N, NEW C, NEW L \in LinkSet(N, C), NEW c \in C, c \in N, NEW s, Ring(L.down, L.up, c, s),
         NEW n \in N, n # c, n \notin Range(s)
  PROVE  PutsUp(N, C, L, c, s, n)
<1> DEFINE P == put_up(L, c, n)
<1>1. L.up[c] \in N /\ L.up[c] \in {c} \cup Range(s)
  <2>1. At(c, s, Len(s) + 1) = c /\ Len(s) \in 0..Len(s) /\ At(c, s, Len(s)) \in {c} \cup Range(s)
    BY DEF Ring, At, Range
  <2>. QED BY <2>1 DEF Ring, LinkSet
<1>2. P = [L EXCEPT !.up = [L.up EXCEPT ![n] = L.up[c], ![c] = n],
                    !.down = [L.down EXCEPT ![n] = c, ![L.up[c]] = n],
                    !.size = [L.size EXCEPT ![c] = L.size[c] + 1]]
  BY DEF put_up, LinkSet
<1>3. /\ [L.up EXCEPT ![n] = L.up[c], ![c] = n] \in [N -> N]
      /\ [L.down EXCEPT ![n] = c, ![L.up[c]] = n] \in [N -> N]
      /\ [L.size EXCEPT ![c] = L.size[c] + 1] \in [{Root} \cup C -> Int]
  BY <1>1 DEF LinkSet
<1>4. /\ P.up = [L.up EXCEPT ![n] = L.up[c], ![c] = n]
      /\ P.down = [L.down EXCEPT ![n] = c, ![L.up[c]] = n]
      /\ P.size = [L.size EXCEPT ![c] = L.size[c] + 1]
      /\ P.left = L.left /\ P.right = L.right
      /\ P \in LinkSet(N, C)
  <2> DEFINE u == [L.up EXCEPT ![n] = L.up[c], ![c] = n]
             d == [L.down EXCEPT ![n] = c, ![L.up[c]] = n]
             z == [L.size EXCEPT ![c] = L.size[c] + 1]
  <2>1. P = [L EXCEPT !.up = u, !.down = d, !.size = z]
    BY <1>2
  <2>2. u \in [N -> N] /\ d \in [N -> N] /\ z \in [{Root} \cup C -> Int]
    BY <1>3
  <2> HIDE DEF P, u, d, z
  <2>3. P.up = u /\ P.down = d /\ P.size = z /\ P.left = L.left /\ P.right = L.right /\ P \in LinkSet(N, C)
    BY <2>1, <2>2 DEF LinkSet
  <2>. QED BY <2>3 DEF u, d, z
<1> HIDE DEF P
<1>5. \A k \in 1..Len(s) : s[k] # n
  BY DEF Ring, Range
<1>6. n \in DOMAIN L.down
  BY DEF LinkSet
<1>7. Ring(P.down, P.up, c, Append(s, n))
  BY <1>4, <1>5, <1>6, RingAppend
<1>8. \A x \in N : x \notin {c, n} \cup Range(s) => P.down[x] = L.down[x] /\ P.up[x] = L.up[x]
  BY <1>1, <1>4 DEF LinkSet
<1>9. P.size[c] = L.size[c] + 1 /\ \A d \in C : d # c => P.size[d] = L.size[d]
  BY <1>4 DEF LinkSet
<1>. QED BY <1>4, <1>7, <1>8, <1>9 DEF PutsUp, P

\* A sequence with one more element has that element too.
LEMMA AppendRange ==
  ASSUME NEW S, NEW s \in Seq(S), NEW n
  PROVE  Range(Append(s, n)) = Range(s) \cup {n} /\ Len(Append(s, n)) = Len(s) + 1
<1> DEFINE t == Append(s, n)
<1>1. /\ Len(s) \in Nat /\ DOMAIN s = 1..Len(s) /\ DOMAIN t = 1..(Len(s) + 1) /\ Len(t) = Len(s) + 1
      /\ t[Len(s) + 1] = n /\ \A k \in 1..Len(s) : t[k] = s[k]
  OBVIOUS
<1> HIDE DEF t
<1>2. ASSUME NEW x \in Range(t) PROVE x \in Range(s) \cup {n}
  <2>1. PICK k \in 1..(Len(s) + 1) : x = t[k]
    BY <1>1 DEF Range
  <2>2. k \in 1..Len(s) \/ k = Len(s) + 1
    BY <1>1
  <2>. QED BY <1>1, <2>1, <2>2 DEF Range
<1>3. ASSUME NEW x \in Range(s) PROVE x \in Range(t)
  <2>1. PICK k \in 1..Len(s) : x = s[k]
    BY <1>1 DEF Range
  <2>2. k \in 1..(Len(s) + 1) /\ x = t[k]
    BY <1>1, <2>1
  <2>. QED BY <1>1, <2>2 DEF Range
<1>4. n \in Range(t)
  <2>1. Len(s) + 1 \in 1..(Len(s) + 1)
    BY <1>1
  <2>. QED BY <1>1, <2>1 DEF Range
<1>. QED BY <1>1, <1>2, <1>3, <1>4 DEF t

\* A list of no node.
LEMMA RingAlone ==
  ASSUME NEW next, NEW prev, NEW h \in DOMAIN next, DOMAIN prev = DOMAIN next, next[h] = h, prev[h] = h
  PROVE  /\ Ring(next, prev, h, <<>>) /\ Range(<<>>) = {} /\ Len(<<>>) = 0
<1>1. Len(<<>>) = 0 /\ <<>> \in Seq(DOMAIN next) /\ Range(<<>>) = {}
  BY DEF Range
<1>2. \A k \in 0..0 : At(h, <<>>, k) = h /\ At(h, <<>>, k + 1) = h
  BY DEF At
<1>. QED BY <1>1, <1>2 DEF Ring

\* The matrix with the columns C and the rows O, nothing covered.
Built(L, C, O) == Lists(L, {Root} \cup C \cup Live(O), C, O, C, C, Live(O))

\* At first there is nothing but the root.
LEMMA EmptyBuilt == Built(Empty, {}, {})
<1> DEFINE L == Empty
           N == {Root} \cup {} \cup Live({})
<1>1. N = {Root} /\ Live({}) = {}
  BY DEF Live
<1>2. L \in LinkSet(N, {})
  BY <1>1 DEF LinkSet, Empty
<1>3. L.left[Root] = Root /\ L.right[Root] = Root /\ DOMAIN L.left = {Root} /\ DOMAIN L.right = {Root}
  BY DEF Empty
<1> HIDE DEF L, N
<1>4. Heads(L, {})
  BY <1>3, RingAlone DEF Heads
<1>. QED BY <1>1, <1>2, <1>4 DEF Built, Lists, Rows, L, N

\* append_column makes one more empty column.
LEMMA AppendColumnBuilt ==
  ASSUME NEW C, NEW L, Built(L, C, {}), NEW c, c \notin C, c # Root
  PROVE  Built(append_column(L, c), C \cup {c}, {})
<1> DEFINE N == {Root} \cup C
           D == C \cup {c}
           M == new_node(L, c)
           A == [M EXCEPT !.size = Extend(M.size, c, 0)]
           P == put_left(A, Root, c)
<1>1. Live({}) = {} /\ {Root} \cup C \cup Live({}) = N /\ {Root} \cup D \cup Live({}) = N \cup {c} /\ c \notin N
  BY DEF Live
<1>2. L \in LinkSet(N, C) /\ Heads(L, C) /\ \A d \in C : Column(L, d, {})
  <2>1. \A d \in C : {n \in Live({}) : ColumnOf(n) = d} = {}
    BY <1>1
  <2>. QED BY <1>1, <2>1 DEF Built, Lists
<1>3. /\ M \in LinkSet(N \cup {c}, C) /\ M.size = L.size
      /\ \A x \in N : M.left[x] = L.left[x] /\ M.right[x] = L.right[x] /\ M.up[x] = L.up[x] /\ M.down[x] = L.down[x]
      /\ M.up[c] = c /\ M.down[c] = c
  <2>1. NewNodes(N, C, L, c)
    BY <1>1, <1>2, NewNode
  <2>. QED BY <2>1 DEF NewNodes
<1> HIDE DEF M
<1>4. /\ A \in LinkSet(N \cup {c}, D)
      /\ A.left = M.left /\ A.right = M.right /\ A.up = M.up /\ A.down = M.down
      /\ A.size[c] = 0 /\ \A d \in C : A.size[d] = L.size[d]
  <2>1. /\ M.size \in [{Root} \cup C -> Int] /\ {Root} \cup C \cup {c} = {Root} \cup D
        /\ M = [left |-> M.left, right |-> M.right, up |-> M.up, down |-> M.down, size |-> M.size]
    BY <1>3 DEF LinkSet
  <2>2. Extend(M.size, c, 0) \in [{Root} \cup D -> Int]
    BY <2>1 DEF Extend
  <2>3. Extend(M.size, c, 0)[c] = 0 /\ \A d \in C : Extend(M.size, c, 0)[d] = M.size[d]
    BY <1>1, <2>1 DEF Extend
  <2>4. A = [left |-> M.left, right |-> M.right, up |-> M.up, down |-> M.down, size |-> Extend(M.size, c, 0)]
    BY <2>1
  <2>5. /\ A.left = M.left /\ A.right = M.right /\ A.up = M.up /\ A.down = M.down /\ A.size = Extend(M.size, c, 0)
    BY <2>4
  <2>6. A \in LinkSet(N \cup {c}, D)
    BY <1>3, <2>2, <2>4 DEF LinkSet
  <2> HIDE DEF A
  <2>. QED BY <1>3, <2>3, <2>5, <2>6
<1>5. append_column(L, c) = P
  BY DEF append_column, M
<1> HIDE DEF A, D
<1>6. PICK s : Ring(L.right, L.left, Root, s) /\ Range(s) = C
  BY <1>2 DEF Heads
<1>7. DOMAIN L.right = N /\ DOMAIN L.left = N /\ DOMAIN L.down = N /\ DOMAIN L.up = N
      /\ DOMAIN A.right = N \cup {c} /\ DOMAIN A.left = N \cup {c} /\ DOMAIN A.down = N \cup {c} /\ DOMAIN A.up = N \cup {c}
  BY <1>2, <1>4 DEF LinkSet
<1>8. Ring(A.right, A.left, Root, s)
  <2>1. \A x \in {Root} \cup Range(s) : A.right[x] = L.right[x] /\ A.left[x] = L.left[x]
    BY <1>3, <1>4, <1>6
  <2>2. DOMAIN L.right \subseteq DOMAIN A.right /\ DOMAIN A.left = DOMAIN A.right
    BY <1>7
  <2>. QED BY <1>6, <2>1, <2>2, RingSame
<1>9. PutsLeft(N \cup {c}, D, A, Root, s, c)
  BY <1>1, <1>4, <1>6, <1>8, PutLeft
<1>10. P \in LinkSet(N \cup {c}, D) /\ P.up = A.up /\ P.down = A.down /\ P.size = A.size
       /\ Ring(P.right, P.left, Root, Append(s, c))
  BY <1>9 DEF PutsLeft
<1> HIDE DEF P
<1>11. Heads(P, D)
  <2>1. Range(Append(s, c)) = D
    BY <1>6, AppendRange DEF Ring, D
  <2>. QED BY <1>10, <2>1 DEF Heads
<1>12. ASSUME NEW d \in D PROVE Column(P, d, {})
  <2>1. CASE d = c
    <3>1. Ring(P.down, P.up, c, <<>>) /\ Range(<<>>) = {} /\ Len(<<>>) = 0
      <4>1. c \in DOMAIN P.down /\ DOMAIN P.up = DOMAIN P.down /\ P.down[c] = c /\ P.up[c] = c
        BY <1>3, <1>4, <1>7, <1>10
      <4>. QED BY <4>1, RingAlone
    <3>. QED BY <1>4, <1>10, <2>1, <3>1 DEF Column
  <2>2. CASE d # c
    <3>1. PICK t : Ring(L.down, L.up, d, t) /\ Range(t) = {} /\ L.size[d] = Len(t)
      BY <1>2, <2>2 DEF D, Column
    <3>2. Ring(P.down, P.up, d, t)
      <4>1. \A x \in {d} \cup Range(t) : P.down[x] = L.down[x] /\ P.up[x] = L.up[x]
        BY <1>3, <1>4, <1>10, <2>2, <3>1 DEF D
      <4>2. DOMAIN L.down \subseteq DOMAIN P.down /\ DOMAIN P.up = DOMAIN P.down
        BY <1>7, <1>10
      <4>. QED BY <3>1, <4>1, <4>2, RingSame
    <3>. QED BY <1>4, <1>10, <2>2, <3>1, <3>2 DEF Column, D
  <2>. QED BY <2>1, <2>2
<1>13. \A d : {n \in Live({}) : ColumnOf(n) = d} = {}
  BY <1>1
<1>. QED BY <1>1, <1>5, <1>10, <1>11, <1>12, <1>13 DEF Built, Lists, Rows, D

\* A node of a row is put into its column.
AddsNode(N, C, O, S, L, n) ==
  LET R == new_row(L, n)
  IN  /\ Lists(R, N \cup {n}, C, O, C, C, S \cup {n})
      /\ R.left[n] = n /\ R.right[n] = n
      /\ \A x \in N : R.left[x] = L.left[x] /\ R.right[x] = L.right[x]

\* new_row appends one node to its column.
LEMMA NewRowLists ==
  ASSUME NEW N, NEW C, NEW O, NEW S, {Root} \cup C \cup S \cup Live(O) \subseteq N, S \cap C = {},
         NEW L, Lists(L, N, C, O, C, C, S), NEW n, n \notin N, ColumnOf(n) \in C
  PROVE  AddsNode(N, C, O, S, L, n)
<1> DEFINE c == ColumnOf(n)
           M == new_node(L, n)
           P == put_up(M, c, n)
           N1 == N \cup {n}
<1>1. L \in LinkSet(N, C) /\ Heads(L, C) /\ Rows(L, O) /\ \A d \in C : Column(L, d, {x \in S : ColumnOf(x) = d})
  BY DEF Lists
<1>2. /\ M \in LinkSet(N1, C) /\ M.size = L.size
      /\ \A x \in N : M.left[x] = L.left[x] /\ M.right[x] = L.right[x] /\ M.up[x] = L.up[x] /\ M.down[x] = L.down[x]
      /\ M.left[n] = n /\ M.right[n] = n
  <2>1. NewNodes(N, C, L, n)
    BY <1>1, NewNode
  <2>. QED BY <2>1 DEF NewNodes
<1> HIDE DEF M
<1>3. /\ DOMAIN L.right = N /\ DOMAIN L.left = N /\ DOMAIN L.down = N /\ DOMAIN L.up = N
      /\ DOMAIN M.right = N1 /\ DOMAIN M.left = N1 /\ DOMAIN M.down = N1 /\ DOMAIN M.up = N1
  BY <1>1, <1>2 DEF LinkSet
<1>4. ASSUME NEW d \in C, NEW s, Ring(L.down, L.up, d, s), Range(s) = {x \in S : ColumnOf(x) = d}
      PROVE  Ring(M.down, M.up, d, s)
  <2>1. \A x \in {d} \cup Range(s) : M.down[x] = L.down[x] /\ M.up[x] = L.up[x]
    BY <1>2, <1>4
  <2>2. DOMAIN L.down \subseteq DOMAIN M.down /\ DOMAIN M.up = DOMAIN M.down
    BY <1>3
  <2>. QED BY <1>4, <2>1, <2>2, RingSame
<1>5. PICK s : Ring(L.down, L.up, c, s) /\ Range(s) = {x \in S : ColumnOf(x) = c} /\ L.size[c] = Len(s)
  BY <1>1 DEF Column
<1>6. PutsUp(N1, C, M, c, s, n)
  <2>1. Ring(M.down, M.up, c, s) /\ c \in N1 /\ n \in N1 /\ n # c /\ n \notin Range(s)
    BY <1>4, <1>5
  <2>. QED BY <1>2, <2>1, PutUp
<1>7. new_row(L, n) = P
  BY DEF new_row, M
<1>8. /\ P \in LinkSet(N1, C) /\ P.left = M.left /\ P.right = M.right
      /\ P.size[c] = M.size[c] + 1 /\ \A d \in C : d # c => P.size[d] = M.size[d]
      /\ Ring(P.down, P.up, c, Append(s, n))
      /\ \A x \in N1 : x \notin {c, n} \cup Range(s) => P.down[x] = M.down[x] /\ P.up[x] = M.up[x]
  BY <1>6 DEF PutsUp
<1> HIDE DEF P
<1>9. ASSUME NEW d \in C PROVE Column(P, d, {x \in S \cup {n} : ColumnOf(x) = d})
  <2>1. CASE d = c
    <3>1. Range(Append(s, n)) = Range(s) \cup {n} /\ Len(Append(s, n)) = Len(s) + 1
      BY <1>5, AppendRange DEF Ring
    <3>2. Range(s) \cup {n} = {x \in S \cup {n} : ColumnOf(x) = d}
      BY <1>5, <2>1
    <3>3. Ring(P.down, P.up, d, Append(s, n)) /\ P.size[d] = Len(Append(s, n))
      BY <1>2, <1>5, <1>8, <2>1, <3>1
    <3>. QED BY <3>1, <3>2, <3>3 DEF Column
  <2>2. CASE d # c
    <3>1. PICK t : Ring(L.down, L.up, d, t) /\ Range(t) = {x \in S : ColumnOf(x) = d} /\ L.size[d] = Len(t)
      BY <1>1 DEF Column
    <3>2. Ring(M.down, M.up, d, t)
      BY <1>4, <3>1
    <3>3. \A x \in {d} \cup Range(t) : P.down[x] = M.down[x] /\ P.up[x] = M.up[x]
      <4>1. \A x \in {d} \cup Range(t) : x \in N1 /\ x \notin {c, n} \cup Range(s)
        BY <1>5, <2>2, <3>1
      <4>. QED BY <1>8, <4>1
    <3>4. DOMAIN M.down \subseteq DOMAIN P.down /\ DOMAIN P.up = DOMAIN P.down
      BY <1>3, <1>8 DEF LinkSet
    <3>5. Ring(P.down, P.up, d, t)
      BY <3>2, <3>3, <3>4, RingSame
    <3>6. Range(t) = {x \in S \cup {n} : ColumnOf(x) = d}
      BY <2>2, <3>1
    <3>. QED BY <1>2, <1>8, <2>2, <3>1, <3>5, <3>6 DEF Column
  <2>. QED BY <2>1, <2>2
<1>10. Heads(P, C)
  <2>1. PICK h : Ring(L.right, L.left, Root, h) /\ Range(h) = C
    BY <1>1 DEF Heads
  <2>2. \A x \in {Root} \cup Range(h) : P.right[x] = L.right[x] /\ P.left[x] = L.left[x]
    BY <1>2, <1>8, <2>1
  <2>3. DOMAIN L.right \subseteq DOMAIN P.right /\ DOMAIN P.left = DOMAIN P.right
    BY <1>3, <1>8
  <2>4. Ring(P.right, P.left, Root, h)
    BY <2>1, <2>2, <2>3, RingSame
  <2>. QED BY <2>1, <2>4 DEF Heads
<1>11. Rows(P, O)
  <2>1. \A x \in Live(O) : x \in N /\ Beside(x) \in N
    BY BesideFacts
  <2>. QED BY <1>1, <1>2, <1>8, <2>1 DEF Rows
<1>12. Lists(P, N1, C, O, C, C, S \cup {n})
  BY <1>8, <1>9, <1>10, <1>11 DEF Lists
<1>13. /\ P.left[n] = n /\ P.right[n] = n
       /\ \A x \in N : P.left[x] = L.left[x] /\ P.right[x] = L.right[x]
  BY <1>2, <1>8
<1> HIDE DEF N1
<1>. QED BY <1>7, <1>12, <1>13 DEF AddsNode, N1

\* Sequences of up to three nodes, written out.
LEMMA AppendTuples ==
  ASSUME NEW a, NEW b, NEW c
  PROVE  Append(<<a>>, b) = <<a, b>> /\ Append(<<a, b>>, c) = <<a, b, c>>
<1> DEFINE S == {a, b, c}
<1>1. <<a>> \in Seq(S) /\ <<a, b>> \in Seq(S) /\ <<a, b, c>> \in Seq(S)
  OBVIOUS
<1>2. Append(<<a>>, b) = <<a, b>>
  <2>1. Append(<<a>>, b) \in Seq(S) /\ Len(<<a, b>>) = 2 /\ Len(Append(<<a>>, b)) = 2
    BY <1>1
  <2>2. \A k \in 1..2 : <<a, b>>[k] = Append(<<a>>, b)[k]
    BY <1>1
  <2>. QED BY <1>1, <2>1, <2>2, SeqEqual
<1>3. Append(<<a, b>>, c) = <<a, b, c>>
  <2>1. Append(<<a, b>>, c) \in Seq(S) /\ Len(<<a, b, c>>) = 3 /\ Len(Append(<<a, b>>, c)) = 3
    BY <1>1
  <2>2. \A k \in 1..3 : <<a, b, c>>[k] = Append(<<a, b>>, c)[k]
    BY <1>1
  <2>. QED BY <1>1, <2>1, <2>2, SeqEqual
<1>. QED BY <1>2, <1>3

\* append_row makes one more row, whose four nodes are a ring.
LEMMA AppendRowBuilt ==
  ASSUME NEW C, NEW O, NEW L, Built(L, C, O), Live(O) \cap C = {}, NEW o, o \notin O,
         Live({o}) \cap ({Root} \cup C) = {}, \A n \in Live({o}) : ColumnOf(n) \in C
  PROVE  Built(append_row(L, o), C, O \cup {o})
<1> DEFINE n1 == <<"cell", o>>
           n2 == <<"row", o>>
           n3 == <<"col", o>>
           n4 == <<"box", o>>
           N0 == {Root} \cup C \cup Live(O)
           S0 == Live(O)
           N1 == N0 \cup {n1}
           S1 == S0 \cup {n1}
           N2 == N1 \cup {n2}
           S2 == S1 \cup {n2}
           N3 == N2 \cup {n3}
           S3 == S2 \cup {n3}
           N4 == N3 \cup {n4}
           S4 == S3 \cup {n4}
           L1 == new_row(L, n1)
           L2 == new_row(L1, n2)
           L3 == new_row(L2, n3)
           L4 == new_row(L3, n4)
           P2 == put_left(L4, n1, n2)
           P3 == put_left(P2, n1, n3)
           P4 == put_left(P3, n1, n4)
<1>1. append_row(L, o) = P4
  BY DEF append_row, Nodes
<1>2. Live({o}) = {n1, n2, n3, n4}
  BY DEF Live, Sorts
<1>3. n2 # n1 /\ n3 # n1 /\ n4 # n1 /\ n3 # n2 /\ n4 # n2 /\ n4 # n3
  OBVIOUS
<1>4. Live(O \cup {o}) = S4 /\ N4 = {Root} \cup C \cup S4 /\ S4 = Live(O) \cup Live({o})
  <2>1. Live(O \cup {o}) = Live(O) \cup Live({o})
    BY DEF Live
  <2>. QED BY <1>2, <2>1
<1>5. \A n \in Live({o}) : n \notin Live(O)
  BY DEF Live
<1>6. Beside(n1) = n2 /\ Beside(n2) = n3 /\ Beside(n3) = n4 /\ Beside(n4) = n1
  BY DEF Beside, After
<1>7. /\ ColumnOf(n1) \in C /\ ColumnOf(n2) \in C /\ ColumnOf(n3) \in C /\ ColumnOf(n4) \in C
      /\ n1 \notin N0 /\ n2 \notin N1 /\ n3 \notin N2 /\ n4 \notin N3
      /\ n1 \notin C /\ n2 \notin C /\ n3 \notin C /\ n4 \notin C
  <2> HIDE DEF n1, n2, n3, n4
  <2>. QED BY <1>2, <1>3, <1>5
<1>8. /\ S0 \cap C = {} /\ S1 \cap C = {} /\ S2 \cap C = {} /\ S3 \cap C = {}
      /\ {Root} \cup C \cup S0 \cup Live(O) \subseteq N0 /\ {Root} \cup C \cup S1 \cup Live(O) \subseteq N1
      /\ {Root} \cup C \cup S2 \cup Live(O) \subseteq N2 /\ {Root} \cup C \cup S3 \cup Live(O) \subseteq N3
  BY <1>7
<1>9. Live({o}) \cap ({Root} \cup C \cup Live(O)) = {}
  BY <1>5
<1> HIDE DEF n1, n2, n3, n4
<1>10. AddsNode(N0, C, O, S0, L, n1)
  BY <1>7, <1>8, NewRowLists DEF Built
<1>11. AddsNode(N1, C, O, S1, L1, n2)
  <2>1. Lists(L1, N1, C, O, C, C, S1)
    BY <1>10 DEF AddsNode
  <2> HIDE DEF N1, S1, L1
  <2>. QED BY <1>7, <1>8, <2>1, NewRowLists
<1>12. AddsNode(N2, C, O, S2, L2, n3)
  <2>1. Lists(L2, N2, C, O, C, C, S2)
    BY <1>11 DEF AddsNode
  <2> HIDE DEF N2, S2, L2
  <2>. QED BY <1>7, <1>8, <2>1, NewRowLists
<1>13. AddsNode(N3, C, O, S3, L3, n4)
  <2>1. Lists(L3, N3, C, O, C, C, S3)
    BY <1>12 DEF AddsNode
  <2> HIDE DEF N3, S3, L3
  <2>. QED BY <1>7, <1>8, <2>1, NewRowLists
<1>14. /\ L4 \in LinkSet(N4, C) /\ Heads(L4, C) /\ Rows(L4, O)
       /\ \A d \in C : Column(L4, d, {x \in S4 : ColumnOf(x) = d})
  BY <1>13 DEF AddsNode, Lists
<1>15. L4.left[n1] = n1 /\ L4.right[n1] = n1
  <2>1. n1 \in N1 /\ n1 \in N2 /\ n1 \in N3
    OBVIOUS
  <2>. QED BY <1>10, <1>11, <1>12, <1>13, <2>1 DEF AddsNode
<1>16. n1 \in N4 /\ n2 \in N4 /\ n3 \in N4 /\ n4 \in N4
  OBVIOUS
<1> HIDE DEF L1, L2, L3, L4, N1, N2, N3, N4, S1, S2, S3, S4, N0, S0
<1>17. PutsLeft(N4, C, L4, n1, <<>>, n2)
  <2>1. n1 \in DOMAIN L4.right /\ DOMAIN L4.left = DOMAIN L4.right
    BY <1>14, <1>16 DEF LinkSet
  <2>2. Ring(L4.right, L4.left, n1, <<>>) /\ Range(<<>>) = {}
    BY <1>15, <2>1, RingAlone
  <2>. QED BY <1>3, <1>14, <1>16, <2>2, PutLeft
<1>18. PutsLeft(N4, C, P2, n1, <<n2>>, n3)
  <2>1. P2 \in LinkSet(N4, C) /\ Ring(P2.right, P2.left, n1, <<n2>>)
    <3>1. Append(<<>>, n2) = <<n2>>
      OBVIOUS
    <3>. QED BY <1>17, <3>1 DEF PutsLeft
  <2>2. Range(<<n2>>) = {n2}
    BY DEF Range
  <2> HIDE DEF P2
  <2>. QED BY <1>3, <1>16, <2>1, <2>2, PutLeft
<1>19. PutsLeft(N4, C, P3, n1, <<n2, n3>>, n4)
  <2>1. P3 \in LinkSet(N4, C) /\ Ring(P3.right, P3.left, n1, <<n2, n3>>)
    <3>1. Append(<<n2>>, n3) = <<n2, n3>>
      BY AppendTuples
    <3>. QED BY <1>18, <3>1 DEF PutsLeft
  <2>2. Range(<<n2, n3>>) = {n2, n3}
    BY DEF Range
  <2> HIDE DEF P3
  <2>. QED BY <1>3, <1>16, <2>1, <2>2, PutLeft
<1>20. /\ P4 \in LinkSet(N4, C) /\ Ring(P4.right, P4.left, n1, <<n2, n3, n4>>)
       /\ P4.up = L4.up /\ P4.down = L4.down /\ P4.size = L4.size
       /\ \A x \in N4 : x \notin {n1, n2, n3, n4} => P4.right[x] = L4.right[x] /\ P4.left[x] = L4.left[x]
  <2>1. Append(<<n2, n3>>, n4) = <<n2, n3, n4>>
    BY AppendTuples
  <2>2. Range(<<>>) = {} /\ Range(<<n2>>) = {n2} /\ Range(<<n2, n3>>) = {n2, n3}
    BY DEF Range
  <2> HIDE DEF P2, P3, P4
  <2>3. /\ P2.up = L4.up /\ P2.down = L4.down /\ P2.size = L4.size
        /\ \A x \in N4 : x \notin {n1, n2, n3, n4} => P2.right[x] = L4.right[x] /\ P2.left[x] = L4.left[x]
    BY <1>17, <2>2 DEF PutsLeft, P2
  <2>4. /\ P3.up = L4.up /\ P3.down = L4.down /\ P3.size = L4.size
        /\ \A x \in N4 : x \notin {n1, n2, n3, n4} => P3.right[x] = L4.right[x] /\ P3.left[x] = L4.left[x]
    BY <1>18, <2>2, <2>3 DEF PutsLeft, P3
  <2>. QED BY <1>19, <2>1, <2>2, <2>4 DEF PutsLeft, P4
<1> HIDE DEF P4
<1>21. Rows(P4, O \cup {o})
  <2> DEFINE s == <<n2, n3, n4>>
  <2>1. At(n1, s, 0) = n1 /\ At(n1, s, 1) = n2 /\ At(n1, s, 2) = n3 /\ At(n1, s, 3) = n4 /\ At(n1, s, 4) = n1
    BY DEF At
  <2>2. \A k \in 0..3 : P4.right[At(n1, s, k)] = At(n1, s, k + 1) /\ P4.left[At(n1, s, k + 1)] = At(n1, s, k)
    BY <1>20 DEF Ring
  <2>3. /\ P4.right[n1] = n2 /\ P4.right[n2] = n3 /\ P4.right[n3] = n4 /\ P4.right[n4] = n1
        /\ P4.left[n2] = n1 /\ P4.left[n3] = n2 /\ P4.left[n4] = n3 /\ P4.left[n1] = n4
    <3>1. 0 \in 0..3 /\ 1 \in 0..3 /\ 2 \in 0..3 /\ 3 \in 0..3 /\ 0 + 1 = 1 /\ 1 + 1 = 2 /\ 2 + 1 = 3 /\ 3 + 1 = 4
      OBVIOUS
    <3> HIDE DEF s
    <3>. QED BY <2>1, <2>2, <3>1
  <2>4. ASSUME NEW x \in Live(O) PROVE P4.right[x] = Beside(x) /\ P4.left[Beside(x)] = x
    <3>1. Beside(x) \in Live(O)
      BY BesideFacts
    <3>2. /\ x \notin {n1, n2, n3, n4} /\ Beside(x) \notin {n1, n2, n3, n4} /\ x \in N4 /\ Beside(x) \in N4
      BY <1>2, <1>4, <1>9, <3>1
    <3>. QED BY <1>14, <1>20, <3>2 DEF Rows
  <2>. QED BY <1>2, <1>4, <1>6, <2>3, <2>4 DEF Rows
<1>22. Heads(P4, C)
  <2>1. PICK h : Ring(L4.right, L4.left, Root, h) /\ Range(h) = C
    BY <1>14 DEF Heads
  <2>2. \A x \in {Root} \cup Range(h) : P4.right[x] = L4.right[x] /\ P4.left[x] = L4.left[x]
    <3>1. \A x \in {Root} \cup C : x \in N4 /\ x \notin {n1, n2, n3, n4}
      BY <1>2, <1>4, <1>9
    <3>. QED BY <1>20, <2>1, <3>1
  <2>3. DOMAIN L4.right \subseteq DOMAIN P4.right /\ DOMAIN P4.left = DOMAIN P4.right
    BY <1>14, <1>20 DEF LinkSet
  <2>4. Ring(P4.right, P4.left, Root, h)
    BY <2>1, <2>2, <2>3, RingSame
  <2>. QED BY <2>1, <2>4 DEF Heads
<1>23. \A d \in C : Column(P4, d, {x \in S4 : ColumnOf(x) = d})
  BY <1>14, <1>20 DEF Column
<1>. QED BY <1>1, <1>4, <1>20, <1>21, <1>22, <1>23 DEF Built, Lists

-----------------------------------------------------------------------------
(* Rows, columns and boxes of a board *)

\* Division of a number below n * m by n.
LEMMA Quotient ==
  ASSUME NEW n \in Nat \ {0}, NEW m \in Nat, NEW a \in Nat, a < n * m
  PROVE  a \div n \in 0..(m - 1) /\ a % n \in 0..(n - 1) /\ a = n * (a \div n) + (a % n)
<1>1. a % n \in 0..(n - 1) /\ a = n * (a \div n) + (a % n) /\ a \div n \in Nat
  OBVIOUS
<1> DEFINE q == a \div n
<1>2. q \in Nat /\ n * q <= a
  BY <1>1
<1> HIDE DEF q
<1>3. ~(q >= m)
  <2> SUFFICES ASSUME q >= m PROVE FALSE
    OBVIOUS
  <2>1. PICK d \in Nat : q = m + d
    <3>1. q - m \in Nat /\ q = m + (q - m)
      BY <1>2
    <3>. QED BY <3>1
  <2>2. n * q = n * m + n * d /\ n * d \in Nat /\ n * m \in Nat
    BY <2>1
  <2>. QED BY <1>2, <2>2
<1>. QED BY <1>1, <1>2, <1>3 DEF q

\* A number has one quotient and one remainder.
LEMMA Digits ==
  ASSUME NEW n \in Nat \ {0}, NEW a \in Nat, NEW b \in Nat, NEW c \in 0..(n - 1), NEW d \in 0..(n - 1),
         n * a + c = n * b + d
  PROVE  a = b /\ c = d
<1>1. ASSUME NEW x \in Nat, NEW y \in Nat, NEW u \in 0..(n - 1), NEW v \in 0..(n - 1),
             n * x + u = n * y + v
      PROVE  ~(x < y)
  <2> SUFFICES ASSUME x < y PROVE FALSE
    OBVIOUS
  <2>1. PICK e \in Nat : y = x + 1 + e
    <3>1. y - (x + 1) \in Nat /\ y = x + 1 + (y - (x + 1))
      OBVIOUS
    <3>. QED BY <3>1
  <2>2. n * y = n * x + n + n * e /\ n * e \in Nat /\ n * x \in Nat
    BY <2>1
  <2>. QED BY <1>1, <2>2
<1>2. ~(a < b) /\ ~(b < a)
  BY <1>1
<1>3. a = b
  BY <1>2
<1>. QED BY <1>3

\* The sizes are positive numbers.
LEMMA SideIs ==
  /\ BoxSide \in Nat \ {0} /\ Side = BoxSide * BoxSide /\ Side \in Nat \ {0}
  /\ \A i \in Cells : i \in Nat /\ i < Side * Side
<1>1. BoxSide \in Nat \ {0}
  BY DancingLinksAssumption
<1>2. BoxSide * BoxSide \in Nat \ {0}
  BY <1>1
<1>3. Side * Side \in Nat
  BY <1>2 DEF Side
<1>. QED BY <1>1, <1>2, <1>3 DEF Side, Cells

\* The place of a cell on its row, column or box.
Place(kind, i) == CASE kind = "row" -> Col(i) [] kind = "col" -> Row(i)
                    [] kind = "box" -> BoxSide * (Row(i) % BoxSide) + (Col(i) % BoxSide)

\* The digits of a cell number: row and column, band and stack.
LEMMA BoardFacts ==
  ASSUME NEW i \in Cells
  PROVE  /\ Row(i) \in Units /\ Col(i) \in Units /\ i = Side * Row(i) + Col(i)
         /\ Row(i) \div BoxSide \in 0..(BoxSide - 1) /\ Row(i) % BoxSide \in 0..(BoxSide - 1)
         /\ Col(i) \div BoxSide \in 0..(BoxSide - 1) /\ Col(i) % BoxSide \in 0..(BoxSide - 1)
         /\ Row(i) = BoxSide * (Row(i) \div BoxSide) + (Row(i) % BoxSide)
         /\ Col(i) = BoxSide * (Col(i) \div BoxSide) + (Col(i) % BoxSide)
         /\ Box(i) = BoxSide * (Row(i) \div BoxSide) + Col(i) \div BoxSide
<1>1. /\ Row(i) \in Units /\ Col(i) \in Units /\ i = Side * Row(i) + Col(i)
  BY SideIs, Quotient DEF Row, Col, Units
<1>2. ASSUME NEW u \in Units
      PROVE  /\ u \div BoxSide \in 0..(BoxSide - 1) /\ u % BoxSide \in 0..(BoxSide - 1)
             /\ u = BoxSide * (u \div BoxSide) + (u % BoxSide)
  <2>1. u \in Nat /\ u < BoxSide * BoxSide
    BY SideIs DEF Units
  <2>. QED BY <2>1, SideIs, Quotient
<1>3. (Row(i) \div BoxSide) * BoxSide = BoxSide * (Row(i) \div BoxSide)
  <2>1. Row(i) \div BoxSide \in Nat
    BY <1>1, <1>2
  <2> DEFINE q == Row(i) \div BoxSide
  <2> HIDE DEF q
  <2>2. q \in Nat => q * BoxSide = BoxSide * q
    BY SideIs
  <2>. QED BY <2>1, <2>2 DEF q
<1>. QED BY <1>1, <1>2, <1>3 DEF Box

\* Two digits make a number below n * n.
LEMMA DigitPair ==
  ASSUME NEW n \in Nat \ {0}, NEW a \in 0..(n - 1), NEW b \in 0..(n - 1)
  PROVE  n * a + b \in 0..(n * n - 1)
<1>1. PICK d \in Nat : a + 1 + d = n
  <2>1. n - (a + 1) \in Nat /\ a + 1 + (n - (a + 1)) = n
    OBVIOUS
  <2>. QED BY <2>1
<1>2. n * n = n * a + n + n * d /\ n * d \in Nat /\ n * a \in Nat
  BY <1>1
<1>. QED BY <1>2

\* Unit and place determine the cell.
LEMMA UnitFacts ==
  ASSUME NEW kind \in Kinds, NEW i \in Cells
  PROVE  /\ UnitOf(kind, i) \in Units /\ Place(kind, i) \in Units
         /\ \A j \in Cells : UnitOf(kind, j) = UnitOf(kind, i) /\ Place(kind, j) = Place(kind, i) => j = i
<1>1. Box(i) \in Units /\ BoxSide * (Row(i) % BoxSide) + (Col(i) % BoxSide) \in Units
  <2>1. ASSUME NEW a \in 0..(BoxSide - 1), NEW b \in 0..(BoxSide - 1) PROVE BoxSide * a + b \in Units
    BY SideIs, DigitPair DEF Units
  <2>. QED BY <2>1, BoardFacts
<1>2. UnitOf(kind, i) \in Units /\ Place(kind, i) \in Units
  BY <1>1, BoardFacts DEF Kinds, UnitOf, Place
<1>3. ASSUME NEW j \in Cells, Row(j) = Row(i), Col(j) = Col(i) PROVE j = i
  BY <1>3, BoardFacts
<1>4. ASSUME NEW j \in Cells, UnitOf(kind, j) = UnitOf(kind, i), Place(kind, j) = Place(kind, i) PROVE j = i
  <2>1. CASE kind = "row"
    BY <1>3, <1>4, <2>1 DEF UnitOf, Place
  <2>2. CASE kind = "col"
    BY <1>3, <1>4, <2>2 DEF UnitOf, Place
  <2>3. CASE kind = "box"
    <3>1. /\ Box(j) = Box(i)
          /\ BoxSide * (Row(j) % BoxSide) + (Col(j) % BoxSide) = BoxSide * (Row(i) % BoxSide) + (Col(i) % BoxSide)
      BY <1>4, <2>3 DEF UnitOf, Place
    <3>2. ASSUME NEW a \in 0..(BoxSide - 1), NEW b \in 0..(BoxSide - 1), NEW c \in 0..(BoxSide - 1),
                 NEW d \in 0..(BoxSide - 1), BoxSide * a + c = BoxSide * b + d
          PROVE  a = b /\ c = d
      <4>1. a \in Nat /\ b \in Nat
        OBVIOUS
      <4>. QED BY <3>2, <4>1, SideIs, Digits
    <3>3. Row(j) \div BoxSide = Row(i) \div BoxSide /\ Col(j) \div BoxSide = Col(i) \div BoxSide
      BY <3>1, <3>2, BoardFacts
    <3>4. Row(j) % BoxSide = Row(i) % BoxSide /\ Col(j) % BoxSide = Col(i) % BoxSide
      BY <3>1, <3>2, BoardFacts
    <3>. QED BY <1>3, <3>3, <3>4, BoardFacts
  <2>. QED BY <2>1, <2>2, <2>3 DEF Kinds
<1>. QED BY <1>2, <1>4

\* The column of each sort of node.
LEMMA ColumnOfIs ==
  ASSUME NEW o
  PROVE  /\ ColumnOf(<<"cell", o>>) = <<"cell", o[1], 0>>
         /\ \A kind \in Kinds : ColumnOf(<<kind, o>>) = <<kind, UnitOf(kind, o[1]), o[2]>>
         /\ \A n \in Live({o}) : ColumnOf(n)[1] = n[1]
<1>1. ColumnOf(<<"cell", o>>) = <<"cell", o[1], 0>>
  BY DEF ColumnOf
<1>2. ASSUME NEW kind \in Kinds PROVE ColumnOf(<<kind, o>>) = <<kind, UnitOf(kind, o[1]), o[2]>>
  <2>1. kind # "cell"
    BY DEF Kinds
  <2>. QED BY <2>1 DEF ColumnOf
<1>3. \A n \in Live({o}) : n = <<"cell", o>> \/ \E kind \in Kinds : n = <<kind, o>>
  BY DEF Live, Sorts, Kinds
<1>. QED BY <1>1, <1>2, <1>3

\* What a column and a row are.
LEMMA ColumnSetIs ==
  ASSUME NEW b
  PROVE  /\ \A c \in ColumnSet(b) : \/ \E i \in Cells : b[i] = 0 /\ c = <<"cell", i, 0>>
                                    \/ \E kind \in Kinds, k \in Units, v \in Vals :
                                          ~Given(b, kind, k, v) /\ c = <<kind, k, v>>
         /\ \A i \in Cells : b[i] = 0 => <<"cell", i, 0>> \in ColumnSet(b)
         /\ \A kind \in Kinds, k \in Units, v \in Vals :
              ~Given(b, kind, k, v) => <<kind, k, v>> \in ColumnSet(b)
<1> DEFINE X == {c \in Kinds \X Units \X Vals : ~Given(b, c[1], c[2], c[3])}
           Y == {<<"cell", i, 0>> : i \in {i \in Cells : b[i] = 0}}
<1>1. ColumnSet(b) = Y \cup X
  BY DEF ColumnSet
<1>2. \A kind \in Kinds, k \in Units, v \in Vals : ~Given(b, kind, k, v) <=> <<kind, k, v>> \in X
  OBVIOUS
<1>3. ASSUME NEW c \in X
      PROVE  \E kind \in Kinds, k \in Units, v \in Vals : ~Given(b, kind, k, v) /\ c = <<kind, k, v>>
  <2>1. PICK kind \in Kinds, k \in Units, v \in Vals : c = <<kind, k, v>>
    OBVIOUS
  <2>. QED BY <1>2, <1>3, <2>1
<1> HIDE DEF X
<1>. QED BY <1>1, <1>2, <1>3

\* What a row is.
LEMMA OptionSetIs ==
  ASSUME NEW b, NEW o
  PROVE  o \in OptionSet(b) <=>
           \E i \in Cells, v \in Vals : /\ o = <<i, v>> /\ b[i] = 0
                                        /\ \A kind \in Kinds : ~Given(b, kind, UnitOf(kind, i), v)
BY DEF OptionSet

\* The constructor has a column for each node of each row.
LEMMA MeetsColumns ==
  ASSUME NEW b, NEW o \in OptionSet(b), NEW n \in Live({o})
  PROVE  ColumnOf(n) \in ColumnSet(b)
<1>1. PICK i \in Cells, v \in Vals : /\ o = <<i, v>> /\ b[i] = 0
                                     /\ \A kind \in Kinds : ~Given(b, kind, UnitOf(kind, i), v)
  BY OptionSetIs
<1>2. n = <<"cell", o>> \/ \E kind \in Kinds : n = <<kind, o>>
  BY DEF Live, Sorts, Kinds
<1>3. CASE n = <<"cell", o>>
  BY <1>1, <1>3, ColumnOfIs, ColumnSetIs
<1>4. ASSUME NEW kind \in Kinds, n = <<kind, o>> PROVE ColumnOf(n) \in ColumnSet(b)
  <2>1. ColumnOf(n) = <<kind, UnitOf(kind, i), v>> /\ UnitOf(kind, i) \in Units
    <3>1. ColumnOf(<<kind, o>>) = <<kind, UnitOf(kind, o[1]), o[2]>>
      BY ColumnOfIs
    <3>2. o[1] = i /\ o[2] = v
      BY <1>1
    <3>3. UnitOf(kind, i) \in Units
      BY UnitFacts
    <3>. QED BY <1>4, <3>1, <3>2, <3>3
  <2>. QED BY <1>1, <2>1, ColumnSetIs
<1>. QED BY <1>2, <1>3, <1>4

\* No two things have the same name.
LEMMA NamesApart ==
  ASSUME NEW b
  PROVE  /\ Root \notin ColumnSet(b) /\ \A O : Root \notin Live(O) /\ ColumnSet(b) \cap Live(O) = {}
         /\ \A O : \A m, n \in Live(O) : m[2] = n[2] /\ ColumnOf(m) = ColumnOf(n) => m = n
<1>1. \A c \in ColumnSet(b) : \E x, y, z : c = <<x, y, z>>
  BY ColumnSetIs
<1>2. \A O : \A n \in Live(O) : n = <<n[1], n[2]>>
  BY DEF Live
<1>3. \A x, y, z, u, v : <<x, y, z>> # <<u, v>> /\ <<x, y, z>> # Root /\ <<u, v>> # Root
  BY DEF Root
<1>4. ASSUME NEW O, NEW m \in Live(O), NEW n \in Live(O), m[2] = n[2], ColumnOf(m) = ColumnOf(n)
      PROVE  m = n
  <2>1. m \in Live({m[2]}) /\ n \in Live({n[2]})
    BY LiveIs
  <2>2. m[1] = n[1]
    <3>1. ColumnOf(m)[1] = m[1]
      BY <2>1, ColumnOfIs
    <3>2. ColumnOf(n)[1] = n[1]
      BY <2>1, ColumnOfIs
    <3>. QED BY <1>4, <3>1, <3>2
  <2>. QED BY <1>2, <1>4, <2>2
<1>5. \A O : Root \notin Live(O) /\ ColumnSet(b) \cap Live(O) = {}
  BY <1>1, <1>2, <1>3
<1>. QED BY <1>1, <1>3, <1>4, <1>5

\* There are finitely many columns and nodes.
LEMMA NamesFinite ==
  ASSUME NEW b
  PROVE  IsFiniteSet(ColumnSet(b)) /\ IsFiniteSet(Live(OptionSet(b)))
<1>1. IsFiniteSet(Cells) /\ IsFiniteSet(Units) /\ IsFiniteSet(Vals)
  <2>1. Side * Side \in Nat
    BY SideIs
  <2>. QED BY <2>1, SideIs, FS_Interval DEF Cells, Units, Vals
<1>2. IsFiniteSet(Kinds) /\ IsFiniteSet(Sorts)
  <2>1. IsFiniteSet({"row"}) /\ IsFiniteSet({"row", "col"}) /\ IsFiniteSet({"row", "col", "box"})
        /\ IsFiniteSet({"row", "col", "box", "cell"})
    <3>1. /\ {"row", "col"} = {"row"} \cup {"col"} /\ {"row", "col", "box"} = {"row", "col"} \cup {"box"}
          /\ {"row", "col", "box", "cell"} = {"row", "col", "box"} \cup {"cell"}
      OBVIOUS
    <3>. QED BY <3>1, FS_Singleton, FS_AddElement
  <2>2. Sorts = {"row", "col", "box", "cell"}
    BY DEF Sorts
  <2>. QED BY <2>1, <2>2 DEF Kinds
<1>3. IsFiniteSet(Units \X Vals) /\ IsFiniteSet(Cells \X Vals)
  BY <1>1, FS_Product
<1>4. IsFiniteSet(ColumnSet(b))
  <2> DEFINE X == {c \in Kinds \X Units \X Vals : ~Given(b, c[1], c[2], c[3])}
             Y == {<<"cell", i, 0>> : i \in {i \in Cells : b[i] = 0}}
  <2>1. IsFiniteSet(Y)
    <3> DEFINE f == [c \in Y |-> c[2]]
    <3>1. f \in Injection(Y, Cells)
      <4>1. f \in [Y -> Cells]
        OBVIOUS
      <4>2. \A c, d \in Y : f[c] = f[d] => c = d
        OBVIOUS
      <4>. QED BY <4>1, <4>2 DEF Injection, IsInjective
    <3>. QED BY <1>1, <3>1, FS_Injection
  <2>2. IsFiniteSet(X)
    <3> DEFINE T == Kinds \X (Units \X Vals)
               f == [c \in X |-> <<c[1], <<c[2], c[3]>>>>]
    <3>1. IsFiniteSet(T)
      BY <1>2, <1>3, FS_Product
    <3>2. f \in Injection(X, T)
      <4>1. f \in [X -> T]
        OBVIOUS
      <4>2. ASSUME NEW c \in X, NEW d \in X, f[c] = f[d] PROVE c = d
        <5>1. c = <<c[1], c[2], c[3]>> /\ d = <<d[1], d[2], d[3]>>
          OBVIOUS
        <5>2. <<c[1], <<c[2], c[3]>>>> = <<d[1], <<d[2], d[3]>>>>
          BY <4>2
        <5>. QED BY <5>1, <5>2
      <4>. QED BY <4>1, <4>2 DEF Injection, IsInjective
    <3>. QED BY <3>1, <3>2, FS_Injection
  <2>. QED BY <2>1, <2>2, FS_Union DEF ColumnSet
<1>5. IsFiniteSet(Live(OptionSet(b)))
  <2>1. IsFiniteSet(OptionSet(b))
    BY <1>3, FS_Subset DEF OptionSet
  <2>. QED BY <1>2, <2>1, FS_Product DEF Live
<1>. QED BY <1>4, <1>5

AllNodes(b) == {Root} \cup ColumnSet(b) \cup Live(OptionSet(b))

\* The names of every board have the shape that the lists need.
LEMMA ShapeHolds ==
  ASSUME NEW b
  PROVE  Shape(AllNodes(b), ColumnSet(b), OptionSet(b))
<1>1. IsFiniteSet(AllNodes(b))
  <2>1. IsFiniteSet({Root} \cup ColumnSet(b))
    BY NamesFinite, FS_Singleton, FS_Union
  <2>. QED BY <2>1, NamesFinite, FS_Union DEF AllNodes
<1>2. \A n \in Live(OptionSet(b)) : ColumnOf(n) \in ColumnSet(b)
  BY LiveIs, MeetsColumns
<1>3. Root \notin ColumnSet(b) /\ Root \notin Live(OptionSet(b)) /\ ColumnSet(b) \cap Live(OptionSet(b)) = {}
  BY NamesApart
<1>4. \A m, n \in Live(OptionSet(b)) : m[2] = n[2] /\ ColumnOf(m) = ColumnOf(n) => m = n
  BY NamesApart
<1>. QED BY <1>1, <1>2, <1>3, <1>4 DEF Shape, AllNodes

-----------------------------------------------------------------------------
(* What is in the lists at each turn of the constructor's loops *)

Earlier(l, i, v) == i < l.i \/ (i = l.i /\ v < l.v)
CellsBefore(b, l) == {c \in ColumnSet(b) : c[1] = "cell" /\ c[2] < l.i}
ColumnsBefore(b, l) == {c \in ColumnSet(b) : c[1] = "cell" \/ Earlier(l, c[2], c[3])}
RowsBefore(b, l) == {o \in OptionSet(b) : Earlier(l, o[1], o[2])}

Turns(m) == {l \in [i : 0..m, v : Vals] : l.i = m => l.v = 1}

BuildInv ==
  /\ dpc = "cells" => /\ loop \in [i : 0..(Side * Side), v : {1}]
                      /\ Built(links, CellsBefore(board, loop), {})
  /\ dpc = "units" => /\ loop \in Turns(Side)
                      /\ Built(links, ColumnsBefore(board, loop), {})
  /\ dpc = "rows"  => /\ loop \in Turns(Side * Side)
                      /\ Built(links, ColumnSet(board), RowsBefore(board, loop))

\* What a column is, by its name.
LEMMA ColumnFields ==
  ASSUME NEW b, NEW c \in ColumnSet(b)
  PROVE  \/ c[1] = "cell" /\ c[2] \in Cells /\ b[c[2]] = 0 /\ c = <<"cell", c[2], 0>>
         \/ /\ c[1] \in Kinds /\ c[1] # "cell" /\ c[2] \in Units /\ c[3] \in Vals
            /\ c = <<c[1], c[2], c[3]>> /\ ~Given(b, c[1], c[2], c[3])
<1>1. CASE \E i \in Cells : b[i] = 0 /\ c = <<"cell", i, 0>>
  BY <1>1
<1>2. CASE \E kind \in Kinds, k \in Units, v \in Vals : ~Given(b, kind, k, v) /\ c = <<kind, k, v>>
  <2>1. PICK kind \in Kinds, k \in Units, v \in Vals : ~Given(b, kind, k, v) /\ c = <<kind, k, v>>
    BY <1>2
  <2>2. c[1] = kind /\ c[2] = k /\ c[3] = v /\ kind # "cell"
    BY <2>1 DEF Kinds
  <2>. QED BY <2>1, <2>2
<1>. QED BY <1>1, <1>2, ColumnSetIs

\* The next turn of two nested loops.
LEMMA NextTurnIs ==
  ASSUME NEW m \in Nat, loop \in Turns(m), loop.i < m, NextTurn
  PROVE  /\ loop' \in Turns(m)
         /\ \A i \in Nat, v \in Vals : Earlier(loop', i, v) <=> Earlier(loop, i, v) \/ (i = loop.i /\ v = loop.v)
<1>1. loop.i \in 0..m /\ loop.v \in 1..Side /\ Side \in Nat \ {0} /\ loop = [i |-> loop.i, v |-> loop.v]
  BY SideIs DEF Turns, Vals
<1>2. CASE loop.v < Side
  <2>1. loop' = [i |-> loop.i, v |-> loop.v + 1]
    BY <1>1, <1>2 DEF NextTurn
  <2>2. loop'.i = loop.i /\ loop'.v = loop.v + 1 /\ loop.v + 1 \in Vals /\ loop.i # m
    BY <1>1, <1>2, <2>1 DEF Vals
  <2>. QED BY <1>1, <2>1, <2>2 DEF Turns, Earlier, Vals
<1>3. CASE ~(loop.v < Side)
  <2>1. loop' = [i |-> loop.i + 1, v |-> 1]
    BY <1>3 DEF NextTurn
  <2>2. loop'.i = loop.i + 1 /\ loop'.v = 1 /\ 1 \in Vals /\ loop.i + 1 \in 0..m
    BY <1>1, <2>1 DEF Vals
  <2>. QED BY <1>1, <1>3, <2>1, <2>2 DEF Turns, Earlier, Vals
<1>. QED BY <1>2, <1>3

\* Initially no loop has made a turn.
LEMMA InitBuilds == DlInit => BuildInv
<1> SUFFICES ASSUME DlInit PROVE BuildInv
  OBVIOUS
<1>1. dpc = "cells" /\ links = Empty /\ loop = [i |-> 0, v |-> 1]
  BY DEF DlInit
<1>2. CellsBefore(board, loop) = {}
  <2>1. ASSUME NEW c \in ColumnSet(board) PROVE ~(c[1] = "cell" /\ c[2] < loop.i)
    BY <1>1, ColumnFields, SideIs
  <2>. QED BY <2>1 DEF CellsBefore
<1>3. 0 \in 0..(Side * Side)
  BY SideIs
<1>. QED BY <1>1, <1>2, <1>3, EmptyBuilt DEF BuildInv

\* A turn of the loop over the cells.
LEMMA AppendCellBuilds ==
  ASSUME BuildInv, AppendCell
  PROVE  BuildInv'
<1>1. /\ dpc = "cells" /\ dpc' = "cells" /\ board' = board /\ loop.i < Side * Side
      /\ loop \in [i : 0..(Side * Side), v : {1}] /\ loop' = [loop EXCEPT !.i = loop.i + 1]
      /\ Built(links, CellsBefore(board, loop), {})
      /\ links' = (IF board[loop.i] = 0 THEN append_column(links, <<"cell", loop.i, 0>>) ELSE links)
  BY DEF BuildInv, AppendCell
<1>2. loop.i \in Cells /\ loop'.i = loop.i + 1 /\ loop' \in [i : 0..(Side * Side), v : {1}] /\ loop.i \in Nat
  BY <1>1, SideIs DEF Cells
<1> DEFINE c == <<"cell", loop.i, 0>>
           A == CellsBefore(board, loop)
<1>3. \A d \in ColumnSet(board) : d[1] = "cell" => (d[2] < loop.i + 1 <=> d[2] < loop.i \/ d = c)
  <2> SUFFICES ASSUME NEW d \in ColumnSet(board), d[1] = "cell"
               PROVE  d[2] < loop.i + 1 <=> d[2] < loop.i \/ d = c
    OBVIOUS
  <2>1. d[2] \in Cells /\ d = <<"cell", d[2], 0>>
    BY ColumnFields
  <2>2. d[2] \in Nat /\ (d = c <=> d[2] = loop.i)
    BY <2>1, SideIs
  <2>. QED BY <1>2, <2>2
<1>4. CASE board[loop.i] = 0
  <2>1. c \in ColumnSet(board) /\ c # Root /\ c \notin A /\ c[1] = "cell"
    <3>1. c \in ColumnSet(board)
      BY <1>2, <1>4, ColumnSetIs
    <3>2. c[2] = loop.i /\ c[1] = "cell"
      OBVIOUS
    <3>. QED BY <1>2, <3>1, <3>2, NamesApart DEF CellsBefore
  <2>2. CellsBefore(board, loop') = A \cup {c}
    <3> HIDE DEF c
    <3>. QED BY <1>2, <1>3, <2>1 DEF CellsBefore
  <2>3. links' = append_column(links, c)
    BY <1>1, <1>4
  <2> HIDE DEF A, c
  <2>4. Built(links', A \cup {c}, {})
    BY <1>1, <2>1, <2>3, AppendColumnBuilt DEF A
  <2>. QED BY <1>1, <1>2, <2>2, <2>4 DEF BuildInv
<1>5. CASE board[loop.i] # 0
  <2>1. \A d \in ColumnSet(board) : d # c
    BY <1>5, ColumnFields
  <2>2. CellsBefore(board, loop') = A
    <3> HIDE DEF c
    <3>. QED BY <1>2, <1>3, <2>1 DEF CellsBefore
  <2>. QED BY <1>1, <1>2, <1>5, <2>2 DEF BuildInv
<1>. QED BY <1>4, <1>5

\* That loop is done.
LEMMA CellsDoneBuilds ==
  ASSUME BuildInv, CellsDone
  PROVE  BuildInv'
<1>1. /\ dpc = "cells" /\ dpc' = "units" /\ board' = board /\ loop.i = Side * Side /\ links' = links
      /\ loop' = [i |-> 0, v |-> 1] /\ Built(links, CellsBefore(board, loop), {})
  BY DEF BuildInv, CellsDone
<1>2. loop' \in Turns(Side)
  BY <1>1, SideIs DEF Turns, Vals
<1>3. CellsBefore(board, loop) = ColumnsBefore(board, loop')
  <2>1. ASSUME NEW d \in ColumnSet(board)
        PROVE  d[1] = "cell" /\ d[2] < loop.i <=> d[1] = "cell" \/ Earlier(loop', d[2], d[3])
    <3>1. CASE d[1] = "cell"
      BY <1>1, <3>1, ColumnFields, SideIs
    <3>2. CASE d[1] # "cell"
      <4>1. d[2] \in Units /\ d[3] \in Vals
        BY <3>2, ColumnFields
      <4>. QED BY <1>1, <3>2, <4>1, SideIs DEF Earlier, Units, Vals
    <3>. QED BY <3>1, <3>2
  <2>. QED BY <2>1 DEF CellsBefore, ColumnsBefore
<1>. QED BY <1>1, <1>2, <1>3 DEF BuildInv

\* A turn of the loops over the rows, columns and boxes, with up to three new columns.
LEMMA AppendUnitBuilds ==
  ASSUME BuildInv, AppendUnit
  PROVE  BuildInv'
<1>1. /\ dpc = "units" /\ dpc' = "units" /\ board' = board /\ loop.i < Side
      /\ loop \in Turns(Side) /\ NextTurn
      /\ Built(links, ColumnsBefore(board, loop), {})
      /\ links' = append_lacking(append_lacking(append_lacking(links, "row"), "col"), "box")
  BY DEF BuildInv, AppendUnit
<1>2. /\ loop' \in Turns(Side)
      /\ \A i \in Nat, v \in Vals : Earlier(loop', i, v) <=> Earlier(loop, i, v) \/ (i = loop.i /\ v = loop.v)
  BY <1>1, SideIs, NextTurnIs
<1>3. loop.i \in Units /\ loop.v \in Vals /\ loop.i \in Nat
  BY <1>1, SideIs DEF Turns, Units
<1> DEFINE c(kind) == <<kind, loop.i, loop.v>>
           New(kind) == IF Given(board, kind, loop.i, loop.v) THEN {} ELSE {c(kind)}
           A0 == ColumnsBefore(board, loop)
           A1 == A0 \cup New("row")
           A2 == A1 \cup New("col")
           A3 == A2 \cup New("box")
           L1 == append_lacking(links, "row")
           L2 == append_lacking(L1, "col")
           L3 == append_lacking(L2, "box")
<1>4. \A kind \in Kinds : c(kind) \notin A0 /\ c(kind) # Root
  <2> SUFFICES ASSUME NEW kind \in Kinds PROVE c(kind) \notin A0 /\ c(kind) # Root
    OBVIOUS
  <2>1. c(kind)[1] # "cell" /\ ~Earlier(loop, c(kind)[2], c(kind)[3])
    BY <1>3, SideIs DEF Kinds, Earlier, Vals
  <2>2. c(kind) # Root
    BY DEF Root
  <2>. QED BY <2>1, <2>2 DEF ColumnsBefore
<1>5. c("row") # c("col") /\ c("row") # c("box") /\ c("col") # c("box")
  OBVIOUS
<1>6. ColumnsBefore(board, loop') = A3
  <2>1. ASSUME NEW d \in ColumnSet(board)
        PROVE  (d[1] = "cell" \/ Earlier(loop', d[2], d[3]))
                 <=> (d[1] = "cell" \/ Earlier(loop, d[2], d[3]) \/ \E kind \in Kinds : d \in New(kind))
    <3>1. CASE d[1] = "cell"
      BY <3>1
    <3>2. CASE d[1] # "cell"
      <4>1. /\ d[1] \in Kinds /\ d[2] \in Units /\ d[3] \in Vals /\ d[2] \in Nat
            /\ d = <<d[1], d[2], d[3]>> /\ ~Given(board, d[1], d[2], d[3])
        BY <3>2, ColumnFields, SideIs DEF Units
      <4>2. (\E kind \in Kinds : d \in New(kind)) <=> d[2] = loop.i /\ d[3] = loop.v
        <5>1. ASSUME NEW kind \in Kinds, d \in New(kind) PROVE d[2] = loop.i /\ d[3] = loop.v
          <6>1. d = c(kind)
            BY <5>1
          <6>. QED BY <6>1
        <5>2. ASSUME d[2] = loop.i, d[3] = loop.v PROVE d \in New(d[1])
          <6>1. d = c(d[1]) /\ ~Given(board, d[1], loop.i, loop.v)
            BY <4>1, <5>2
          <6>. QED BY <6>1
        <5>. QED BY <4>1, <5>1, <5>2
      <4>. QED BY <1>2, <3>2, <4>1, <4>2
    <3>. QED BY <3>1, <3>2
  <2>2. \A kind \in Kinds : New(kind) \subseteq ColumnSet(board)
    <3> SUFFICES ASSUME NEW kind \in Kinds, ~Given(board, kind, loop.i, loop.v) PROVE c(kind) \in ColumnSet(board)
      OBVIOUS
    <3>. QED BY <1>3, ColumnSetIs
  <2>3. A3 = A0 \cup UNION {New(kind) : kind \in Kinds}
    <3> HIDE DEF New, A0
    <3>. QED BY DEF Kinds
  <2>4. \A d : d \in A3 <=> d \in ColumnSet(board) /\ (d \in A0 \/ \E kind \in Kinds : d \in New(kind))
    <3>1. A0 \subseteq ColumnSet(board)
      BY DEF ColumnsBefore
    <3> HIDE DEF New, A0, A3
    <3>. QED BY <2>2, <2>3, <3>1
  <2> HIDE DEF New, A3
  <2>. QED BY <2>1, <2>4 DEF ColumnsBefore
<1>7. ASSUME NEW kind \in Kinds, NEW L, NEW A, Built(L, A, {}), c(kind) \notin A
      PROVE  Built(append_lacking(L, kind), A \cup New(kind), {})
  <2>1. CASE Given(board, kind, loop.i, loop.v)
    <3>1. append_lacking(L, kind) = L /\ A \cup New(kind) = A
      BY <2>1 DEF append_lacking
    <3>. QED BY <1>7, <3>1
  <2>2. CASE ~Given(board, kind, loop.i, loop.v)
    <3>1. append_lacking(L, kind) = append_column(L, c(kind)) /\ New(kind) = {c(kind)}
      BY <2>2 DEF append_lacking
    <3> HIDE DEF New, c
    <3>2. Built(append_column(L, c(kind)), A \cup {c(kind)}, {})
      BY <1>4, <1>7, AppendColumnBuilt
    <3>. QED BY <3>1, <3>2
  <2>. QED BY <2>1, <2>2
<1>8. "row" \in Kinds /\ "col" \in Kinds /\ "box" \in Kinds
  BY DEF Kinds
<1>9. c("row") \notin A0 /\ c("col") \notin A1 /\ c("box") \notin A2
  <2>1. \A kind \in Kinds : New(kind) \subseteq {c(kind)}
    OBVIOUS
  <2> HIDE DEF New, c, A0
  <2>. QED BY <1>4, <1>5, <1>8, <2>1
<1> HIDE DEF New, c, A0
<1>10. Built(L1, A1, {})
  BY <1>1, <1>7, <1>8, <1>9 DEF A0
<1> HIDE DEF L1, A1
<1>11. Built(L2, A2, {})
  BY <1>7, <1>8, <1>9, <1>10
<1> HIDE DEF L2, A2
<1>12. Built(L3, A3, {})
  BY <1>7, <1>8, <1>9, <1>11
<1>13. links' = L3
  BY <1>1 DEF L1, L2
<1>. QED BY <1>1, <1>2, <1>6, <1>12, <1>13 DEF BuildInv

\* Those loops are done.
LEMMA UnitsDoneBuilds ==
  ASSUME BuildInv, UnitsDone
  PROVE  BuildInv'
<1>1. /\ dpc = "units" /\ dpc' = "rows" /\ board' = board /\ loop.i = Side /\ links' = links
      /\ loop' = [i |-> 0, v |-> 1] /\ Built(links, ColumnsBefore(board, loop), {})
  BY DEF BuildInv, UnitsDone
<1>2. loop' \in Turns(Side * Side)
  <2>1. Side * Side \in Nat \ {0}
    BY SideIs
  <2>. QED BY <1>1, <2>1, SideIs DEF Turns, Vals
<1>3. ColumnsBefore(board, loop) = ColumnSet(board)
  <2>1. ASSUME NEW d \in ColumnSet(board) PROVE d[1] = "cell" \/ Earlier(loop, d[2], d[3])
    BY <1>1, ColumnFields, SideIs DEF Earlier, Units
  <2>. QED BY <2>1 DEF ColumnsBefore
<1>4. RowsBefore(board, loop') = {}
  <2>1. ASSUME NEW o \in OptionSet(board) PROVE ~Earlier(loop', o[1], o[2])
    <3>1. PICK i \in Cells, v \in Vals : o = <<i, v>>
      BY OptionSetIs
    <3>2. o[1] \in Nat /\ o[2] \in Vals
      BY <3>1, SideIs
    <3>. QED BY <1>1, <3>2, SideIs DEF Earlier, Vals
  <2>. QED BY <2>1 DEF RowsBefore
<1>. QED BY <1>1, <1>2, <1>3, <1>4 DEF BuildInv

\* A turn of the loops over the rows of the matrix.
LEMMA AppendRowBuilds ==
  ASSUME BuildInv, AppendRow
  PROVE  BuildInv'
<1> DEFINE o == <<loop.i, loop.v>>
           R == RowsBefore(board, loop)
           C == ColumnSet(board)
<1>1. /\ dpc = "rows" /\ dpc' = "rows" /\ board' = board /\ loop.i < Side * Side
      /\ loop \in Turns(Side * Side) /\ NextTurn
      /\ Built(links, C, R)
      /\ links' = (IF o \in OptionSet(board) THEN append_row(links, o) ELSE links)
  BY DEF BuildInv, AppendRow
<1>2. /\ loop' \in Turns(Side * Side)
      /\ \A i \in Nat, v \in Vals : Earlier(loop', i, v) <=> Earlier(loop, i, v) \/ (i = loop.i /\ v = loop.v)
  <2>1. Side * Side \in Nat
    BY SideIs
  <2>. QED BY <1>1, <2>1, NextTurnIs
<1>3. \A p \in OptionSet(board) : Earlier(loop', p[1], p[2]) <=> Earlier(loop, p[1], p[2]) \/ p = o
  <2> SUFFICES ASSUME NEW p \in OptionSet(board)
               PROVE  Earlier(loop', p[1], p[2]) <=> Earlier(loop, p[1], p[2]) \/ p = o
    OBVIOUS
  <2>1. PICK i \in Cells, v \in Vals : p = <<i, v>>
    BY OptionSetIs
  <2>2. i \in Nat /\ p[1] = i /\ p[2] = v /\ (p = o <=> i = loop.i /\ v = loop.v)
    BY <2>1, SideIs
  <2>. QED BY <1>2, <2>2
<1>4. CASE o \in OptionSet(board)
  <2>1. o \notin R
    <3>1. ~Earlier(loop, o[1], o[2])
      BY <1>1, SideIs DEF Earlier, Turns, Vals
    <3>. QED BY <3>1 DEF RowsBefore
  <2>2. RowsBefore(board, loop') = R \cup {o}
    <3> HIDE DEF o
    <3>. QED BY <1>3, <1>4 DEF RowsBefore
  <2>3. Built(append_row(links, o), C, R \cup {o})
    <3>1. \A n \in Live({o}) : ColumnOf(n) \in C
      BY <1>4, MeetsColumns
    <3>2. Live(R) \cap C = {} /\ Live({o}) \cap ({Root} \cup C) = {}
      BY NamesApart
    <3> HIDE DEF o, C, R
    <3>. QED BY <1>1, <2>1, <3>1, <3>2, AppendRowBuilt
  <2>. QED BY <1>1, <1>2, <1>4, <2>2, <2>3 DEF BuildInv
<1>5. CASE o \notin OptionSet(board)
  <2>1. RowsBefore(board, loop') = R
    <3> HIDE DEF o
    <3>. QED BY <1>3, <1>5 DEF RowsBefore
  <2>. QED BY <1>1, <1>2, <1>5, <2>1 DEF BuildInv
<1>. QED BY <1>4, <1>5

\* When the constructor is done, the lists are the whole matrix.
Whole(L, b) == Matrix(L, AllNodes(b), ColumnSet(b), OptionSet(b), {})

\* Those loops are done: the lists are the whole matrix.
LEMMA RowsDoneBuilds ==
  ASSUME BuildInv, RowsDone
  PROVE  Whole(links, board)
<1>1. loop.i = Side * Side /\ Built(links, ColumnSet(board), RowsBefore(board, loop))
  BY DEF BuildInv, RowsDone
<1>2. RowsBefore(board, loop) = OptionSet(board)
  <2>1. ASSUME NEW o \in OptionSet(board) PROVE Earlier(loop, o[1], o[2])
    <3>1. PICK i \in Cells, v \in Vals : o = <<i, v>>
      BY OptionSetIs
    <3>2. o[1] \in Cells
      BY <3>1
    <3>. QED BY <1>1, <3>2, SideIs DEF Earlier
  <2>. QED BY <2>1 DEF RowsBefore
<1>3. ColumnSet(board) \ {} = ColumnSet(board) /\ OpenRows(OptionSet(board), {}) = OptionSet(board)
  BY DEF OpenRows
<1>. QED BY <1>1, <1>2, <1>3 DEF Whole, Matrix, Built, AllNodes

-----------------------------------------------------------------------------
(* One call of solve *)

\* A set of numbers has a least one.
LEMMA LeastExists ==
  ASSUME NEW I \in SUBSET Nat, I # {}
  PROVE  \E x \in I : \A y \in I : x <= y
<1>1. \E x \in I : \A y \in I : ~(<<y, x>> \in OpToRel(<, Nat))
  BY NatLessThanWellFounded, WFMin
<1>2. PICK x \in I : \A y \in I : ~(y < x)
  BY <1>1 DEF OpToRel
<1>. QED BY <1>2

\* The column that solve chooses is one that is open.
LEMMA MinColumnIs ==
  ASSUME NEW N, NEW C, NEW O, Shape(N, C, O), NEW X, NEW L, Matrix(L, N, C, O, X), L.left[Root] # Root
  PROVE  get_min_column(L) \in C \ X
<1> DEFINE cs == Walk(L.right, Root)
           Short == {i \in 1..Len(cs) : L.size[cs[i]] <= 1}
           Least == {i \in 1..Len(cs) : \A d \in Range(cs) : L.size[cs[i]] <= L.size[d]}
<1>1. PICK s : Ring(L.right, L.left, Root, s) /\ Range(s) = C \ X
  BY DEF Matrix, Lists, Heads
<1>2. cs = s
  <2>1. IsFiniteSet(DOMAIN L.right)
    BY DEF Matrix, Lists, LinkSet, Shape
  <2>. QED BY <1>1, <2>1, WalkRing
<1> HIDE DEF cs
<1>3. Len(cs) \in Nat /\ DOMAIN cs = 1..Len(cs) /\ Range(cs) = C \ X
  BY <1>1, <1>2 DEF Ring
<1>4. 1 \in 1..Len(cs)
  <2>1. L.left[Root] = At(Root, s, Len(s))
    <3>1. Len(s) \in 0..Len(s) /\ At(Root, s, Len(s) + 1) = Root
      BY <1>2, <1>3 DEF At
    <3>. QED BY <1>1, <3>1 DEF Ring
  <2>2. Len(s) # 0
    BY <2>1 DEF At
  <2>. QED BY <1>2, <1>3, <2>2
<1>5. \A i \in 1..Len(cs) : cs[i] \in C \ X
  BY <1>3 DEF Range
<1>6. \A d \in C \ X : L.size[d] \in Nat
  BY DEF Matrix, Lists, Column, Ring
<1>7. \A I \in SUBSET (1..Len(cs)) : I # {} => Min(I) \in I
  <2> SUFFICES ASSUME NEW I \in SUBSET (1..Len(cs)), I # {} PROVE Min(I) \in I
    OBVIOUS
  <2>1. \E x \in I : \A y \in I : x <= y
    BY LeastExists
  <2>. QED BY <2>1 DEF Min
<1>8. Least # {}
  <2> DEFINE Z == {L.size[d] : d \in Range(cs)}
  <2>1. Z \in SUBSET Nat /\ L.size[cs[1]] \in Z
    BY <1>3, <1>4, <1>5, <1>6
  <2>2. PICK z \in Z : \A y \in Z : z <= y
    BY <2>1, LeastExists
  <2>3. PICK i \in 1..Len(cs) : L.size[cs[i]] = z
    BY <1>3, <2>2 DEF Range
  <2>4. i \in Least
    BY <2>2, <2>3
  <2>. QED BY <2>4
<1>9. /\ SelectInSeq(cs, LAMBDA c : L.size[c] <= 1) = (IF Short # {} THEN Min(Short) ELSE 0)
      /\ SelectInSeq(cs, LAMBDA c : \A d \in Range(cs) : L.size[c] <= L.size[d])
           = (IF Least # {} THEN Min(Least) ELSE 0)
  BY DEF SelectInSeq
<1>10. get_min_column(L) = cs[IF (IF Short # {} THEN Min(Short) ELSE 0) # 0 THEN (IF Short # {} THEN Min(Short) ELSE 0)
                              ELSE (IF Least # {} THEN Min(Least) ELSE 0)]
  BY <1>9 DEF get_min_column, cs
<1>11. Short \in SUBSET (1..Len(cs)) /\ Least \in SUBSET (1..Len(cs))
  OBVIOUS
<1> HIDE DEF Short, Least
<1>12. Min(Least) \in 1..Len(cs) /\ (Short # {} => Min(Short) \in 1..Len(cs))
  BY <1>7, <1>8, <1>11
<1>. QED BY <1>5, <1>8, <1>10, <1>12

\* The matrix of the board b without the columns X.
Rest(L, b, X) == Matrix(L, AllNodes(b), ColumnSet(b), OptionSet(b), X)

\* A call f of solve that began with the lists L, when the columns X were covered: it tries the
\* rows s of its column, and is at the p-th of them or has none left.
Call(L, s, p, f, X, b) ==
  /\ Rest(L, b, X)
  /\ f.col \in ColumnSet(b) \ X
  /\ Ring(L.down, L.up, f.col, s)
  /\ \A x : x \in Range(s) <=> x \in Live(OptionSet(b)) /\ Meets(x[2]) \cap X = {} /\ ColumnOf(x) = f.col
  /\ p \in 1..(Len(s) + 1) /\ f.row = At(f.col, s, p)

\* A call begins with the first row of the column it has covered, or with none.
LEMMA CallBegins ==
  ASSUME NEW b, NEW X, NEW L, Rest(L, b, X), L.left[Root] # Root,
         NEW f, f = [col |-> get_min_column(L), row |-> cover(L, get_min_column(L)).down[get_min_column(L)]]
  PROVE  \E s : Call(L, s, 1, f, X, b)
<1> DEFINE c == get_min_column(L)
           D == cover(L, c)
           N == AllNodes(b)
           C == ColumnSet(b)
           O == OptionSet(b)
<1>1. Shape(N, C, O) /\ Matrix(L, N, C, O, X)
  BY ShapeHolds DEF Rest
<1>2. c \in C \ X
  BY <1>1, MinColumnIs
<1>3. CoversMatrix(N, C, O, X, L, c)
  BY <1>1, <1>2, CoverMatrix
<1>4. f.col = c /\ f.row = D.down[c]
  OBVIOUS
<1> HIDE DEF c, N, C, O
<1>5. PICK s : Ring(L.down, L.up, c, s) /\ Range(s) = {n \in Live(OpenRows(O, X)) : ColumnOf(n) = c}
  BY <1>1, <1>2 DEF Matrix, Lists, Column
<1>6. \A x : x \in Range(s) <=> x \in Live(O) /\ Meets(x[2]) \cap X = {} /\ ColumnOf(x) = c
  BY <1>5, OpenIs
<1>7. Ring(D.down, D.up, c, s)
  BY <1>3, <1>5 DEF CoversMatrix
<1>8. D.down[c] = At(c, s, 1) /\ 1 \in 1..(Len(s) + 1)
  <2>1. Len(s) \in Nat /\ At(c, s, 0) = c
    BY <1>7 DEF Ring, At
  <2>2. 0 \in 0..Len(s)
    BY <2>1
  <2>3. D.down[At(c, s, 0)] = At(c, s, 0 + 1)
    BY <1>7, <2>2 DEF Ring
  <2>. QED BY <2>1, <2>3
<1>. QED BY <1>2, <1>4, <1>5, <1>6, <1>8 DEF Call, C, O

\* The row that a call tries, and the lists while it is tried.
Tried(L, f) == coverAll(cover(L, f.col), Walk(cover(L, f.col).right, f.row))

\* A call that has a row left is at an open row of its column.
LEMMA CallRow ==
  ASSUME NEW b, NEW X, NEW L, NEW s, NEW p, NEW f, Call(L, s, p, f, X, b)
  PROVE  /\ p <= Len(s) => /\ f.row \in Live(OptionSet(b)) /\ Meets(f.row[2]) \cap X = {}
                           /\ ColumnOf(f.row) = f.col /\ f.row = s[p]
         /\ p <= Len(s) <=> f.row # f.col
         /\ Len(s) \in Nat /\ p \in Nat \ {0} /\ p <= Len(s) + 1
<1>1. Len(s) \in Nat /\ p \in Nat \ {0} /\ p <= Len(s) + 1
  BY DEF Call, Ring
<1>2. CASE p <= Len(s)
  <2>1. p \in 1..Len(s) /\ f.row = s[p]
    BY <1>1, <1>2 DEF Call, At
  <2>2. f.row \in Range(s) /\ s[p] # f.col
    BY <2>1 DEF Call, Range, Ring
  <2>. QED BY <1>1, <1>2, <2>1, <2>2 DEF Call
<1>3. CASE ~(p <= Len(s))
  BY <1>1, <1>3 DEF Call, At
<1>. QED BY <1>1, <1>2, <1>3

\* It takes the row's columns out, and when it is taken back the lists are again as they were
\* after the column of the call was covered; the next row follows.
TakesRow(L, s, p, f, X, b) ==
  LET D == cover(L, f.col)
      E == Tried(L, f)
  IN  /\ Rest(E, b, X \cup Meets(f.row[2]))
      /\ uncoverAll(E, Walk(E.left, f.row)) = D
      /\ D.down[f.row] = At(f.col, s, p + 1)

\* CoverMatrix and CoverRowMatrix, for the row of a call.
LEMMA CallTakesRow ==
  ASSUME NEW b, NEW X, NEW L, NEW s, NEW p, NEW f, Call(L, s, p, f, X, b), p <= Len(s)
  PROVE  TakesRow(L, s, p, f, X, b)
<1> DEFINE c == f.col
           i == f.row
           D == cover(L, c)
           E == Tried(L, f)
           N == AllNodes(b)
           C == ColumnSet(b)
           O == OptionSet(b)
           Y == X \cup {c}
<1>1. Shape(N, C, O) /\ Matrix(L, N, C, O, X) /\ c \in C \ X
  BY ShapeHolds DEF Rest, Call
<1>2. i \in Live(O) /\ Meets(i[2]) \cap X = {} /\ ColumnOf(i) = c /\ i = s[p] /\ p \in 1..Len(s) /\ Len(s) \in Nat
  BY CallRow
<1>3. CoversMatrix(N, C, O, X, L, c)
  BY <1>1, CoverMatrix
<1>4. c \in Meets(i[2])
  BY <1>2, LiveIs
<1>5. Meets(i[2]) \cap Y = {ColumnOf(i)} /\ Y \cup Meets(i[2]) = X \cup Meets(i[2])
  BY <1>2, <1>4
<1>6. CoversRow(N, C, O, Y, D, i)
  <2>1. Matrix(D, N, C, O, Y)
    BY <1>3 DEF CoversMatrix
  <2> HIDE DEF D, N, C, O, Y, i
  <2>. QED BY <1>1, <1>2, <1>5, <2>1, CoverRowMatrix
<1>7. E = coverAll(D, Walk(D.right, i))
  BY DEF Tried
<1>8. Rest(E, b, X \cup Meets(i[2])) /\ uncoverAll(E, Walk(E.left, i)) = D
  <2> HIDE DEF D, E, Y, i
  <2>. QED BY <1>5, <1>6, <1>7 DEF CoversRow, Rest
<1>9. D.down[i] = At(c, s, p + 1)
  <2>1. Ring(D.down, D.up, c, s)
    BY <1>3 DEF CoversMatrix, Call
  <2>2. i = At(c, s, p) /\ p \in 0..Len(s)
    BY <1>2 DEF At
  <2> HIDE DEF D, c, i
  <2>. QED BY <2>1, <2>2 DEF Ring
<1>. QED BY <1>8, <1>9 DEF TakesRow

\* Uncovering the column of a call that has no row left takes it back.
LEMMA CallEnds ==
  ASSUME NEW b, NEW X, NEW L, NEW s, NEW p, NEW f, Call(L, s, p, f, X, b)
  PROVE  uncover(cover(L, f.col), f.col) = L
<1> DEFINE N == AllNodes(b)
           C == ColumnSet(b)
           O == OptionSet(b)
<1>1. Shape(N, C, O) /\ Matrix(L, N, C, O, X) /\ f.col \in C \ X
  BY ShapeHolds DEF Rest, Call
<1>2. CoversMatrix(N, C, O, X, L, f.col)
  BY <1>1, CoverMatrix
<1>. QED BY <1>2 DEF CoversMatrix

-----------------------------------------------------------------------------
(* The calls of solve that have not returned *)

\* The columns that the rows of the first k calls meet.
MetBy(fs, k) == UNION {Meets(fs[j].row[2]) : j \in 1..k}

\* Call k began with the lists B[k] and tries the rows S[k] of its column, of which it is at the
\* one at P[k]; the first d calls have covered the columns of their rows.
Search(B, S, P, fs, d, b) ==
  /\ Rest(B[1], b, {})
  /\ \A k \in 1..Len(fs) : Call(B[k], S[k], P[k], fs[k], MetBy(fs, k - 1), b)
  /\ \A k \in 1..d : P[k] <= Len(S[k]) /\ B[k + 1] = Tried(B[k], fs[k])

\* The columns met by one call more.
LEMMA MetByIs ==
  ASSUME NEW fs, NEW k \in Nat
  PROVE  /\ MetBy(fs, 0) = {}
         /\ MetBy(fs, k + 1) = MetBy(fs, k) \cup Meets(fs[k + 1].row[2])
<1>1. MetBy(fs, 0) = {}
  BY DEF MetBy
<1>2. \A c : c \in MetBy(fs, k + 1) <=> c \in MetBy(fs, k) \/ c \in Meets(fs[k + 1].row[2])
  <2>1. 1..(k + 1) = (1..k) \cup {k + 1}
    OBVIOUS
  <2>. QED BY <2>1 DEF MetBy
<1>. QED BY <1>1, <1>2

\* They depend on the rows of those calls only.
LEMMA MetBySame ==
  ASSUME NEW fs, NEW gs, NEW k \in Nat, \A j \in 1..k : gs[j] = fs[j]
  PROVE  MetBy(gs, k) = MetBy(fs, k)
BY DEF MetBy

\* When every call has covered the columns of its row, the lists are the rest of the matrix.
LEMMA SearchRest ==
  ASSUME NEW B, NEW S, NEW P, NEW fs, NEW b, Len(fs) \in Nat, Search(B, S, P, fs, Len(fs), b)
  PROVE  Rest(B[Len(fs) + 1], b, MetBy(fs, Len(fs)))
<1> DEFINE n == Len(fs)
<1>1. CASE n = 0
  <2>1. MetBy(fs, 0) = {} /\ n + 1 = 1
    BY <1>1, MetByIs
  <2>2. Rest(B[1], b, {})
    BY DEF Search
  <2>. QED BY <1>1, <2>1, <2>2
<1>2. CASE n # 0
  <2>1. n \in 1..n /\ n - 1 \in Nat /\ n - 1 + 1 = n
    BY <1>2
  <2>2. Call(B[n], S[n], P[n], fs[n], MetBy(fs, n - 1), b) /\ P[n] <= Len(S[n]) /\ B[n + 1] = Tried(B[n], fs[n])
    BY <2>1 DEF Search
  <2>3. Rest(B[n + 1], b, MetBy(fs, n - 1) \cup Meets(fs[n].row[2]))
    <3>1. TakesRow(B[n], S[n], P[n], fs[n], MetBy(fs, n - 1), b)
      BY <2>2, CallTakesRow
    <3>. QED BY <2>2, <3>1 DEF TakesRow
  <2>4. MetBy(fs, n) = MetBy(fs, n - 1) \cup Meets(fs[n].row[2])
    BY <2>1, MetByIs
  <2>. QED BY <2>3, <2>4
<1>. QED BY <1>1, <1>2

\* What the first k calls have of one search they have of another.
Same(S2, P2, S, P, k) == \A j \in 1..k : S2[j] = S[j] /\ P2[j] = P[j]

\* A call more.
LEMMA SearchChooses ==
  ASSUME NEW Frame, NEW fs \in Seq(Frame), NEW B, NEW S, NEW P, NEW b, NEW n, n = Len(fs),
         Search(B, S, P, fs, n, b), B[n + 1].left[Root] # Root,
         NEW c, c = get_min_column(B[n + 1]),
         NEW f, f = [col |-> c, row |-> cover(B[n + 1], c).down[c]]
  PROVE  \E S2, P2 : /\ Search(B, S2, P2, Append(fs, f), n, b)
                     /\ Same(S2, P2, S, P, n) /\ P2[n + 1] = 1
<1> DEFINE gs == Append(fs, f)
<1>1. n \in Nat /\ Len(gs) = n + 1 /\ gs[n + 1] = f /\ \A k \in 1..n : gs[k] = fs[k]
  OBVIOUS
<1> HIDE DEF gs
<1>2. Rest(B[n + 1], b, MetBy(fs, n))
  BY <1>1, SearchRest
<1>3. PICK s : Call(B[n + 1], s, 1, f, MetBy(fs, n), b)
  BY <1>2, CallBegins
<1> DEFINE S2 == [k \in 1..(n + 1) |-> IF k = n + 1 THEN s ELSE S[k]]
           P2 == [k \in 1..(n + 1) |-> IF k = n + 1 THEN 1 ELSE P[k]]
<1>4. S2[n + 1] = s /\ P2[n + 1] = 1 /\ \A k \in 1..n : S2[k] = S[k] /\ P2[k] = P[k]
  BY <1>1
<1> HIDE DEF S2, P2
<1>5. ASSUME NEW k \in 1..(n + 1) PROVE Call(B[k], S2[k], P2[k], gs[k], MetBy(gs, k - 1), b)
  <2>1. MetBy(gs, k - 1) = MetBy(fs, k - 1)
    <3>1. k - 1 \in Nat /\ \A j \in 1..(k - 1) : gs[j] = fs[j]
      BY <1>1
    <3>. QED BY <3>1, MetBySame
  <2>2. CASE k = n + 1
    <3>1. k - 1 = n
      BY <1>1, <2>2
    <3>. QED BY <1>1, <1>3, <1>4, <2>1, <2>2, <3>1
  <2>3. CASE k # n + 1
    <3>1. k \in 1..n
      BY <1>1, <2>3
    <3>2. Call(B[k], S[k], P[k], fs[k], MetBy(fs, k - 1), b)
      BY <3>1 DEF Search
    <3>. QED BY <1>1, <1>4, <2>1, <3>1, <3>2
  <2>. QED BY <2>2, <2>3
<1>6. \A k \in 1..n : P2[k] <= Len(S2[k]) /\ B[k + 1] = Tried(B[k], gs[k])
  BY <1>1, <1>4 DEF Search
<1>7. Search(B, S2, P2, gs, n, b)
  BY <1>1, <1>5, <1>6 DEF Search
<1>. QED BY <1>4, <1>7 DEF Same, gs

\* The last call takes its row.
LEMMA SearchTries ==
  ASSUME NEW fs, NEW B, NEW S, NEW P, NEW b, NEW n \in Nat \ {0}, n = Len(fs),
         Search(B, S, P, fs, n - 1, b), fs[n].row # fs[n].col
  PROVE  \E B2 : /\ Search(B2, S, P, fs, n, b)
                 /\ B2[1] = B[1] /\ B2[n + 1] = Tried(B[n], fs[n])
<1> DEFINE B2 == [k \in 1..(n + 1) |-> IF k = n + 1 THEN Tried(B[n], fs[n]) ELSE B[k]]
<1>1. B2[n + 1] = Tried(B[n], fs[n]) /\ \A k \in 1..n : B2[k] = B[k]
  OBVIOUS
<1> HIDE DEF B2
<1>2. 1 \in 1..n /\ n \in 1..n
  OBVIOUS
<1>3. \A k \in 1..n : Call(B[k], S[k], P[k], fs[k], MetBy(fs, k - 1), b)
  BY DEF Search
<1>4. P[n] <= Len(S[n])
  BY <1>2, <1>3, CallRow
<1>5. ASSUME NEW k \in 1..n PROVE P[k] <= Len(S[k]) /\ B2[k + 1] = Tried(B2[k], fs[k])
  <2>1. CASE k = n
    BY <1>1, <1>4, <2>1
  <2>2. CASE k # n
    <3>1. k \in 1..(n - 1) /\ k + 1 \in 1..n
      BY <2>2
    <3>. QED BY <1>1, <3>1 DEF Search
  <2>. QED BY <2>1, <2>2
<1>6. Rest(B2[1], b, {})
  BY <1>1, <1>2 DEF Search
<1>7. Search(B2, S, P, fs, n, b)
  BY <1>1, <1>3, <1>5, <1>6 DEF Search
<1>. QED BY <1>1, <1>2, <1>7

\* The last call takes its row back and is at the next.
LEMMA SearchGoesOn ==
  ASSUME NEW fs, NEW B, NEW S, NEW P, NEW b, NEW n \in Nat \ {0}, n = Len(fs),
         Search(B, S, P, fs, n, b), NEW D, D = uncoverAll(B[n + 1], Walk(B[n + 1].left, fs[n].row)),
         NEW gs, Len(gs) = n, gs[n].col = fs[n].col, gs[n].row = D.down[fs[n].row],
         \A k \in 1..(n - 1) : gs[k] = fs[k]
  PROVE  /\ D = cover(B[n], fs[n].col)
         /\ \E P2 : Search(B, S, P2, gs, n - 1, b) /\ P2[n] = P[n] + 1 /\ Same(S, P2, S, P, n - 1)
<1> DEFINE f == fs[n]
           g == gs[n]
           X == MetBy(fs, n - 1)
<1>1. n \in 1..n
  OBVIOUS
<1>2. g.col = f.col /\ g.row = D.down[f.row]
  OBVIOUS
<1>3. Len(gs) = n /\ gs[n] = g /\ \A k \in 1..(n - 1) : gs[k] = fs[k]
  OBVIOUS
<1> HIDE DEF f, g
<1>4. Call(B[n], S[n], P[n], f, X, b) /\ P[n] <= Len(S[n]) /\ B[n + 1] = Tried(B[n], f)
  BY <1>1 DEF Search, f
<1>5. TakesRow(B[n], S[n], P[n], f, X, b)
  BY <1>4, CallTakesRow
<1>6. D = cover(B[n], f.col) /\ D.down[f.row] = At(f.col, S[n], P[n] + 1)
  BY <1>4, <1>5 DEF TakesRow, f
<1>7. Call(B[n], S[n], P[n] + 1, g, X, b)
  <2>1. P[n] + 1 \in 1..(Len(S[n]) + 1)
    BY <1>4, CallRow
  <2>. QED BY <1>2, <1>4, <1>6, <2>1 DEF Call
<1> DEFINE P2 == [k \in 1..n |-> IF k = n THEN P[n] + 1 ELSE P[k]]
<1>8. P2[n] = P[n] + 1 /\ \A k \in 1..(n - 1) : P2[k] = P[k]
  OBVIOUS
<1> HIDE DEF P2
<1>9. ASSUME NEW k \in 1..n PROVE Call(B[k], S[k], P2[k], gs[k], MetBy(gs, k - 1), b)
  <2>1. MetBy(gs, k - 1) = MetBy(fs, k - 1)
    <3>1. k - 1 \in Nat /\ \A j \in 1..(k - 1) : gs[j] = fs[j]
      BY <1>3
    <3>. QED BY <3>1, MetBySame
  <2>2. CASE k = n
    BY <1>3, <1>7, <1>8, <2>1, <2>2
  <2>3. CASE k # n
    <3>1. k \in 1..(n - 1)
      BY <2>3
    <3>2. Call(B[k], S[k], P[k], fs[k], MetBy(fs, k - 1), b)
      BY DEF Search
    <3>. QED BY <1>3, <1>8, <2>1, <3>1, <3>2
  <2>. QED BY <2>2, <2>3
<1>10. \A k \in 1..(n - 1) : P2[k] <= Len(S[k]) /\ B[k + 1] = Tried(B[k], gs[k])
  BY <1>3, <1>8 DEF Search
<1>11. Search(B, S, P2, gs, n - 1, b)
  BY <1>3, <1>9, <1>10 DEF Search
<1>. QED BY <1>6, <1>8, <1>11 DEF Same, f

\* The last call has no row left and returns.
LEMMA SearchReturns ==
  ASSUME NEW Frame, NEW fs \in Seq(Frame), NEW B, NEW S, NEW P, NEW b, NEW n \in Nat \ {0}, n = Len(fs),
         Search(B, S, P, fs, n - 1, b)
  PROVE  /\ uncover(cover(B[n], fs[n].col), fs[n].col) = B[n]
         /\ Search(B, S, P, Front(fs), n - 1, b)
<1> DEFINE gs == Front(fs)
<1>1. Len(gs) = n - 1 /\ \A k \in 1..(n - 1) : gs[k] = fs[k]
  BY DEF Front
<1> HIDE DEF gs
<1>2. \A k \in 1..n : Call(B[k], S[k], P[k], fs[k], MetBy(fs, k - 1), b)
  BY DEF Search
<1>3. uncover(cover(B[n], fs[n].col), fs[n].col) = B[n]
  BY <1>2, CallEnds
<1>4. ASSUME NEW k \in 1..(n - 1) PROVE Call(B[k], S[k], P[k], gs[k], MetBy(gs, k - 1), b)
  <2>1. k - 1 \in Nat /\ \A j \in 1..(k - 1) : gs[j] = fs[j]
    BY <1>1
  <2>2. MetBy(gs, k - 1) = MetBy(fs, k - 1)
    BY <2>1, MetBySame
  <2>. QED BY <1>1, <1>2, <2>2
<1>5. Search(B, S, P, gs, n - 1, b)
  BY <1>1, <1>4 DEF Search
<1>. QED BY <1>3, <1>5 DEF gs

-----------------------------------------------------------------------------
(* Solutions and the rows of the matrix *)

Answers(b) == {g \in [Cells -> Vals] : Solution(g) /\ \A i \in Cells : b[i] \in {0, g[i]}}
Hit(g, x) == g[x[2][1]] = x[2][2]

\* In a solution no value is twice in a line.
LEMMA OncePerLine ==
  ASSUME NEW g \in [Cells -> Vals], Solution(g), NEW kind \in Kinds, NEW i \in Cells, NEW j \in Cells,
         UnitOf(kind, i) = UnitOf(kind, j), g[i] = g[j]
  PROVE  i = j
<1> DEFINE l == {x \in Cells : UnitOf(kind, x) = UnitOf(kind, i)}
           f == [x \in l |-> Place(kind, x)]
           h == [x \in l |-> g[x]]
<1>1. IsFiniteSet(Units) /\ Cardinality(Units) = Side /\ IsFiniteSet(Vals) /\ Cardinality(Vals) = Side
  <2>1. 0 \in Int /\ 1 \in Int /\ Side \in Int /\ Side - 1 \in Int /\ ~(0 > Side - 1) /\ ~(1 > Side)
    BY SideIs
  <2>2. IsFiniteSet(0..(Side - 1)) /\ Cardinality(0..(Side - 1)) = Side - 1 - 0 + 1
    BY <2>1, FS_Interval
  <2>3. IsFiniteSet(1..Side) /\ Cardinality(1..Side) = Side - 1 + 1
    BY <2>1, FS_Interval
  <2>. QED BY <2>1, <2>2, <2>3 DEF Units, Vals
<1>2. f \in Injection(l, Units)
  <2>1. f \in [l -> Units]
    BY UnitFacts
  <2>2. \A x, y \in l : f[x] = f[y] => x = y
    BY UnitFacts
  <2> HIDE DEF f, l
  <2>. QED BY <2>1, <2>2 DEF Injection, IsInjective
<1>3. IsFiniteSet(l) /\ Cardinality(l) <= Side
  <2> HIDE DEF f, l
  <2>. QED BY <1>1, <1>2, FS_Injection
<1>4. {g[x] : x \in l} = Vals
  <2>1. l \in Lines
    <3>1. UnitOf(kind, i) \in Units
      BY UnitFacts
    <3>. QED BY <3>1 DEF Lines
  <2>. QED BY <2>1 DEF Solution
<1>5. h \in Surjection(l, Vals)
  <2>1. h \in [l -> Vals]
    OBVIOUS
  <2>2. \A v \in Vals : \E x \in l : h[x] = v
    BY <1>4
  <2> HIDE DEF h, l
  <2>. QED BY <2>1, <2>2 DEF Surjection
<1>6. h \in Injection(l, Vals)
  <2> HIDE DEF h, l
  <2>1. Cardinality(Vals) <= Cardinality(l)
    BY <1>3, <1>5, FS_Surjection
  <2>2. Cardinality(Vals) = Cardinality(l)
    BY <1>1, <1>3, <2>1, SideIs, FS_CardinalityType
  <2>. QED BY <1>3, <1>5, <2>2, FS_Surjection
<1>7. i \in l /\ j \in l /\ h[i] = g[i] /\ h[j] = g[j]
  OBVIOUS
<1> HIDE DEF h, l
<1>8. \A x, y \in l : h[x] = h[y] => x = y
  BY <1>6 DEF Injection, IsInjective
<1>. QED BY <1>7, <1>8

\* Each column has a row that a solution of the puzzle uses.
LEMMA AnswerRow ==
  ASSUME NEW b, NEW g \in Answers(b), NEW c \in ColumnSet(b)
  PROVE  \E x \in Live(OptionSet(b)) : ColumnOf(x) = c /\ Hit(g, x)
<1>1. g \in [Cells -> Vals] /\ Solution(g) /\ \A i \in Cells : b[i] \in {0, g[i]}
  BY DEF Answers
<1>2. 0 \notin Vals
  BY SideIs DEF Vals
<1>3. ASSUME NEW i \in Cells, b[i] = 0
      PROVE  <<i, g[i]>> \in OptionSet(b)
  <2>1. g[i] \in Vals
    BY <1>1
  <2>2. ASSUME NEW kind \in Kinds, Given(b, kind, UnitOf(kind, i), g[i]) PROVE FALSE
    <3>1. PICK j \in Cells : b[j] = g[i] /\ UnitOf(kind, j) = UnitOf(kind, i)
      BY <2>2 DEF Given
    <3>2. g[j] = g[i]
      BY <1>1, <1>2, <2>1, <3>1
    <3>3. j = i
      BY <1>1, <3>1, <3>2, OncePerLine
    <3>. QED BY <1>2, <1>3, <2>1, <3>1, <3>3
  <2>. QED BY <1>3, <2>1, <2>2, OptionSetIs
<1>4. ASSUME NEW i \in Cells, b[i] = 0, c = <<"cell", i, 0>>
      PROVE  \E x \in Live(OptionSet(b)) : ColumnOf(x) = c /\ Hit(g, x)
  <2> DEFINE o == <<i, g[i]>>
             x == <<"cell", o>>
  <2>1. x \in Live(OptionSet(b))
    BY <1>3, <1>4 DEF Live, Sorts
  <2>2. ColumnOf(x) = c
    BY <1>4 DEF ColumnOf
  <2>3. Hit(g, x)
    BY DEF Hit
  <2>. QED BY <2>1, <2>2, <2>3
<1>5. ASSUME NEW kind \in Kinds, NEW k \in Units, NEW v \in Vals, ~Given(b, kind, k, v), c = <<kind, k, v>>
      PROVE  \E x \in Live(OptionSet(b)) : ColumnOf(x) = c /\ Hit(g, x)
  <2>1. PICK i \in Cells : UnitOf(kind, i) = k /\ g[i] = v
    <3> DEFINE l == {i \in Cells : UnitOf(kind, i) = k}
    <3>1. l \in Lines
      BY DEF Lines
    <3>2. v \in {g[i] : i \in l}
      BY <1>1, <3>1 DEF Solution
    <3>. QED BY <3>2
  <2>2. b[i] = 0
    BY <1>1, <1>5, <2>1 DEF Given
  <2> DEFINE o == <<i, g[i]>>
             x == <<kind, o>>
  <2>3. x \in Live(OptionSet(b))
    BY <1>3, <2>2 DEF Live, Sorts, Kinds
  <2>4. ColumnOf(x) = c
    <3>1. ColumnOf(x) = <<kind, UnitOf(kind, o[1]), o[2]>>
      BY ColumnOfIs
    <3>. QED BY <1>5, <2>1, <3>1
  <2>5. Hit(g, x)
    BY DEF Hit
  <2>. QED BY <2>3, <2>4, <2>5
<1>. QED BY <1>4, <1>5, ColumnSetIs

\* Two rows that a solution uses meet no column both.
LEMMA HitsApart ==
  ASSUME NEW b, NEW g \in Answers(b), NEW x \in Live(OptionSet(b)), NEW y \in Live(OptionSet(b)),
         Hit(g, x), Hit(g, y), NEW d \in Meets(x[2]) \cap Meets(y[2])
  PROVE  x[2] = y[2]
<1>1. x[2] \in OptionSet(b) /\ y[2] \in OptionSet(b)
  BY LiveIs
<1>2. PICK i \in Cells, v \in Vals : x[2] = <<i, v>>
  BY <1>1, OptionSetIs
<1>3. PICK j \in Cells, w \in Vals : y[2] = <<j, w>>
  BY <1>1, OptionSetIs
<1>4. g[i] = v /\ g[j] = w
  BY <1>2, <1>3 DEF Hit
<1>5. PICK m \in Live({<<i, v>>}) : ColumnOf(m) = d
  BY <1>2, MeetsIs
<1>6. PICK n \in Live({<<j, w>>}) : ColumnOf(n) = d
  BY <1>3, MeetsIs
<1>7. m[1] = n[1] /\ m[1] \in Sorts /\ m = <<m[1], <<i, v>>>> /\ n = <<m[1], <<j, w>>>>
  <2>1. m[1] = d[1]
    BY <1>5, ColumnOfIs
  <2>2. n[1] = d[1]
    BY <1>6, ColumnOfIs
  <2>3. m[1] \in Sorts /\ m = <<m[1], <<i, v>>>> /\ n = <<n[1], <<j, w>>>>
    BY DEF Live
  <2>. QED BY <2>1, <2>2, <2>3
<1>8. CASE m[1] = "cell"
  <2>1. <<"cell", i, 0>> = <<"cell", j, 0>>
    BY <1>5, <1>6, <1>7, <1>8 DEF ColumnOf
  <2>2. i = j
    BY <2>1
  <2>. QED BY <1>2, <1>3, <1>4, <2>2
<1>9. CASE m[1] # "cell"
  <2> DEFINE kind == m[1]
  <2>1. kind \in Kinds
    BY <1>7, <1>9 DEF Sorts, Kinds
  <2> HIDE DEF kind
  <2>2. ColumnOf(<<kind, <<i, v>>>>) = <<kind, UnitOf(kind, i), v>>
    <3>1. \A o : ColumnOf(<<kind, o>>) = <<kind, UnitOf(kind, o[1]), o[2]>>
      BY <2>1, ColumnOfIs
    <3>2. ColumnOf(<<kind, <<i, v>>>>) = <<kind, UnitOf(kind, <<i, v>>[1]), <<i, v>>[2]>>
      BY <3>1
    <3>. QED BY <3>2
  <2>3. ColumnOf(<<kind, <<j, w>>>>) = <<kind, UnitOf(kind, j), w>>
    <3>1. \A o : ColumnOf(<<kind, o>>) = <<kind, UnitOf(kind, o[1]), o[2]>>
      BY <2>1, ColumnOfIs
    <3>2. ColumnOf(<<kind, <<j, w>>>>) = <<kind, UnitOf(kind, <<j, w>>[1]), <<j, w>>[2]>>
      BY <3>1
    <3>. QED BY <3>2
  <2>4. m = <<kind, <<i, v>>>> /\ n = <<kind, <<j, w>>>>
    BY <1>7 DEF kind
  <2>5. <<kind, UnitOf(kind, i), v>> = <<kind, UnitOf(kind, j), w>>
    BY <1>5, <1>6, <2>2, <2>3, <2>4
  <2>6. UnitOf(kind, i) = UnitOf(kind, j) /\ v = w
    BY <2>5
  <2>7. i = j
    BY <1>4, <2>1, <2>6, OncePerLine DEF Answers
  <2>. QED BY <1>2, <1>3, <2>6, <2>7
<1>. QED BY <1>8, <1>9

-----------------------------------------------------------------------------
(* A solution is among the rows that are tried or still to be tried *)

AllHit(fs, k, g) == \A j \in 1..k : Hit(g, fs[j].row)

\* One of the first k calls has the solution's row still before it, and those above it are at theirs.
Later(S, P, fs, k, g) ==
  \E i \in 1..k : AllHit(fs, i - 1, g) /\ \E p \in (P[i] + 1)..Len(S[i]) : Hit(g, S[i][p])

\* The last call is about to try a row.
Trying(S, P, fs, n, g) ==
  \/ Later(S, P, fs, n - 1, g)
  \/ AllHit(fs, n - 1, g) /\ \E p \in P[n]..Len(S[n]) : Hit(g, S[n][p])

\* AllHit depends on the rows of the first k calls only.
LEMMA SameHits ==
  ASSUME NEW fs, NEW gs, NEW k \in Nat, \A j \in 1..k : gs[j] = fs[j], NEW g, AllHit(fs, k, g)
  PROVE  AllHit(gs, k, g)
BY DEF AllHit

\* So does Later, and on what these calls have still to try.
LEMMA SameLater ==
  ASSUME NEW fs, NEW gs, NEW k \in Nat, \A j \in 1..k : gs[j] = fs[j], NEW g,
         NEW S, NEW P, NEW S2, NEW P2, Same(S2, P2, S, P, k), Later(S, P, fs, k, g)
  PROVE  Later(S2, P2, gs, k, g)
<1>1. PICK i \in 1..k : AllHit(fs, i - 1, g) /\ \E p \in (P[i] + 1)..Len(S[i]) : Hit(g, S[i][p])
  BY DEF Later
<1>2. AllHit(gs, i - 1, g)
  BY <1>1 DEF AllHit
<1>3. S2[i] = S[i] /\ P2[i] = P[i]
  BY DEF Same
<1>. QED BY <1>1, <1>2, <1>3 DEF Later

\* The column of a new call has a row of the solution, and none of its columns is covered.
LEMMA AheadChooses ==
  ASSUME NEW b, NEW g \in Answers(b), NEW n \in Nat, NEW fs, NEW gs, Len(gs) = n + 1,
         \A j \in 1..n : gs[j] = fs[j],
         NEW B, NEW S, NEW P, NEW S2, NEW P2, Search(B, S2, P2, gs, n, b),
         Same(S2, P2, S, P, n), P2[n + 1] = 1,
         AllHit(fs, n, g) \/ Later(S, P, fs, n, g)
  PROVE  Trying(S2, P2, gs, n + 1, g)
<1>1. CASE Later(S, P, fs, n, g)
  <2>1. Later(S2, P2, gs, n, g) /\ n + 1 - 1 = n
    BY <1>1, SameLater
  <2>. QED BY <2>1 DEF Trying
<1>2. CASE AllHit(fs, n, g)
  <2> DEFINE c == gs[n + 1].col
             s == S2[n + 1]
             X == MetBy(gs, n)
  <2>1. AllHit(gs, n, g)
    BY <1>2, SameHits
  <2>2. n + 1 \in 1..Len(gs) /\ n + 1 - 1 = n
    OBVIOUS
  <2>3. Call(B[n + 1], s, 1, gs[n + 1], X, b)
    BY <2>2 DEF Search
  <2> HIDE DEF c, s, X
  <2>4. c \in ColumnSet(b) /\ c \notin X /\ Len(s) \in Nat /\ DOMAIN s = 1..Len(s)
    BY <2>3 DEF Call, Ring, c
  <2>5. PICK x \in Live(OptionSet(b)) : ColumnOf(x) = c /\ Hit(g, x)
    BY <2>4, AnswerRow
  <2>6. ASSUME NEW d \in Meets(x[2]), d \in X PROVE FALSE
    <3>1. PICK j \in 1..n : d \in Meets(gs[j].row[2])
      BY <2>6 DEF X, MetBy
    <3>2. gs[j].row \in Live(OptionSet(b))
      <4>1. j \in 1..Len(gs)
        OBVIOUS
      <4>2. Call(B[j], S2[j], P2[j], gs[j], MetBy(gs, j - 1), b) /\ P2[j] <= Len(S2[j])
        BY <4>1 DEF Search
      <4>. QED BY <4>2, CallRow
    <3>3. Hit(g, gs[j].row)
      BY <2>1 DEF AllHit
    <3>4. x[2] = gs[j].row[2]
      BY <2>5, <2>6, <3>1, <3>2, <3>3, HitsApart
    <3>5. c \in Meets(x[2])
      BY <2>5, LiveIs
    <3>6. c \in X
      BY <3>4, <3>5 DEF X, MetBy
    <3>. QED BY <2>4, <3>6
  <2>7. x \in Range(s)
    BY <2>3, <2>5, <2>6 DEF Call, c
  <2>8. PICK p \in 1..Len(s) : s[p] = x
    BY <2>4, <2>7 DEF Range
  <2>. QED BY <2>1, <2>2, <2>5, <2>8 DEF Trying, s
<1>. QED BY <1>1, <1>2

\* The row that is tried is the solution's, or that comes later.
LEMMA AheadTries ==
  ASSUME NEW n \in Nat \ {0}, NEW S, NEW P, NEW fs, NEW g, Trying(S, P, fs, n, g),
         P[n] \in Nat, Len(S[n]) \in Nat, fs[n].row = S[n][P[n]]
  PROVE  AllHit(fs, n, g) \/ Later(S, P, fs, n, g)
<1>1. CASE Later(S, P, fs, n - 1, g)
  BY <1>1 DEF Later
<1>2. ASSUME AllHit(fs, n - 1, g), NEW p \in P[n]..Len(S[n]), Hit(g, S[n][p])
      PROVE  AllHit(fs, n, g) \/ Later(S, P, fs, n, g)
  <2>1. CASE p = P[n]
    <3>1. ASSUME NEW j \in 1..n PROVE Hit(g, fs[j].row)
      <4>1. CASE j = n
        BY <1>2, <2>1, <4>1
      <4>2. CASE j # n
        BY <1>2, <4>2 DEF AllHit
      <4>. QED BY <4>1, <4>2
    <3>. QED BY <3>1 DEF AllHit
  <2>2. CASE p # P[n]
    <3>1. p \in (P[n] + 1)..Len(S[n]) /\ n \in 1..n
      BY <2>2
    <3>. QED BY <1>2, <3>1 DEF Later
  <2>. QED BY <2>1, <2>2
<1>. QED BY <1>1, <1>2 DEF Trying

\* If it comes later in the last call, the next row may be it.
LEMMA AheadGoesOn ==
  ASSUME NEW n \in Nat \ {0}, NEW S, NEW P, NEW P2, NEW fs, NEW gs, NEW g, Later(S, P, fs, n, g),
         Same(S, P2, S, P, n - 1), P2[n] = P[n] + 1, \A j \in 1..(n - 1) : gs[j] = fs[j]
  PROVE  Trying(S, P2, gs, n, g)
<1>1. PICK i \in 1..n : AllHit(fs, i - 1, g) /\ \E p \in (P[i] + 1)..Len(S[i]) : Hit(g, S[i][p])
  BY DEF Later
<1>2. CASE i = n
  <2>1. AllHit(gs, n - 1, g)
    BY <1>1, <1>2 DEF AllHit
  <2>. QED BY <1>1, <1>2, <2>1 DEF Trying
<1>3. CASE i # n
  <2>1. i \in 1..(n - 1)
    BY <1>3
  <2>2. Later(S, P, fs, n - 1, g)
    BY <1>1, <2>1 DEF Later
  <2>3. Later(S, P2, gs, n - 1, g)
    <3>1. n - 1 \in Nat
      OBVIOUS
    <3>. QED BY <2>2, <3>1, SameLater
  <2>. QED BY <2>3 DEF Trying
<1>. QED BY <1>2, <1>3

\* If the last call has no row left, it comes later in one before.
LEMMA AheadReturns ==
  ASSUME NEW n \in Nat \ {0}, NEW S, NEW P, NEW fs, NEW gs, NEW g, Trying(S, P, fs, n, g),
         P[n] \in Nat, Len(S[n]) \in Nat, ~(P[n] <= Len(S[n])), \A j \in 1..(n - 1) : gs[j] = fs[j]
  PROVE  Later(S, P, gs, n - 1, g)
<1>1. Later(S, P, fs, n - 1, g)
  BY DEF Trying
<1>2. Same(S, P, S, P, n - 1) /\ n - 1 \in Nat
  BY DEF Same
<1>. QED BY <1>1, <1>2, SameLater

-----------------------------------------------------------------------------
(* When every column is covered the rows of the calls are a solution *)

\* The rows of the stack.
RowsOf(fs, d) == [k \in 1..d |-> fs[k].row]

Filled(b, rows) ==
  [i \in Cells |-> IF \E k \in DOMAIN rows : rows[k][2][1] = i
                   THEN rows[CHOOSE k \in DOMAIN rows : rows[k][2][1] = i][2][2] ELSE b[i]]

\* Every column is met by exactly one row, so every line has every value.
LEMMA FilledAnswers ==
  ASSUME NEW b \in [Cells -> 0..Side], NEW n \in Nat, NEW fs, Len(fs) = n,
         NEW B, NEW S, NEW P, Search(B, S, P, fs, n, b), B[n + 1].left[Root] = Root
  PROVE  Filled(b, RowsOf(fs, n)) \in Answers(b)
<1> DEFINE rows == RowsOf(fs, n)
           O == OptionSet(b)
           C == ColumnSet(b)
           g == Filled(b, rows)
<1>1. DOMAIN rows = 1..n /\ \A k \in 1..n : rows[k] = fs[k].row
  BY DEF RowsOf
<1>2. ASSUME NEW k \in 1..n
      PROVE  rows[k] \in Live(O) /\ rows[k][2] \in O /\ Meets(rows[k][2]) \cap MetBy(fs, k - 1) = {}
  <2>1. Call(B[k], S[k], P[k], fs[k], MetBy(fs, k - 1), b) /\ P[k] <= Len(S[k])
    BY DEF Search
  <2>2. fs[k].row \in Live(O) /\ Meets(fs[k].row[2]) \cap MetBy(fs, k - 1) = {}
    BY <2>1, CallRow
  <2>. QED BY <1>1, <2>2, LiveIs
<1>3. \A c \in C : \E k \in 1..n : c \in Meets(rows[k][2])
  <2>1. Rest(B[n + 1], b, MetBy(fs, n))
    BY SearchRest
  <2>2. PICK s : Ring(B[n + 1].right, B[n + 1].left, Root, s) /\ Range(s) = C \ MetBy(fs, n)
    BY <2>1 DEF Rest, Matrix, Lists, Heads
  <2>3. Len(s) = 0
    <3>1. Len(s) \in Nat /\ Len(s) \in 0..Len(s)
      BY <2>2 DEF Ring
    <3>2. B[n + 1].left[At(Root, s, Len(s) + 1)] = At(Root, s, Len(s))
      BY <2>2, <3>1 DEF Ring
    <3>3. At(Root, s, Len(s) + 1) = Root
      BY <3>1 DEF At
    <3>. QED BY <2>2, <3>1, <3>2, <3>3 DEF At, Ring
  <2>4. Range(s) = {}
    BY <2>2, <2>3 DEF Range, Ring
  <2>. QED BY <1>1, <2>2, <2>4 DEF MetBy
<1> HIDE DEF rows, g
<1>4. ASSUME NEW j \in 1..n, NEW k \in 1..n, NEW d, d \in Meets(rows[j][2]), d \in Meets(rows[k][2]) PROVE j = k
  <2>1. ASSUME NEW x \in 1..n, NEW y \in 1..n, x < y, d \in Meets(rows[x][2]), d \in Meets(rows[y][2]) PROVE FALSE
    <3>1. x \in 1..(y - 1) /\ rows[x] = fs[x].row
      BY <1>1, <2>1
    <3>2. d \in MetBy(fs, y - 1)
      BY <2>1, <3>1 DEF MetBy
    <3>. QED BY <1>2, <2>1, <3>2
  <2>. QED BY <1>4, <2>1
<1>5. ASSUME NEW o PROVE <<"cell", o[1], 0>> \in Meets(o)
  <2>1. <<"cell", o>> \in Live({o})
    BY DEF Live, Sorts
  <2>. QED BY <2>1, MeetsIs, ColumnOfIs
<1>6. ASSUME NEW k \in 1..n
      PROVE  /\ rows[k][2][1] \in Cells /\ rows[k][2][2] \in Vals /\ b[rows[k][2][1]] = 0
             /\ g[rows[k][2][1]] = rows[k][2][2]
  <2>1. rows[k][2][1] \in Cells /\ rows[k][2][2] \in Vals /\ b[rows[k][2][1]] = 0
    <3>1. PICK i \in Cells, v \in Vals : rows[k][2] = <<i, v>> /\ b[i] = 0
      BY <1>2, OptionSetIs
    <3>. QED BY <3>1
  <2> DEFINE i == rows[k][2][1]
             Is(j) == j \in DOMAIN rows /\ rows[j][2][1] = i
             m == CHOOSE j \in DOMAIN rows : rows[j][2][1] = i
  <2>2. m \in 1..n /\ rows[m][2][1] = i
    BY <1>1
  <2>3. m = k
    <3>1. <<"cell", i, 0>> \in Meets(rows[m][2]) /\ <<"cell", i, 0>> \in Meets(rows[k][2])
      BY <1>5, <2>2
    <3> HIDE DEF m
    <3>. QED BY <1>4, <2>2, <3>1
  <2>4. g[i] = rows[m][2][2]
    BY <1>1, <2>1 DEF g, Filled
  <2> HIDE DEF m
  <2>. QED BY <2>1, <2>3, <2>4
<1>7. ASSUME NEW i \in Cells PROVE (b[i] # 0 => g[i] = b[i]) /\ (b[i] = 0 => \E k \in 1..n : rows[k][2][1] = i)
  <2>1. CASE b[i] # 0
    <3>1. \A k \in DOMAIN rows : rows[k][2][1] # i
      BY <1>1, <1>6, <2>1
    <3>. QED BY <2>1, <3>1 DEF g, Filled
  <2>2. CASE b[i] = 0
    <3>1. <<"cell", i, 0>> \in C
      BY <2>2, ColumnSetIs
    <3>2. PICK k \in 1..n : <<"cell", i, 0>> \in Meets(rows[k][2])
      BY <1>3, <3>1
    <3>3. PICK x \in Live({rows[k][2]}) : ColumnOf(x) = <<"cell", i, 0>>
      BY <3>2, MeetsIs
    <3>4. x[1] = "cell" /\ x[2] = rows[k][2]
      <4>1. ColumnOf(x)[1] = x[1]
        BY ColumnOfIs
      <4>. QED BY <3>3, <4>1 DEF Live
    <3>5. <<"cell", rows[k][2][1], 0>> = <<"cell", i, 0>>
      BY <3>3, <3>4 DEF ColumnOf
    <3>6. rows[k][2][1] = i
      BY <3>5
    <3>. QED BY <2>2, <3>6
  <2>. QED BY <2>1, <2>2
<1>8. g \in [Cells -> Vals]
  <2>1. g = [i \in Cells |-> g[i]]
    BY DEF g, Filled
  <2>2. ASSUME NEW i \in Cells PROVE g[i] \in Vals
    <3>1. CASE b[i] # 0
      <4>1. b[i] \in 0..Side /\ Side \in Nat
        BY SideIs
      <4>. QED BY <1>7, <3>1, <4>1 DEF Vals
    <3>2. CASE b[i] = 0
      <4>1. PICK k \in 1..n : rows[k][2][1] = i
        BY <1>7, <3>2
      <4>. QED BY <1>6, <4>1
    <3>. QED BY <3>1, <3>2
  <2>. QED BY <2>1, <2>2
<1>9. Solution(g)
  <2> SUFFICES ASSUME NEW kind \in Kinds, NEW u \in Units
               PROVE  {g[i] : i \in {i \in Cells : UnitOf(kind, i) = u}} = Vals
    BY DEF Solution, Lines
  <2>1. ASSUME NEW v \in Vals PROVE \E i \in Cells : UnitOf(kind, i) = u /\ g[i] = v
    <3>1. CASE Given(b, kind, u, v)
      <4>1. PICK i \in Cells : b[i] = v /\ UnitOf(kind, i) = u
        BY <3>1 DEF Given
      <4>2. b[i] # 0
        BY <4>1, SideIs DEF Vals
      <4>. QED BY <1>7, <4>1, <4>2
    <3>2. CASE ~Given(b, kind, u, v)
      <4>1. <<kind, u, v>> \in C
        BY <3>2, ColumnSetIs
      <4>2. PICK k \in 1..n : <<kind, u, v>> \in Meets(rows[k][2])
        BY <1>3, <4>1
      <4>3. PICK x \in Live({rows[k][2]}) : ColumnOf(x) = <<kind, u, v>>
        BY <4>2, MeetsIs
      <4>4. x[1] = kind /\ x = <<kind, rows[k][2]>>
        <5>1. ColumnOf(x)[1] = x[1]
          BY ColumnOfIs
        <5>. QED BY <4>3, <5>1 DEF Live
      <4>5. <<kind, UnitOf(kind, rows[k][2][1]), rows[k][2][2]>> = <<kind, u, v>>
        BY <4>3, <4>4, ColumnOfIs
      <4>6. UnitOf(kind, rows[k][2][1]) = u /\ rows[k][2][2] = v
        BY <4>5
      <4>. QED BY <1>6, <4>6
    <3>. QED BY <3>1, <3>2
  <2>. QED BY <1>8, <2>1
<1>10. \A i \in Cells : b[i] \in {0, g[i]}
  BY <1>7
<1>. QED BY <1>8, <1>9, <1>10 DEF Answers, g, rows

-----------------------------------------------------------------------------
(* The invariant of the solver.  While it searches there are B, the lists each call began with; *)
(* S, the rows of each call's column; and P, how far it is with them.                           *)

FrameSet(b) == [col : AllNodes(b), row : AllNodes(b)]
Depth == IF dpc = "try" THEN Len(frames) - 1 ELSE Len(frames)

Ahead(S, P, g) ==
  /\ dpc = "solve" => AllHit(frames, Len(frames), g) \/ Later(S, P, frames, Len(frames), g)
  /\ dpc = "try"   => Trying(S, P, frames, Len(frames), g)
  /\ dpc = "back"  => Later(S, P, frames, Len(frames), g)

Levels(B, S, P) ==
  /\ B[1] = built /\ Search(B, S, P, frames, Depth, board)
  /\ links = IF dpc = "try" THEN cover(B[Len(frames)], frames[Len(frames)].col) ELSE B[Len(frames) + 1]
  /\ \A g \in Answers(board) : Ahead(S, P, g)

Calls ==
  /\ frames \in Seq(FrameSet(board)) /\ (dpc = "solve" \/ Len(frames) # 0)
  /\ stack_ = RowsOf(frames, Depth)
  /\ \E B, S, P : Levels(B, S, P)

SolveInv ==
  /\ dpc \in {"cells", "units", "rows", "solve", "try", "back", "done"} /\ found \in BOOLEAN
  /\ board \in [Cells -> 0..Side] /\ (~found => inout_ = board)
  /\ found => dpc = "done"
  /\ dpc \in {"cells", "units", "rows"} => frames = <<>> /\ stack_ = <<>>
  /\ dpc \in {"solve", "try", "back"} => Calls
  /\ dpc = "done" => IF found THEN inout_ \in Answers(board)
                     ELSE links = built /\ stack_ = <<>> /\ Answers(board) = {}

\* The column and the row of a call are nodes.
LEMMA CallNodes ==
  ASSUME NEW b, NEW X, NEW L, NEW s, NEW p, NEW f, Call(L, s, p, f, X, b)
  PROVE  f.col \in AllNodes(b) /\ f.row \in AllNodes(b)
<1>1. f.col \in ColumnSet(b) /\ p \in 1..(Len(s) + 1) /\ f.row = At(f.col, s, p)
  BY DEF Call
<1>2. CASE p <= Len(s)
  BY <1>1, <1>2, CallRow DEF AllNodes
<1>3. CASE ~(p <= Len(s))
  BY <1>1, <1>3, CallRow DEF AllNodes
<1>. QED BY <1>2, <1>3

\* The stack grows and shrinks with the calls.
LEMMA RowsOfIs ==
  ASSUME NEW fs, NEW n \in Nat
  PROVE  /\ RowsOf(fs, 0) = <<>> /\ Len(RowsOf(fs, n)) = n
         /\ \A gs : (\A k \in 1..n : gs[k].row = fs[k].row) => RowsOf(gs, n) = RowsOf(fs, n)
         /\ n # 0 => /\ RowsOf(fs, n) = Append(RowsOf(fs, n - 1), fs[n].row)
                     /\ RowsOf(fs, n - 1) = Front(RowsOf(fs, n))
<1>1. RowsOf(fs, 0) = <<>>
  BY DEF RowsOf
<1>2. \A k \in Nat : Len(RowsOf(fs, k)) = k /\ DOMAIN RowsOf(fs, k) = 1..k /\ \A j \in 1..k : RowsOf(fs, k)[j] = fs[j].row
  BY DEF RowsOf
<1>3. \A gs : (\A k \in 1..n : gs[k].row = fs[k].row) => RowsOf(gs, n) = RowsOf(fs, n)
  BY DEF RowsOf
<1>4. ASSUME n # 0
      PROVE  /\ RowsOf(fs, n) = Append(RowsOf(fs, n - 1), fs[n].row)
             /\ RowsOf(fs, n - 1) = Front(RowsOf(fs, n))
  BY <1>4 DEF RowsOf, Front
<1>. QED BY <1>1, <1>2, <1>3, <1>4

\* Initially nothing is searched.
LEMMA InitSolves == DlInit => SolveInv
<1> SUFFICES ASSUME DlInit PROVE SolveInv
  OBVIOUS
<1>1. board \in [Cells -> 0..Side]
  BY DancingLinksAssumption DEF DlInit
<1>. QED BY <1>1 DEF DlInit, SolveInv

\* The first call is about to begin.
LEMMA RowsDoneSolves ==
  ASSUME BuildInv, SolveInv, RowsDone
  PROVE  SolveInv'
<1>1. /\ dpc = "rows" /\ dpc' = "solve" /\ built' = links /\ links' = links
      /\ board' = board /\ inout_' = inout_ /\ stack_' = stack_ /\ frames' = frames /\ found' = found
      /\ frames = <<>> /\ stack_ = <<>> /\ found = FALSE
  BY DEF RowsDone, SolveInv
<1>2. Whole(links, board)
  BY RowsDoneBuilds
<1>3. PICK B : B[1] = links
  <2>1. [k \in {1} |-> links][1] = links
    OBVIOUS
  <2>. QED BY <2>1
<1>4. Len(frames') = 0 /\ frames' \in Seq(FrameSet(board'))
  BY <1>1
<1>5. Depth' = 0
  BY <1>1, <1>4 DEF Depth
<1>6. ASSUME NEW S, NEW P PROVE Levels(B, S, P)'
  <2>1. Search(B, S, P, frames', 0, board')
    BY <1>1, <1>2, <1>3, <1>4 DEF Search, Whole, Rest
  <2>2. \A g : Ahead(S, P, g)'
    BY <1>1, <1>4 DEF Ahead, AllHit
  <2>3. links' = B[Len(frames') + 1] /\ B[1] = built'
    BY <1>1, <1>3, <1>4
  <2>. QED BY <1>1, <1>5, <2>1, <2>2, <2>3 DEF Levels
<1>7. stack_' = RowsOf(frames', Depth')
  BY <1>1, <1>5, RowsOfIs
<1>8. Calls'
  BY <1>1, <1>4, <1>6, <1>7 DEF Calls
<1>. QED BY <1>1, <1>8 DEF SolveInv

\* No column is left: the answer is written.
LEMMA SolveSolves ==
  ASSUME SolveInv, Solve
  PROVE  SolveInv'
<1>1. /\ dpc = "solve" /\ dpc' = "done" /\ links.left[Root] = Root /\ found = FALSE /\ found' = TRUE
      /\ inout_ = board /\ inout_' = Fill(stack_) /\ board' = board /\ Calls
      /\ board \in [Cells -> 0..Side]
  BY DEF Solve, SolveInv
<1>2. Depth = Len(frames) /\ Len(frames) \in Nat
  BY <1>1 DEF Depth, Calls
<1>3. PICK B, S, P : Levels(B, S, P)
  BY <1>1 DEF Calls
<1>4. Search(B, S, P, frames, Len(frames), board) /\ B[Len(frames) + 1].left[Root] = Root
  BY <1>1, <1>2, <1>3 DEF Levels
<1>5. Filled(board, RowsOf(frames, Len(frames))) \in Answers(board)
  BY <1>1, <1>2, <1>4, FilledAnswers
<1>6. inout_' = Filled(board, RowsOf(frames, Len(frames)))
  BY <1>1, <1>2 DEF Calls, Fill, Filled
<1>. QED BY <1>1, <1>5, <1>6 DEF SolveInv

\* A column is chosen and covered.
LEMMA ChooseSolves ==
  ASSUME SolveInv, Choose
  PROVE  SolveInv'
<1> DEFINE n == Len(frames)
           c == get_min_column(links)
           f == [col |-> c, row |-> cover(links, c).down[c]]
<1>1. /\ dpc = "solve" /\ dpc' = "try" /\ links.left[Root] # Root
      /\ links' = cover(links, c) /\ frames' = Append(frames, f)
      /\ board' = board /\ built' = built /\ inout_' = inout_ /\ stack_' = stack_ /\ found' = found
      /\ found = FALSE /\ inout_ = board /\ board \in [Cells -> 0..Side] /\ Calls
  BY DEF Choose, SolveInv
<1>2. /\ frames \in Seq(FrameSet(board)) /\ n \in Nat /\ Depth = n /\ stack_ = RowsOf(frames, n)
  BY <1>1 DEF Depth, Calls
<1>3. PICK B, S, P : Levels(B, S, P)
  BY <1>1 DEF Calls
<1>4. /\ Search(B, S, P, frames, n, board) /\ links = B[n + 1] /\ B[1] = built
      /\ \A g \in Answers(board) : AllHit(frames, n, g) \/ Later(S, P, frames, n, g)
  BY <1>1, <1>2, <1>3 DEF Levels, Ahead
<1> HIDE DEF c
<1>5. PICK S2, P2 : /\ Search(B, S2, P2, Append(frames, f), n, board)
                    /\ Same(S2, P2, S, P, n) /\ P2[n + 1] = 1
  <2>1. c = get_min_column(B[n + 1]) /\ f = [col |-> c, row |-> cover(B[n + 1], c).down[c]]
    BY <1>4 DEF c
  <2>2. B[n + 1].left[Root] # Root
    BY <1>1, <1>4
  <2> HIDE DEF f
  <2>. QED BY <1>2, <1>4, <2>1, <2>2, SearchChooses
<1>6. f.col = c
  OBVIOUS
<1> HIDE DEF f
<1>7. /\ Len(frames') = n + 1 /\ frames'[n + 1] = f /\ \A k \in 1..n : frames'[k] = frames[k]
      /\ (f \in FrameSet(board) => frames' \in Seq(FrameSet(board)))
  BY <1>1, <1>2
<1>8. frames' \in Seq(FrameSet(board))
  <2>1. Call(B[n + 1], S2[n + 1], P2[n + 1], f, MetBy(frames', n + 1 - 1), board)
    <3>1. n + 1 \in 1..Len(frames')
      BY <1>2, <1>7
    <3>. QED BY <1>1, <1>5, <1>7, <3>1 DEF Search
  <2>2. f.col \in AllNodes(board) /\ f.row \in AllNodes(board)
    BY <2>1, CallNodes
  <2>. QED BY <1>7, <2>2 DEF FrameSet, f
<1>9. Depth' = n
  BY <1>1, <1>2, <1>7 DEF Depth
<1>10. ASSUME NEW g \in Answers(board) PROVE Trying(S2, P2, frames', n + 1, g)
  BY <1>1, <1>2, <1>4, <1>5, <1>7, AheadChooses
<1>11. Levels(B, S2, P2)'
  <2>1. \A g \in Answers(board)' : Ahead(S2, P2, g)'
    BY <1>1, <1>7, <1>10 DEF Ahead
  <2>2. links' = cover(B[Len(frames')], frames'[Len(frames')].col)
    BY <1>1, <1>4, <1>6, <1>7
  <2>. QED BY <1>1, <1>4, <1>5, <1>9, <2>1, <2>2 DEF Levels
<1>12. stack_' = RowsOf(frames', Depth')
  BY <1>1, <1>2, <1>7, <1>9, RowsOfIs
<1>13. Calls'
  BY <1>1, <1>2, <1>7, <1>8, <1>11, <1>12 DEF Calls
<1>. QED BY <1>1, <1>13 DEF SolveInv

\* A row is tried.
LEMMA TryRowSolves ==
  ASSUME SolveInv, TryRow
  PROVE  SolveInv'
<1> DEFINE n == Len(frames)
<1>1. /\ dpc = "try" /\ dpc' = "solve" /\ frames[n].row # frames[n].col
      /\ stack_' = Append(stack_, frames[n].row)
      /\ links' = coverAll(links, Walk(links.right, frames[n].row))
      /\ board' = board /\ built' = built /\ inout_' = inout_ /\ frames' = frames /\ found' = found
      /\ found = FALSE /\ inout_ = board /\ board \in [Cells -> 0..Side] /\ Calls
  BY DEF TryRow, SolveInv, top
<1>2. /\ frames \in Seq(FrameSet(board)) /\ n \in Nat \ {0} /\ Depth = n - 1 /\ stack_ = RowsOf(frames, n - 1)
  BY <1>1 DEF Depth, Calls
<1>3. PICK B, S, P : Levels(B, S, P)
  BY <1>1 DEF Calls
<1>4. /\ Search(B, S, P, frames, n - 1, board) /\ links = cover(B[n], frames[n].col) /\ B[1] = built
      /\ \A g \in Answers(board) : Trying(S, P, frames, n, g)
  BY <1>1, <1>2, <1>3 DEF Levels, Ahead
<1>5. PICK B2 : Search(B2, S, P, frames, n, board) /\ B2[1] = B[1] /\ B2[n + 1] = Tried(B[n], frames[n])
  BY <1>1, <1>2, <1>4, SearchTries
<1>6. P[n] \in Nat /\ Len(S[n]) \in Nat /\ frames[n].row = S[n][P[n]]
  <2>1. Call(B2[n], S[n], P[n], frames[n], MetBy(frames, n - 1), board)
    BY <1>2, <1>5 DEF Search
  <2>. QED BY <1>1, <2>1, CallRow
<1>7. Depth' = n
  BY <1>1 DEF Depth
<1>8. Levels(B2, S, P)'
  <2>1. ASSUME NEW g \in Answers(board) PROVE AllHit(frames, n, g) \/ Later(S, P, frames, n, g)
    BY <1>2, <1>4, <1>6, AheadTries
  <2>2. \A g \in Answers(board)' : Ahead(S, P, g)'
    BY <1>1, <2>1 DEF Ahead
  <2>3. links' = B2[Len(frames') + 1]
    BY <1>1, <1>4, <1>5 DEF Tried
  <2>. QED BY <1>1, <1>4, <1>5, <1>7, <2>2, <2>3 DEF Levels
<1>9. stack_' = RowsOf(frames', Depth')
  <2>1. RowsOf(frames, n) = Append(RowsOf(frames, n - 1), frames[n].row)
    BY <1>2, RowsOfIs
  <2>. QED BY <1>1, <1>2, <1>7, <2>1
<1>10. Calls'
  BY <1>1, <1>2, <1>8, <1>9 DEF Calls
<1>. QED BY <1>1, <1>10 DEF SolveInv

\* A row is taken back.
LEMMA NextRowSolves ==
  ASSUME SolveInv, NextRow
  PROVE  SolveInv'
<1> DEFINE n == Len(frames)
           gs == [frames EXCEPT ![n].row = links'.down[frames[n].row]]
<1>1. /\ dpc = "back" /\ dpc' = "try" /\ stack_' = Front(stack_)
      /\ links' = uncoverAll(links, Walk(links.left, frames[n].row))
      /\ frames' = gs
      /\ board' = board /\ built' = built /\ inout_' = inout_ /\ found' = found
      /\ found = FALSE /\ inout_ = board /\ board \in [Cells -> 0..Side] /\ Calls
  BY DEF NextRow, SolveInv, top
<1>2. /\ frames \in Seq(FrameSet(board)) /\ n \in Nat \ {0} /\ Depth = n /\ stack_ = RowsOf(frames, n)
  BY <1>1 DEF Depth, Calls
<1>3. PICK B, S, P : Levels(B, S, P)
  BY <1>1 DEF Calls
<1>4. /\ Search(B, S, P, frames, n, board) /\ links = B[n + 1] /\ B[1] = built
      /\ \A g \in Answers(board) : Later(S, P, frames, n, g)
  BY <1>1, <1>2, <1>3 DEF Levels, Ahead
<1>5. /\ DOMAIN gs = 1..n /\ Len(gs) = n /\ \A k \in 1..(n - 1) : gs[k] = frames[k]
      /\ gs[n] = [frames[n] EXCEPT !.row = links'.down[frames[n].row]]
      /\ (gs[n] \in FrameSet(board) => gs \in Seq(FrameSet(board)))
  BY <1>2
<1>6. gs[n].col = frames[n].col /\ gs[n].row = links'.down[frames[n].row]
  <2>1. frames[n] \in [col : AllNodes(board), row : AllNodes(board)]
    <3>1. n \in 1..Len(frames)
      BY <1>2
    <3>2. frames[n] \in FrameSet(board)
      BY <1>2, <3>1, ElementOfSeq
    <3>. QED BY <3>2 DEF FrameSet
  <2> HIDE DEF gs
  <2>. QED BY <1>5, <2>1
<1> HIDE DEF gs
<1>7. /\ links' = cover(B[n], frames[n].col)
      /\ \E P2 : Search(B, S, P2, gs, n - 1, board) /\ P2[n] = P[n] + 1 /\ Same(S, P2, S, P, n - 1)
  <2>1. links' = uncoverAll(B[n + 1], Walk(B[n + 1].left, frames[n].row))
    BY <1>1, <1>4
  <2>2. n = Len(frames) /\ n \in Nat \ {0}
    BY <1>2
  <2>3. Len(gs) = n /\ \A k \in 1..(n - 1) : gs[k] = frames[k]
    BY <1>5
  <2>4. Search(B, S, P, frames, n, board)
    BY <1>4
  <2> HIDE DEF n
  <2>. QED BY ONLY <1>6, <2>1, <2>2, <2>3, <2>4, SearchGoesOn
<1>8. PICK P2 : Search(B, S, P2, gs, n - 1, board) /\ P2[n] = P[n] + 1 /\ Same(S, P2, S, P, n - 1)
  BY <1>7
<1>9. gs \in Seq(FrameSet(board))
  <2>1. Call(B[n], S[n], P2[n], gs[n], MetBy(gs, n - 1), board)
    BY <1>2, <1>5, <1>8 DEF Search
  <2>2. gs[n].col \in AllNodes(board) /\ gs[n].row \in AllNodes(board)
    BY <2>1, CallNodes
  <2>3. frames[n] \in [col : AllNodes(board), row : AllNodes(board)]
    <3>1. n \in 1..Len(frames)
      BY <1>2
    <3>2. frames[n] \in FrameSet(board)
      BY <1>2, <3>1, ElementOfSeq
    <3>. QED BY <3>2 DEF FrameSet
  <2>4. gs[n] \in FrameSet(board)
    BY <1>5, <1>6, <2>2, <2>3 DEF FrameSet
  <2>. QED BY <1>5, <2>4
<1>10. Depth' = n - 1 /\ Len(frames') = n
  BY <1>1, <1>5 DEF Depth
<1>11. Levels(B, S, P2)'
  <2>1. ASSUME NEW g \in Answers(board) PROVE Trying(S, P2, gs, n, g)
    BY <1>2, <1>4, <1>5, <1>8, AheadGoesOn
  <2>2. \A g \in Answers(board)' : Ahead(S, P2, g)'
    BY <1>1, <1>10, <2>1 DEF Ahead
  <2>3. links' = cover(B[Len(frames')], frames'[Len(frames')].col)
    BY <1>1, <1>6, <1>7, <1>10
  <2>4. Search(B, S, P2, frames', Depth', board') /\ B[1] = built'
    BY <1>1, <1>4, <1>8, <1>10
  <2>. QED BY <1>1, <2>2, <2>3, <2>4 DEF Levels
<1>12. stack_' = RowsOf(frames', Depth')
  <2>1. n - 1 \in Nat /\ RowsOf(frames, n - 1) = Front(RowsOf(frames, n))
    BY <1>2, RowsOfIs
  <2>2. RowsOf(gs, n - 1) = RowsOf(frames, n - 1)
    <3>1. \A k \in 1..(n - 1) : gs[k] = frames[k]
      BY <1>5
    <3> HIDE DEF n
    <3>. QED BY ONLY <2>1, <3>1, RowsOfIs
  <2>. QED BY <1>1, <1>2, <1>10, <2>1, <2>2
<1>13. Calls'
  BY <1>1, <1>2, <1>10, <1>11, <1>12, <1>9 DEF Calls
<1>. QED BY <1>1, <1>13 DEF SolveInv

\* A call returns false, to the one before or, from the first, to the caller.
LEMMA FailSolves ==
  ASSUME SolveInv, Fail
  PROVE  SolveInv'
<1> DEFINE n == Len(frames)
           gs == Front(frames)
<1>1. /\ dpc = "try" /\ dpc' = (IF n = 1 THEN "done" ELSE "back") /\ frames[n].row = frames[n].col
      /\ links' = uncover(links, frames[n].col) /\ frames' = gs
      /\ board' = board /\ built' = built /\ inout_' = inout_ /\ stack_' = stack_ /\ found' = found
      /\ found = FALSE /\ inout_ = board /\ board \in [Cells -> 0..Side] /\ Calls
  BY DEF Fail, SolveInv, top
<1>2. /\ frames \in Seq(FrameSet(board)) /\ n \in Nat \ {0} /\ Depth = n - 1 /\ stack_ = RowsOf(frames, n - 1)
  BY <1>1 DEF Depth, Calls
<1>3. PICK B, S, P : Levels(B, S, P)
  BY <1>1 DEF Calls
<1>4. /\ Search(B, S, P, frames, n - 1, board) /\ links = cover(B[n], frames[n].col) /\ B[1] = built
      /\ \A g \in Answers(board) : Trying(S, P, frames, n, g)
  BY <1>1, <1>2, <1>3 DEF Levels, Ahead
<1>5. links' = B[n] /\ Search(B, S, P, gs, n - 1, board)
  BY <1>1, <1>2, <1>4, SearchReturns
<1>6. gs \in Seq(FrameSet(board)) /\ Len(gs) = n - 1 /\ \A k \in 1..(n - 1) : gs[k] = frames[k]
  BY <1>2 DEF Front
<1> HIDE DEF gs
<1>7. ASSUME NEW g \in Answers(board) PROVE Later(S, P, gs, n - 1, g)
  <2>1. Call(B[n], S[n], P[n], frames[n], MetBy(frames, n - 1), board)
    BY <1>2, <1>4 DEF Search
  <2>2. P[n] \in Nat /\ Len(S[n]) \in Nat /\ ~(P[n] <= Len(S[n]))
    BY <1>1, <2>1, CallRow
  <2>. QED BY <1>2, <1>4, <1>6, <2>2, AheadReturns
<1>8. CASE n = 1
  <2>1. Answers(board) = {}
    <3>1. \A g : ~Later(S, P, gs, n - 1, g)
      BY <1>8 DEF Later
    <3>. QED BY <1>7, <3>1
  <2>2. stack_ = <<>>
    BY <1>2, <1>8, RowsOfIs
  <2>3. links' = built
    BY <1>4, <1>5, <1>8
  <2>. QED BY <1>1, <1>8, <2>1, <2>2, <2>3 DEF SolveInv
<1>9. CASE n # 1
  <2>1. dpc' = "back" /\ n - 1 \in Nat /\ n - 1 # 0 /\ Len(frames') = n - 1 /\ Depth' = n - 1
    BY <1>1, <1>2, <1>6, <1>9 DEF Depth
  <2>2. Levels(B, S, P)'
    <3>1. \A g \in Answers(board)' : Ahead(S, P, g)'
      BY <1>1, <1>7, <2>1 DEF Ahead
    <3>2. links' = B[Len(frames') + 1]
      BY <1>2, <1>5, <2>1
    <3>. QED BY <1>1, <1>4, <1>5, <2>1, <3>1, <3>2 DEF Levels
  <2>3. stack_' = RowsOf(frames', Depth')
    <3>1. RowsOf(gs, n - 1) = RowsOf(frames, n - 1)
      BY <1>6, <2>1, RowsOfIs
    <3>. QED BY <1>1, <1>2, <2>1, <3>1
  <2>4. Calls'
    BY <1>1, <1>2, <1>6, <2>1, <2>2, <2>3 DEF Calls
  <2>. QED BY <1>1, <2>1, <2>4 DEF SolveInv
<1>. QED BY <1>8, <1>9

-----------------------------------------------------------------------------
(* Theorems *)

DlInv == BuildInv /\ SolveInv

\* The steps of the constructor change nothing that the search has.
LEMMA BuildingSolves ==
  ASSUME SolveInv, AppendCell \/ CellsDone \/ AppendUnit \/ UnitsDone \/ AppendRow
  PROVE  SolveInv'
<1>1. /\ dpc \in {"cells", "units", "rows"} /\ dpc' \in {"cells", "units", "rows"}
      /\ board' = board /\ inout_' = inout_ /\ stack_' = stack_ /\ frames' = frames /\ found' = found
  BY DEF AppendCell, CellsDone, AppendUnit, UnitsDone, AppendRow
<1>. QED BY <1>1 DEF SolveInv

\* Those of the search are not in the constructor.
LEMMA SearchingBuilds ==
  ASSUME RowsDone \/ Solve \/ Choose \/ TryRow \/ NextRow \/ Fail
  PROVE  BuildInv'
<1>1. dpc' \in {"solve", "try", "back", "done"}
  BY DEF RowsDone, Solve, Choose, TryRow, NextRow, Fail
<1>. QED BY <1>1 DEF BuildInv

\* A step that changes nothing.
LEMMA StutterSolves ==
  ASSUME DlInv, UNCHANGED dlVars
  PROVE  DlInv'
<1>1. /\ board' = board /\ inout_' = inout_ /\ links' = links /\ loop' = loop /\ built' = built
      /\ stack_' = stack_ /\ frames' = frames /\ dpc' = dpc /\ found' = found
  BY DEF dlVars
<1>2. BuildInv'
  BY <1>1 DEF DlInv, BuildInv
<1>3. Calls => Calls'
  <2>1. Depth' = Depth
    BY <1>1 DEF Depth
  <2>2. ASSUME NEW B, NEW S, NEW P, Levels(B, S, P) PROVE Levels(B, S, P)'
    <3>1. \A g : Ahead(S, P, g) <=> Ahead(S, P, g)'
      BY <1>1 DEF Ahead
    <3>. QED BY <1>1, <2>1, <2>2, <3>1 DEF Levels
  <2>. QED BY <1>1, <2>1, <2>2 DEF Calls
<1>4. SolveInv'
  BY <1>1, <1>3 DEF DlInv, SolveInv
<1>. QED BY <1>2, <1>4 DEF DlInv

\* The invariant: in the constructor the lists are those of the columns and rows that were
\* appended, in the search each call's are what CallTakesRow says, and a solution is ahead.
THEOREM DlInvHolds == DlSpec => []DlInv
<1>1. DlInit => DlInv
  BY InitBuilds, InitSolves DEF DlInv
<1>2. DlInv /\ [DlNext]_dlVars => DlInv'
  <2> SUFFICES ASSUME DlInv, [DlNext]_dlVars PROVE DlInv'
    OBVIOUS
  <2>1. BuildInv /\ SolveInv
    BY DEF DlInv
  <2>2. CASE AppendCell
    BY <2>1, <2>2, AppendCellBuilds, BuildingSolves DEF DlInv
  <2>3. CASE CellsDone
    BY <2>1, <2>3, CellsDoneBuilds, BuildingSolves DEF DlInv
  <2>4. CASE AppendUnit
    BY <2>1, <2>4, AppendUnitBuilds, BuildingSolves DEF DlInv
  <2>5. CASE UnitsDone
    BY <2>1, <2>5, UnitsDoneBuilds, BuildingSolves DEF DlInv
  <2>6. CASE AppendRow
    BY <2>1, <2>6, AppendRowBuilds, BuildingSolves DEF DlInv
  <2>7. CASE RowsDone
    BY <2>1, <2>7, SearchingBuilds, RowsDoneSolves DEF DlInv
  <2>8. CASE Solve
    BY <2>1, <2>8, SearchingBuilds, SolveSolves DEF DlInv
  <2>9. CASE Choose
    BY <2>1, <2>9, SearchingBuilds, ChooseSolves DEF DlInv
  <2>10. CASE TryRow
    BY <2>1, <2>10, SearchingBuilds, TryRowSolves DEF DlInv
  <2>11. CASE NextRow
    BY <2>1, <2>11, SearchingBuilds, NextRowSolves DEF DlInv
  <2>12. CASE Fail
    BY <2>1, <2>12, SearchingBuilds, FailSolves DEF DlInv
  <2>13. CASE UNCHANGED dlVars
    BY <2>13, StutterSolves
  <2>. QED BY <2>2, <2>3, <2>4, <2>5, <2>6, <2>7, <2>8, <2>9, <2>10, <2>11, <2>12, <2>13 DEF DlNext
<1>. QED BY <1>1, <1>2, PTL DEF DlSpec

\* What the lists of a part of the matrix look like to one who walks along them.
LEMMA RestWalks ==
  ASSUME NEW L, NEW b, NEW X, Rest(L, b, X)
  PROVE  /\ Range(Walk(L.right, Root)) = ColumnSet(b) \ X
         /\ Reverse(Walk(L.right, Root)) = Walk(L.left, Root)
         /\ \A c \in ColumnSet(b) \ X :
              /\ Range(Walk(L.down, c)) = {n \in Live(OpenRows(OptionSet(b), X)) : ColumnOf(n) = c}
              /\ Reverse(Walk(L.down, c)) = Walk(L.up, c)
              /\ L.size[c] = Len(Walk(L.down, c))
<1> DEFINE N == AllNodes(b)
           C == ColumnSet(b)
           O == OptionSet(b)
<1>1. Shape(N, C, O) /\ Matrix(L, N, C, O, X)
  BY ShapeHolds DEF Rest
<1>2. /\ IsFiniteSet(DOMAIN L.right) /\ IsFiniteSet(DOMAIN L.left)
      /\ IsFiniteSet(DOMAIN L.down) /\ IsFiniteSet(DOMAIN L.up)
  <2> HIDE DEF N, C, O
  <2>. QED BY <1>1 DEF Shape, Matrix, Lists, LinkSet
<1> HIDE DEF N, C, O
<1>3. PICK s : Ring(L.right, L.left, Root, s) /\ Range(s) = C \ X
  BY <1>1 DEF Matrix, Lists, Heads
<1>4. Walk(L.right, Root) = s /\ Walk(L.left, Root) = Reverse(s)
  <2>1. Ring(L.left, L.right, Root, Reverse(s))
    BY <1>3, RingReverse
  <2>. QED BY <1>2, <1>3, <2>1, WalkRing
<1>5. ASSUME NEW c \in C \ X
      PROVE  /\ Range(Walk(L.down, c)) = {n \in Live(OpenRows(O, X)) : ColumnOf(n) = c}
             /\ Reverse(Walk(L.down, c)) = Walk(L.up, c)
             /\ L.size[c] = Len(Walk(L.down, c))
  <2>1. PICK t : /\ Ring(L.down, L.up, c, t) /\ Range(t) = {n \in Live(OpenRows(O, X)) : ColumnOf(n) = c}
                 /\ L.size[c] = Len(t)
    BY <1>1 DEF Matrix, Lists, Column
  <2>2. Ring(L.up, L.down, c, Reverse(t))
    BY <2>1, RingReverse
  <2>3. Walk(L.down, c) = t /\ Walk(L.up, c) = Reverse(t)
    BY <1>2, <2>1, <2>2, WalkRing
  <2>. QED BY <2>1, <2>3
<1>. QED BY <1>3, <1>4, <1>5 DEF C, O

\* Whenever solve is called the lists are exactly what the rows of the stack leave open
\* (Submatrix), for every board and every size.
THEOREM SubmatrixHolds == DlSpec => []Submatrix
<1>1. DlInv => Submatrix
  <2> SUFFICES ASSUME DlInv, dpc = "solve"
               PROVE  LET met   == Met(stack_)
                          nodes == UNION {Range(Nodes(o)) : o \in {o \in OptionSet(board) : Meets(o) \cap met = {}}}
                          heads == Walk(links.right, Root)
                      IN  /\ Range(heads) = ColumnSet(board) \ met
                          /\ Reverse(heads) = Walk(links.left, Root)
                          /\ \A c \in Range(heads) :
                               LET ns == Walk(links.down, c)
                               IN  /\ Range(ns) = {n \in nodes : ColumnOf(n) = c}
                                   /\ Reverse(ns) = Walk(links.up, c)
                                   /\ links.size[c] = Len(ns)
    BY DEF Submatrix
  <2> DEFINE X == Met(stack_)
             nodes == UNION {Range(Nodes(o)) : o \in {o \in OptionSet(board) : Meets(o) \cap X = {}}}
  <2>1. Calls /\ Depth = Len(frames) /\ Len(frames) \in Nat
    BY DEF DlInv, SolveInv, Calls, Depth
  <2>2. PICK B, S, P : Levels(B, S, P)
    BY <2>1 DEF Calls
  <2>3. Rest(links, board, MetBy(frames, Len(frames)))
    <3>1. Search(B, S, P, frames, Len(frames), board) /\ links = B[Len(frames) + 1]
      BY <2>1, <2>2 DEF Levels
    <3>. QED BY <2>1, <3>1, SearchRest
  <2>4. MetBy(frames, Len(frames)) = X
    <3>1. stack_ = RowsOf(frames, Len(frames))
      BY <2>1 DEF Calls
    <3>2. DOMAIN stack_ = 1..Len(frames) /\ \A k \in 1..Len(frames) : stack_[k] = frames[k].row
      BY <3>1 DEF RowsOf
    <3>. QED BY <3>2 DEF Met, MetBy
  <2>5. nodes = Live(OpenRows(OptionSet(board), X))
    <3>1. \A o : Range(Nodes(o)) = Live({o})
      BY MeetsIs
    <3>2. nodes = UNION {Live({o}) : o \in OpenRows(OptionSet(board), X)}
      BY <3>1 DEF OpenRows
    <3> DEFINE R == OpenRows(OptionSet(board), X)
    <3> HIDE DEF nodes, R, X
    <3>3. nodes = UNION {Live({o}) : o \in R}
      BY <3>2 DEF R
    <3>4. /\ \A n : n \in Live(R) => n \in Live({n[2]}) /\ n[2] \in R
          /\ \A o \in R : Live({o}) \subseteq Live(R)
      BY LiveIs
    <3>. QED BY <3>3, <3>4 DEF R
  <2> HIDE DEF X, nodes
  <2>6. Rest(links, board, X)
    BY <2>3, <2>4
  <2>. QED BY <2>5, <2>6, RestWalks DEF X, nodes
<1>. QED BY <1>1, DlInvHolds, PTL

\* A search that fails leaves every pointer as the constructor made it (Restored).
THEOREM RestoredHolds == DlSpec => []Restored
<1>1. DlInv => Restored
  BY DEF DlInv, SolveInv, Restored
<1>. QED BY <1>1, DlInvHolds, PTL

\* The answer is a solution of the puzzle, and a puzzle that is given up has none (Solves).
THEOREM SolvesHolds == DlSpec => []Solves
<1>1. DlInv => Solves
  <2> SUFFICES ASSUME DlInv, dpc = "done"
               PROVE  IF found THEN Agrees(inout_) /\ Solution(inout_)
                      ELSE inout_ = board /\ ~\E g \in Grids : Agrees(g)
    BY DEF Solves
  <2>1. CASE found
    BY <2>1 DEF DlInv, SolveInv, Answers, Agrees
  <2>2. CASE ~found
    <3>1. inout_ = board /\ Answers(board) = {}
      BY <2>2 DEF DlInv, SolveInv
    <3>2. \A g \in Grids : g \in [Cells -> Vals] /\ Solution(g)
      BY DancingLinksAssumption
    <3>. QED BY <2>2, <3>1, <3>2 DEF Answers, Agrees
  <2>. QED BY <2>1, <2>2
<1>. QED BY <1>1, DlInvHolds, PTL

\* A puzzle that is given up has no solution at all, whatever Grids lists.
GivesUpRightly == dpc = "done" /\ ~found => ~\E g \in [Cells -> Vals] : Agrees(g) /\ Solution(g)

\* It holds of the code, for every board: solve returns false only when there is no solution.
THEOREM GivesUpRightlyHolds == DlSpec => []GivesUpRightly
<1>1. DlInv => GivesUpRightly
  BY DEF DlInv, SolveInv, GivesUpRightly, Answers, Agrees
<1>. QED BY <1>1, DlInvHolds, PTL

=============================================================================
