---------------------------- MODULE ProxyProofs ----------------------------
(***************************************************************************)
(* Proofs about Proxy, for every request, every site and every size of the *)
(* buffer, however the texts are cut.  The request: what was read is, piece*)
(* by piece, what the client sent, or junk.  The answer: what was parsed   *)
(* when the empty line came is what the whole answer says.                 *)
(***************************************************************************)
EXTENDS Proxy, FiniteSetTheorems, SequenceTheorems, WellFoundedInduction, TLAPS

\* b holds what is left of the first n pieces of text, in order, with the junk taken along
\* between them; o says which pieces they are.
FullBefore(b, o, i) ==
  i > BUF /\ \A d \in 1..BUF : b[i - d] # Junk /\ o[i - d] = o[i - 1] - (d - 1)
Behind(o, text, k) ==
  \E n \in 1..k : n > k - BUF /\ text[n] = Nul /\ \A l \in n..k : l \notin Range(o)
Ordered(b, o, text, n) ==
  \A i \in 1..Len(b) :
    IF b[i] = Junk THEN FullBefore(b, o, i)
    ELSE /\ o[i] \in 1..n /\ b[i] = text[o[i]]
         /\ \A j \in 1..(i - 1) : b[j] # Junk => o[j] < o[i]
Holds(b, o, text, n) ==
  /\ b \in Seq(Range(text) \cup {Junk}) /\ o \in Seq(0..n) /\ Len(o) = Len(b)
  /\ Ordered(b, o, text, n)
  /\ \A k \in 1..n : k \in Range(o) \/ Behind(o, text, k)

\* What was read of the request, at every point of the two loops.
RequestInv ==
  /\ request \in Requested
  /\ outgoing = [client |-> outgoing.client, server |-> outgoing.server]
  /\ incoming = [client |-> incoming.client, server |-> incoming.server]
  /\ silent = [client |-> silent.client, server |-> silent.server]
  /\ outgoing.client \in 0..Len(request) /\ incoming.client \in 0..outgoing.client
  /\ Holds(recv_buf, origin, request, incoming.client)
  /\ ppc \in {"send", "stuckForward", "answer", "reply", "stuckReply"} =>
       silent.client /\ incoming.client = outgoing.client

\* The first m pieces.
First(text, m) == SubSeq(text, 1, m)

\* content_pos is the place of the empty line as soon as that has been read, and content_length
\* what a part of the answer says that reaches as far.
ParsedInv ==
  /\ content_pos = HeaderEnd(send_buf)
  /\ content_pos = 0 => content_length = -1
  /\ content_pos # 0 =>
       \E m \in 0..incoming.server : /\ HeaderEnd(First(response, m)) # 0
                                     /\ content_length = LengthOf(First(response, m))

\* The loop goes on until the answer is complete.
LoopInv ==
  /\ ppc = "answer" => ~Complete(send_buf, content_pos, content_length)
  /\ ppc \in {"reply", "stuckReply"} /\ ~silent.server => Complete(send_buf, content_pos, content_length)
  /\ ppc = "closed" /\ reply # <<>> =>
       reply = send_buf /\ (silent.server \/ Complete(send_buf, content_pos, content_length))

AnswerInv ==
  /\ ppc \in {"recv", "peek", "send", "stuckForward"} =>
       /\ outgoing.server = 0 /\ incoming.server = 0
       /\ send_buf = <<>> /\ content_pos = 0 /\ content_length = -1
  /\ ppc # "closed" => reply = <<>>
  /\ IsText(response) =>
       /\ outgoing.server \in 0..Len(response) /\ incoming.server \in 0..outgoing.server
       /\ send_buf = First(response, incoming.server)
       /\ ParsedInv /\ LoopInv

-----------------------------------------------------------------------------
(* The least of a set; prefixes of texts *)

LEMMA MinFacts ==
  ASSUME NEW S \in SUBSET Nat, S # {}
  PROVE  Min(S) \in S /\ \A y \in S : Min(S) <= y
<1>1. \E x \in S : \A y \in S : ~(<<y, x>> \in OpToRel(<, Nat))
  BY NatLessThanWellFounded, WFMin
<1>2. PICK x \in S : \A y \in S : ~(y < x)
  BY <1>1 DEF OpToRel
<1>3. \A y \in S : x <= y
  BY <1>2
<1>. QED BY <1>3 DEF Min

LEMMA MinIs ==
  ASSUME NEW S \in SUBSET Nat, NEW x \in S, \A y \in S : x <= y
  PROVE  Min(S) = x
<1> DEFINE m == Min(S)
<1>1. m \in S /\ m <= x
  BY MinFacts
<1> HIDE DEF m
<1>2. x <= m /\ x \in Nat /\ m \in Nat
  BY <1>1
<1>3. m = x
  BY <1>1, <1>2
<1>. QED BY <1>3 DEF m

LEMMA FirstFacts ==
  ASSUME NEW t, IsText(t), NEW m \in 0..Len(t)
  PROVE  /\ Len(First(t, m)) = m /\ DOMAIN First(t, m) = 1..m
         /\ \A i \in 1..m : First(t, m)[i] = t[i]
         /\ Len(t) \in Nat /\ DOMAIN t = 1..Len(t) /\ First(t, Len(t)) = t
BY DEF First, IsText

LEMMA FirstMore ==
  ASSUME NEW t, IsText(t), NEW n \in Nat, NEW c \in Nat, n + c <= Len(t)
  PROVE  First(t, n) \o SubSeq(t, n + 1, n + c) = First(t, n + c)
<1> DEFINE p == First(t, n)
           q == SubSeq(t, n + 1, n + c)
           r == First(t, n + c)
<1>1. t \in Seq(Range(t)) /\ Len(t) \in Nat
  BY DEF IsText
<1>2. /\ p \in Seq(Range(t)) /\ Len(p) = n /\ \A i \in 1..n : p[i] = t[i]
      /\ q \in Seq(Range(t)) /\ Len(q) = c /\ \A i \in 1..c : q[i] = t[n + i]
      /\ r \in Seq(Range(t)) /\ Len(r) = n + c /\ \A i \in 1..(n + c) : r[i] = t[i]
  BY <1>1 DEF First
<1> HIDE DEF p, q, r
<1>3. p \o q \in Seq(Range(t)) /\ Len(p \o q) = n + c
  BY <1>2
<1>4. ASSUME NEW i \in 1..(n + c) PROVE (p \o q)[i] = r[i]
  <2>1. CASE i \in 1..n
    BY <1>2, <2>1
  <2>2. CASE i \in (n + 1)..(n + c)
    <3>1. i - n \in 1..c /\ n + (i - n) = i
      BY <2>2
    <3>2. (p \o q)[i] = q[i - n]
      BY <1>2, <2>2
    <3>. QED BY <1>2, <3>1, <3>2
  <2>3. i \in 1..n \/ i \in (n + 1)..(n + c)
    OBVIOUS
  <2>. QED BY <2>1, <2>2, <2>3
<1>5. p \o q = r
  BY <1>2, <1>3, <1>4, SeqEqual
<1>. QED BY <1>5 DEF p, q, r

LEMMA SeqRange ==
  ASSUME NEW S, NEW t \in Seq(S)
  PROVE  IsText(t)
<1>1. Len(t) \in Nat /\ t \in [1..Len(t) -> Range(t)]
  BY DEF Range
<1>. QED BY <1>1 DEF IsText

\* Where there are two line ends, one after the other.
Ends(t) == {k \in 1..(Len(t) - 1) : t[k] = EOL /\ t[k + 1] = EOL}

LEMMA HeaderFacts ==
  ASSUME NEW t, Len(t) \in Nat
  PROVE  /\ HeaderEnd(t) = 0 <=> Ends(t) = {}
         /\ HeaderEnd(t) # 0 => HeaderEnd(t) \in Ends(t) /\ \A k \in Ends(t) : HeaderEnd(t) <= k
         /\ HeaderEnd(t) \in Nat
<1>1. HeaderEnd(t) = IF Ends(t) = {} THEN 0 ELSE Min(Ends(t))
  BY DEF HeaderEnd, Ends
<1>2. Ends(t) \in SUBSET Nat /\ 0 \notin Ends(t)
  BY DEF Ends
<1>. QED BY <1>1, <1>2, MinFacts

\* The empty line is where it is in every part that reaches as far.
LEMMA HeaderOfFirst ==
  ASSUME NEW t, IsText(t), NEW m \in 0..Len(t)
  PROVE  /\ HeaderEnd(First(t, m)) # 0 =>
              HeaderEnd(t) = HeaderEnd(First(t, m)) /\ HeaderEnd(t) + 1 <= m
         /\ HeaderEnd(t) # 0 /\ HeaderEnd(t) + 1 <= m => HeaderEnd(First(t, m)) = HeaderEnd(t)
<1> DEFINE p == First(t, m)
<1>1. Len(p) = m /\ Len(t) \in Nat /\ m \in Nat /\ m <= Len(t) /\ \A i \in 1..m : p[i] = t[i]
  BY FirstFacts
<1> HIDE DEF p
<1>2. /\ Ends(p) \subseteq Ends(t) /\ \A k \in Ends(t) : k + 1 <= m => k \in Ends(p)
      /\ \A k \in Ends(p) : k \in Nat /\ k + 1 <= m
      /\ \A k \in Ends(t) : k \in Nat
  BY <1>1 DEF Ends
<1>3. ASSUME HeaderEnd(p) # 0 PROVE HeaderEnd(t) = HeaderEnd(p) /\ HeaderEnd(t) + 1 <= m
  <2>1. HeaderEnd(p) \in Ends(p) /\ \A k \in Ends(p) : HeaderEnd(p) <= k
    BY <1>1, <1>3, HeaderFacts
  <2>2. HeaderEnd(t) \in Ends(t) /\ \A k \in Ends(t) : HeaderEnd(t) <= k
    BY <1>1, <1>2, <2>1, HeaderFacts
  <2>3. HeaderEnd(t) <= HeaderEnd(p) /\ HeaderEnd(p) \in Nat /\ HeaderEnd(t) \in Nat
    BY <1>2, <2>1, <2>2
  <2>4. HeaderEnd(t) \in Ends(p)
    BY <1>1, <1>2, <2>1, <2>2, <2>3
  <2>. QED BY <1>2, <2>1, <2>3, <2>4
<1>4. ASSUME HeaderEnd(t) # 0, HeaderEnd(t) + 1 <= m PROVE HeaderEnd(p) = HeaderEnd(t)
  <2>1. HeaderEnd(t) \in Ends(p)
    BY <1>1, <1>2, <1>4, HeaderFacts
  <2>2. HeaderEnd(p) # 0
    BY <1>1, <2>1, HeaderFacts
  <2>. QED BY <1>3, <2>2
<1>. QED BY <1>3, <1>4 DEF p

LEMMA LengthsFacts ==
  ASSUME NEW t, IsText(t), NEW m \in 0..Len(t), NEW k
  PROVE  /\ LengthsIn(First(t, m), k) = {i \in LengthsIn(t, k) : i <= m}
         /\ LengthsIn(t, k) \in SUBSET (1..Len(t))
<1>1. /\ DOMAIN First(t, m) = 1..m /\ \A i \in 1..m : First(t, m)[i] = t[i]
      /\ Len(t) \in Nat /\ DOMAIN t = 1..Len(t)
  BY FirstFacts
<1>. QED BY <1>1 DEF LengthsIn

\* If the first length of the first spelling that there is comes at a, it is what is found.
LEMMA LengthIs ==
  ASSUME NEW t, NEW k \in 1..4, \A i \in LengthsIn(t, k) : i \in Nat,
         \A j \in 1..(k - 1) : LengthsIn(t, j) = {},
         NEW a \in LengthsIn(t, k), \A i \in LengthsIn(t, k) : a <= i
  PROVE  LengthOf(t) = t[a][3]
<1> DEFINE known == {j \in 1..4 : LengthsIn(t, j) # {}}
<1>1. known \in SUBSET Nat /\ k \in known /\ \A j \in known : k <= j
  OBVIOUS
<1>2. Min(known) = k /\ known # {}
  BY <1>1, MinIs
<1>3. Min(LengthsIn(t, k)) = a
  BY MinIs
<1>. QED BY <1>2, <1>3 DEF LengthOf

\* A part of a text in which the empty line has come says the length that the text declares.
LEMMA LengthOfFirst ==
  ASSUME NEW t, IsText(t), NEW m \in 0..Len(t), HeaderEnd(First(t, m)) # 0
  PROVE  /\ Undeclared(t) => LengthOf(First(t, m)) = 0
         /\ Declares(t) => LengthOf(First(t, m)) = LengthOf(t)
<1>1. ASSUME Undeclared(t) PROVE LengthOf(First(t, m)) = 0
  <2>1. \A k \in 1..4 : LengthsIn(First(t, m), k) = {}
    BY <1>1, LengthsFacts DEF Undeclared
  <2>. QED BY <2>1 DEF LengthOf
<1>2. ASSUME Declares(t) PROVE LengthOf(First(t, m)) = LengthOf(t)
  <2> DEFINE h == HeaderEnd(t) + 1
  <2>1. h \in 0..Len(t) /\ h <= m /\ Len(t) \in Nat
    <3>1. HeaderEnd(t) \in Nat /\ HeaderEnd(t) + 1 <= m /\ Len(t) \in Nat
      BY FirstFacts, HeaderFacts, HeaderOfFirst
    <3>. QED BY <3>1
  <2>2. PICK k \in 1..4 : /\ LengthsIn(First(t, h), k) # {}
                          /\ \A j \in 1..(k - 1) : LengthsIn(t, j) = {}
    BY <1>2 DEF Declares, Header, First
  <2> HIDE DEF h
  <2>3. LengthsIn(First(t, h), k) \in SUBSET Nat
    BY <2>1, LengthsFacts
  <2>4. PICK a : a \in LengthsIn(First(t, h), k) /\ \A i \in LengthsIn(First(t, h), k) : a <= i
    BY <2>2, <2>3, MinFacts
  <2>5. ASSUME NEW n \in 0..Len(t), h <= n PROVE LengthOf(First(t, n)) = t[a][3]
    <3>1. LengthsIn(First(t, n), k) = {i \in LengthsIn(t, k) : i <= n}
          /\ LengthsIn(t, k) \in SUBSET (1..Len(t))
      BY LengthsFacts
    <3>2. LengthsIn(First(t, h), k) = {i \in LengthsIn(t, k) : i <= h}
      BY <2>1, LengthsFacts
    <3>3. /\ a \in LengthsIn(First(t, n), k) /\ \A i \in LengthsIn(First(t, n), k) : a <= i
          /\ \A i \in LengthsIn(First(t, n), k) : i \in Nat
      BY <2>1, <2>4, <2>5, <3>1, <3>2
    <3>4. \A j \in 1..(k - 1) : LengthsIn(First(t, n), j) = {}
      BY <2>2, LengthsFacts
    <3>5. LengthOf(First(t, n)) = First(t, n)[a][3]
      BY <3>3, <3>4, LengthIs
    <3>6. a \in 1..n
      BY <3>1, <3>3
    <3>. QED BY <3>5, <3>6, FirstFacts
  <2>6. LengthOf(First(t, m)) = t[a][3]
    BY <2>1, <2>5
  <2>7. LengthOf(First(t, Len(t))) = t[a][3] /\ First(t, Len(t)) = t
    <3>1. Len(t) \in 0..Len(t) /\ h <= Len(t)
      BY <2>1
    <3>. QED BY <2>5, <3>1, FirstFacts
  <2>. QED BY <2>6, <2>7
<1>. QED BY <1>1, <1>2

-----------------------------------------------------------------------------
(* The request *)

LEMMA SeqWider ==
  ASSUME NEW S, NEW T, S \subseteq T, NEW s \in Seq(S)
  PROVE  s \in Seq(T)
OBVIOUS

LEMMA Joined ==
  ASSUME NEW S, NEW s \in Seq(S), NEW t \in Seq(S), NEW u, u = s \o t
  PROVE  /\ u \in Seq(S) /\ Len(u) = Len(s) + Len(t) /\ DOMAIN u = 1..Len(u)
         /\ \A i \in 1..Len(s) : u[i] = s[i]
         /\ \A i \in (Len(s) + 1)..(Len(s) + Len(t)) : u[i] = t[i - Len(s)]
<1>1. /\ s \o t \in Seq(S) /\ Len(s \o t) = Len(s) + Len(t)
      /\ \A i \in 1..(Len(s) + Len(t)) :
           (s \o t)[i] = IF i <= Len(s) THEN s[i] ELSE t[i - Len(s)]
  BY ConcatProperties
<1>2. Len(s) \in Nat /\ Len(t) \in Nat
  OBVIOUS
<1>. QED BY <1>1, <1>2

\* Of the next c pieces of the text the first e are taken, all or those before a byte 0.
LEMMA HoldsPart ==
  ASSUME NEW b, NEW o, NEW text, IsText(text), Junk \notin Range(text),
         NEW n \in Nat, NEW c \in 0..BUF, n + c <= Len(text), Holds(b, o, text, n),
         NEW e \in 0..c, e < c => text[n + e + 1] = Nul,
         NEW p, p = SubSeq(text, n + 1, n + e), NEW q, q = [i \in 1..e |-> n + i]
  PROVE  /\ Holds(b \o p, o \o q, text, n + c)
         /\ e = BUF => FullBefore(b \o p, o \o q, Len(b \o p) + 1)
<1> DEFINE d == b \o p
           r == o \o q
           B == Len(b)
<1>1. /\ B \in Nat /\ b \in Seq(Range(text) \cup {Junk}) /\ o \in Seq(0..n) /\ Len(o) = B
      /\ Len(text) \in Nat /\ BUF \in Nat \ {0} /\ e \in Nat /\ c \in Nat /\ e <= c /\ c <= BUF
  BY ProxyAssumption DEF Holds, IsText
<1>11. \A k \in 1..B : o[k] \in 0..n
  BY <1>1
<1>2. /\ p \in Seq(Range(text)) /\ Len(p) = e /\ \A i \in 1..e : p[i] = text[n + i]
      /\ q \in Seq(0..(n + c)) /\ Len(q) = e /\ \A i \in 1..e : q[i] = n + i
  <2>1. p \in Seq(Range(text)) /\ Len(p) = e /\ \A i \in 1..e : p[i] = text[n + i]
    <3>1. n + e \in Nat /\ n + e <= Len(text) /\ text \in Seq(Range(text))
      BY <1>1 DEF IsText
    <3>2. \A i \in (n + 1)..(n + e) : text[i] \in Range(text)
      BY <1>1, <3>1 DEF Range
    <3>3. /\ n + 1 \in Int /\ n + e \in Int /\ (n + e) - (n + 1) + 1 = e
          /\ n + 1 <= n + e <=> e # 0
          /\ \A i \in 1..e : (n + 1) + i - 1 = n + i
      BY <1>1
    <3>4. /\ p \in Seq(Range(text))
          /\ Len(p) = IF n + 1 <= n + e THEN (n + e) - (n + 1) + 1 ELSE 0
          /\ \A i \in 1..((n + e) - (n + 1) + 1) : p[i] = text[(n + 1) + i - 1]
      BY <3>2, <3>3, SubSeqProperties
    <3>. QED BY <3>3, <3>4
  <2>2. \A i \in 1..e : n + i \in 0..(n + c)
    BY <1>1
  <2>. QED BY <1>1, <2>1, <2>2
<1>3. ASSUME NEW i \in 1..e PROVE text[n + i] # Junk
  <2>1. n + i \in DOMAIN text
    BY <1>1, <1>3 DEF IsText
  <2>. QED BY <2>1 DEF Range
<1> HIDE DEF B
<1>4. /\ d \in Seq(Range(text) \cup {Junk}) /\ Len(d) = B + e
      /\ \A i \in 1..B : d[i] = b[i]
      /\ \A i \in (B + 1)..(B + e) : d[i] = text[n + (i - B)] /\ d[i] # Junk
  <2>1. p \in Seq(Range(text) \cup {Junk})
    BY <1>2, SeqWider
  <2>2. /\ d \in Seq(Range(text) \cup {Junk}) /\ Len(d) = B + e
        /\ \A i \in 1..B : d[i] = b[i]
        /\ \A i \in (B + 1)..(B + e) : d[i] = p[i - B]
    <3>1. PICK S : S = Range(text) \cup {Junk}
      OBVIOUS
    <3>2. b \in Seq(S) /\ p \in Seq(S)
      BY <1>1, <2>1, <3>1
    <3>3. /\ d \in Seq(S) /\ Len(d) = Len(b) + Len(p)
          /\ \A i \in 1..Len(b) : d[i] = b[i]
          /\ \A i \in (Len(b) + 1)..(Len(b) + Len(p)) : d[i] = p[i - Len(b)]
      BY <3>2, Joined
    <3>4. Len(b) = B /\ Len(p) = e
      BY <1>2 DEF B
    <3>. QED BY <3>1, <3>3, <3>4
  <2>4. ASSUME NEW i \in (B + 1)..(B + e)
        PROVE  d[i] = text[n + (i - B)] /\ d[i] # Junk
    <3>1. i - B \in 1..e
      BY <1>1
    <3>. QED BY <1>2, <1>3, <2>2, <3>1
  <2>. QED BY <2>2, <2>4
<1>5. /\ r \in Seq(0..(n + c)) /\ Len(r) = B + e
      /\ \A i \in 1..B : r[i] = o[i]
      /\ \A i \in (B + 1)..(B + e) : r[i] = n + (i - B)
  <2>1. o \in Seq(0..(n + c))
    <3>1. 0..n \subseteq 0..(n + c)
      BY <1>1
    <3>. QED BY <1>1, <3>1, SeqWider
  <2>2. /\ r \in Seq(0..(n + c)) /\ Len(r) = B + e
        /\ \A i \in 1..B : r[i] = o[i]
        /\ \A i \in (B + 1)..(B + e) : r[i] = q[i - B]
    <3>1. PICK S : S = 0..(n + c)
      OBVIOUS
    <3>2. o \in Seq(S) /\ q \in Seq(S)
      BY <1>2, <2>1, <3>1
    <3>3. /\ r \in Seq(S) /\ Len(r) = Len(o) + Len(q)
          /\ \A i \in 1..Len(o) : r[i] = o[i]
          /\ \A i \in (Len(o) + 1)..(Len(o) + Len(q)) : r[i] = q[i - Len(o)]
      BY <3>2, Joined
    <3>4. Len(o) = B /\ Len(q) = e
      BY <1>1, <1>2
    <3>. QED BY <3>1, <3>3, <3>4
  <2>4. ASSUME NEW i \in (B + 1)..(B + e) PROVE r[i] = n + (i - B)
    <3>1. i - B \in 1..e
      BY <1>1
    <3>. QED BY <1>2, <2>2, <3>1
  <2>. QED BY <2>2, <2>4
<1> HIDE DEF d, r
<1>6. Ordered(d, r, text, n + c)
  <2> SUFFICES ASSUME NEW i \in 1..(B + e)
                PROVE  IF d[i] = Junk THEN FullBefore(d, r, i)
                       ELSE /\ r[i] \in 1..(n + c) /\ d[i] = text[r[i]]
                            /\ \A j \in 1..(i - 1) : d[j] # Junk => r[j] < r[i]
    BY <1>4 DEF Ordered
  <2>1. CASE i \in 1..B
    <3>1. /\ d[i] = b[i] /\ r[i] = o[i]
          /\ \A j \in 1..(i - 1) : d[j] = b[j] /\ r[j] = o[j]
      <4>1. \A j \in 1..(i - 1) : j \in 1..B
        BY <1>1, <2>1
      <4>. QED BY <1>4, <1>5, <2>1, <4>1
    <3>2. IF b[i] = Junk THEN FullBefore(b, o, i)
          ELSE /\ o[i] \in 1..n /\ b[i] = text[o[i]]
               /\ \A j \in 1..(i - 1) : b[j] # Junk => o[j] < o[i]
      BY <2>1 DEF Holds, Ordered, B
    <3>3. CASE d[i] = Junk
      <4>1. i > BUF /\ \A k \in 1..BUF : b[i - k] # Junk /\ o[i - k] = o[i - 1] - (k - 1)
        BY <3>1, <3>2, <3>3 DEF FullBefore
      <4>2. \A k \in 1..BUF : i - k \in 1..(i - 1)
        BY <1>1, <2>1, <4>1
      <4>3. i - 1 \in 1..(i - 1)
        BY <1>1, <2>1, <4>1
      <4>. QED BY <3>1, <3>3, <4>1, <4>2, <4>3 DEF FullBefore
    <3>4. CASE d[i] # Junk
      <4>1. 1..n \subseteq 1..(n + c)
        BY <1>1
      <4>. QED BY <3>1, <3>2, <3>4, <4>1
    <3>. QED BY <3>3, <3>4
  <2>2. CASE i \in (B + 1)..(B + e)
    <3>1. d[i] = text[r[i]] /\ d[i] # Junk /\ r[i] = n + (i - B) /\ r[i] \in (n + 1)..(n + c)
      <4>1. i - B \in 1..e
        BY <1>1, <2>2
      <4>2. n + (i - B) \in (n + 1)..(n + c)
        BY <1>1, <4>1
      <4>. QED BY <1>4, <1>5, <2>2, <4>2
    <3>2. ASSUME NEW j \in 1..(i - 1), d[j] # Junk PROVE r[j] < r[i]
      <4>1. CASE j \in 1..B
        <5>1. o[j] \in 0..n
          BY <1>11, <4>1
        <5>2. r[j] = o[j]
          BY <1>5, <4>1
        <5>3. r[i] \in Nat /\ r[i] > n
          BY <1>1, <3>1
        <5>. QED BY <5>1, <5>2, <5>3
      <4>2. CASE j \in (B + 1)..(B + e)
        <5>1. r[j] = n + (j - B) /\ j < i /\ j \in Nat /\ i \in Nat
          BY <1>1, <1>5, <2>2, <4>2
        <5>. QED BY <1>1, <3>1, <5>1
      <4>. QED BY <1>1, <2>2, <4>1, <4>2
    <3>. QED BY <1>1, <3>1, <3>2
  <2>. QED BY <1>1, <2>1, <2>2
<1>7. /\ \A l \in 1..n : l \in Range(r) => l \in Range(o)
      /\ \A l \in Range(o) : l \in Range(r)
      /\ \A l \in 1..e : n + l \in Range(r)
      /\ \A l \in (n + e + 1)..(n + c) : l \notin Range(r)
  <2>1. /\ Range(o) = {o[i] : i \in 1..B} /\ Range(r) = {r[i] : i \in 1..(B + e)}
        /\ \A i \in 1..B : o[i] \in 0..n
    <3>1. DOMAIN o = 1..B /\ DOMAIN r = 1..(B + e)
      BY <1>1, <1>5
    <3>. QED BY <1>11, <3>1 DEF Range
  <2>2. ASSUME NEW l \in 1..n, l \in Range(r) PROVE l \in Range(o)
    <3>1. PICK i \in 1..(B + e) : r[i] = l
      BY <2>1, <2>2
    <3>2. i \in 1..B
      BY <1>1, <1>5, <3>1
    <3>. QED BY <1>5, <2>1, <3>1, <3>2
  <2>3. ASSUME NEW l \in Range(o) PROVE l \in Range(r)
    <3>1. PICK i \in 1..B : o[i] = l
      BY <2>1
    <3>2. i \in 1..(B + e)
      BY <1>1
    <3>. QED BY <1>5, <2>1, <3>1, <3>2
  <2>4. ASSUME NEW l \in 1..e PROVE n + l \in Range(r)
    <3>1. B + l \in (B + 1)..(B + e) /\ B + l \in 1..(B + e) /\ n + ((B + l) - B) = n + l
      BY <1>1
    <3>. QED BY <1>5, <2>1, <3>1
  <2>5. ASSUME NEW l \in (n + e + 1)..(n + c) PROVE l \notin Range(r)
    <3>1. \A i \in 1..B : r[i] \in 0..n
      BY <1>5, <2>1
    <3>2. ASSUME NEW i \in (B + 1)..(B + e) PROVE r[i] \in 0..(n + e)
      <4>1. r[i] = n + (i - B)
        BY <1>5
      <4>. QED BY <1>1, <4>1
    <3>3. \A i \in 1..(B + e) : i \in 1..B \/ i \in (B + 1)..(B + e)
      BY <1>1
    <3>4. l \notin 0..n /\ l \notin 0..(n + e)
      BY <1>1, <2>5
    <3>. QED BY <2>1, <3>1, <3>2, <3>3, <3>4
  <2>. QED BY <2>2, <2>3, <2>4, <2>5
<1>8. ASSUME NEW k \in 1..(n + c) PROVE k \in Range(r) \/ Behind(r, text, k)
  <2>1. CASE k \in 1..n
    <3>1. CASE k \in Range(o)
      BY <1>7, <3>1
    <3>2. CASE Behind(o, text, k)
      <4>1. PICK m \in 1..k : m > k - BUF /\ text[m] = Nul /\ \A l \in m..k : l \notin Range(o)
        BY <3>2 DEF Behind
      <4>2. \A l \in m..k : l \in 1..n
        BY <2>1
      <4>. QED BY <1>7, <4>1, <4>2 DEF Behind
    <3>. QED BY <2>1, <3>1, <3>2 DEF Holds
  <2>2. CASE k \in (n + 1)..(n + e)
    <3>1. k - n \in 1..e /\ n + (k - n) = k
      BY <1>1, <2>2
    <3>. QED BY <1>7, <3>1
  <2>3. CASE k \in (n + e + 1)..(n + c)
    <3> DEFINE m == n + e + 1
    <3>1. m \in 1..k /\ m > k - BUF /\ e < c /\ \A l \in m..k : l \in (n + e + 1)..(n + c)
      BY <1>1, <2>3
    <3>. QED BY <1>7, <3>1 DEF Behind
  <2>. QED BY <1>1, <2>1, <2>2, <2>3
<1>9. ASSUME e = BUF PROVE FullBefore(d, r, Len(d) + 1)
  <2>1. Len(d) + 1 > BUF /\ Len(d) = B + e
    BY <1>1, <1>4, <1>9
  <2>2. ASSUME NEW k \in 1..BUF
        PROVE  d[Len(d) + 1 - k] # Junk /\ r[Len(d) + 1 - k] = r[Len(d) + 1 - 1] - (k - 1)
    <3>1. Len(d) + 1 - k \in (B + 1)..(B + e) /\ Len(d) + 1 - 1 \in (B + 1)..(B + e)
      BY <1>1, <1>9, <2>1
    <3>2. r[Len(d) + 1 - k] = n + ((Len(d) + 1 - k) - B)
          /\ r[Len(d) + 1 - 1] = n + ((Len(d) + 1 - 1) - B)
      BY <1>5, <3>1
    <3>3. n + ((Len(d) + 1 - k) - B) = (n + ((Len(d) + 1 - 1) - B)) - (k - 1)
      BY <1>1, <2>1
    <3>. QED BY <1>4, <3>1, <3>2, <3>3
  <2>. QED BY <2>1, <2>2 DEF FullBefore
<1>10. Holds(d, r, text, n + c)
  BY <1>4, <1>5, <1>6, <1>8 DEF Holds
<1>. QED BY <1>9, <1>10 DEF d, r

\* A piece of junk comes along.
LEMMA HoldsJunk ==
  ASSUME NEW b, NEW o, NEW text, NEW n \in Nat, Holds(b, o, text, n),
         FullBefore(b, o, Len(b) + 1), NEW q, q = << 0 >>
  PROVE  Holds(b \o <<Junk>>, o \o q, text, n)
<1> DEFINE d == b \o <<Junk>>
           r == o \o q
           B == Len(b)
<1>1. /\ B \in Nat /\ b \in Seq(Range(text) \cup {Junk}) /\ o \in Seq(0..n) /\ Len(o) = B
      /\ BUF \in Nat \ {0}
  BY ProxyAssumption DEF Holds
<1>2. /\ d \in Seq(Range(text) \cup {Junk}) /\ Len(d) = B + 1
      /\ \A i \in 1..B : d[i] = b[i]
      /\ d[B + 1] = Junk
  BY <1>1
<1>3. /\ r \in Seq(0..n) /\ Len(r) = B + 1
      /\ \A i \in 1..B : r[i] = o[i]
      /\ r[B + 1] = 0
  BY <1>1
<1> HIDE DEF d, r
<1>4. ASSUME NEW i \in 1..(B + 1), FullBefore(b, o, i) PROVE FullBefore(d, r, i)
  <2>1. i > BUF /\ \A k \in 1..BUF : b[i - k] # Junk /\ o[i - k] = o[i - 1] - (k - 1)
    BY <1>4 DEF FullBefore
  <2>2. i - 1 \in 1..B /\ \A k \in 1..BUF : i - k \in 1..B
    BY <1>1, <2>1
  <2> HIDE DEF B
  <2>. QED BY <1>2, <1>3, <2>1, <2>2 DEF FullBefore
<1>5. Ordered(d, r, text, n)
  <2> SUFFICES ASSUME NEW i \in 1..(B + 1)
                PROVE  IF d[i] = Junk THEN FullBefore(d, r, i)
                       ELSE /\ r[i] \in 1..n /\ d[i] = text[r[i]]
                            /\ \A j \in 1..(i - 1) : d[j] # Junk => r[j] < r[i]
    BY <1>2 DEF Ordered
  <2>1. CASE i = B + 1
    BY <1>2, <1>4, <2>1
  <2>2. CASE i \in 1..B
    <3>1. /\ d[i] = b[i] /\ r[i] = o[i]
          /\ \A j \in 1..(i - 1) : d[j] = b[j] /\ r[j] = o[j]
      <4>1. \A j \in 1..(i - 1) : j \in 1..B
        BY <1>1, <2>2
      <4>. QED BY <1>2, <1>3, <2>2, <4>1
    <3>2. IF b[i] = Junk THEN FullBefore(b, o, i)
          ELSE /\ o[i] \in 1..n /\ b[i] = text[o[i]]
               /\ \A j \in 1..(i - 1) : b[j] # Junk => o[j] < o[i]
      BY <2>2 DEF Holds, Ordered
    <3>. QED BY <1>4, <3>1, <3>2
  <2>. QED BY <1>1, <2>1, <2>2
<1>6. \A l : l # 0 => (l \in Range(r) <=> l \in Range(o))
  <2>1. Range(o) = {o[i] : i \in 1..B} /\ Range(r) = {r[i] : i \in 1..(B + 1)}
    <3>1. DOMAIN o = 1..B /\ DOMAIN r = 1..(B + 1)
      BY <1>1, <1>3
    <3>. QED BY <3>1 DEF Range
  <2>2. \A i \in 1..(B + 1) : i \in 1..B \/ i = B + 1
    BY <1>1
  <2>3. \A i \in 1..B : i \in 1..(B + 1)
    BY <1>1
  <2>. QED BY <1>3, <2>1, <2>2, <2>3
<1>7. ASSUME NEW k \in 1..n PROVE k \in Range(r) \/ Behind(r, text, k)
  <2>1. CASE k \in Range(o)
    BY <1>6, <2>1
  <2>2. CASE Behind(o, text, k)
    BY <1>6, <2>2 DEF Behind
  <2>. QED BY <2>1, <2>2 DEF Holds
<1>8. Holds(d, r, text, n)
  BY <1>2, <1>3, <1>5, <1>7 DEF Holds
<1>. QED BY <1>8 DEF d, r

\* What is taken of a part of the request is its first pieces, all or those before a byte 0.
LEMMA CutFacts ==
  ASSUME NEW text, IsText(text), NEW n \in Nat, NEW c \in Nat, n + c <= Len(text),
         NEW part, part = SubSeq(text, n + 1, n + c)
  PROVE  \E e \in 0..c : /\ c_str(part) = SubSeq(text, n + 1, n + e)
                         /\ DOMAIN c_str(part) = 1..e
                         /\ e < c => text[n + e + 1] = Nul
                         /\ e = c <=> Nuls(part) = {}
<1>1. /\ text \in Seq(Range(text)) /\ Len(text) \in Nat
      /\ part \in Seq(Range(text)) /\ Len(part) = c /\ DOMAIN part = 1..c
      /\ \A i \in 1..c : part[i] = text[n + i]
  BY DEF IsText
<1>2. CASE Nuls(part) = {}
  <2>1. c \in 0..c /\ c_str(part) = part
    BY <1>2 DEF c_str
  <2>. QED BY <1>1, <1>2, <2>1
<1>3. CASE Nuls(part) # {}
  <2> DEFINE m == Min(Nuls(part))
             e == m - 1
  <2>1. Nuls(part) \in SUBSET Nat
    BY <1>1 DEF Nuls
  <2>2. m \in Nuls(part)
    BY <1>3, <2>1, MinFacts
  <2>3. m \in 1..c /\ part[m] = Nul
    BY <1>1, <2>2 DEF Nuls
  <2>4. c_str(part) = SubSeq(part, 1, e)
    BY <1>3 DEF c_str
  <2> HIDE DEF m
  <2>5. e \in 0..c /\ e < c /\ n + e + 1 = n + m /\ e \in Nat /\ e <= c /\ e # c
    BY <2>3
  <2> HIDE DEF e
  <2>6. SubSeq(part, 1, e) = SubSeq(text, n + 1, n + e)
    <3> DEFINE u == SubSeq(part, 1, e)
               v == SubSeq(text, n + 1, n + e)
    <3>1. u \in Seq(Range(text)) /\ Len(u) = e /\ \A i \in 1..e : u[i] = part[i]
      BY <1>1, <2>5
    <3>2. v \in Seq(Range(text)) /\ Len(v) = e /\ \A i \in 1..e : v[i] = text[n + i]
      BY <1>1, <2>5
    <3>3. \A i \in 1..e : i \in 1..c
      BY <2>5
    <3> HIDE DEF u, v
    <3>4. u = v
      BY <1>1, <3>1, <3>2, <3>3, SeqEqual
    <3>. QED BY <3>4 DEF u, v
  <2>7. DOMAIN SubSeq(part, 1, e) = 1..e
    BY <1>1, <2>5
  <2>. QED BY <1>1, <1>3, <2>3, <2>4, <2>5, <2>6, <2>7
<1>. QED BY <1>2, <1>3

\* What a Recv takes is there.
LEMMA TakenFacts ==
  ASSUME NEW who, outgoing[who] \in Nat, incoming[who] \in 0..outgoing[who]
  PROVE  Taken(who) \in 0..BUF /\ incoming[who] + Taken(who) \in 0..outgoing[who]
BY ProxyAssumption DEF Taken, Arrived

LEMMA RequestFacts ==
  ASSUME RequestInv
  PROVE  IsText(request) /\ Junk \notin Range(request) /\ Len(request) \in Nat
BY ProxyAssumption DEF RequestInv, IsText

LEMMA RequestInit == ProxyInit => RequestInv
<1> SUFFICES ASSUME ProxyInit PROVE RequestInv
  OBVIOUS
<1>1. Len(request) \in Nat
  BY ProxyAssumption DEF ProxyInit, IsText
<1>2. Holds(<<>>, <<>>, request, 0)
  <2>1. <<>> \in Seq(Range(request) \cup {Junk}) /\ <<>> \in Seq(0..0) /\ Len(<<>>) = 0
    OBVIOUS
  <2>. QED BY <2>1 DEF Holds, Ordered
<1>. QED BY <1>1, <1>2 DEF ProxyInit, RequestInv

LEMMA RequestStep == RequestInv /\ [ProxyNext]_proxyVars => RequestInv'
<1> SUFFICES ASSUME RequestInv, [ProxyNext]_proxyVars PROVE RequestInv'
  OBVIOUS
<1>0. Len(request) \in Nat /\ IsText(request) /\ Junk \notin Range(request)
  BY RequestFacts
<1>1. CASE ClientSends
  BY <1>0, <1>1 DEF ClientSends, RequestInv, peers, history
<1>2. CASE ServerSends
  BY <1>0, <1>2 DEF ServerSends, RequestInv, peers, history
<1>3. CASE RecvRequest
  <2> DEFINE n == incoming.client
             c == Taken("client")
  <2>1. /\ n \in Nat /\ c \in 0..BUF /\ c \in Nat /\ n + c \in Nat
        /\ n + c \in 0..outgoing.client /\ n + c <= Len(request)
    BY <1>0, TakenFacts, ProxyAssumption DEF RequestInv
  <2>2. PICK e \in 0..c :
          /\ c_str(Part(request, "client")) = SubSeq(request, n + 1, n + e)
          /\ DOMAIN c_str(Part(request, "client")) = 1..e
          /\ e < c => request[n + e + 1] = Nul
          /\ e = c <=> Nuls(Part(request, "client")) = {}
    <3> HIDE DEF c
    <3>1. Part(request, "client") = SubSeq(request, n + 1, n + c)
      BY DEF Part, c
    <3>2. n \in Nat /\ c \in Nat /\ n + c <= Len(request) /\ IsText(request)
      BY <1>0, <2>1
    <3> HIDE DEF n
    <3>. QED BY <3>1, <3>2, CutFacts
  <2> DEFINE p == SubSeq(request, n + 1, n + e)
             q == [i \in 1..e |-> n + i]
             none == [i \in DOMAIN <<>> |-> 0]
             zero == [i \in DOMAIN <<Junk>> |-> 0]
  <2>3. \/ recv_buf' = (recv_buf \o p) \o <<>> /\ origin' = (origin \o q) \o none
        \/ /\ recv_buf' = (recv_buf \o p) \o <<Junk>> /\ origin' = (origin \o q) \o zero
           /\ c = BUF /\ e = c
    BY <1>3, <2>2 DEF RecvRequest
  <2>4. Holds(recv_buf', origin', request, n + c)
    <3> DEFINE b == recv_buf \o p
               o == origin \o q
    <3>1. /\ Holds(b, o, request, n + c)
          /\ e = BUF => FullBefore(b, o, Len(b) + 1)
      <4> HIDE DEF c, p, q
      <4>1. p = SubSeq(request, n + 1, n + e) /\ q = [i \in 1..e |-> n + i]
        BY DEF p, q
      <4>2. Holds(recv_buf, origin, request, n)
        BY DEF RequestInv
      <4>. QED BY <1>0, <2>1, <2>2, <4>1, <4>2, HoldsPart
    <3> HIDE DEF b, o, c
    <3>2. b \o <<>> = b /\ o \o <<>> = o /\ none = <<>> /\ zero = <<0>>
      BY <3>1 DEF Holds
    <3>3. e = BUF => Holds(b \o <<Junk>>, o \o zero, request, n + c)
      <4> HIDE DEF zero
      <4>. QED BY <2>1, <3>1, <3>2, HoldsJunk
    <3>4. \/ recv_buf' = b \o <<>> /\ origin' = o \o none
          \/ recv_buf' = b \o <<Junk>> /\ origin' = o \o zero /\ e = BUF
      BY <2>3 DEF b, o
    <3> HIDE DEF none, zero
    <3>. QED BY <3>1, <3>2, <3>3, <3>4
  <2>5. /\ incoming' = [incoming EXCEPT !.client = n + c] /\ ppc' = "peek"
        /\ UNCHANGED <<request, outgoing, silent>>
    BY <1>3 DEF RecvRequest, peers
  <2> HIDE DEF c
  <2>6. incoming' = [client |-> n + c, server |-> incoming.server]
    BY <2>5 DEF RequestInv
  <2>. QED BY <2>1, <2>4, <2>5, <2>6 DEF RequestInv
<1>4. CASE PeekNothing
  <2>1. /\ UNCHANGED <<request, outgoing, incoming, recv_buf, origin>>
        /\ silent' = [silent EXCEPT !.client = TRUE] /\ outgoing.client - incoming.client = 0
    BY <1>4 DEF PeekNothing, peers, counts, Arrived
  <2>2. silent' = [client |-> TRUE, server |-> silent.server]
    BY <2>1 DEF RequestInv
  <2>3. incoming.client = outgoing.client
    BY <1>0, <2>1 DEF RequestInv
  <2>. QED BY <2>1, <2>2, <2>3 DEF RequestInv
<1>5. CASE RecvAnswer
  <2>1. /\ UNCHANGED <<request, outgoing, silent, origin, recv_buf>> /\ ppc = "answer"
        /\ incoming' = [incoming EXCEPT !.server = incoming.server + Taken("server")]
    BY <1>5 DEF RecvAnswer, peers, history
  <2>2. incoming' = [client |-> incoming.client, server |-> incoming'.server]
    BY <2>1 DEF RequestInv
  <2>. QED BY <2>1, <2>2 DEF RequestInv
<1>6. CASE AnswerEnds
  <2>1. /\ UNCHANGED <<request, outgoing, incoming, recv_buf, origin>> /\ ppc = "answer"
        /\ silent' = [silent EXCEPT !.server = TRUE]
    BY <1>6 DEF AnswerEnds, peers, counts
  <2>2. silent' = [client |-> silent.client, server |-> TRUE]
    BY <2>1 DEF RequestInv
  <2>. QED BY <2>1, <2>2 DEF RequestInv
<1>7. CASE \/ ClientCloses \/ ServerCloses \/ RecvNothing \/ PeekMore
           \/ ClientStops \/ ServerStops \/ ForwardFails \/ Forward \/ Reply \/ ReplyFails
  <2> DEFINE later == {"send", "stuckForward", "answer", "reply", "stuckReply"}
  <2>1. /\ UNCHANGED <<request, outgoing, incoming, silent, origin, recv_buf>>
        /\ ppc' \in later => ppc \in later
    BY <1>7 DEF ClientCloses, ServerCloses, RecvNothing, PeekMore, ForwardFails, Forward, Reply,
                ReplyFails, ClientStops, ServerStops, Stops, peers, counts, history
  <2>. QED BY <2>1 DEF RequestInv
<1>8. CASE UNCHANGED proxyVars
  BY <1>8 DEF proxyVars, RequestInv, peers, counts, history
<1>. QED BY <1>1, <1>2, <1>3, <1>4, <1>5, <1>6, <1>7, <1>8 DEF ProxyNext, socket_worker

\* What reaches the proxied server (ForwardsRequest): whatever the size of the buffer and however
\* the request was cut, its pieces once and in order, up to where the client fell silent.  Missing
\* are only those behind a byte 0 in their Recv, added is only junk behind a Recv that filled tmp.
THEOREM Forwarded == ProxySpec => []ForwardsRequest
<1>1. RequestInv => ForwardsRequest
  <2> SUFFICES ASSUME RequestInv,
                      ppc \in {"send", "stuckForward", "answer", "reply", "stuckReply"}
               PROVE  ForwardsRequest
    BY DEF ForwardsRequest
  <2>1. /\ silent.client /\ incoming.client = outgoing.client
        /\ Holds(recv_buf, origin, request, outgoing.client)
        /\ DOMAIN recv_buf = 1..Len(recv_buf)
    BY DEF RequestInv, Holds
  <2>2. ASSUME NEW i \in DOMAIN recv_buf
        PROVE  IF recv_buf[i] = Junk THEN AfterFull(i)
               ELSE /\ recv_buf[i] = request[origin[i]]
                    /\ \A j \in 1..(i - 1) : recv_buf[j] # Junk => origin[j] < origin[i]
    BY <2>1 DEF Holds, Ordered, FullBefore, AfterFull
  <2>3. ASSUME NEW k \in 1..outgoing.client PROVE k \in Range(origin) \/ LostBehindNul(k)
    BY <2>1 DEF Holds, Behind, LostBehindNul
  <2>. QED BY <2>1, <2>2, <2>3 DEF ForwardsRequest
<1>2. ProxySpec => []RequestInv
  BY RequestInit, RequestStep, PTL DEF ProxySpec
<1>. QED BY <1>1, <1>2, PTL

-----------------------------------------------------------------------------
(* The answer *)

LEMMA AnswerInit == ProxyInit => AnswerInv
<1> SUFFICES ASSUME ProxyInit PROVE AnswerInv
  OBVIOUS
<1>1. response = <<>> /\ Len(response) = 0 /\ First(<<>>, 0) = <<>> /\ HeaderEnd(<<>>) = 0
  <2>1. Ends(<<>>) = {} /\ Len(<<>>) = 0
    BY DEF Ends
  <2>. QED BY <2>1, HeaderFacts DEF ProxyInit, First
<1>. QED BY <1>1 DEF ProxyInit, AnswerInv, ParsedInv, LoopInv

\* What is parsed stays right when more has come.
LEMMA RecvAnswerStep == RequestInv /\ AnswerInv /\ RecvAnswer => AnswerInv'
<1> SUFFICES ASSUME RequestInv, AnswerInv, RecvAnswer PROVE AnswerInv'
  OBVIOUS
<1>1. /\ ppc = "answer" /\ ppc' \in {"answer", "reply"}
      /\ UNCHANGED <<response, outgoing, reply, silent>>
      /\ send_buf' = send_buf \o Part(response, "server")
      /\ incoming' = [incoming EXCEPT !.server = incoming.server + Taken("server")]
      /\ content_pos' = (IF content_pos = 0 THEN HeaderEnd(send_buf') ELSE content_pos)
      /\ content_length' = (IF content_pos = 0 /\ content_pos' # 0 THEN LengthOf(send_buf')
                            ELSE content_length)
      /\ ppc' = (IF Complete(send_buf', content_pos', content_length') THEN "reply"
                 ELSE "answer")
  BY DEF RecvAnswer, peers, history
<1> DEFINE n == incoming.server
           c == Taken("server")
<1>2. incoming' = [client |-> incoming.client, server |-> n + c]
  BY <1>1 DEF RequestInv
<1> SUFFICES ASSUME IsText(response)
             PROVE  /\ outgoing.server \in 0..Len(response) /\ n + c \in 0..outgoing.server
                    /\ send_buf' = First(response, n + c) /\ ParsedInv' /\ LoopInv'
  BY <1>1, <1>2 DEF AnswerInv
<1>3. /\ outgoing.server \in 0..Len(response) /\ n \in 0..outgoing.server
      /\ send_buf = First(response, n) /\ ParsedInv /\ Len(response) \in Nat
  BY DEF AnswerInv, IsText
<1>4. c \in Nat /\ n + c \in 0..outgoing.server /\ n \in Nat
  BY <1>3, TakenFacts, ProxyAssumption
<1>5. Part(response, "server") = SubSeq(response, n + 1, n + c)
  BY DEF Part
<1> HIDE DEF c, n
<1>6. send_buf' = First(response, n + c)
  <2>1. n \in Nat /\ c \in Nat /\ n + c <= Len(response)
    BY <1>3, <1>4
  <2>. QED BY <1>1, <1>3, <1>5, <2>1, FirstMore
<1>7. n + c \in 0..Len(response) /\ n \in 0..Len(response) /\ n <= n + c
  BY <1>3, <1>4
<1>8. content_pos' = HeaderEnd(send_buf')
  <2>1. CASE content_pos = 0
    BY <1>1, <2>1
  <2>2. CASE content_pos # 0
    <3>1. HeaderEnd(First(response, n)) # 0 /\ content_pos = HeaderEnd(First(response, n))
      BY <1>3, <2>2 DEF ParsedInv
    <3>2. HeaderEnd(response) = content_pos /\ HeaderEnd(response) + 1 <= n
      BY <1>7, <3>1, HeaderOfFirst
    <3>3. HeaderEnd(response) + 1 <= n + c
      <4>1. HeaderEnd(response) \in Nat
        BY <1>3, HeaderFacts
      <4>. QED BY <1>4, <1>7, <3>2, <4>1
    <3>4. HeaderEnd(First(response, n + c)) = HeaderEnd(response)
      BY <1>7, <2>2, <3>2, <3>3, HeaderOfFirst
    <3>. QED BY <1>1, <1>6, <2>2, <3>2, <3>4
  <2>. QED BY <2>1, <2>2
<1>9. ParsedInv'
  <2>1. CASE content_pos = 0 /\ content_pos' # 0
    <3>1. content_length' = LengthOf(First(response, n + c))
      BY <1>1, <1>6, <2>1
    <3>2. HeaderEnd(First(response, n + c)) # 0
      BY <1>6, <1>8, <2>1
    <3>3. n + c \in 0..(n + c)
      BY <1>4
    <3>. QED BY <1>1, <1>2, <1>8, <2>1, <3>1, <3>2, <3>3 DEF ParsedInv
  <2>2. CASE content_pos' = 0
    <3>1. content_pos = 0 /\ content_length' = -1
      BY <1>1, <1>3, <2>2 DEF ParsedInv
    <3>. QED BY <1>8, <2>2, <3>1 DEF ParsedInv
  <2>3. CASE content_pos # 0
    <3>1. content_length' = content_length /\ content_pos' # 0
      BY <1>1, <2>3
    <3>2. PICK m \in 0..n : /\ HeaderEnd(First(response, m)) # 0
                            /\ content_length = LengthOf(First(response, m))
      BY <1>3, <2>3 DEF ParsedInv, n
    <3>3. m \in 0..(n + c)
      BY <1>4
    <3>4. incoming'.server = n + c
      BY <1>2
    <3>. QED BY <1>1, <1>8, <3>1, <3>2, <3>3, <3>4 DEF ParsedInv
  <2>. QED BY <2>1, <2>2, <2>3
<1>10. LoopInv'
  BY <1>1 DEF LoopInv
<1>. QED BY <1>3, <1>4, <1>6, <1>9, <1>10

LEMMA AnswerStep == RequestInv /\ AnswerInv /\ [ProxyNext]_proxyVars => AnswerInv'
<1> SUFFICES ASSUME RequestInv, AnswerInv, [ProxyNext]_proxyVars PROVE AnswerInv'
  OBVIOUS
<1>1. CASE ServerSends
  <2>1. /\ UNCHANGED <<ppc, response, incoming, send_buf, content_pos, content_length, reply,
                       silent>>
        /\ ppc = "answer" /\ outgoing.server < Len(response)
        /\ outgoing' = [outgoing EXCEPT !.server = outgoing.server + 1]
    BY <1>1 DEF ServerSends, peers, parsed, history
  <2>2. outgoing' = [client |-> outgoing.client, server |-> outgoing.server + 1]
    BY <2>1 DEF RequestInv
  <2>3. IsText(response) => /\ outgoing.server + 1 \in 0..Len(response)
                            /\ incoming.server \in 0..(outgoing.server + 1)
    BY <2>1 DEF AnswerInv, IsText
  <2>4. (ParsedInv <=> ParsedInv') /\ (LoopInv <=> LoopInv')
    BY <2>1 DEF ParsedInv, LoopInv
  <2>. QED BY <2>1, <2>2, <2>3, <2>4 DEF AnswerInv
<1>2. CASE RecvAnswer
  BY <1>2, RecvAnswerStep
<1>3. CASE \/ ClientSends \/ RecvRequest \/ RecvNothing \/ PeekMore \/ PeekNothing
  <2>1. /\ ppc \in {"recv", "peek"} /\ ppc' \in {"recv", "peek", "send"}
        /\ UNCHANGED <<response, send_buf, content_pos, content_length, reply>>
        /\ outgoing' = [client |-> outgoing'.client, server |-> outgoing.server]
        /\ incoming' = [client |-> incoming'.client, server |-> incoming.server]
    BY <1>3 DEF RequestInv, ClientSends, RecvRequest, RecvNothing, PeekMore, PeekNothing, peers,
                counts, parsed
  <2>2. ParsedInv => ParsedInv'
    BY <2>1 DEF ParsedInv
  <2>3. LoopInv'
    BY <2>1 DEF LoopInv
  <2>. QED BY <2>1, <2>2, <2>3 DEF AnswerInv
<1>4. CASE Forward
  <2>1. /\ ppc = "send" /\ ppc' = "answer"
        /\ UNCHANGED <<outgoing, incoming, send_buf, content_pos, content_length, reply>>
    BY <1>4 DEF Forward, counts, parsed
  <2>2. /\ outgoing.server = 0 /\ incoming.server = 0 /\ send_buf = <<>>
        /\ content_pos = 0 /\ content_length = -1 /\ reply = <<>>
    BY <2>1 DEF AnswerInv
  <2>3. HeaderEnd(<<>>) = 0 /\ ~Complete(<<>>, 0, -1)
    <3>1. Ends(<<>>) = {} /\ Len(<<>>) = 0
      BY DEF Ends
    <3>. QED BY <3>1, HeaderFacts DEF Complete
  <2>4. IsText(response') => 0 \in 0..Len(response') /\ First(response', 0) = <<>>
    BY DEF IsText, First
  <2>5. ParsedInv' /\ LoopInv'
    BY <2>1, <2>2, <2>3 DEF ParsedInv, LoopInv
  <2>. QED BY <2>1, <2>2, <2>4, <2>5 DEF AnswerInv
<1>5. CASE ForwardFails \/ ReplyFails
  <2>1. /\ ppc # "closed" /\ ppc' = "closed" /\ reply = <<>>
        /\ UNCHANGED <<response, outgoing, incoming, send_buf, content_pos, content_length, reply,
                       silent>>
    BY <1>5 DEF ForwardFails, ReplyFails, AnswerInv, peers, counts, parsed, history
  <2>2. (ParsedInv => ParsedInv') /\ LoopInv'
    BY <2>1 DEF ParsedInv, LoopInv
  <2>. QED BY <2>1, <2>2 DEF AnswerInv
<1>6. CASE AnswerEnds
  <2>1. /\ ppc = "answer" /\ ppc' = "reply" /\ silent' = [silent EXCEPT !.server = TRUE]
        /\ UNCHANGED <<response, outgoing, incoming, send_buf, content_pos, content_length, reply>>
    BY <1>6 DEF AnswerEnds, peers, counts, parsed
  <2>2. silent'.server
    BY <2>1 DEF RequestInv
  <2>3. (ParsedInv => ParsedInv') /\ LoopInv'
    BY <2>1, <2>2 DEF ParsedInv, LoopInv
  <2>. QED BY <2>1, <2>3 DEF AnswerInv
<1>7. CASE Reply
  <2>1. /\ ppc = "reply" /\ ppc' = "closed" /\ reply' \in {send_buf, <<>>}
        /\ UNCHANGED <<response, outgoing, incoming, send_buf, content_pos, content_length, silent>>
    BY <1>7 DEF Reply, peers, counts, parsed, history
  <2>2. (ParsedInv => ParsedInv') /\ (LoopInv => LoopInv')
    BY <2>1 DEF ParsedInv, LoopInv
  <2>. QED BY <2>1, <2>2 DEF AnswerInv
<1>8. CASE ClientCloses \/ ServerCloses \/ UNCHANGED proxyVars
  <2>1. UNCHANGED <<ppc, response, outgoing, incoming, send_buf, content_pos, content_length, reply,
                    silent>>
    BY <1>8 DEF ClientCloses, ServerCloses, proxyVars, peers, counts, parsed, history
  <2>2. (ParsedInv => ParsedInv') /\ (LoopInv => LoopInv')
    BY <2>1 DEF ParsedInv, LoopInv
  <2>. QED BY <2>1, <2>2 DEF AnswerInv
<1>9. CASE ClientStops \/ ServerStops
  <2>1. /\ \/ ppc = "send" /\ ppc' = "stuckForward"
           \/ ppc = "reply" /\ ppc' = "stuckReply"
        /\ UNCHANGED <<response, outgoing, incoming, send_buf, content_pos, content_length, reply,
                       silent>>
    BY <1>9 DEF ClientStops, ServerStops, Stops, peers, counts, parsed, history
  <2>2. (ParsedInv => ParsedInv') /\ (LoopInv => LoopInv')
    BY <2>1 DEF ParsedInv, LoopInv
  <2>. QED BY <2>1, <2>2 DEF AnswerInv
<1>. QED BY <1>1, <1>2, <1>3, <1>4, <1>5, <1>6, <1>7, <1>8, <1>9 DEF ProxyNext, socket_worker

LEMMA Answered == ProxySpec => []AnswerInv
BY RequestInit, RequestStep, AnswerInit, AnswerStep, PTL DEF ProxySpec

\* The proxied server answers what reaches it with texts; the lengths that they state are numbers.
IsAnswer(text) ==
  IsText(text) /\ \A k \in 1..4 : \A i \in LengthsIn(text, k) : text[i][3] \in Nat
AnswersOnly ==
  \A src : IsText(src) /\ src # <<>> => \A text \in Served(src) : IsAnswer(text)

LEMMA LengthIsNumber ==
  ASSUME NEW t, IsAnswer(t)
  PROVE  LengthOf(t) \in Nat
<1> DEFINE known == {k \in 1..4 : LengthsIn(t, k) # {}}
<1>1. CASE known = {}
  BY <1>1 DEF LengthOf
<1>2. CASE known # {}
  <2>1. Min(known) \in known
    <3>1. known \in SUBSET Nat
      OBVIOUS
    <3>. QED BY <1>2, <3>1, MinFacts
  <2>2. PICK k \in 1..4 : k = Min(known) /\ LengthsIn(t, k) # {}
    BY <2>1
  <2>3. LengthsIn(t, k) \in SUBSET Nat
    BY DEF LengthsIn, IsAnswer, IsText
  <2>4. Min(LengthsIn(t, k)) \in LengthsIn(t, k)
    BY <2>2, <2>3, MinFacts
  <2>5. LengthOf(t) = t[Min(LengthsIn(t, k))][3]
    BY <1>2, <2>2 DEF LengthOf
  <2>. QED BY <2>4, <2>5 DEF IsAnswer
<1>. QED BY <1>1, <1>2

\* A part of an answer, parsed as the code does, is complete when it reaches the content's end.
LEMMA CompleteFirst ==
  ASSUME NEW t, IsAnswer(t), NEW n \in 0..Len(t), NEW m \in 0..n,
         HeaderEnd(First(t, m)) # 0,
         NEW pos, pos = HeaderEnd(First(t, n)), NEW length, length = LengthOf(First(t, m))
  PROVE  /\ Declares(t) => (Complete(First(t, n), pos, length) <=> n >= ContentEnd(t))
         /\ Undeclared(t) => Complete(First(t, n), pos, length)
<1>1. /\ n \in 0..Len(t) /\ m \in 0..Len(t) /\ n \in Nat /\ IsText(t) /\ Len(t) \in Nat
      /\ Len(First(t, n)) = n
  BY FirstFacts DEF IsAnswer, IsText
<1>2. HeaderEnd(t) = HeaderEnd(First(t, m)) /\ HeaderEnd(t) + 1 <= m /\ HeaderEnd(t) \in Nat
  BY <1>1, HeaderOfFirst, HeaderFacts
<1>3. HeaderEnd(t) + 1 <= n
  BY <1>1, <1>2
<1>4. pos = HeaderEnd(t)
  BY <1>1, <1>2, <1>3, HeaderOfFirst
<1>5. ASSUME Declares(t)
      PROVE  Complete(First(t, n), pos, length) <=> n >= ContentEnd(t)
  <2>1. length = LengthOf(t) /\ length \in Nat
    BY <1>1, <1>5, LengthOfFirst, LengthIsNumber
  <2>2. Complete(First(t, n), pos, length) <=> n - (pos + 1) >= length
    BY <1>1, <2>1 DEF Complete
  <2>3. ContentEnd(t) = pos + 1 + length
    BY <1>4, <2>1 DEF ContentEnd
  <2>. QED BY <1>1, <1>2, <1>4, <2>1, <2>2, <2>3
<1>6. ASSUME Undeclared(t) PROVE Complete(First(t, n), pos, length)
  <2>1. length = 0
    BY <1>1, <1>6, LengthOfFirst
  <2>. QED BY <1>1, <1>2, <1>3, <1>4, <2>1 DEF Complete
<1>. QED BY <1>5, <1>6

\* The length that a text declares is a number, and its content ends behind its header.
LEMMA AnswerLoop ==
  AnswerInv /\ IsAnswer(response) => AnswersWhole
<1> SUFFICES ASSUME AnswerInv, IsAnswer(response) PROVE AnswersWhole
  OBVIOUS
<1> DEFINE n == incoming.server
<1>1. /\ n \in 0..Len(response) /\ send_buf = First(response, n) /\ ParsedInv /\ LoopInv
      /\ IsText(response) /\ Len(response) \in Nat /\ n \in Nat
  BY DEF AnswerInv, IsAnswer, IsText
<1> HIDE DEF n
<1>2. Len(send_buf) = n
  BY <1>1, FirstFacts
<1>3. ASSUME content_pos # 0
      PROVE  /\ Declares(response) =>
                  (Complete(send_buf, content_pos, content_length) <=> n >= ContentEnd(response))
             /\ Undeclared(response) => Complete(send_buf, content_pos, content_length)
  <2>1. PICK m \in 0..n : /\ HeaderEnd(First(response, m)) # 0
                          /\ content_length = LengthOf(First(response, m))
    BY <1>1, <1>3 DEF ParsedInv, n
  <2>2. content_pos = HeaderEnd(First(response, n))
    BY <1>1 DEF ParsedInv
  <2>. QED BY <1>1, <2>1, <2>2, CompleteFirst
<1>4. ASSUME ppc = "answer", Declares(response) PROVE n < ContentEnd(response)
  <2>1. ContentEnd(response) \in Nat /\ ContentEnd(response) >= HeaderEnd(response) + 1
        /\ HeaderEnd(response) \in Nat
    BY <1>1, HeaderFacts, LengthIsNumber DEF ContentEnd
  <2>2. CASE content_pos # 0
    <3>1. ~(n >= ContentEnd(response))
      BY <1>1, <1>3, <1>4, <2>2 DEF LoopInv
    <3>. QED BY <1>1, <2>1, <3>1
  <2>3. CASE content_pos = 0
    <3>1. HeaderEnd(First(response, n)) = 0 /\ HeaderEnd(response) # 0
      BY <1>1, <1>4, <2>3 DEF ParsedInv, Declares
    <3>2. ~(HeaderEnd(response) + 1 <= n)
      BY <1>1, <3>1, HeaderOfFirst
    <3>. QED BY <1>1, <2>1, <3>2
  <2>. QED BY <2>2, <2>3
<1>5. ASSUME ppc = "answer", Undeclared(response) PROVE HeaderEnd(send_buf) = 0
  BY <1>1, <1>3, <1>5 DEF LoopInv, ParsedInv
<1>6. ASSUME ppc \in {"reply", "stuckReply"}, ~silent.server
      PROVE  HeaderEnd(send_buf) # 0 /\ (Declares(response) => n >= ContentEnd(response))
  <2>1. Complete(send_buf, content_pos, content_length)
    BY <1>1, <1>6 DEF LoopInv
  <2>2. content_pos # 0
    BY <1>1, <2>1 DEF ParsedInv, Complete
  <2>. QED BY <1>1, <1>3, <2>1, <2>2 DEF ParsedInv
<1>7. send_buf = SubSeq(response, 1, Len(send_buf))
  BY <1>1, <1>2 DEF First
<1>. QED BY <1>2, <1>4, <1>5, <1>6, <1>7 DEF AnswersWhole

\* The answer is neither cut nor waited for (AnswersWhole): for every answer and every way in
\* which it arrives, the loop ends when, and not before, the content that it declares is there.
THEOREM Whole == ASSUME AnswersOnly PROVE ProxySpec => []AnswersWhole
<1>1. ProxyInit => IsAnswer(response)
  <2>1. ASSUME NEW k PROVE LengthsIn(<<>>, k) = {}
    BY DEF LengthsIn
  <2>2. IsText(<<>>)
    BY DEF IsText
  <2>. QED BY <2>1, <2>2 DEF ProxyInit, IsAnswer
<1>2. RequestInv /\ IsAnswer(response) /\ [ProxyNext]_proxyVars => IsAnswer(response)'
  <2> SUFFICES ASSUME RequestInv, IsAnswer(response), [ProxyNext]_proxyVars PROVE IsAnswer(response')
    OBVIOUS
  <2>1. CASE Forward
    <3>1. response' = <<>> \/ (recv_buf # <<>> /\ response' \in Served(recv_buf))
      BY <2>1 DEF Forward
    <3>2. IsAnswer(<<>>)
      BY DEF IsAnswer, IsText, LengthsIn
    <3>3. IsText(recv_buf)
      BY SeqRange DEF RequestInv, Holds
    <3>. QED BY <3>1, <3>2, <3>3 DEF AnswersOnly
  <2>2. CASE UNCHANGED response
    BY <2>2
  <2>3. Forward \/ UNCHANGED response
    BY DEF ProxyNext, socket_worker, ClientSends, ClientCloses, ServerSends, ServerCloses,
           RecvRequest, RecvNothing, PeekMore, PeekNothing, ForwardFails, RecvAnswer, AnswerEnds,
           Reply, ReplyFails, ClientStops, ServerStops, Stops, peers, proxyVars
  <2>. QED BY <2>1, <2>2, <2>3
<1>. QED BY <1>1, <1>2, RequestInit, RequestStep, Answered, AnswerLoop, PTL DEF ProxySpec

-----------------------------------------------------------------------------
(* A page *)

LEMMA ThreeParts ==
  ASSUME NEW S, NEW a \in Seq(S), NEW b \in Seq(S), NEW c \in Seq(S), NEW t, t = a \o b \o c
  PROVE  /\ t \in Seq(S) /\ Len(t) = (Len(a) + Len(b)) + Len(c)
         /\ \A i \in 1..Len(a) : t[i] = a[i]
         /\ \A i \in 1..Len(b) : t[Len(a) + i] = b[i]
<1> DEFINE u == a \o b
<1>1. /\ u \in Seq(S) /\ Len(u) = Len(a) + Len(b)
      /\ \A i \in 1..(Len(a) + Len(b)) : u[i] = IF i <= Len(a) THEN a[i] ELSE b[i - Len(a)]
  BY ConcatProperties
<1>2. t = u \o c
  OBVIOUS
<1> HIDE DEF u
<1>3. u \o c \in Seq(S) /\ Len(u \o c) = Len(u) + Len(c)
  BY <1>1, ConcatProperties
<1>4. \A i \in 1..Len(u) : (u \o c)[i] = u[i]
  BY <1>1, ConcatProperties
<1>5. Len(a) \in Nat /\ Len(b) \in Nat
  OBVIOUS
<1>6. \A i \in 1..Len(a) : u[i] = a[i] /\ i \in 1..Len(u)
  BY <1>1, <1>5
<1>7. ASSUME NEW i \in 1..Len(b) PROVE u[Len(a) + i] = b[i] /\ Len(a) + i \in 1..Len(u)
  <2>1. /\ Len(a) + i \in 1..(Len(a) + Len(b)) /\ ~(Len(a) + i <= Len(a))
        /\ (Len(a) + i) - Len(a) = i
    BY <1>5
  <2>. QED BY <1>1, <2>1
<1>. QED BY <1>1, <1>2, <1>3, <1>4, <1>6, <1>7

\* The header of a page is seven pieces and says how long the page is.
LEMMA PageFacts ==
  ASSUME NEW page, IsText(page)
  PROVE  LET t == create_text("200", page, Len(page))
         IN  /\ IsText(t) /\ Len(page) \in Nat /\ Len(t) = Len(page) + 8
             /\ HeaderEnd(t) = 6 /\ Declares(t) /\ LengthOf(t) = Len(page)
             /\ SubSeq(t, 8, 7 + Len(page)) = page
<1> DEFINE n == Len(page)
           head == << <<"HTTP/1.1", "200">>, EOL, <<"fields">>, EOL, ContentLength(n), EOL, EOL>>
           t == head \o page \o <<LF>>
           S == Range(page) \cup Range(head) \cup {LF}
<1>1. n \in Nat /\ page \in Seq(S)
  BY SeqWider DEF IsText
<1>2. /\ head \in Seq(S) /\ Len(head) = 7
      /\ head[1] = <<"HTTP/1.1", "200">> /\ head[2] = EOL /\ head[3] = <<"fields">>
      /\ head[4] = EOL /\ head[5] = ContentLength(n) /\ head[6] = EOL /\ head[7] = EOL
  BY DEF Range
<1> HIDE DEF head, n
<1>3. <<LF>> \in Seq(S) /\ Len(<<LF>>) = 1 /\ Len(page) = n
  BY DEF n
<1> HIDE DEF S
<1>4. /\ t \in Seq(S) /\ Len(t) = n + 8
      /\ \A i \in 1..7 : t[i] = head[i]
      /\ \A i \in 1..n : t[7 + i] = page[i]
  <2>1. PICK v : v = <<LF>>
    OBVIOUS
  <2>2. head \in Seq(S) /\ page \in Seq(S) /\ v \in Seq(S)
    BY <1>1, <1>2, <1>3, <2>1
  <2>3. t = head \o page \o v
    BY <2>1
  <2> HIDE DEF t
  <2>4. /\ t \in Seq(S) /\ Len(t) = (Len(head) + Len(page)) + Len(v)
        /\ \A i \in 1..Len(head) : t[i] = head[i]
        /\ \A i \in 1..Len(page) : t[Len(head) + i] = page[i]
    BY <2>2, <2>3, ThreeParts
  <2>5. Len(head) = 7 /\ Len(page) = n /\ Len(v) = 1 /\ (7 + n) + 1 = n + 8
    BY <1>1, <1>2, <1>3, <2>1
  <2>. QED BY <2>4, <2>5
<1> HIDE DEF t
<1>5. IsText(t) /\ DOMAIN t = 1..(n + 8)
  BY <1>4, SeqRange
<1>12. /\ t[1] = <<"HTTP/1.1", "200">> /\ t[2] = EOL /\ t[3] = <<"fields">>
      /\ t[4] = EOL /\ t[5] = ContentLength(n) /\ t[6] = EOL /\ t[7] = EOL
  BY <1>2, <1>4
<1>6. HeaderEnd(t) = 6
  <2>1. EOL # <<"HTTP/1.1", "200">> /\ EOL # <<"fields">> /\ EOL # ContentLength(n)
    BY DEF EOL, ContentLength
  <2>2. 6 \in Ends(t)
    BY <1>1, <1>2, <1>4 DEF Ends
  <2>3. 1 \notin Ends(t) /\ 2 \notin Ends(t) /\ 3 \notin Ends(t) /\ 4 \notin Ends(t) /\ 5 \notin Ends(t)
    <3>1. 1 + 1 = 2 /\ 2 + 1 = 3 /\ 3 + 1 = 4 /\ 4 + 1 = 5
      OBVIOUS
    <3>. QED BY <1>12, <2>1, <3>1 DEF Ends
  <2>4. HeaderEnd(t) \in Ends(t) /\ HeaderEnd(t) <= 6
    <3>1. Len(t) \in Nat
      BY <1>1, <1>4
    <3>2. HeaderEnd(t) # 0
      BY <2>2, <3>1, HeaderFacts
    <3>. QED BY <2>2, <3>1, <3>2, HeaderFacts
  <2>5. HeaderEnd(t) \in 1..6
    <3>1. Ends(t) \subseteq 1..(n + 7)
      BY <1>1, <1>4 DEF Ends
    <3>. QED BY <1>1, <2>4, <3>1
  <2>. QED BY <2>3, <2>4, <2>5
<1>7. /\ 5 \in LengthsIn(t, 1) /\ \A i \in LengthsIn(t, 1) : 5 <= i
      /\ \A i \in LengthsIn(t, 1) : i \in Nat
  <2>1. 5 \in LengthsIn(t, 1)
    BY <1>1, <1>2, <1>4, <1>5 DEF LengthsIn, ContentLength
  <2>2. 1 \notin LengthsIn(t, 1) /\ 2 \notin LengthsIn(t, 1) /\ 3 \notin LengthsIn(t, 1)
        /\ 4 \notin LengthsIn(t, 1)
    BY <1>12 DEF LengthsIn, EOL
  <2>3. \A i \in LengthsIn(t, 1) : i \in 1..(n + 8)
    BY <1>5 DEF LengthsIn
  <2>. QED BY <1>1, <2>1, <2>2, <2>3
<1>8. LengthOf(t) = n
  <2>1. LengthOf(t) = t[5][3]
    BY <1>7, LengthIs
  <2>2. t[5] = <<"length", 1, n>>
    BY <1>12 DEF ContentLength
  <2>. QED BY <2>1, <2>2
<1>9. Declares(t)
  <2>1. 5 \in LengthsIn(First(t, 7), 1)
    <3>1. 7 \in 0..Len(t) /\ 5 <= 7
      BY <1>1, <1>4
    <3>2. LengthsIn(First(t, 7), 1) = {i \in LengthsIn(t, 1) : i <= 7}
      BY <1>5, <3>1, LengthsFacts
    <3>. QED BY <1>7, <3>1, <3>2
  <2>2. Header(t) = First(t, 7)
    BY <1>6 DEF Header, First
  <2>. QED BY <1>6, <2>1, <2>2 DEF Declares
<1>10. SubSeq(t, 8, 7 + n) = page
  <2> DEFINE q == SubSeq(t, 8, 7 + n)
  <2>1. q \in Seq(S) /\ Len(q) = n /\ \A i \in 1..n : q[i] = t[7 + i]
    BY <1>1, <1>4
  <2> HIDE DEF q
  <2>2. q = page
    BY <1>1, <1>4, <2>1, SeqEqual DEF n
  <2>. QED BY <2>2 DEF q
<1>11. t = create_text("200", page, n)
  BY DEF t, head, create_text
<1>. QED BY <1>1, <1>4, <1>5, <1>6, <1>8, <1>9, <1>10, <1>11 DEF n

\* A page of the site gets through the proxy whole (PageDelivered), whatever is in the page and
\* however the request and the answer are cut.
THEOREM Delivered == ProxySpec => []PageDelivered
<1>1. AnswerInv => PageDelivered
  <2> DEFINE url  == file_url(apart(request).URL)
             page == Site[url]
  <2> SUFFICES ASSUME AnswerInv, ppc = "closed", reply # <<>>, ~silent.server,
                      response = make_respose(request), apart(request).mean = <<"GET">>,
                      url \in DOMAIN Site
               PROVE  /\ HeaderEnd(reply) + 1 + LengthOf(reply) <= Len(reply)
                      /\ SubSeq(reply, HeaderEnd(reply) + 2,
                                HeaderEnd(reply) + 1 + LengthOf(reply)) = page
    BY DEF PageDelivered
  <2>1. IsText(page) /\ response = create_text("200", page, Len(page))
    BY HttpTextAssumption DEF make_respose, get_respose
  <2> DEFINE n == Len(page)
             k == incoming.server
  <2> HIDE DEF url, page
  <2>2. /\ IsText(response) /\ n \in Nat /\ Len(response) = n + 8
        /\ HeaderEnd(response) = 6 /\ Declares(response) /\ LengthOf(response) = n
        /\ SubSeq(response, 8, 7 + n) = page
    BY <2>1, PageFacts
  <2>3. /\ k \in 0..Len(response) /\ reply = First(response, k) /\ send_buf = reply
        /\ ParsedInv /\ Complete(reply, content_pos, content_length)
    BY <2>2 DEF AnswerInv, LoopInv
  <2> HIDE DEF n, k
  <2>4. content_pos # 0
    BY <2>3 DEF ParsedInv, Complete
  <2>5. PICK m \in 0..k : /\ HeaderEnd(First(response, m)) # 0
                          /\ content_length = LengthOf(First(response, m))
    BY <2>3, <2>4 DEF ParsedInv, k
  <2>6. content_length = n /\ LengthOf(reply) = n /\ HeaderEnd(reply) = 6
    <3>1. m \in 0..Len(response) /\ HeaderEnd(reply) # 0
      BY <2>2, <2>3, <2>4, <2>5 DEF ParsedInv
    <3>. QED BY <2>2, <2>3, <2>5, <3>1, LengthOfFirst, HeaderOfFirst
  <2>7. Len(reply) = k /\ k \in Nat /\ k - 7 >= n
    BY <2>2, <2>3, <2>6, FirstFacts DEF Complete, ParsedInv
  <2>8. 6 + 1 + n = 7 + n /\ 6 + 2 = 8
    BY <2>2
  <2>9. SubSeq(reply, 8, 7 + n) = SubSeq(response, 8, 7 + n)
    <3> DEFINE p == SubSeq(reply, 8, 7 + n)
               q == SubSeq(response, 8, 7 + n)
    <3>1. /\ reply \in Seq(Range(response)) /\ response \in Seq(Range(response))
          /\ \A i \in 1..k : reply[i] = response[i]
      BY <2>2, <2>3, FirstFacts DEF First, IsText
    <3>2. /\ p \in Seq(Range(response)) /\ Len(p) = n /\ \A i \in 1..n : p[i] = reply[7 + i]
          /\ q \in Seq(Range(response)) /\ Len(q) = n /\ \A i \in 1..n : q[i] = response[7 + i]
      BY <2>2, <2>7, <3>1
    <3>3. \A i \in 1..n : 7 + i \in 1..k
      BY <2>2, <2>7
    <3> HIDE DEF p, q
    <3>4. \A i \in 1..n : p[i] = q[i]
      BY <3>1, <3>2, <3>3
    <3>5. p = q
      BY <3>2, <3>4, SeqEqual
    <3>. QED BY <3>5 DEF p, q
  <2>10. 7 + n <= Len(reply)
    BY <2>2, <2>7
  <2>. QED BY <2>2, <2>6, <2>8, <2>9, <2>10
<1>. QED BY <1>1, Answered, PTL
=============================================================================
