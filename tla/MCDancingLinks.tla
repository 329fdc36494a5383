--------------------------- MODULE MCDancingLinks ---------------------------
(***************************************************************************)
(* Boards of 4 x 4: four on which the solver takes a row back and then     *)
(* finds the answer, four without an answer (on the first it takes three   *)
(* rows back), a blank one with many answers, a solved one and one that    *)
(* has every cell and breaks the rules.                                    *)
(***************************************************************************)
EXTENDS DancingLinks

Written == {
  <<0, 1, 3, 0,  3, 0, 0, 0,  1, 0, 2, 0,  0, 0, 0, 0>>,
  <<0, 2, 1, 0,  0, 0, 0, 2,  0, 0, 0, 0,  0, 4, 0, 1>>,
  <<0, 4, 0, 0,  3, 0, 0, 4,  0, 3, 0, 2,  0, 0, 0, 0>>,
  <<0, 0, 1, 0,  0, 0, 0, 2,  0, 0, 0, 0,  4, 0, 0, 1>>,
  <<0, 0, 1, 1,  0, 0, 0, 0,  0, 0, 0, 0,  0, 0, 1, 0>>,
  <<0, 0, 0, 0,  0, 0, 0, 0,  0, 3, 0, 3,  0, 3, 0, 0>>,
  <<1, 2, 3, 0,  0, 0, 0, 4,  0, 0, 0, 0,  0, 0, 0, 0>>,
  <<1, 0, 0, 0,  0, 0, 1, 0,  0, 0, 0, 2,  0, 1, 0, 3>>,
  <<0, 0, 0, 0,  0, 0, 0, 0,  0, 0, 0, 0,  0, 0, 0, 0>>,
  <<1, 2, 3, 4,  3, 4, 1, 2,  2, 1, 4, 3,  4, 3, 2, 1>>,
  <<1, 2, 3, 4,  3, 4, 1, 2,  1, 2, 3, 4,  3, 4, 1, 2>>}

SmallBoards == {[i \in Cells |-> s[i + 1]] : s \in Written}

\* The solved boards of 4 x 4: four rows, each a permutation, such that columns and boxes are
\* permutations too.
Perms == {p \in [0..3 -> 1..4] : Range(p) = 1..4}

Halves == {h \in Perms \X Perms : \A s \in {{0, 1}, {2, 3}} :
             {h[1][k] : k \in s} \cap {h[2][k] : k \in s} = {}}

SolvedBoards ==
  {[i \in Cells |-> (<<q[1][1], q[1][2], q[2][1], q[2][2]>>[Row(i) + 1])[Col(i)]] :
     q \in {q \in Halves \X Halves :
              \A k \in 0..3 : {q[1][1][k], q[1][2][k], q[2][1][k], q[2][2][k]} = 1..4}}
=============================================================================
