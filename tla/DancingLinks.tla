---------------------------- MODULE DancingLinks ----------------------------
(***************************************************************************)
(* Lab1: the solver of one puzzle (solver.cpp), Knuth's dancing links.     *)
(* Every constraint that is still open is a column, every value that may   *)
(* go into a blank cell a row of four nodes; covering a column takes it,   *)
(* and the rows through it, out of the circular lists, uncovering puts     *)
(* them back by the pointers that the nodes have kept.                     *)
(*                                                                         *)
(* A node is named by what it stands for: a column <<"cell", i, 0>>,       *)
(* <<"row", r, v>> and so on, a node <<"row", <<i, v>>>> of the row for    *)
(* value v in cell i.  Pointers are functions on nodes.  A board of Side x *)
(* Side cells stands for the 9 x 9 of the code.                            *)
(***************************************************************************)
EXTENDS Integers, Sequences, FiniteSets, SequencesExt, Functions

CONSTANTS BoxSide, \* 3
          Boards,  \* [Cells -> 0..Side], 0 for a blank: what the files hold
          Grids    \* the solved boards that there are

Side  == BoxSide * BoxSide
Vals  == 1..Side
Cells == 0..(Side * Side - 1)
Units == 0..(Side - 1)
Kinds == {"row", "col", "box"}

Row(i) == i \div Side
Col(i) == i % Side
Box(i) == (Row(i) \div BoxSide) * BoxSide + Col(i) \div BoxSide
UnitOf(kind, i) == CASE kind = "row" -> Row(i) [] kind = "col" -> Col(i) [] kind = "box" -> Box(i)

\* What a solution is, without lists.
Lines == {{i \in Cells : UnitOf(kind, i) = k} : kind \in Kinds, k \in Units}
Solution(g) == \A l \in Lines : {g[i] : i \in l} = Vals

ASSUME DancingLinksAssumption ==
  /\ BoxSide \in Nat \ {0}
  /\ \A b \in Boards : b \in [Cells -> 0..Side]
  /\ \A g \in Grids : g \in [Cells -> Vals] /\ Solution(g)

VARIABLES board,    \* problem, as it was given
          inout_,
          links,    \* left, right, up, down and size
          loop,     \* i and v of the constructor's loops
          built,    \* history: the links when it is done
          stack_,
          frames,   \* the calls of solve that have not returned: col and row of each
          dpc, found

dlVars == <<board, inout_, links, loop, built, stack_, frames, dpc, found>>

-----------------------------------------------------------------------------
(* Dance::Dance: the columns and rows of a board *)

Root == <<"root">>

\* rows, cols and boxes
Given(b, kind, k, v) == \E i \in Cells : b[i] = v /\ UnitOf(kind, i) = k

\* A blank cell is a column, and so is a row, column or box for each value that it lacks.
ColumnSet(b) ==
  {<<"cell", i, 0>> : i \in {i \in Cells : b[i] = 0}}
    \cup {c \in Kinds \X Units \X Vals : ~Given(b, c[1], c[2], c[3])}

\* The values that the blank cells may have.
OptionSet(b) ==
  {o \in Cells \X Vals : b[o[1]] = 0 /\ \A kind \in Kinds : ~Given(b, kind, UnitOf(kind, o[1]), o[2])}

\* Node::col of a node, and the four nodes of a row in the order put_left leaves them in.
ColumnOf(n) ==
  LET o == n[2]
  IN  IF n[1] = "cell" THEN <<"cell", o[1], 0>> ELSE <<n[1], UnitOf(n[1], o[1]), o[2]>>

Nodes(o) == << <<"cell", o>>, <<"row", o>>, <<"col", o>>, <<"box", o>> >>

\* put_left and put_up insert a node before old in its circular lists.
put_left(L, old, nnew) ==
  [L EXCEPT !.left[nnew] = L.left[old], !.right[nnew] = old,
            !.right[L.left[old]] = nnew, !.left[old] = nnew]

put_up(L, old, nnew) ==
  [L EXCEPT !.up[nnew] = L.up[old], !.down[nnew] = old,
            !.down[L.up[old]] = nnew, !.up[old] = nnew, !.size[old] = @ + 1]

\* f, and x at n.
Extend(f, n, x) == [m \in DOMAIN f \cup {n} |-> IF m = n THEN x ELSE f[m]]

\* A new node is a list of its own.
new_node(L, n) ==
  [L EXCEPT !.left = Extend(@, n, n), !.right = Extend(@, n, n),
            !.up = Extend(@, n, n), !.down = Extend(@, n, n)]

append_column(L, c) ==
  put_left([new_node(L, c) EXCEPT !.size = Extend(@, c, 0)], Root, c)

new_row(L, n) == put_up(new_node(L, n), ColumnOf(n), n)

append_row(L, o) ==
  LET n == Nodes(o)
      R == new_row(new_row(new_row(new_row(L, n[1]), n[2]), n[3]), n[4])
  IN  put_left(put_left(put_left(R, n[1], n[2]), n[1], n[3]), n[1], n[4])

Empty ==
  LET alone == [n \in {Root} |-> Root]
  IN  [left |-> alone, right |-> alone, up |-> alone, down |-> alone, size |-> [n \in {Root} |-> 0]]

-----------------------------------------------------------------------------
(* cover, uncover, get_min_column *)

\* The nodes that a loop along next from n visits, until it is back at n.  The loops of cover
\* and uncover change no pointer that they follow.
Walk(next, n) ==
  LET at[k \in Nat] == IF k = 0 THEN n ELSE next[at[k - 1]]
      back == CHOOSE k \in 1..Cardinality(DOMAIN next) :
                at[k] = n /\ \A j \in 1..(k - 1) : at[j] # n
  IN  [k \in 1..(back - 1) |-> at[k]]

Detach(L, j) ==
  [L EXCEPT !.up[L.down[j]] = L.up[j], !.down[L.up[j]] = L.down[j], !.size[ColumnOf(j)] = @ - 1]

\* Mutant: the size is not restored.
AttachUncounted(L, j) == [L EXCEPT !.up[L.down[j]] = j, !.down[L.up[j]] = j]

Attach(L, j) ==
  [L EXCEPT !.up[L.down[j]] = j, !.down[L.up[j]] = j, !.size[ColumnOf(j)] = @ + 1]

\* The inner loops, along a row.
DetachRow(L, i) == FoldLeft(Detach, L, Walk(L.right, i))
AttachRow(L, i) == FoldLeft(Attach, L, Walk(L.left, i))

cover(L, c) ==
  FoldLeft(DetachRow,
           [L EXCEPT !.left[L.right[c]] = L.left[c], !.right[L.left[c]] = L.right[c]],
           Walk(L.down, c))

\* Mutant: the column header is not put back.
uncoverRowsOnly(L, c) == FoldLeft(AttachRow, L, Walk(L.up, c))

uncover(L, c) ==
  LET rows == FoldLeft(AttachRow, L, Walk(L.up, c))
  IN  [rows EXCEPT !.left[L.right[c]] = c, !.right[L.left[c]] = c]

\* The loops of solve that do so with the columns of the nodes ns.
coverCol(L, n)   == cover(L, ColumnOf(n))
uncoverCol(L, n) == uncover(L, ColumnOf(n))
coverAll(L, ns)   == FoldLeft(coverCol, L, ns)
uncoverAll(L, ns) == FoldLeft(uncoverCol, L, ns)

\* The first column with at most one row; if there is none, the first of the smallest.
get_min_column(L) ==
  LET cs    == Walk(L.right, Root)
      short == SelectInSeq(cs, LAMBDA c : L.size[c] <= 1)
      least == SelectInSeq(cs, LAMBDA c : \A d \in Range(cs) : L.size[c] <= L.size[d])
  IN  cs[IF short # 0 THEN short ELSE least]

-----------------------------------------------------------------------------
(* solve *)

DlInit ==
  /\ board \in Boards /\ inout_ = board
  /\ links = Empty /\ built = Empty /\ loop = [i |-> 0, v |-> 1]
  /\ stack_ = <<>> /\ frames = <<>> /\ dpc = "cells" /\ found = FALSE

\* The constructor: a column for each blank cell.
AppendCell ==
  /\ dpc = "cells" /\ loop.i < Side * Side
  /\ links' = (IF board[loop.i] = 0 THEN append_column(links, <<"cell", loop.i, 0>>) ELSE links)
  /\ loop' = [loop EXCEPT !.i = @ + 1]
  /\ UNCHANGED <<board, inout_, built, stack_, frames, dpc, found>>

CellsDone ==
  /\ dpc = "cells" /\ loop.i = Side * Side
  /\ dpc' = "units" /\ loop' = [i |-> 0, v |-> 1]
  /\ UNCHANGED <<board, inout_, links, built, stack_, frames, found>>

\* The next turn of the inner loop, or of the outer one.
NextTurn ==
  loop' = IF loop.v < Side THEN [loop EXCEPT !.v = @ + 1] ELSE [i |-> loop.i + 1, v |-> 1]

\* Then those of the rows, columns and boxes that lack a value.
append_lacking(L, kind) ==
  IF Given(board, kind, loop.i, loop.v) THEN L ELSE append_column(L, <<kind, loop.i, loop.v>>)

AppendUnit ==
  /\ dpc = "units" /\ loop.i < Side
  /\ links' = append_lacking(append_lacking(append_lacking(links, "row"), "col"), "box")
  /\ NextTurn
  /\ UNCHANGED <<board, inout_, built, stack_, frames, dpc, found>>

UnitsDone ==
  /\ dpc = "units" /\ loop.i = Side
  /\ dpc' = "rows" /\ loop' = [i |-> 0, v |-> 1]
  /\ UNCHANGED <<board, inout_, links, built, stack_, frames, found>>

\* Then the rows.
AppendRow ==
  /\ dpc = "rows" /\ loop.i < Side * Side
  /\ LET o == <<loop.i, loop.v>>
     IN  links' = (IF o \in OptionSet(board) THEN append_row(links, o) ELSE links)
  /\ NextTurn
  /\ UNCHANGED <<board, inout_, built, stack_, frames, dpc, found>>

RowsDone ==
  /\ dpc = "rows" /\ loop.i = Side * Side
  /\ dpc' = "solve" /\ built' = links
  /\ UNCHANGED <<board, inout_, links, loop, stack_, frames, found>>

top == frames[Len(frames)]

\* Mutant: the values are taken from the rows of one level up.
FillShifted(rows) ==
  [i \in Cells |-> IF \E k \in 2..Len(rows) : rows[k][2][1] = i
                   THEN rows[(CHOOSE k \in 2..Len(rows) : rows[k][2][1] = i) - 1][2][2] ELSE inout_[i]]

\* Every row of the stack names a cell and its value.
Fill(rows) ==
  [i \in Cells |-> IF \E k \in DOMAIN rows : rows[k][2][1] = i
                   THEN rows[CHOOSE k \in DOMAIN rows : rows[k][2][1] = i][2][2] ELSE inout_[i]]

\* No column is left: the answer is written and every call returns true.
Solve ==
  /\ dpc = "solve" /\ links.left[Root] = Root
  /\ inout_' = Fill(stack_)
  /\ found' = TRUE /\ dpc' = "done"
  /\ UNCHANGED <<board, links, loop, built, stack_, frames>>

\* solve chooses a column and begins with its first row.
Choose ==
  /\ dpc = "solve" /\ links.left[Root] # Root
  /\ LET col == get_min_column(links)
     IN  /\ links' = cover(links, col)
         /\ frames' = Append(frames, [col |-> col, row |-> links'.down[col]])
  /\ dpc' = "try"
  /\ UNCHANGED <<board, loop, built, inout_, stack_, found>>

\* A row is tried: the other columns it meets are covered and solve is called.
TryRow ==
  /\ dpc = "try" /\ top.row # top.col
  /\ stack_' = Append(stack_, top.row)
  /\ links' = coverAll(links, Walk(links.right, top.row))
  /\ dpc' = "solve"
  /\ UNCHANGED <<board, loop, built, inout_, frames, found>>

\* Mutant: the next row is the same again.
NextRowSame ==
  /\ dpc = "back"
  /\ stack_' = Front(stack_)
  /\ links' = uncoverAll(links, Walk(links.left, top.row))
  /\ dpc' = "try"
  /\ UNCHANGED <<board, loop, built, inout_, frames, found>>

\* It did not work out.
NextRow ==
  /\ dpc = "back"
  /\ stack_' = Front(stack_)
  /\ links' = uncoverAll(links, Walk(links.left, top.row))
  /\ frames' = [frames EXCEPT ![Len(frames)].row = links'.down[top.row]]
  /\ dpc' = "try"
  /\ UNCHANGED <<board, loop, built, inout_, found>>

\* No row is left: this call returns false to the one before.
Fail ==
  /\ dpc = "try" /\ top.row = top.col
  /\ links' = uncover(links, top.col)
  /\ frames' = Front(frames)
  /\ dpc' = (IF Len(frames) = 1 THEN "done" ELSE "back")
  /\ UNCHANGED <<board, loop, built, inout_, stack_, found>>

DlNext ==
  \/ AppendCell \/ CellsDone \/ AppendUnit \/ UnitsDone \/ AppendRow \/ RowsDone
  \/ Solve \/ Choose \/ TryRow \/ NextRow \/ Fail

\* Nothing else runs: while the solver can go on, which is until it is done, it does.  (This
\* is weak fairness of DlNext, without the ENABLED that makes TLC evaluate a step many times.)
DlFairness == []<>(dpc = "done") \/ []<><<TRUE>>_dlVars

DlSpec == DlInit /\ [][DlNext]_dlVars /\ DlFairness

-----------------------------------------------------------------------------
\* The columns that the rows of the nodes rs meet.
Meets(o) == {ColumnOf(n) : n \in Range(Nodes(o))}
Met(rs) == UNION {Meets(rs[k][2]) : k \in DOMAIN rs}

\* Whenever solve is called, however many rows were tried and taken back before, the lists
\* are exactly the part of the matrix that the rows of the stack leave open: the columns these
\* do not meet, under each the nodes of the rows that meet none of theirs; the lists are the
\* same in both directions, and the sizes are the lengths of the columns.
Submatrix ==
  dpc = "solve" =>
    LET met   == Met(stack_)
        nodes == UNION {Range(Nodes(o)) : o \in {o \in OptionSet(board) : Meets(o) \cap met = {}}}
        heads == Walk(links.right, Root)
    IN  /\ Range(heads) = ColumnSet(board) \ met
        /\ Reverse(heads) = Walk(links.left, Root)
        /\ \A c \in Range(heads) :
             LET ns == Walk(links.down, c)
             IN  /\ Range(ns) = {n \in nodes : ColumnOf(n) = c}
                 /\ Reverse(ns) = Walk(links.up, c)
                 /\ links.size[c] = Len(ns)

\* A search that fails leaves every pointer as it was, those of hidden nodes too.
Restored == dpc = "done" /\ ~found => links = built /\ stack_ = <<>>

Agrees(g) == \A i \in Cells : board[i] \in {0, g[i]}

\* The answer is a solution of the puzzle; if the solver gives up there is none, and the puzzle
\* is printed as it was given.
Solves ==
  dpc = "done" => IF found THEN Agrees(inout_) /\ Solution(inout_)
                  ELSE inout_ = board /\ ~\E g \in Grids : Agrees(g)

\* The search ends, however often it goes back.
SolverEnds == dpc = "solve" ~> dpc = "done"
=============================================================================
