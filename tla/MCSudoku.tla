------------------------------ MODULE MCSudoku ------------------------------
(***************************************************************************)
(* Small files for Sudoku.                                                 *)
(***************************************************************************)
EXTENDS Sudoku, TLC

File(ls, n) == [lines |-> ls, nl |-> n]

Letters == {"a", "b", "c", "d", "e", "f", "g", "h", "i", "j"}

Small == {File(<<>>, TRUE)} \cup
         [lines : {<<"a">>, <<"b", "c">>, <<"d", "e", "f">>, <<"g", "h", "i", "j">>},
          nl : BOOLEAN]

ReadableFiles == {f \in Small : Readable(f)}
LoneLine      == {File(<<"a">>, FALSE)}
=============================================================================
