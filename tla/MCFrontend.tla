----------------------------- MODULE MCFrontend -----------------------------
(***************************************************************************)
(* Two clients and small requests: one of each kind, a value that looks    *)
(* like framing and whose length has two digits, a SET without a value,    *)
(* and a DEL whose second length line has a letter.                        *)
(***************************************************************************)
EXTENDS Frontend

CONSTANTS f1, f2

Whole(cmd) == [cmd |-> cmd, bytes |-> getRESPArry(cmd), ok |-> TRUE]

SetA == <<SET, <<"a">>, <<"$", "CR">> >>
DelAB == <<DEL, <<"a">>, <<"b">> >>
GetA == <<GET, <<"a">> >>
SetHalf == <<SET, <<"a">> >>

BadDel == [cmd   |-> DelAB,
           bytes |-> Append(SubSeq(getRESPArry(DelAB), 1, Len(getRESPArry(DelAB)) - 6), "x"),
           ok    |-> FALSE]

SomeRequests == {Whole(SetA), Whole(GetA), Whole(DelAB), Whole(SetHalf), BadDel}
=============================================================================
