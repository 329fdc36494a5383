-------------------------------- MODULE Resp --------------------------------
(***************************************************************************)
(* The text of T6DB (Lab3): the RESP messages of parser.cc, the text form  *)
(* of a log record (logger.cc), the map of kv.cc, and eventParser, which   *)
(* turns one into the other (participant.cc).                              *)
(*                                                                         *)
(* A text is a sequence of bytes.  A byte that is framing or a digit is    *)
(* itself; the fixed words "+OK", "-ERROR", "PRE", "nil", "TXID: " and     *)
(* "S: ", which nothing is ever cut out of, are one byte each.  Numbers    *)
(* are written in Base, so that small lengths have more than one digit.    *)
(***************************************************************************)
EXTENDS Integers, Sequences, FiniteSets, SequencesExt, Functions, TLC

CONSTANT Base \* of the numbers in texts; 10 in the code

ASSUME RespAssumption == Base \in 2..10

CRLF == <<"CR", "LF">>
Digit == [d \in 0..(Base - 1) |-> ToString(d)]
Digits == Range(Digit)
ValueOf(b) == CHOOSE d \in DOMAIN Digit : Digit[d] = b

to_string[n \in Nat] ==
  IF n < Base THEN <<Digit[n]>> ELSE Append(to_string[n \div Base], Digit[n % Base])

\* The end of a text from its i-th byte on; the place of the first pat in it, 0 if none.
From(s, i) == SubSeq(s, i, Len(s))

Find(pat, s) ==
  LET at == {i \in 1..(Len(s) - Len(pat) + 1) : SubSeq(s, i, i + Len(pat) - 1) = pat}
  IN  IF at = {} THEN 0 ELSE CHOOSE i \in at : \A j \in at : i <= j

\* The number in the digits a text begins with; 0 if there are none.
atoi(s) ==
  LET stop == SelectInSeq(s, LAMBDA b : b \notin Digits)
      ds   == IF stop = 0 THEN s ELSE SubSeq(s, 1, stop - 1)
  IN  FoldLeft(LAMBDA n, b : n * Base + ValueOf(b), 0, ds)

-----------------------------------------------------------------------------
(* parser.cc *)

getStringMessage(raw) == <<"$">> \o to_string[Len(raw)] \o CRLF \o raw \o CRLF
getSuccessMessage     == <<"+OK">> \o CRLF
getErrorMessage       == <<"-ERROR">> \o CRLF
getIntergerMessage(n) == <<":">> \o to_string[n] \o CRLF
getRESPArry(words) ==
  <<"*">> \o to_string[Len(words)] \o CRLF
    \o FlattenSeq([i \in DOMAIN words |-> getStringMessage(words[i])])

\* Mutant: the place of the content is computed for numbers of one digit.
parseStringMessageShort(m) ==
  LET strl == atoi(Tail(m))
      pos  == 4
  IN  [str |-> SubSeq(m, pos + 1, pos + strl), length |-> pos + strl + 2]

\* Where the content begins follows from the digits of its own length; the two bytes after
\* it are skipped unread.
parseStringMessage(m) ==
  LET strl == atoi(Tail(m))
      pos  == 3 + Len(to_string[strl])
  IN  [str |-> SubSeq(m, pos + 1, pos + strl), length |-> pos + strl + 2]

parserRESPArry(m) ==
  LET number == atoi(Tail(m))
      Word(got, i) == LET s == parseStringMessage(From(m, got.pos + 1))
                       IN  [rc |-> Append(got.rc, s.str), pos |-> got.pos + s.length]
  IN  FoldLeft(Word, [rc |-> <<>>, pos |-> Len(to_string[number]) + 3],
               [i \in 1..number |-> i]).rc

-----------------------------------------------------------------------------
(* logger.cc *)

logToStr(l) ==
  <<"TXID: ">> \o to_string[l.ID] \o CRLF \o <<"S: ">> \o to_string[l.state] \o CRLF \o CRLF
    \o l.event

\* The first "TXID: ", the first "S: " and the line ends after them; the event is what
\* follows the empty line, whatever it contains.
strToLog(s) ==
  LET eol  == Find(CRLF, s)
      rest == From(s, eol + 2)
      end  == Find(CRLF, rest)
  IN  [ID    |-> atoi(SubSeq(s, Find(<<"TXID: ">>, s) + 1, eol - 1)),
       state |-> atoi(SubSeq(rest, Find(<<"S: ">>, rest) + 1, end - 1)),
       event |-> From(rest, end + 4)]

-----------------------------------------------------------------------------
(* kv.cc: a database is a function from the keys that are present to their values. *)

kvSET(db, k, v) == (k :> v) @@ db

\* Every key that is there is counted and erased, a second time it is not there any more.
kvDELArry(db, ks) ==
  LET gone == Range(ks) \cap DOMAIN db
  IN  [db |-> Restrict(db, DOMAIN db \ gone), number |-> Cardinality(gone)]

kvGET(db, k) == IF k \in DOMAIN db THEN db[k] ELSE <<"nil">>

-----------------------------------------------------------------------------
(* participant.cc: the database and the answer after an event.  A command is told by the
   first letter of its name alone. *)

Outcome(db, rstr) == [db |-> db, rstr |-> rstr]

Deleted(d) == Outcome(d.db, getIntergerMessage(d.number))

execute(db, comds) ==
  IF comds = <<>> \/ comds[1] = <<>> THEN Outcome(db, getErrorMessage)
  ELSE CASE comds[1][1] = "D" -> Deleted(kvDELArry(db, Tail(comds)))
         [] comds[1][1] = "S" /\ Len(comds) = 3 ->
              Outcome(kvSET(db, comds[2], comds[3]), getSuccessMessage)
         [] comds[1][1] = "G" /\ Len(comds) = 2 ->
              Outcome(db, getRESPArry(<<kvGET(db, comds[2])>>))
         [] comds[1][1] = "P" -> Outcome(db, <<"PRE">>)
         [] OTHER -> Outcome(db, getErrorMessage)

eventParser(db, event) == execute(db, parserRESPArry(event))
=============================================================================
