------------------------------ MODULE HttpText ------------------------------
(***************************************************************************)
(* Lab2: requests and answers as text (sockethandle.cpp).  A text is a     *)
(* sequence of pieces, each a tuple: the end of a line, a word of the      *)
(* request line (the path is one word, <<"/", ...>>), a length header      *)
(* <<"length", k, n>> in the kth spelling that the proxy looks for, a      *)
(* form <<"form", <<key, value>>, ...>>, anything else.  The other fields  *)
(* of a header are one piece.  The length of a text is its number of       *)
(* pieces.                                                                 *)
(***************************************************************************)
EXTENDS Integers, Sequences, FiniteSetsExt, SequencesExt

CONSTANTS Site,   \* the files: from paths to what is in them
          Dotted  \* the names with a dot

IsText(text) == text \in Seq(Range(text))

\* 404.html is kept beside the program.
ASSUME HttpTextAssumption ==
  <<"/", "404.html">> \in DOMAIN Site /\ \A url \in DOMAIN Site : IsText(Site[url])

EOL == <<"CRLF">>
LF  == <<"LF">>
ContentLength(n) == <<"length", 1, n>>

-----------------------------------------------------------------------------
(* apart *)

\* Where the lines that are not empty begin, and what is in one.
LineStarts(src) == {k \in DOMAIN src : src[k] # EOL /\ (k = 1 \/ src[k - 1] = EOL)}
LineAt(src, k) ==
  SubSeq(src, k, Min({i \in k..Len(src) : i = Len(src) \/ src[i + 1] = EOL}))

\* table[0] and the three words of it are read whether they are there or not.
ApartDefined(src) ==
  LineStarts(src) # {} /\ Len(LineAt(src, Min(LineStarts(src)))) >= 3

\* The body is the last line, even if it is one of the header.
apart(src) ==
  LET request_line == LineAt(src, Min(LineStarts(src)))
  IN  [mean |-> request_line[1], URL |-> request_line[2],
       body |-> LineAt(src, Max(LineStarts(src)))]

-----------------------------------------------------------------------------
(* The answers *)

create_text(state, body, length) ==
  << <<"HTTP/1.1", state>>, EOL, <<"fields">>, EOL, ContentLength(length), EOL, EOL>>
    \o body \o <<LF>>

\* A path without a dot is a directory.  (The leading "." is left out, here and in Site.)
file_url(URL) ==
  IF URL = <<"/">> THEN <<"/", "index.html">>
  ELSE IF Range(URL) \cap Dotted = {} THEN Append(URL, "index.html") ELSE URL

\* Mutant: the length counts the line feed that create_text appends.
get_resposeLong(hc) ==
  LET url == file_url(hc.URL)
  IN  IF url \in DOMAIN Site THEN create_text("200", Site[url], Len(Site[url]) + 1)
      ELSE create_text("404", << <<"no file">>, url>>, 2)

get_respose(hc) ==
  LET url == file_url(hc.URL)
  IN  IF url \in DOMAIN Site THEN create_text("200", Site[url], Len(Site[url]))
      ELSE create_text("404", << <<"no file">>, url>>, 2)

\* Name= somewhere and ID= in a later field; the values are those of the first two fields.
Forms(body) ==
  {f \in Range(body) : /\ f[1] = "form"
                       /\ \E k \in 2..Len(f) : f[k][1] = "Name"
                       /\ \E k \in 3..Len(f) : f[k][1] = "ID"}
find_name(body) == Forms(body) # {}

post_respose(form) == create_text("200", << <<"name", form[2][2]>>, <<"ID", form[3][2]>> >>, 2)

\* This header ends in a line feed and an empty line, not in two line ends.
no_found_respose ==
  LET page == Site[<<"/", "404.html">>]
  IN  << <<"HTTP/1.1", "404">>, EOL, <<"fields">>, ContentLength(Len(page)), LF, EOL>> \o page

not_implemented(hc) == create_text("501", << <<"no method">>, hc.mean, LF>>, 2)

make_respose(src) ==
  LET hc == apart(src)
  IN  IF hc.mean = <<"GET">> THEN get_respose(hc)
      ELSE IF hc.mean = <<"POST">>
           THEN IF hc.URL = <<"/", "Post_show">> /\ find_name(hc.body)
                THEN post_respose(CHOOSE f \in Forms(hc.body) : TRUE) ELSE no_found_respose
           ELSE not_implemented(hc)
=============================================================================
