------------------------------ MODULE MCProxy ------------------------------
(***************************************************************************)
(* Requests for a page in which there are an empty line and a length, and  *)
(* of the methods POST and PUT, one with a byte 0 in its body.  The        *)
(* proxied server is this same program or one whose answers have a body,   *)
(* none, a length in a spelling that the proxy does not know, no length,   *)
(* one in the body only, one in the header and another in the body.  The   *)
(* buffer is as long as a request line.                                    *)
(***************************************************************************)
EXTENDS Proxy

SomeSite == (<<"/", "index.html">> :> <<EOL, EOL, ContentLength(0)>>)
              @@ (<<"/", "404.html">> :> << <<"x">> >>)
SomeDotted == {"index.html", "404.html", "a.html"}

RequestLine(mean, URL) == << <<mean>>, URL, <<"HTTP/1.1">>, EOL>>
PostForm == << <<"form", <<"Name", "n">>, <<"ID", "7">> >> >>

SomeRequested ==
  {RequestLine("GET", <<"/">>) \o << <<"fields">>, EOL, EOL>>,
   RequestLine("GET", <<"/", "a.html">>) \o <<EOL>>,
   RequestLine("PUT", <<"/">>) \o <<EOL>>,
   RequestLine("POST", <<"/", "Post_show">>) \o <<EOL>> \o PostForm,
   RequestLine("POST", <<"/">>) \o <<EOL>> \o PostForm,
   RequestLine("POST", <<"/">>) \o <<EOL, Nul>> \o PostForm}

LengthHeader(k, n) == << <<"status">>, EOL, <<"length", k, n>>, EOL, EOL>>

Foreign ==
  { LengthHeader(2, 2) \o << <<"x">>, <<"y">> >>, LengthHeader(4, 0), LengthHeader(5, 1) \o << <<"x">> >>,
    << <<"status">>, EOL, EOL, <<"x">> >>,
    << <<"status">>, EOL, EOL, <<"length", 2, 1>>, <<"x">> >>,
    LengthHeader(2, 2) \o << <<"length", 1, 1>>, <<"y">> >> }

\* To PUT the answers of other programs are given too.  A request that apart cannot take apart
\* makes the program end or answer anything.
SomeServed(src) ==
  (IF src[1] = <<"PUT">> THEN Foreign ELSE {})
    \cup (IF ApartDefined(src) THEN {make_respose(src)}
          ELSE {<<>>} \cup {make_respose(r) : r \in SomeRequested})
=============================================================================
