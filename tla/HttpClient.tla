----------------------------- MODULE HttpClient -----------------------------
(***************************************************************************)
(* HTTPClient (libraries/HTTPClient): begin() takes a URL apart, GET() and *)
(* its kin hand the parts to the HTTP library of the SDK and wait for the  *)
(* response, end() gives it back; and a program that does the three over   *)
(* and over, as the sketches BasicHttpClient and BasicHttpsClient do.      *)
(*                                                                         *)
(* A URL is the sequence of its marks ":", "/", "@" and of words.          *)
(***************************************************************************)
EXTENDS Naturals, Sequences, SequencesExt

CONSTANTS
  Url,       \* the URLs in use, each as the parts it is written from
  Malformed, \* texts without a ":"
  Number     \* what String::toInt() makes of each word of digits

VARIABLES
  server,    \* _protocol, _host, _port and _path
  at,        \* what the program does next
  meant,     \* parts of the URL that begin() took last, <<>> before
  asked,     \* the last request: its method, server and path
  response   \* the program has a response that was not given back

httpVars == <<server, at, meant, asked, response>>

(* A mark does not come in a part that ends with it or before it. *)
WellFormed(u) ==
  /\ {u.protocol, u.auth, u.host, u.port, u.path} \subseteq Seq(STRING)
  /\ ":" \notin ToSet(u.protocol)
  /\ ToSet(u.host) \cap {":", "/", "@"} = {}
  /\ (ToSet(u.auth) \cup ToSet(u.port)) \cap {"/", "@"} = {}
  /\ u.port = <<>> \/ \E word \in DOMAIN Number : u.port = <<word>>
  /\ u.path = <<>> \/ u.path[1] = "/"

(* How a URL is written. *)
Written(u) ==
  u.protocol \o <<":", "/", "/">>
    \o (IF u.auth = <<>> THEN <<>> ELSE u.auth \o <<"@">>)
    \o u.host
    \o (IF u.port = <<>> THEN <<>> ELSE <<":">> \o u.port)
    \o u.path

Init ==
  /\ server = [protocol |-> <<>>, host |-> <<>>, port |-> 0, path |-> <<>>]
  /\ at = "begin"
  /\ meant = <<>> /\ asked = <<>> /\ response = FALSE

-----------------------------------------------------------------------------
(* The text before a mark, all of it if there is none, and the text after. *)
Index(text, mark) == SelectInSeq(text, LAMBDA c : c = mark)
Before(text, mark) ==
  IF Index(text, mark) = 0 THEN text ELSE SubSeq(text, 1, Index(text, mark) - 1)
After(text, mark) == SubSeq(text, Index(text, mark) + 1, Len(text))

(* _port is a uint16_t. *)
ToInt(text) == IF text = <<>> THEN 0 ELSE Number[text[1]]
Port(text) == ToInt(text) % 65536

(* Host and port, without the authorization; without one the port stays     *)
(* what it was.                                                             *)
Place(authority) ==
  LET host == After(authority, "@")
  IN [host |-> Before(host, ":"),
      port |-> IF Index(host, ":") = 0 THEN server.port ELSE Port(After(host, ":"))]

(* beginInternal(): the protocol, the three marks after it passed over, the *)
(* authority up to the path, and a path, which is "/" if there is none.     *)
TakeApart(text) ==
  LET rest  == SubSeq(text, Index(text, ":") + 3, Len(text))
      slash == Index(rest, "/")
      place == Place(Before(rest, "/"))
  IN server' = [protocol |-> Before(text, ":"),
                host |-> place.host,
                port |-> place.port,
                path |-> IF slash = 0 THEN <<"/">> ELSE SubSeq(rest, slash, Len(rest))]

Begin(u) ==
  /\ at = "begin" /\ at' = "request"
  /\ TakeApart(Written(u))
  /\ meant' = <<u>>
  /\ UNCHANGED <<asked, response>>

(* Without a protocol it answers false, which the sketches do not look at. *)
Refuse ==
  /\ at = "begin" /\ at' = "request"
  /\ \E text \in Malformed : Index(text, ":") = 0
  /\ UNCHANGED <<server, meant, asked, response>>

(* Host and path are handed on, protocol and port are not; bodies, headers  *)
(* and the certificate are the program's own and only passed through.       *)
Request(method) ==
  /\ at = "request" /\ at' = "end"
  /\ asked' = <<[method |-> method, host |-> server.host, path |-> server.path]>>
  /\ response' \in BOOLEAN
  /\ UNCHANGED <<server, meant>>

(* end(), also after a request that failed. *)
End ==
  /\ at = "end" /\ at' = "begin"
  /\ response' = FALSE
  /\ UNCHANGED <<server, meant, asked>>

Method == {"GET", "POST", "PUT", "PATCH"}

Next ==
  \/ \E u \in Url : Begin(u)
  \/ Refuse
  \/ \E method \in Method : Request(method)
  \/ End
-----------------------------------------------------------------------------
TypeOK ==
  /\ at \in {"begin", "request", "end"} /\ response \in BOOLEAN
  /\ Len(meant) <= 1 /\ Len(asked) <= 1
  /\ \A n \in DOMAIN asked : asked[n].method \in Method

(* Wherever a URL has a colon, an authorization, a port or a path, or has   *)
(* none, and whatever URLs came before, a request is given the host and the *)
(* path that the URL last begun was written from (and "/" for no path); a   *)
(* begin() that refuses leaves the one before whole.  Protocol and port are *)
(* told from the rest, the port by its lower 16 bits, and kept: of where    *)
(* the request goes they say nothing, for it is not given them.             *)
AsksWhatWasMeant ==
  meant # <<>> =>
    LET u == meant[1]
    IN /\ at = "end" => /\ asked[1].host = u.host
                        /\ asked[1].path = IF u.path = <<>> THEN <<"/">> ELSE u.path
       /\ server.protocol = u.protocol
       /\ u.port # <<>> => server.port = Number[u.port[1]] % 65536
=============================================================================
