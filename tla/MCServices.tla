----------------------------- MODULE MCServices -----------------------------
EXTENDS Services

(* Two names deep and a second name beside it; a file or a directory each. *)
MCPath == {<<"a">>, <<"a", "a">>, <<"a", "a", "a">>, <<"b">>}
MCSchema == [d \in DpId |-> CASE d = "switch" -> "bool"
                              [] d = "bright" -> "value"
                              [] d = "name" -> "str"
                              [] d = "fault" -> "bitmap"]

(* 65616 is 80 in 16 bits. *)
MCNumber == [word \in {"65616"} |-> 65616]

(* Every combination of an authorization with and without a colon, a port,  *)
(* and paths with and without the marks of the rest.                        *)
MCUrl ==
  [protocol : {<<"http">>, <<"https">>}, host : {<<"h1">>, <<"h2">>},
   auth : {<<>>, <<"user">>, <<"user", ":", "secret">>},
   port : {<<>>, <<"65616">>},
   path : {<<>>, <<"/", "a">>, <<"/", "a", ":", "80", "/", "b", "@", "h1">>}]
MCMalformed == {<<"h1">>, <<"h1", "/", "a">>}
=============================================================================
