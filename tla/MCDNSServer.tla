----------------------------- MODULE MCDNSServer -----------------------------
(* A name in a spelling of its own, and one that is spelled as it is kept. *)
EXTENDS DNSServer

MCCanonical(name) == IF name = "www" THEN "own" ELSE name
=============================================================================
