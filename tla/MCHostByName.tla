---------------------------- MODULE MCHostByName ----------------------------
(* Two threads are enough to hold the bit and to wait for it, two entries  *)
(* of the resolver's table to have both threads wait for an answer, or one *)
(* wait while an answer to a lookup that gave up is still to come.         *)
EXTENDS HostByName
=============================================================================
