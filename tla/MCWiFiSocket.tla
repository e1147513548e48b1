---------------------------- MODULE MCWiFiSocket ----------------------------
(* Two variables can share a handle; with three descriptors one can be in  *)
(* use by each of them and one by the server.                              *)
EXTENDS WiFiSocket, TLC

Symmetry == Permutations(Client) \cup Permutations(Fd)
=============================================================================
