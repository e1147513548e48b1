------------------------------ MODULE MCWiFiUdp ------------------------------
(* WiFiUdp with datagrams that are empty, fit, and do not fit the buffer. *)
EXTENDS WiFiUdp, TLC

MCDatagram == [from : Peer, data : {<<>>, <<0>>, <<0, 0>>, <<0, 0, 0>>}]

Symmetry == Permutations(Fd) \cup Permutations(Peer)
=============================================================================
