----------------------------- MODULE MCWiFiMode -----------------------------
(* No handler and two events: the modes have nothing to do with handlers   *)
(* (ModesUseTheEvents), and MCWiFiEvents is about them.                    *)
EXTENDS WiFiMode
=============================================================================
