---------------------------- MODULE MCWiFiEvents ----------------------------
(* Three registrations are the fewest of which one can be removed, one     *)
(* hidden by that and one still called.                                    *)
EXTENDS WiFiEvents
=============================================================================
