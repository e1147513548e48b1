----------------------------- MODULE MqttClient -----------------------------
(***************************************************************************)
(* MQTTClient (libraries/MQTTClient) between the MQTT library of the SDK   *)
(* and the sketch mqtt_publish_in_callback, which connects, publishes and  *)
(* subscribes in every loop() in which connected() is false.  The flag     *)
(* that connected() returns is all MQTTClient remembers of a session.      *)
(***************************************************************************)
VARIABLES
  cli,          \* what init() gave the sketch: "unmade", "null" or "client"
  is_connected, \* the flag
  session,      \* the library's client has a session with the broker
  subscribed,   \* the broker has the subscription of that session
  at,           \* where loop() is
  spoiled       \* something has happened that MQTTClient did not notice,
                \* since it last connected or disconnected

mqttVars == <<cli, is_connected, session, subscribed, at, spoiled>>

Init ==
  /\ cli = "unmade" /\ is_connected = FALSE
  /\ session = FALSE /\ subscribed = FALSE
  /\ at = "setup" /\ spoiled = FALSE

(* init() gives NULL when a client cannot be had or cannot be initialised;  *)
(* the sketch goes on with what it got.                                     *)
InitClient ==
  /\ at = "setup"
  /\ cli' \in {"null", "client"}
  /\ at' = "loop"
  /\ UNCHANGED <<is_connected, session, subscribed, spoiled>>

(* loop() asks connected() before anything else. *)
Begin ==
  /\ at = "loop"
  /\ at' = IF is_connected THEN "yield" ELSE "connect"
  /\ UNCHANGED <<cli, is_connected, session, subscribed, spoiled>>

(* Mutant of ConnectOk: the session is not noted. *)
ConnectForgets ==
  /\ at = "connect" /\ cli = "client" /\ ~ is_connected
  /\ session' = TRUE /\ subscribed' = FALSE /\ spoiled' = FALSE
  /\ at' = "publish"
  /\ UNCHANGED <<cli, is_connected>>

(* connect(): nothing without a client, nothing while the flag is set, else *)
(* one attempt, after which the flag says whether it worked.                *)
ConnectOk ==
  /\ at = "connect" /\ cli = "client" /\ ~ is_connected
  /\ session' = TRUE /\ subscribed' = FALSE /\ is_connected' = TRUE
  /\ spoiled' = FALSE
  /\ at' = "publish"
  /\ UNCHANGED cli

ConnectFails ==
  /\ at = "connect"
  /\ at' = "publish"
  /\ UNCHANGED <<cli, is_connected, session, subscribed, spoiled>>

(* publish() and subscribe() follow whatever connect() answered, and their  *)
(* own answers are not looked at either.                                    *)
Publish ==
  /\ at = "publish"
  /\ at' = "subscribe"
  /\ UNCHANGED <<cli, is_connected, session, subscribed, spoiled>>

Subscribe ==
  /\ at = "subscribe"
  /\ \/ session /\ subscribed' = TRUE /\ UNCHANGED spoiled
     \/ UNCHANGED subscribed /\ spoiled' = (spoiled \/ session)
  /\ at' = "yield"
  /\ UNCHANGED <<cli, is_connected, session>>

(* MQTTClient::loop(): the library reads; a message makes it call the       *)
(* callback that init() was given, which publishes it again.                *)
Yield ==
  /\ at = "yield"
  /\ \/ subscribed /\ at' = "callback"
     \/ at' = "loop"
  /\ UNCHANGED <<cli, is_connected, session, subscribed, spoiled>>

OnMessage ==
  /\ at = "callback"
  /\ at' = "loop"
  /\ UNCHANGED <<cli, is_connected, session, subscribed, spoiled>>

(* disconnect(): only with a client and the flag, which is cleared whatever *)
(* the library answers.                                                     *)
Disconnect ==
  /\ at = "loop" /\ cli = "client" /\ is_connected
  /\ is_connected' = FALSE
  /\ \/ session' = FALSE /\ subscribed' = FALSE /\ spoiled' = FALSE
     \/ session /\ spoiled' = TRUE /\ UNCHANGED <<session, subscribed>>
  /\ UNCHANGED <<cli, at>>

(* free() takes the client and its session; the flag stays as it is. *)
Free ==
  /\ at = "loop" /\ cli = "client"
  /\ cli' = "unmade" /\ session' = FALSE /\ subscribed' = FALSE
  /\ at' = "setup"
  /\ spoiled' = (spoiled \/ is_connected)
  /\ UNCHANGED is_connected

(* The broker ends the session.  The library calls mqtt_disconnected_cb(),  *)
(* which writes a line to the log and leaves the flag.                      *)
Dropped ==
  /\ session
  /\ session' = FALSE /\ subscribed' = FALSE /\ spoiled' = TRUE
  /\ UNCHANGED <<cli, is_connected, at>>

Sketch == Begin \/ ConnectFails \/ Publish \/ Subscribe \/ Yield \/ OnMessage

Next == InitClient \/ Sketch \/ ConnectOk \/ Disconnect \/ Free \/ Dropped
-----------------------------------------------------------------------------
TypeOK ==
  /\ cli \in {"unmade", "null", "client"}
  /\ {is_connected, session, subscribed, spoiled} \subseteq BOOLEAN
  /\ at \in {"setup", "loop", "connect", "publish", "subscribe", "yield", "callback"}

(* The flag is the session.  There is none that MQTTClient does not know    *)
(* of, which disconnect() would refuse to end and connect() would open a    *)
(* second time, and the flag does not promise more than there is; unless    *)
(* something happened that MQTTClient does not notice: the broker ended the *)
(* session, a disconnect() was refused, or free() came without one.  A      *)
(* connect() or disconnect() that works puts them in step again.            *)
FlagIsSession == ~ spoiled => is_connected = session

(* A sketch whose attempts are not refused for ever comes to be subscribed, *)
(* again and again after each of its own disconnect()s, unless the flag was *)
(* spoiled: after a drop, or a subscription that failed in a session that   *)
(* was opened, this loop() never tries again.                               *)
ComesToHear == []<>(subscribed \/ spoiled \/ cli # "client")
=============================================================================
