----------------------------- MODULE QuickStart -----------------------------
(***************************************************************************)
(* The sketch quickStart with its tLed (libraries/TuyaIoT/examples): the   *)
(* sketch's thread blinks the LED and switches it at a click, the cloud    *)
(* client's thread switches it at events, neither takes a lock, and both   *)
(* report its state to the cloud, where it is a bool.  A step is one       *)
(* access to what they share.                                              *)
(***************************************************************************)

VARIABLES
  ledState, \* _ledState: "off", "on" or "blink"
  interval, \* _blinkIntervalMs is what blink(500) sets
  nowLevel, \* the level of the blinking LED: TRUE when it is lit
  lit,      \* the LED is lit
  pc,       \* per thread, "loop" and "event": where it is
  wants,    \* per thread: the state it sets, and reports
  reports,  \* per thread: whether it reports what it sets
  dp,       \* DPID_SWITCH as last reported, "none" before
  unsaid,   \* a change that the sketch does not report has come since
  failed,   \* the last report has failed
  raced     \* the last change of the state came while the other thread was ...
            \* between its store or test and the end of what follows from it

ledVars == <<ledState, interval, nowLevel, lit, pc, wants, reports, dp, unsaid,
             failed, raced>>

Thread == {"loop", "event"}
Other(t) == IF t = "loop" THEN "event" ELSE "loop"

Init ==
  /\ ledState = "off" /\ interval = FALSE /\ nowLevel = FALSE /\ lit = FALSE
  /\ pc = [t \in Thread |-> "idle"]
  /\ wants = [t \in Thread |-> "off"]
  /\ reports = [t \in Thread |-> FALSE]
  /\ dp = "none" /\ unsaid = FALSE /\ failed = FALSE /\ raced = FALSE

Go(t, there) == pc' = [pc EXCEPT ![t] = there]
Idle(t) == pc[t] = "idle"
(* A thread that a change of the state would catch unawares. *)
Caught(t) == pc[t] \in {"toggle", "pin", "write"}

-----------------------------------------------------------------------------
(* update(): the state is tested, and then the level is turned over.        *)
Update ==
  /\ Idle("loop") /\ ledState = "blink"
  /\ Go("loop", "toggle")
  /\ UNCHANGED <<ledState, interval, nowLevel, lit, wants, reports, dp, unsaid, failed, raced>>

Toggle ==
  /\ pc["loop"] = "toggle"
  /\ nowLevel' = ~ nowLevel /\ lit' = ~ nowLevel
  /\ Go("loop", "idle")
  /\ UNCHANGED <<ledState, interval, wants, reports, dp, unsaid, failed, raced>>

(* Thread t begins to set a state, and to report it afterwards or not. *)
Begin(t, state, report, there) ==
  /\ Idle(t) /\ Go(t, there)
  /\ wants' = [wants EXCEPT ![t] = state]
  /\ reports' = [reports EXCEPT ![t] = report]
  /\ UNCHANGED <<ledState, interval, nowLevel, lit, dp, unsaid, failed, raced>>

(* buttonClick(): what is not off is switched off. *)
Click == Begin("loop", IF ledState = "off" THEN "on" ELSE "off", TRUE, "set")

(* tuyaIoTEventCallback(). *)
BindStart == Begin("event", "blink", FALSE, "set")
Activated == Begin("event", "off", FALSE, "set")
MqttConnected == Begin("event", ledState, TRUE, "write")
Receive == \E state \in {"off", "on"} : Begin("event", state, TRUE, "set")

(* Mutant of Set: the state is compared and the pin left as it is. *)
SetStateOnly(t) ==
  /\ pc[t] = "set"
  /\ Go(t, IF reports[t] THEN "write" ELSE "idle")
  /\ ledState' = wants[t]
  /\ interval' = (interval \/ wants[t] = "blink")
  /\ nowLevel' = (nowLevel \/ wants[t] = "blink")
  /\ unsaid' = (unsaid \/ ~ reports[t])
  /\ raced' = Caught(Other(t))
  /\ UNCHANGED <<lit, wants, reports, dp, failed>>

(* _setLedState(): nothing if it is the state and, for blink(), the         *)
(* interval already; else the state is stored, and then the pin written.    *)
Set(t) ==
  /\ pc[t] = "set"
  /\ LET same == ledState = wants[t] /\ (wants[t] = "blink" => interval)
     IN IF same
          THEN /\ Go(t, IF reports[t] THEN "write" ELSE "idle")
               /\ UNCHANGED <<ledState, interval, nowLevel, unsaid, raced>>
          ELSE /\ Go(t, "pin")
               /\ ledState' = wants[t]
               /\ interval' = (interval \/ wants[t] = "blink")
               /\ nowLevel' = (nowLevel \/ wants[t] = "blink")
               /\ unsaid' = (unsaid \/ ~ reports[t])
               /\ raced' = Caught(Other(t))
  /\ UNCHANGED <<lit, wants, reports, dp, failed>>

Pin(t) ==
  /\ pc[t] = "pin"
  /\ lit' = (wants[t] # "off")
  /\ Go(t, IF reports[t] THEN "write" ELSE "idle")
  /\ UNCHANGED <<ledState, interval, nowLevel, wants, reports, dp, unsaid, failed, raced>>

(* DPID_SWITCH is a bool, and what is not 0 is true.  (That a byte 2 read   *)
(* as a bool is so the language leaves open; the compiler of the boards,    *)
(* arm-none-eabi-gcc, tests it for zero.)                                   *)
AsBool(state) == IF state = "off" THEN "off" ELSE "on"

(* TuyaIoT.write() of the thread's own copy; whether it worked the sketch   *)
(* does not ask.                                                            *)
Write(t) ==
  /\ pc[t] = "write"
  /\ \/ dp' = AsBool(wants[t]) /\ unsaid' = FALSE /\ failed' = FALSE
     \/ failed' = TRUE /\ UNCHANGED <<dp, unsaid>>
  /\ Go(t, "idle")
  /\ UNCHANGED <<ledState, interval, nowLevel, lit, wants, reports, raced>>

Next ==
  \/ Update \/ Toggle \/ Click
  \/ BindStart \/ Activated \/ MqttConnected \/ Receive
  \/ \E t \in Thread : Set(t) \/ Pin(t) \/ Write(t)
-----------------------------------------------------------------------------
TypeOK ==
  /\ ledState \in {"off", "on", "blink"}
  /\ {interval, nowLevel, lit, unsaid, failed, raced} \subseteq BOOLEAN
  /\ pc \in [Thread -> {"idle", "toggle", "set", "pin", "write"}]
  /\ wants \in [Thread -> {"off", "on", "blink"}]
  /\ reports \in [Thread -> BOOLEAN]
  /\ dp \in {"none", "off", "on"}

(* When both threads rest, the LED shows its state and the cloud has been   *)
(* told whether it is off, but for a change the sketch does not report      *)
(* (binding and activation) and a report that failed: unless the last       *)
(* change was stored while the other thread was between its own store, or   *)
(* update()'s test, and the pin or the report that follows.  A click or an  *)
(* event that finds the state it wants, or that stores before the other     *)
(* does, does no harm; and what harm is done lasts until the next change    *)
(* that nobody interferes with, not for ever.                               *)
AllAgree ==
  (\A t \in Thread : Idle(t)) /\ ~ raced =>
    /\ ledState = "on" => lit
    /\ ledState = "off" => ~ lit
    /\ dp \in {"none", AsBool(ledState)} \/ unsaid \/ failed
=============================================================================
