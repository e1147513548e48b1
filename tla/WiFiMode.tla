------------------------------ MODULE WiFiMode ------------------------------
(***************************************************************************)
(* The mode of the radio: mode(), getMode(), enableSTA(), enableAP() and   *)
(* what they start and stop (libraries/WiFi/src/WiFiGeneric.cpp), and the  *)
(* calls of WiFiSTA.cpp and WiFiAP.cpp that rest on them.  The event queue *)
(* and its task, which the first of these calls brings up, are those of    *)
(* WiFiEvents.                                                             *)
(*                                                                         *)
(* Every call of the driver may fail, also those whose results are not     *)
(* looked at.  The calls of this module do not overlap each other: each is *)
(* a step, which the event task and the driver's events come between.      *)
(***************************************************************************)
EXTENDS WiFiEvents

CONSTANTS Ready, GotIp, Lost    (* the events that this library posts       *)

ASSUME WiFiModeAssumption == Kind = {Ready, GotIp, Lost}

VARIABLES
  made,      (* what _start_network_event_task() has brought up             *)
  lowLevel,  (* lowLevelInitDone; tcpipInit's flag is `made = Steps'        *)
  started,   (* _bk_wifi_started                                            *)
  work,      (* the driver's work mode                                      *)
  radio,     (* what the driver runs: a station, an access point            *)
  answer,    (* history: the call just made, whether it answered true, and  *)
             (* whether the driver kept its mode from it                    *)
  left       (* history: what the last power-down was refused to stop       *)

modes == <<made, lowLevel, started, work, radio, answer, left>>
vars == <<events, modes>>

(* The modes have the numbers of the names in WiFi.cpp:15.                 *)
OFF == 0
SNIFFER == 1
STA == 2
AP == 3
AP_STA == 4
Modes == OFF .. AP_STA

(* Bitwise operations on the modes reach the numbers 0 to 7.               *)
Numbers == 0 .. 7

NoAnswer == [call |-> "none", arg |-> OFF, ok |-> FALSE, mute |-> FALSE]

Bits(m) == {b \in {1, 2, 4} : (m \div b) % 2 = 1}
Number(B) ==
  (IF 1 \in B THEN 1 ELSE 0) + (IF 2 \in B THEN 2 ELSE 0) + (IF 4 \in B THEN 4 ELSE 0)

(* Mutant of StepList: the driver can post before there is a queue.        *)
StepListDriverFirst == <<"group", "driver", "queue", "thread">>

(* The order in which the event task's needs are met.                      *)
StepList == <<"group", "queue", "driver", "thread">>

First(n) == {StepList[i] : i \in 1 .. n}

Init ==
  /\ EventsInit
  /\ made = {} /\ lowLevel = FALSE /\ started = FALSE
  /\ work = OFF /\ radio = {}
  /\ answer = NoAnswer /\ left = {}

Up == lowLevel /\ started

(* What getMode() can answer: OFF also when the driver's query fails.      *)
GetMode == IF Up THEN {work, OFF} ELSE {OFF}

(* wifiLowLevelInit() fails when the first n of the needs are met; what is *)
(* there already is not made again.                                        *)
LowLevelFails(n) ==
  /\ made' = made \cup First(n)
  /\ UNCHANGED <<lowLevel, queue, accepted>>

(* It succeeds, at once if it has before.                                  *)
LowLevelSucceeds ==
  /\ made' = First(4)
  /\ lowLevel' = TRUE
  /\ IF lowLevel THEN UNCHANGED <<queue, accepted>> ELSE Posted(Ready)

(* The ways of mode(m), which getMode() tells that the mode is cm; `ok' is *)
(* the answer.                                                             *)
Already(cm, m, ok) ==
  /\ cm = m /\ ok
  /\ UNCHANGED <<queue, accepted, made, lowLevel, started, work, radio, left>>

(* Mutant of PowerDown: the radio is left as it is.                        *)
PowerDownFlagsOnly(cm, m, ok) ==
  /\ m = OFF /\ cm # OFF /\ ok
  /\ started' = FALSE /\ lowLevel' = FALSE /\ left' = {}
  /\ UNCHANGED <<queue, accepted, made, work, radio>>

(* bkWiFiStop() and wifiLowLevelDeinit(): the event task goes on.  Each of *)
(* the three calls of the driver may be refused, and none is looked at;    *)
(* with the last, for which OFF stands here, the whole radio goes off.     *)
PowerDown(cm, m, ok) ==
  /\ m = OFF /\ cm # OFF /\ ok
  /\ started' = FALSE /\ lowLevel' = FALSE
  /\ \E refused \in SUBSET {STA, AP, OFF} :
       /\ work' = IF OFF \in refused THEN work ELSE OFF
       /\ radio' = IF OFF \in refused THEN radio \cap refused ELSE {}
       /\ left' = IF OFF \in refused THEN refused \ {OFF} ELSE {}
  /\ UNCHANGED <<queue, accepted, made>>

NoLowLevel(cm, m, ok) ==
  /\ cm = OFF /\ m # OFF /\ ~ lowLevel /\ ~ ok
  /\ \E n \in 0 .. 3 :
       /\ StepList[n + 1] # "driver"     (* tkl_wifi_init() is not checked   *)
       /\ made \subseteq First(n)
       /\ LowLevelFails(n)
  /\ UNCHANGED <<started, work, radio, left>>

(* Mutant of SetMode: a refusal of the driver goes unnoticed.              *)
SetModeUnchecked(cm, m, ok) ==
  /\ m # OFF /\ cm # m /\ ok
  /\ IF cm = OFF THEN LowLevelSucceeds
     ELSE UNCHANGED <<queue, accepted, made, lowLevel>>
  /\ started' = TRUE
  /\ work' \in {work, m}
  /\ UNCHANGED <<radio, left>>

(* The driver takes the number, mode or not, or refuses it.                *)
SetMode(cm, m, ok) ==
  /\ m # OFF /\ cm # m
  /\ IF cm = OFF THEN LowLevelSucceeds
     ELSE UNCHANGED <<queue, accepted, made, lowLevel>>
  /\ IF ok THEN started' = TRUE /\ work' = m ELSE UNCHANGED <<started, work>>
  /\ UNCHANGED <<radio, left>>

Enter(cm, m, ok) ==
  \/ Already(cm, m, ok) \/ PowerDown(cm, m, ok) \/ NoLowLevel(cm, m, ok) \/ SetMode(cm, m, ok)

(* enableSTA() and enableAP() take the mode for a set of bits.             *)
Enable(bit, on, ok) ==
  \E seen \in GetMode, cm \in GetMode :
    LET has == Bits(seen) \cap Bits(bit) # {} IN
      IF has = on THEN Already(seen, seen, ok)
      ELSE Enter(cm, Number(IF on THEN Bits(seen) \cup Bits(bit)
                                  ELSE Bits(seen) \ Bits(bit)), ok)

-----------------------------------------------------------------------------
(* The calls. *)

(* What the event side leaves alone. *)
Apart ==
  /\ answer' = NoAnswer
  /\ UNCHANGED <<made, lowLevel, started, work, radio, left>>

Elsewhere == <<program, task, handled, called, hidden>>

Answered(c, m, ok, mute) == answer' = [call |-> c, arg |-> m, ok |-> ok, mute |-> mute]

Mode(m) ==
  /\ accepted < MaxEvents
  /\ \E ok \in BOOLEAN, cm \in GetMode :
       Enter(cm, m, ok) /\ Answered("mode", m, ok, Up /\ cm = OFF)
  /\ UNCHANGED Elsewhere

(* Also config() and softAPConfig(), whose rest changes nothing here.      *)
EnableMode(bit, on) ==
  /\ accepted < MaxEvents
  /\ \E ok \in BOOLEAN :
       /\ Enable(bit, on, ok)
       /\ Answered(IF on THEN "enable" ELSE "disable", bit, ok, FALSE)
  /\ UNCHANGED Elsewhere

(* begin() and softAP() where enableSTA() or enableAP() finds nothing to   *)
(* do; where it does, this is the half that follows EnableMode.            *)
Start(bit) ==
  /\ \E cm \in GetMode : Bits(cm) \cap Bits(bit) # {}
  /\ radio' \in {radio, radio \cup {bit}}
  /\ answer' = NoAnswer
  /\ UNCHANGED <<events, made, lowLevel, started, work, left>>

(* disconnect(), whose arguments are ignored.  With a station and an access*)
(* point it makes two calls, and the answer is the second's.               *)
Disconnect ==
  /\ \E cm \in GetMode, refused \in SUBSET {STA, AP} :
       /\ radio' = CASE cm = AP_STA -> radio \cap refused
                     [] cm \in {STA, AP} -> radio \ ({cm} \ refused)
                     [] OTHER -> radio
       /\ LET asked == IF cm = AP_STA THEN STA ELSE cm IN
            Answered("disconnect", cm, asked \in {STA, AP} \ refused, Up /\ cm = OFF)
  /\ UNCHANGED <<events, made, lowLevel, started, work, left>>

(* The second half of softAPdisconnect(), the first of which is            *)
(* enableAP(false) or nothing.                                             *)
SoftAPStop ==
  /\ radio' \in {radio, radio \ {AP}}
  /\ answer' = NoAnswer
  /\ UNCHANGED <<events, made, lowLevel, started, work, left>>

(* __netconn_wifi_event(): a failure to connect is not passed on.          *)
DriverEvent ==
  /\ "driver" \in made
  /\ \E k \in {GotIp, Lost} : Post(k)
  /\ Apart

ModeProgram == Program /\ Apart

ModeTask == "thread" \in made /\ EventTask /\ Apart

Next ==
  \/ \E m \in Modes : Mode(m)
  \/ \E bit \in {STA, AP}, on \in BOOLEAN : EnableMode(bit, on)
  \/ \E bit \in {STA, AP} : Start(bit)
  \/ Disconnect \/ SoftAPStop
  \/ DriverEvent
  \/ ModeProgram
  \/ ModeTask

Spec == Init /\ [][Next]_vars

-----------------------------------------------------------------------------
TypeOK ==
  /\ EventsTypeOK
  /\ made \in {First(n) : n \in 0 .. 4}
  /\ lowLevel \in BOOLEAN /\ started \in BOOLEAN
  /\ work \in Numbers /\ radio \subseteq {STA, AP} /\ left \subseteq {STA, AP}
  /\ answer \in [call : {"none", "mode", "enable", "disable", "disconnect"},
                 arg : Numbers, ok : BOOLEAN, mute : BOOLEAN]

(* Whatever part of the bring-up fails and is tried again: the driver,     *)
(* once it can call back, finds a queue to post into, and a WiFi that is   *)
(* up has the task that handles its events, also when its mode is not to   *)
(* be had from the driver.                                                 *)
OnMeansReady ==
  /\ "driver" \in made => "queue" \in made
  /\ Up => made = First(4)

(* mode(m) answers true only when the WiFi is in mode m: up and the driver *)
(* in that very mode, or off.  The one exception is mode(OFF) when the     *)
(* driver does not tell its mode (line 411): it answers true, and the WiFi *)
(* stays on.                                                               *)
ModeTruthful ==
  answer.call = "mode" /\ answer.ok =>
    \/ IF Up THEN work = answer.arg ELSE answer.arg = OFF
    \/ answer.arg = OFF /\ answer.mute

(* A WiFi that is down runs no station and no access point but what the    *)
(* driver refused to stop when it was powered down, which lines 212 to 214 *)
(* do not look at: nothing is started on it, and nothing comes back with a *)
(* bring-up that fails half way.                                           *)
OffIsQuiet == ~ Up => radio \subseteq left

(* softAPConfig() says of an enableAP(true) that answers false "enable AP  *)
(* failed" (WiFiAP.cpp:80): one that answers true has enabled the access   *)
(* point.                                                                  *)
EnabledApIsOn ==
  answer.call = "enable" /\ answer.arg = AP /\ answer.ok => Up /\ work \in {AP, AP_STA}

=============================================================================
