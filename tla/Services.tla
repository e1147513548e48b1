------------------------------ MODULE Services ------------------------------
(***************************************************************************)
(* The libraries above the drivers, each with a sketch that uses it, side  *)
(* by side as in Peripherals: `focus' says which one moves.  They share    *)
(* nothing of this code; what they share is the SDK under them, which is   *)
(* external to each.                                                       *)
(***************************************************************************)
EXTENDS Integers, Sequences

CONSTANTS
  Path, Object, MaxLen,                                   (* of LittleFs    *)
  Text, Unset, DpId, Schema, MaxDps, MaxBegins,           (* of TuyaIot     *)
  Millis, DebounceMs, LongPressMs, MaxGap,                (* of Button      *)
  Days,                                                   (* of TuyaWeather *)
  Url, Malformed, Number,                                 (* of HttpClient  *)
  CharMax, Chars, MaxHandle,                              (* of Ble         *)
  Ssid, NoName, Int8Max, MaxAPs, MaxScans                 (* of WiFiMulti   *)

(* A path is a sequence of names and has its parents, names are told from   *)
(* no name and data points of the schema from others, a long press is       *)
(* longer than the debounce time and, with the time between two looks,      *)
(* shorter than a round of the clock; the table has room for what a sketch  *)
(* creates; and access points have names.                                   *)
ASSUME ServicesAssumption ==
  /\ \A p \in Path : /\ Len(p) \in Nat \ {0} /\ SubSeq(p, 1, Len(p)) = p
                     /\ Len(p) > 1 => SubSeq(p, 1, Len(p) - 1) \in Path
  /\ MaxLen \in Nat
  /\ Unset \notin Text \cup {"buffer"}
  /\ Schema \in [DpId -> {"bool", "value", "enum", "bitmap", "str"}] /\ "other" \notin DpId
  /\ {MaxDps, MaxBegins, MaxHandle, MaxAPs, MaxScans} \subseteq Nat
  /\ {Millis, DebounceMs, LongPressMs, MaxGap} \subseteq Nat
  /\ DebounceMs < LongPressMs /\ LongPressMs + 2 * MaxGap < Millis
  /\ Days \subseteq Nat
  /\ CharMax \in Nat /\ Chars \in 2 .. CharMax
  /\ NoName \notin Ssid /\ Ssid # {} /\ Int8Max \in Nat \ {0}

VARIABLES
  focus,
  object, formatted, tree, content, handle, size, making, promised, lossy,
  cli, is_connected, session, subscribed, mqttAt, spoiled,
  buffer, sg, callback, begin, begins, thread, config, client, told, event,
  cloudAt, reported, unwritten,
  millis, isPress, buttonPressMs, held, seen, slipped, calls,
  ledState, interval, nowLevel, lit, pc, wants, reports, dp, unsaid, failed, raced,
  days, abroad, ready, next, out, list, whole,
  server, httpAt, meant, asked, response,
  bleAt, char_index, table, notify_handle, stack, advertising, conn, handles,
  connect_handle, deviceConnected, oldDeviceConnected, missed,
  refused, sent,
  aplist, station, joining, ap_info, ap_num, found, heap, scans, twice, wide,
  multiAt, best

Fs == INSTANCE LittleFs
Mqtt == INSTANCE MqttClient WITH at <- mqttAt
Cloud == INSTANCE TuyaIot WITH at <- cloudAt
Press == INSTANCE Button
Led == INSTANCE QuickStart
Weather == INSTANCE TuyaWeather
Http == INSTANCE HttpClient WITH at <- httpAt
Central == INSTANCE Ble WITH at <- bleAt
Multi == INSTANCE WiFiMulti WITH at <- multiAt

(* The programs are given URLs that are one. *)
ASSUME UrlAssumption == \A u \in Url : Http!WellFormed(u)

fsVars == <<object, formatted, tree, content, handle, size, making, promised, lossy>>
mqttVars == <<cli, is_connected, session, subscribed, mqttAt, spoiled>>
cloudVars == <<buffer, sg, callback, begin, begins, thread, config, client, told,
               event, cloudAt, reported, unwritten>>
buttonVars == <<millis, isPress, buttonPressMs, held, seen, slipped, calls>>
ledVars == <<ledState, interval, nowLevel, lit, pc, wants, reports, dp, unsaid, failed,
            raced>>
weatherVars == <<days, abroad, ready, next, out, list, whole>>
httpVars == <<server, httpAt, meant, asked, response>>
bleVars == <<bleAt, char_index, table, notify_handle, stack, advertising, conn, handles,
             connect_handle, deviceConnected, oldDeviceConnected, missed, refused,
             sent>>
multiVars == <<aplist, station, joining, ap_info, ap_num, found, heap, scans, twice,
               wide, multiAt, best>>
vars == <<focus, fsVars, mqttVars, cloudVars, buttonVars, ledVars, weatherVars, httpVars,
          bleVars, multiVars>>

Init ==
  /\ focus \in {"fs", "mqtt", "cloud", "button", "led", "weather", "http", "ble", "multi"}
  /\ Fs!Init /\ Mqtt!Init /\ Cloud!Init /\ Press!Init /\ Led!Init /\ Weather!Init
  /\ Http!Init /\ Central!Init /\ Multi!Init
  (* Where one that stands still starts from makes no difference. *)
  /\ focus # "fs" => formatted
  /\ focus # "button" => millis = 0
  /\ focus # "weather" => abroad /\ days = CHOOSE d \in Days : TRUE

(* It is the turn of one of them, and the others stand still. *)
Only(name) ==
  /\ focus = name /\ UNCHANGED focus
  /\ name # "fs" => UNCHANGED fsVars
  /\ name # "mqtt" => UNCHANGED mqttVars
  /\ name # "cloud" => UNCHANGED cloudVars
  /\ name # "button" => UNCHANGED buttonVars
  /\ name # "led" => UNCHANGED ledVars
  /\ name # "weather" => UNCHANGED weatherVars
  /\ name # "http" => UNCHANGED httpVars
  /\ name # "ble" => UNCHANGED bleVars
  /\ name # "multi" => UNCHANGED multiVars

Next ==
  \/ Only("fs") /\ Fs!Next
  \/ Only("mqtt") /\ Mqtt!Next
  \/ Only("cloud") /\ Cloud!Next
  \/ Only("button") /\ Press!Next
  \/ Only("led") /\ Led!Next
  \/ Only("weather") /\ Weather!Next
  \/ Only("http") /\ Http!Next
  \/ Only("ble") /\ Central!Next
  \/ Only("multi") /\ Multi!Next

(* What the program's own thread does next it comes to do.  A call that has *)
(* begun goes on, a loop() comes round; and of the attempts to connect that *)
(* an MQTT sketch makes again and again, not all fail.                      *)
MkdirGoesOn == focus = "fs" /\ Fs!MkdirStep
MqttGoesOn == focus = "mqtt" /\ Mqtt!Sketch
MqttConnects == focus = "mqtt" /\ Mqtt!ConnectOk
BleGoesOn == focus = "ble" /\ Central!Sketch

Fairness ==
  /\ WF_fsVars(MkdirGoesOn)
  /\ WF_mqttVars(MqttGoesOn) /\ SF_mqttVars(MqttConnects)
  /\ WF_bleVars(BleGoesOn)

Spec == Init /\ [][Next]_vars /\ Fairness

-----------------------------------------------------------------------------
(* Each keeps its types. *)
TypeOK ==
  /\ Fs!TypeOK /\ Mqtt!TypeOK /\ Cloud!TypeOK /\ Press!TypeOK /\ Led!TypeOK
  /\ Weather!TypeOK /\ Http!TypeOK /\ Central!TypeOK /\ Multi!TypeOK

(* What the file system has told a sketch is there outlives any restart     *)
(* (LittleFs).                                                              *)
PromiseKept == Fs!PromiseKept

(* The flag of the MQTT client is its session, but for what it cannot       *)
(* notice (MqttClient).                                                     *)
FlagIsSession == Mqtt!FlagIsSession

(* The cloud client is who the sketch that began it once said, and data     *)
(* points come back as they came, once, in their order, those without a     *)
(* case or whose report failed left out (TuyaIot).                          *)
CloudIsFaithful == Cloud!ClientIsWhoWasMeant /\ Cloud!EchoesWhatCame

(* A press of the button is a click or a long press, once, by the looks at  *)
(* it, and really so when it was not let go unseen (Button).                *)
PressMeansOneThing == Press!PressMeansOneThing

(* LED, its state and the cloud agree when both threads rest, until reports *)
(* fail or a change catches the other thread (QuickStart).                  *)
AllAgree == Led!AllAgree

(* A complete answer of the weather service fills what the sketch prints    *)
(* (TuyaWeather), and an HTTP request is given the host and the path of its *)
(* URL (HttpClient).                                                        *)
AnswersServe == Weather!WholeAnswerFills /\ Http!AsksWhatWasMeant

(* A characteristic sends to the central that is there, under its own entry *)
(* (Ble).                                                                   *)
SendsAreOwn == Central!SendsAreOwn

(* The strongest network looked at is chosen, and every result of a scan    *)
(* given back, once (WiFiMulti).                                            *)
ScansServe == Multi!ChoosesStrongest /\ Multi!ReleasedOnce

(* A mkdir() returns (LittleFs), an MQTT sketch comes to be subscribed      *)
(* (MqttClient), a peripheral, when it is its turn, stays reachable unless  *)
(* it misses a central or is refused (Ble).                                 *)
KeepsGoing ==
  /\ Fs!MkdirReturns
  /\ Mqtt!ComesToHear
  /\ focus = "ble" => Central!StaysReachable

=============================================================================
