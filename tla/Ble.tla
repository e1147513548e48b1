-------------------------------- MODULE Ble --------------------------------
(***************************************************************************)
(* The Bluetooth LE peripheral (libraries/BLE): BLEDEV's callback on the   *)
(* stack's thread, the one table of characteristics that all objects       *)
(* share, and the sketch ble_server, which sends while a central is        *)
(* connected and advertises again when it has left.  A step of the sketch  *)
(* is one look at what the callback changes.                               *)
(***************************************************************************)
LOCAL INSTANCE Naturals
LOCAL INSTANCE Sequences

CONSTANTS
  CharMax,    \* TKL_BLE_GATT_CHAR_MAX_NUM: entries of the table
  Chars,      \* characteristics the sketch creates
  MaxHandle   \* bound: connections so far; a handle is not used twice

VARIABLES
  at,                 \* where the sketch is
  char_index,         \* the next entry of the table
  table,              \* per entry of the table: the characteristic it is for
  notify_handle,      \* per characteristic: its entry
  stack,              \* the stack is up and has the table
  advertising,        \* ... and advertises
  conn,               \* handle of the connection there is, or 0
  handles,            \* connections so far
  connect_handle,     \* BLEDEV::ble_common_connect_handle, 0 if invalid
  deviceConnected,    \* the sketch's flag, set by its callbacks
  oldDeviceConnected, \* its loop()'s own
  missed,             \* a central has left before loop() noted that it had come
  refused,            \* the stack refused to advertise when last asked
  sent                \* the last notification: connection and entry, or <<>>

bleVars == <<at, char_index, table, notify_handle, stack, advertising, conn, handles,
             connect_handle, deviceConnected, oldDeviceConnected, missed,
             refused, sent>>
tables == <<char_index, table, notify_handle>>
link == <<stack, advertising, conn, handles, connect_handle, deviceConnected, missed, refused>>

Init ==
  /\ at = "init"
  /\ char_index = 0 /\ table = [i \in 0 .. CharMax - 1 |-> 0] /\ notify_handle = <<>>
  /\ stack = FALSE /\ advertising = FALSE
  /\ conn = 0 /\ handles = 0 /\ connect_handle = 0
  /\ deviceConnected = FALSE /\ oldDeviceConnected = FALSE
  /\ missed = FALSE /\ refused = FALSE /\ sent = <<>>

-----------------------------------------------------------------------------
(* setup(): BLEDEV::init(), createServer() and createService(), which       *)
(* starts the table over, and setCallbacks().                               *)
CreateService ==
  /\ at = "init"
  /\ char_index' = 0
  /\ at' = "chars"
  /\ UNCHANGED <<table, notify_handle, link, oldDeviceConnected, sent>>

(* Mutant of CreateCharacteristic: the index stays. *)
CreateInPlace ==
  /\ at = "chars" /\ Len(notify_handle) < Chars
  /\ table' = [table EXCEPT ![char_index] = Len(notify_handle) + 1]
  /\ notify_handle' = Append(notify_handle, char_index)
  /\ UNCHANGED <<at, char_index, link, oldDeviceConnected, sent>>

(* BLECharacteristic(): takes the next entry. *)
CreateCharacteristic ==
  /\ at = "chars" /\ Len(notify_handle) < Chars
  /\ table' = [table EXCEPT ![char_index] = Len(notify_handle) + 1]
  /\ notify_handle' = Append(notify_handle, char_index)
  /\ char_index' = char_index + 1
  /\ UNCHANGED <<at, link, oldDeviceConnected, sent>>

(* BLEService::start(): the table is handed over, the stack comes up. *)
StartService ==
  /\ at = "chars" /\ Len(notify_handle) = Chars
  /\ stack' = TRUE
  /\ at' = "advertise"
  /\ UNCHANGED <<tables, advertising, conn, handles, connect_handle, deviceConnected,
                 oldDeviceConnected, missed, refused, sent>>

(* BLEAdvertising::start() does not look whether the stack obeys. *)
Start ==
  /\ refused' \in BOOLEAN
  /\ advertising' = (~ refused' /\ conn = 0)

(* The first time. *)
Advertise ==
  /\ at = "advertise" /\ Start
  /\ at' = "send?"
  /\ UNCHANGED <<tables, stack, conn, handles, connect_handle, deviceConnected,
                 oldDeviceConnected, missed, sent>>

-----------------------------------------------------------------------------
(* A central connects, which ends the advertising.  The callback keeps the  *)
(* handle and tells the sketch.                                             *)
Connect ==
  /\ advertising /\ handles < MaxHandle
  /\ handles' = handles + 1
  /\ conn' = handles + 1 /\ advertising' = FALSE
  /\ connect_handle' = handles + 1
  /\ deviceConnected' = TRUE
  /\ UNCHANGED <<at, tables, stack, oldDeviceConnected, missed, refused, sent>>

(* It leaves, and is missed if loop() has not noted that it had come.       *)
Leave ==
  /\ conn # 0 /\ conn' = 0
  /\ missed' = (missed \/ ~ oldDeviceConnected \/ at = "noteLeft")
  /\ UNCHANGED <<at, tables, stack, advertising, handles, oldDeviceConnected, refused, sent>>

(* The callback: the handle is invalid if it was that of the connection. *)
Disconnect ==
  /\ Leave
  /\ connect_handle' = IF connect_handle = conn THEN 0 ELSE connect_handle
  /\ deviceConnected' = FALSE

-----------------------------------------------------------------------------
(* loop(): `from' becomes `there' if the flags are so, else `otherwise'. *)
Look(from, test, there, otherwise) ==
  /\ at = from
  /\ at' = IF test THEN there ELSE otherwise
  /\ UNCHANGED <<tables, link, oldDeviceConnected, sent>>

LookConnected == Look("send?", deviceConnected, "notify", "left?")
LookLeft == Look("left?", ~ deviceConnected /\ oldDeviceConnected, "again", "came?")
LookCame == Look("came?", deviceConnected /\ ~ oldDeviceConnected, "note", "send?")

(* setValue() gives it something to send, notify() and indicate() hand it   *)
(* to the connection and the entry there are then.                          *)
Send(from, c, there) ==
  /\ at = from
  /\ sent' = <<[to |-> connect_handle, conn |-> conn, entry |-> notify_handle[c], of |-> c]>>
  /\ at' = there
  /\ UNCHANGED <<tables, link, oldDeviceConnected>>

Notify == Send("notify", 1, "indicate")
Indicate == Send("indicate", 2, "left?")

(* Mutant of Again: the advertising is not started. *)
AgainNot ==
  /\ at = "again"
  /\ at' = "noteLeft"
  /\ UNCHANGED <<tables, link, oldDeviceConnected, sent>>

Again ==
  /\ at = "again" /\ Start
  /\ at' = "noteLeft"
  /\ UNCHANGED <<tables, stack, conn, handles, connect_handle, deviceConnected,
                 oldDeviceConnected, missed, sent>>

(* oldDeviceConnected = deviceConnected, as it is by now. *)
Note(from, there) ==
  /\ at = from
  /\ oldDeviceConnected' = deviceConnected
  /\ at' = there
  /\ UNCHANGED <<tables, link, sent>>

NoteLeft == Note("noteLeft", "came?")
NoteCame == Note("note", "send?")

Sketch ==
  \/ CreateService \/ CreateCharacteristic \/ StartService \/ Advertise
  \/ LookConnected \/ LookLeft \/ LookCame
  \/ Notify \/ Indicate \/ Again \/ NoteLeft \/ NoteCame

Next == Sketch \/ Connect \/ Disconnect
-----------------------------------------------------------------------------
TypeOK ==
  /\ at \in {"init", "chars", "advertise", "send?", "notify", "indicate", "left?",
             "again", "noteLeft", "came?", "note"}
  /\ char_index \in 0 .. CharMax
  /\ table \in [0 .. CharMax - 1 -> 0 .. Chars]
  /\ Len(notify_handle) <= Chars
  /\ {stack, advertising, deviceConnected, oldDeviceConnected, missed,
      refused} \subseteq BOOLEAN
  /\ {conn, handles, connect_handle} \subseteq 0 .. MaxHandle
  /\ Len(sent) <= 1

(* What a characteristic sends goes to the central that is connected then,  *)
(* or to nobody when that has left since loop() looked, never to one that   *)
(* was there before; and it goes out under the characteristic's own entry.  *)
SendsAreOwn ==
  \A n \in DOMAIN sent : /\ sent[n].to \in {0, sent[n].conn}
                         /\ table[sent[n].entry] = sent[n].of

(* The device can be reached, or is, again and again: however centrals come *)
(* and go, the sketch comes to advertise when they have left.  Unless one   *)
(* left before loop(), which waits a second while it sends, had noted that  *)
(* it had come, or the stack refused to advertise, which nobody is told:    *)
(* then the sketch never advertises again.                                  *)
StaysReachable == []<>(advertising \/ conn # 0 \/ missed \/ refused)
=============================================================================
