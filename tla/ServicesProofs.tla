--------------------------- MODULE ServicesProofs ---------------------------
(***************************************************************************)
(* Properties of the MQTT client, the LED between two threads, the         *)
(* Bluetooth peripheral, the file system, the button, the scans, the cloud *)
(* client, the weather and the HTTP client, for any paths, files, data     *)
(* points, characteristics, times, networks, URLs and connections.  Each   *)
(* rests on an invariant of its own part, which only that part's steps can *)
(* disturb; what is found by going through a list, as by run(), is proved  *)
(* by induction over how far it has got.                                   *)
(***************************************************************************)
EXTENDS Services, FiniteSetTheorems, SequenceTheorems, WellFoundedInduction, TLAPS

(* A step is one of a part's or leaves that part alone. *)
LEMMA WhoseStep ==
  ASSUME [Next]_vars
  PROVE  /\ Mqtt!Next \/ UNCHANGED mqttVars
         /\ Led!Next \/ UNCHANGED ledVars
         /\ Central!Next \/ UNCHANGED bleVars
         /\ Fs!Next \/ UNCHANGED fsVars
         /\ Press!Next \/ UNCHANGED buttonVars
         /\ Cloud!Next \/ UNCHANGED cloudVars
         /\ Multi!Next \/ UNCHANGED multiVars
         /\ Weather!Next \/ UNCHANGED weatherVars
         /\ Http!Next \/ UNCHANGED httpVars
<1>1. CASE UNCHANGED vars
  BY <1>1 DEF vars
<1>2. CASE Next
  BY <1>2 DEF Next, Only
<1> QED BY <1>1, <1>2

(* Of a set of numbers one is the least, and induction from that: the set  *)
(* has what holds so far as its property.                                  *)
LEMMA Least ==
  ASSUME NEW S, S \subseteq Nat, S # {}
  PROVE  \E n \in S : \A m \in S : n <= m
<1> DEFINE R == OpToRel(<, Nat)
<1>1. IsWellFoundedOn(R, Nat)
  BY NatLessThanWellFounded
<1>2. \A m, n \in Nat : m < n => <<m, n>> \in R
  BY DEF OpToRel
<1> HIDE DEF R
<1>3. PICK n \in S : \A m \in S : ~ (<<m, n>> \in R)
  BY <1>1, WFMin
<1>4. \A m \in S : ~ (m < n)
  BY <1>2, <1>3
<1>5. \A m \in S : m \in Nat /\ n \in Nat
  OBVIOUS
<1> QED BY <1>4, <1>5

LEMMA Induction ==
  ASSUME NEW S, 0 \in S, \A n \in Nat : n \in S => n + 1 \in S
  PROVE  Nat \subseteq S
<1> SUFFICES ASSUME Nat \ S # {} PROVE FALSE
  OBVIOUS
<1>1. PICK n \in Nat \ S : \A m \in Nat \ S : n <= m
  BY Least
<1>2. n # 0 /\ n - 1 \in Nat /\ n - 1 \in S
  BY <1>1
<1> QED BY <1>1, <1>2

(* The instances count as everybody does. *)
LEMMA CountsAlike == \A S : /\ Weather!Cardinality(S) = Cardinality(S)
                            /\ Cloud!Cardinality(S) = Cardinality(S)
BY DEF Cardinality, Weather!Cardinality, Cloud!Cardinality

LEMMA CountUpTo == ASSUME NEW n \in Nat PROVE Cardinality(1 .. n) = n /\ IsFiniteSet(1 .. n)
<1>1. 1 \in Int /\ n \in Int
  OBVIOUS
<1>2. Cardinality(1 .. n) = IF 1 > n THEN 0 ELSE n - 1 + 1
  BY ONLY <1>1, FS_Interval, Zenon
<1>3. IsFiniteSet(1 .. n)
  BY <1>1, FS_Interval
<1> QED BY <1>2, <1>3

-----------------------------------------------------------------------------
(* MqttClient: the flags are flags, and FlagIsSession keeps itself. *)
MqttInv == {is_connected, session, spoiled} \subseteq BOOLEAN /\ FlagIsSession

LEMMA MqttStep == MqttInv /\ (Mqtt!Next \/ UNCHANGED mqttVars) => MqttInv'
<1> SUFFICES ASSUME MqttInv, Mqtt!Next \/ UNCHANGED mqttVars PROVE MqttInv'
  OBVIOUS
<1> USE DEF MqttInv, FlagIsSession, Mqtt!FlagIsSession
<1>1. CASE UNCHANGED <<is_connected, session, spoiled>>
  BY <1>1
<1>2. CASE Mqtt!ConnectOk
  BY <1>2 DEF Mqtt!ConnectOk
<1>3. CASE Mqtt!Subscribe
  BY <1>3 DEF Mqtt!Subscribe
<1>4. CASE Mqtt!Disconnect
  BY <1>4 DEF Mqtt!Disconnect
<1>5. CASE Mqtt!Free
  BY <1>5 DEF Mqtt!Free
<1>6. CASE Mqtt!Dropped
  BY <1>6 DEF Mqtt!Dropped
<1> QED
  BY <1>1, <1>2, <1>3, <1>4, <1>5, <1>6
  DEF mqttVars, Mqtt!Next, Mqtt!Sketch, Mqtt!InitClient, Mqtt!Begin, Mqtt!ConnectFails,
      Mqtt!Publish, Mqtt!Yield, Mqtt!OnMessage

(* The flag of the MQTT client is its session, but for what it cannot      *)
(* notice (MQTTClient::connect(), disconnect() and free()).                *)
THEOREM FlagIsSessionAlways == Spec => []FlagIsSession
<1>1. Init => MqttInv
  BY DEF Init, Mqtt!Init, MqttInv, FlagIsSession, Mqtt!FlagIsSession
<1>2. MqttInv /\ [Next]_vars => MqttInv'
  BY WhoseStep, MqttStep
<1>3. MqttInv => FlagIsSession
  BY DEF MqttInv
<1> QED BY <1>1, <1>2, <1>3, PTL DEF Spec

-----------------------------------------------------------------------------
(* QuickStart: from a store that caught nobody on, until one that does,    *)
(* whoever is between its store and its report wants what the state is,    *)
(* and what is not yet lit or reported is about to be.                     *)
LedTyped ==
  /\ ledState \in {"off", "on", "blink"}
  /\ pc \in [Led!Thread -> {"idle", "toggle", "set", "pin", "write"}]
  /\ wants \in [Led!Thread -> {"off", "on", "blink"}]
  /\ reports \in [Led!Thread -> BOOLEAN]
  /\ {lit, nowLevel, unsaid, failed, raced} \subseteq BOOLEAN

WantsTheState == \A t \in Led!Thread : pc[t] \in {"pin", "write"} => wants[t] = ledState
TogglesBlink == \A t \in Led!Thread : pc[t] = "toggle" => ledState = "blink"
LitOrAbout ==
  \/ \E t \in Led!Thread : pc[t] = "pin"
  \/ (ledState = "on" => lit) /\ (ledState = "off" => ~ lit)
ToldOrAbout ==
  \/ dp \in {"none", Led!AsBool(ledState)} \/ unsaid \/ failed
  \/ \E t \in Led!Thread : pc[t] \in {"pin", "write"} /\ reports[t]

LedInv ==
  LedTyped /\ (~ raced => WantsTheState /\ TogglesBlink /\ LitOrAbout /\ ToldOrAbout)

LEMMA LedStep == LedInv /\ (Led!Next \/ UNCHANGED ledVars) => LedInv'
<1> SUFFICES ASSUME LedInv, Led!Next \/ UNCHANGED ledVars PROVE LedInv'
  OBVIOUS
<1> USE DEF LedInv, LedTyped, WantsTheState, TogglesBlink, LitOrAbout, ToldOrAbout,
            Led!Thread, Led!Go, Led!Idle, Led!Other, Led!Caught
<1>1. CASE UNCHANGED ledVars
  BY <1>1 DEF ledVars
<1>2. CASE Led!Update
  BY <1>2 DEF Led!Update
<1>3. CASE Led!Toggle
  BY <1>3 DEF Led!Toggle
<1>4. ASSUME NEW t \in Led!Thread, NEW state \in {"off", "on", "blink"},
             NEW report \in BOOLEAN, Led!Begin(t, state, report, "set")
      PROVE  LedInv'
  BY <1>4 DEF Led!Begin
<1>5. ASSUME NEW t \in Led!Thread, Led!Set(t) PROVE LedInv'
  <2> DEFINE same == ledState = wants[t] /\ (wants[t] = "blink" => interval)
             after == IF reports[t] THEN "write" ELSE "idle"
  <2>1. pc[t] = "set" /\ UNCHANGED <<lit, wants, reports, dp, failed>>
    BY <1>5 DEF Led!Set
  <2>2. CASE same
    <3>1. pc' = [pc EXCEPT ![t] = after] /\ ledState = wants[t]
          /\ UNCHANGED <<ledState, nowLevel, unsaid, raced>>
      BY <1>5, <2>2 DEF Led!Set
    <3>2. LedTyped'
      BY <2>1, <3>1
    <3>3. ~ raced => WantsTheState' /\ TogglesBlink'
      BY <2>1, <3>1
    <3>4. ~ raced => LitOrAbout'
      BY <2>1, <3>1
    <3>5. ~ raced => ToldOrAbout'
      BY <2>1, <3>1
    <3> QED BY <3>1, <3>2, <3>3, <3>4, <3>5
  <2>3. CASE ~ same
    <3>1. /\ pc' = [pc EXCEPT ![t] = "pin"] /\ ledState' = wants[t]
          /\ nowLevel' = (nowLevel \/ wants[t] = "blink")
          /\ unsaid' = (unsaid \/ ~ reports[t])
          /\ raced' = (pc[Led!Other(t)] \in {"toggle", "pin", "write"})
      BY <1>5, <2>3 DEF Led!Set
    <3>2. LedTyped'
      BY <2>1, <3>1
    <3>3. ~ raced' => \A u \in Led!Thread : u # t => pc'[u] \in {"idle", "set"}
      BY <2>1, <3>1
    <3>4. pc'[t] = "pin" /\ reports'[t] = reports[t]
      BY <2>1, <3>1
    <3> QED BY <2>1, <3>1, <3>2, <3>3, <3>4
  <2> QED BY <2>2, <2>3
<1>6. ASSUME NEW t \in Led!Thread, Led!Pin(t) PROVE LedInv'
  BY <1>6 DEF Led!Pin
<1>7. ASSUME NEW t \in Led!Thread, Led!Write(t) PROVE LedInv'
  BY <1>7 DEF Led!Write, Led!AsBool
<1>8. CASE Led!MqttConnected
  BY <1>8 DEF Led!MqttConnected, Led!Begin
<1>9. CASE Led!Click \/ Led!BindStart \/ Led!Activated \/ Led!Receive
  BY <1>4, <1>9 DEF Led!Click, Led!BindStart, Led!Activated, Led!Receive
<1> HIDE DEF LedInv
<1> QED
  BY <1>1, <1>2, <1>3, <1>5, <1>6, <1>7, <1>8, <1>9 DEF Led!Next

(* LED, its state and the cloud agree when both threads rest, but for what *)
(* is not or could not be reported, and from a store that catches the      *)
(* other thread until the next that does not (tLed::_setLedState(), and    *)
(* the reports of buttonClick() and tuyaIoTEventCallback()).               *)
THEOREM AllAgreeAlways == Spec => []AllAgree
<1>1. Init => LedInv
  BY DEF Init, Led!Init, LedInv, LedTyped, WantsTheState, TogglesBlink, LitOrAbout,
         ToldOrAbout, Led!Thread
<1>2. LedInv /\ [Next]_vars => LedInv'
  BY WhoseStep, LedStep
<1>3. LedInv => AllAgree
  BY DEF LedInv, LedTyped, LitOrAbout, ToldOrAbout, AllAgree, Led!AllAgree, Led!Idle
<1> QED BY <1>1, <1>2, <1>3, PTL DEF Spec

-----------------------------------------------------------------------------
(* Ble: characteristic i has entry i - 1 of the table, and the handle that *)
(* BLEDEV keeps is that of the connection.                                 *)
BleTyped ==
  /\ notify_handle \in Seq(Nat) /\ Len(notify_handle) <= Chars
  /\ table \in [0 .. CharMax - 1 -> Nat]

Created ==
  /\ bleAt = "init" => notify_handle = <<>>
  /\ bleAt = "chars" => char_index = Len(notify_handle)
  /\ bleAt \in {"init", "chars"} => sent = <<>>
  /\ bleAt \notin {"init", "chars"} => Len(notify_handle) = Chars

OwnEntries ==
  \A i \in 1 .. Len(notify_handle) : notify_handle[i] = i - 1 /\ table[i - 1] = i

BleInv ==
  BleTyped /\ Created /\ OwnEntries /\ connect_handle = conn /\ SendsAreOwn

(* Steps that neither make a characteristic nor send. *)
LEMMA BleRest ==
  ASSUME BleInv, UNCHANGED <<table, notify_handle, sent>>, connect_handle' = conn',
         Created'
  PROVE  BleInv'
<1> QED
  BY DEF BleInv, BleTyped, OwnEntries, SendsAreOwn, Central!SendsAreOwn

LEMMA SendStep ==
  ASSUME BleInv, NEW from, NEW there, NEW c \in 1 .. Chars,
         from \notin {"init", "chars"}, there \notin {"init", "chars"},
         Central!Send(from, c, there)
  PROVE  BleInv'
<1> DEFINE s == [to |-> connect_handle, conn |-> conn, entry |-> notify_handle[c], of |-> c]
<1>1. /\ bleAt = from /\ bleAt' = there /\ sent' = <<s>>
      /\ UNCHANGED <<table, notify_handle, char_index, connect_handle, conn>>
  BY DEF Central!Send, Central!tables, Central!link
<1>2. Len(notify_handle) = Chars
  BY <1>1 DEF BleInv, Created
<1>3. notify_handle[c] = c - 1 /\ table[c - 1] = c
  BY <1>2 DEF BleInv, OwnEntries
<1>4. s.to = s.conn /\ table[s.entry] = s.of
  BY <1>3 DEF BleInv
<1> HIDE DEF s
<1>5. DOMAIN sent' = {1} /\ sent'[1] = s
  BY <1>1
<1>6. SendsAreOwn'
  BY <1>1, <1>4, <1>5 DEF SendsAreOwn, Central!SendsAreOwn
<1>7. Created'
  BY <1>1, <1>2 DEF Created
<1> QED BY <1>1, <1>6, <1>7 DEF BleInv, BleTyped, OwnEntries

LEMMA CharsFit == Chars \in Nat /\ CharMax \in Nat /\ 2 <= Chars /\ Chars <= CharMax
BY ServicesAssumption

LEMMA CreateStep ==
  ASSUME BleInv, Central!CreateCharacteristic
  PROVE  BleInv'
<1> DEFINE n == Len(notify_handle)
<1>1. /\ bleAt = "chars" /\ n < Chars /\ UNCHANGED <<bleAt, sent, connect_handle, conn>>
      /\ table' = [table EXCEPT ![char_index] = n + 1]
      /\ notify_handle' = Append(notify_handle, char_index)
      /\ char_index' = char_index + 1
  BY DEF Central!CreateCharacteristic, Central!link
<1>2. n \in Nat /\ char_index = n /\ sent = <<>> /\ notify_handle \in Seq(Nat)
  BY <1>1 DEF BleInv, BleTyped, Created
<1> HIDE DEF n
<1>3. n \in 0 .. CharMax - 1 /\ n + 1 <= Chars
  BY <1>1, <1>2, CharsFit
<1>4. notify_handle' \in Seq(Nat) /\ Len(notify_handle') = n + 1
      /\ notify_handle'[n + 1] = n
      /\ \A i \in 1 .. n : notify_handle'[i] = notify_handle[i]
  BY <1>1, <1>2 DEF n
<1>5. table' \in [0 .. CharMax - 1 -> Nat] /\ table'[n] = n + 1
      /\ \A k \in 0 .. n - 1 : table'[k] = table[k]
  BY <1>1, <1>2, <1>3 DEF BleInv, BleTyped
<1>6. n = Len(notify_handle) /\ bleAt' = "chars" /\ char_index' = n + 1 /\ sent' = <<>>
      /\ connect_handle' = conn'
  BY <1>1, <1>2 DEF BleInv, n
<1>7. OwnEntries'
  <2> SUFFICES ASSUME NEW i \in 1 .. n + 1
               PROVE  notify_handle'[i] = i - 1 /\ table'[i - 1] = i
    BY <1>4 DEF OwnEntries
  <2>1. CASE i = n + 1
    BY <1>2, <1>4, <1>5, <2>1
  <2>2. CASE i \in 1 .. n
    <3>1. notify_handle[i] = i - 1 /\ table[i - 1] = i
      BY <1>6, <2>2 DEF BleInv, OwnEntries
    <3>2. i - 1 \in 0 .. n - 1
      BY <1>2, <2>2
    <3> QED BY <1>4, <1>5, <2>2, <3>1, <3>2
  <2> QED BY <1>2, <2>1, <2>2
<1>8. Created' /\ BleTyped'
  BY <1>3, <1>4, <1>5, <1>6 DEF Created, BleTyped
<1>9. SendsAreOwn'
  BY <1>6 DEF SendsAreOwn, Central!SendsAreOwn
<1> QED BY <1>6, <1>7, <1>8, <1>9 DEF BleInv

LEMMA ChosenChars == 1 \in 1 .. Chars /\ 2 \in 1 .. Chars
BY CharsFit

LEMMA BleStep == BleInv /\ (Central!Next \/ UNCHANGED bleVars) => BleInv'
<1> SUFFICES ASSUME BleInv, Central!Next \/ UNCHANGED bleVars PROVE BleInv'
  OBVIOUS
<1> USE DEF Central!tables, Central!link
<1>0. connect_handle = conn /\ Created
  BY DEF BleInv
<1>1. CASE UNCHANGED bleVars
  BY <1>0, <1>1, BleRest DEF bleVars, Created
<1>2. CASE Central!CreateService
  BY <1>0, <1>2, BleRest DEF Central!CreateService, Created
<1>3. CASE Central!StartService
  BY <1>0, <1>3, BleRest DEF Central!StartService, Created
<1>4. CASE Central!Advertise
  BY <1>0, <1>4, BleRest DEF Central!Advertise, Created
<1>5. CASE Central!LookConnected \/ Central!LookLeft \/ Central!LookCame
  BY <1>0, <1>5, BleRest DEF Central!LookConnected, Central!LookLeft, Central!LookCame,
                             Central!Look, Created
<1>6. CASE Central!Notify \/ Central!Indicate
  <2>1. 1 \in 1 .. Chars /\ 2 \in 1 .. Chars
    BY ChosenChars
  <2>2. CASE Central!Send("notify", 1, "indicate")
    BY <2>1, <2>2, SendStep
  <2>3. CASE Central!Send("indicate", 2, "left?")
    BY <2>1, <2>3, SendStep
  <2> QED BY <1>6, <2>2, <2>3 DEF Central!Notify, Central!Indicate
<1>7. CASE Central!Again
  BY <1>0, <1>7, BleRest DEF Central!Again, Created
<1>8. CASE Central!NoteLeft \/ Central!NoteCame
  BY <1>0, <1>8, BleRest DEF Central!NoteLeft, Central!NoteCame, Central!Note, Created
<1>9. CASE Central!Connect
  BY <1>0, <1>9, BleRest DEF Central!Connect, Created
<1>10. CASE Central!Disconnect
  BY <1>0, <1>10, BleRest DEF Central!Disconnect, Central!Leave, Created
<1> QED
  BY <1>1, <1>2, <1>3, <1>4, <1>5, <1>6, <1>7, <1>8, <1>9, <1>10, CreateStep
  DEF Central!Next, Central!Sketch

LEMMA BleAlways == Spec => []BleInv
<1>1. Init => BleInv
  <2> SUFFICES ASSUME Init PROVE BleInv
    OBVIOUS
  <2>1. notify_handle = <<>> /\ sent = <<>> /\ bleAt = "init" /\ connect_handle = conn
        /\ table = [i \in 0 .. CharMax - 1 |-> 0]
    BY DEF Init, Central!Init
  <2>2. notify_handle \in Seq(Nat) /\ Len(notify_handle) = 0
    BY <2>1
  <2> QED
    BY <2>1, <2>2, ServicesAssumption DEF BleInv, BleTyped, Created, OwnEntries,
       SendsAreOwn, Central!SendsAreOwn
<1>2. BleInv /\ [Next]_vars => BleInv'
  BY WhoseStep, BleStep
<1> QED BY <1>1, <1>2, PTL DEF Spec

(* A characteristic sends to the central that is there, under its own      *)
(* entry (BLECharacteristic::notify() and indicate(), BLEDEV's callback).  *)
THEOREM SendsAreOwnAlways == Spec => []SendsAreOwn
<1>1. BleInv => SendsAreOwn
  BY DEF BleInv
<1> QED BY <1>1, BleAlways, PTL

-----------------------------------------------------------------------------
(* LittleFs: with the types of what is on flash and of what was promised,  *)
(* and a file open for what it holds at least, PromiseKept keeps itself.   *)
Promise == [there : BOOLEAN, bytes : Nat]
Making == [target : Path, depth : Int, again : BOOLEAN]

FsTyped ==
  /\ tree \in [Path -> {"none", "dir", "file"}]
  /\ content \in [Path -> Nat]
  /\ handle \in Path \cup {<<>>} /\ size \in Nat
  /\ promised \in [Path -> Promise]

MakingTyped == making # Fs!Idle => making \in Making

AtLeast == handle # <<>> => content[handle] <= size

FsInv == FsTyped /\ MakingTyped /\ AtLeast /\ PromiseKept

LEMMA PathsAreNames == \A p \in Path : p # <<>> /\ SubSeq(p, 1, Len(p)) = p
BY ServicesAssumption

(* What a step must leave behind. *)
LEMMA KeptSuffices ==
  ASSUME tree' \in [Path -> {"none", "dir", "file"}], content' \in [Path -> Nat],
         handle' \in Path \cup {<<>>}, size' \in Nat,
         promised' \in [Path -> Promise], MakingTyped', AtLeast',
         \A p \in Path : (promised'[p].there => tree'[p] # "none")
                         /\ (p \notin lossy' => promised'[p].bytes <= content'[p])
  PROVE  FsInv'
<1> QED BY DEF FsInv, FsTyped, PromiseKept, Fs!PromiseKept

(* A mount keeps what is there, or formats and forgets. *)
LEMMA MountStep ==
  ASSUME FsInv, NEW o \in Object, Fs!Mount(o), UNCHANGED <<handle, size, making>>
  PROVE  FsInv'
<1>1. MakingTyped'
  BY DEF FsInv, MakingTyped
<1>2. CASE UNCHANGED <<tree, content, promised, lossy>>
  BY <1>1, <1>2 DEF FsInv, FsTyped, AtLeast, PromiseKept, Fs!PromiseKept
<1>3. CASE tree' = Fs!Nothing /\ content' = Fs!Empty /\ promised' = Fs!NoPromise
  <2>1. \A p \in Path : promised'[p] = [there |-> FALSE, bytes |-> 0] /\ content'[p] = 0
    BY <1>3 DEF Fs!Empty, Fs!NoPromise
  <2>2. promised' \in [Path -> Promise] /\ content' \in [Path -> Nat]
        /\ tree' \in [Path -> {"none", "dir", "file"}]
    BY <1>3 DEF Fs!Nothing, Fs!Empty, Fs!NoPromise, Promise
  <2>3. handle' \in Path \cup {<<>>} /\ size' \in Nat
    BY DEF FsInv, FsTyped
  <2>4. AtLeast'
    BY <2>1, <2>3 DEF AtLeast
  <2> QED BY <1>1, <2>1, <2>2, <2>3, <2>4, KeptSuffices
<1> QED BY <1>2, <1>3 DEF Fs!Mount

LEMMA MkdirStepKeeps ==
  ASSUME FsInv, Fs!MkdirStep
  PROVE  FsInv'
<1> DEFINE d == making.depth
           t == making.target
           p == SubSeq(t, 1, d)
<1>1. making # Fs!Idle /\ UNCHANGED <<content, handle, size, lossy>>
  BY DEF Fs!MkdirStep
<1>2. making \in Making /\ t \in Path /\ d \in Int
  BY <1>1 DEF FsInv, MakingTyped, Making
<1>3. PICK answer \in Fs!MkdirAnswers(p) :
        /\ tree' = IF answer = "ok" THEN [tree EXCEPT ![p] = "dir"] ELSE tree
        /\ \/ answer = "ok" /\ Fs!ReturnsDone(d)
           \/ answer = "exist" /\ ~ making.again /\ Fs!ReturnsDone(d)
           \/ /\ answer = "noent" /\ ~ making.again
              /\ making' = [making EXCEPT !.depth = d - 1]
              /\ UNCHANGED promised
           \/ (answer = "error" \/ answer = "noent") /\ Fs!ReturnsFailed
  BY DEF Fs!MkdirStep
<1>4. answer = "exist" => Fs!Kind(p) # "none"
  BY DEF Fs!MkdirAnswers
<1>5. d = Len(t) => p = t /\ p # <<>>
  BY <1>2, PathsAreNames
<1> HIDE DEF p
<1>6. tree' \in [Path -> {"none", "dir", "file"}]
      /\ \A q \in Path : tree[q] # "none" => tree'[q] # "none"
  BY <1>3 DEF FsInv, FsTyped
<1>7. ASSUME UNCHANGED promised, MakingTyped' PROVE FsInv'
  <2>1. \A q \in Path : (promised'[q].there => tree'[q] # "none")
                        /\ (q \notin lossy' => promised'[q].bytes <= content'[q])
    BY <1>1, <1>6, <1>7 DEF FsInv, Fs!PromiseKept, PromiseKept
  <2>2. AtLeast'
    BY <1>1 DEF FsInv, AtLeast
  <2> QED BY <1>1, <1>6, <1>7, <2>1, <2>2, KeptSuffices DEF FsInv, FsTyped
<1>8. CASE answer \in {"ok", "exist"} /\ Fs!ReturnsDone(d)
  <2>1. CASE d = Len(t)
    <3>1. making' = Fs!Idle /\ promised' = [promised EXCEPT ![t].there = TRUE]
      BY <1>8, <2>1 DEF Fs!ReturnsDone
    <3>2. tree'[t] # "none"
      BY <1>2, <1>3, <1>4, <1>5, <1>8, <2>1 DEF FsInv, FsTyped, Fs!Kind
    <3>3. promised[t] \in Promise
      BY <1>2 DEF FsInv, FsTyped
    <3>4. [promised[t] EXCEPT !.there = TRUE] \in Promise
          /\ [promised[t] EXCEPT !.there = TRUE].bytes = promised[t].bytes
      BY <3>3 DEF Promise
    <3>5. promised' \in [Path -> Promise] /\ promised'[t].bytes = promised[t].bytes
          /\ \A q \in Path \ {t} : promised'[q] = promised[q]
      BY <1>2, <3>1, <3>4 DEF FsInv, FsTyped
    <3>6. \A q \in Path : (promised'[q].there => tree'[q] # "none")
                          /\ (q \notin lossy' => promised'[q].bytes <= content'[q])
      BY <1>1, <1>6, <3>2, <3>5 DEF FsInv, PromiseKept, Fs!PromiseKept
    <3>7. AtLeast'
      BY <1>1 DEF FsInv, AtLeast
    <3> QED
      BY <1>1, <1>6, <3>1, <3>5, <3>6, <3>7, KeptSuffices
      DEF FsInv, FsTyped, MakingTyped
  <2>2. CASE d # Len(t)
    <3> DEFINE n == d + 1
    <3>1. UNCHANGED promised /\ making' = [making EXCEPT !.depth = n, !.again = TRUE]
      BY <1>8, <2>2 DEF Fs!ReturnsDone
    <3>2. n \in Int
      BY <1>2
    <3> HIDE DEF n
    <3>3. making' \in Making
      BY <1>2, <3>1, <3>2 DEF Making
    <3> QED BY <1>7, <3>1, <3>3 DEF MakingTyped
  <2> QED BY <2>1, <2>2
<1>9. CASE making' = [making EXCEPT !.depth = d - 1] /\ UNCHANGED promised
  <2> DEFINE n == d - 1
  <2>1. n \in Int
    BY <1>2
  <2> HIDE DEF n
  <2>2. making' = [making EXCEPT !.depth = n]
    BY <1>9 DEF n
  <2>3. making' \in Making
    BY <1>2, <2>1, <2>2 DEF Making
  <2> QED BY <1>7, <1>9, <2>3 DEF MakingTyped
<1>10. CASE Fs!ReturnsFailed
  BY <1>7, <1>10 DEF Fs!ReturnsFailed, MakingTyped
<1> QED BY <1>3, <1>8, <1>9, <1>10

(* An open file is given all or some of what was written to it. *)
LEMMA SavedFits ==
  ASSUME FsInv, handle \in Path, Fs!SaveAll \/ Fs!SaveSome
  PROVE  /\ content' \in [Path -> Nat]
         /\ content[handle] <= content'[handle] /\ content'[handle] <= size
         /\ Fs!SaveAll => content'[handle] = size
         /\ \A q \in Path \ {handle} : content'[q] = content[q]
<1>1. content \in [Path -> Nat] /\ size \in Nat /\ content[handle] \in Nat
      /\ content[handle] <= size
  BY PathsAreNames DEF FsInv, FsTyped, AtLeast
<1>2. CASE Fs!SaveAll
  BY <1>1, <1>2 DEF Fs!SaveAll
<1>3. CASE Fs!SaveSome /\ ~ Fs!SaveAll
  <2>1. PICK n \in content[handle] .. size : content' = [content EXCEPT ![handle] = n]
    BY <1>3 DEF Fs!SaveSome
  <2>2. n \in Nat
    BY <1>1, <2>1
  <2> QED BY <1>1, <1>3, <2>1, <2>2
<1> QED BY <1>2, <1>3

LEMMA FlushStep ==
  ASSUME FsInv, NEW o \in Object, Fs!Flush(o)
  PROVE  FsInv'
<1>1. /\ handle \in Path /\ (Fs!SaveAll \/ Fs!SaveSome)
      /\ lossy' = lossy \/ lossy' = lossy \cup {handle}
      /\ UNCHANGED <<tree, handle, size, making, promised>>
  BY DEF Fs!Flush, Fs!ReachesFile, FsInv, FsTyped
<1>2. /\ content' \in [Path -> Nat] /\ content[handle] \in Nat
      /\ content[handle] <= content'[handle] /\ content'[handle] <= size
      /\ \A q \in Path \ {handle} : content'[q] = content[q]
  BY <1>1, SavedFits DEF FsInv, FsTyped
<1>3. ASSUME NEW q \in Path, q \notin lossy' PROVE promised'[q].bytes <= content'[q]
  <2>1. q \notin lossy /\ promised'[q] = promised[q] /\ promised[q].bytes <= content[q]
    BY <1>1, <1>3 DEF FsInv, PromiseKept, Fs!PromiseKept
  <2>2. promised[q].bytes \in Nat
    BY DEF FsInv, FsTyped, Promise
  <2> QED BY <1>1, <1>2, <2>1, <2>2
<1>4. \A q \in Path : promised'[q].there => tree'[q] # "none"
  BY <1>1 DEF FsInv, PromiseKept, Fs!PromiseKept
<1>5. AtLeast'
  BY <1>1, <1>2 DEF AtLeast
<1> QED
  BY <1>1, <1>2, <1>3, <1>4, <1>5, KeptSuffices DEF FsInv, FsTyped, MakingTyped

(* A close() that answers 0 promises what it has saved, or says so of a     *)
(* file that has been through a flush() that failed.                        *)
LEMMA CloseStep ==
  ASSUME FsInv, NEW o \in Object, Fs!Close(o)
  PROVE  FsInv'
<1> DEFINE said == [there |-> TRUE, bytes |-> size]
<1>1. /\ handle \in Path /\ tree[handle] = "file" /\ (Fs!SaveAll \/ Fs!SaveSome)
      /\ handle' = <<>> /\ size' = 0 /\ UNCHANGED <<tree, making>>
      /\ \/ /\ promised' = [promised EXCEPT ![handle] = said]
            /\ \/ Fs!SaveAll /\ lossy' = lossy \ {handle}
               \/ handle \in lossy /\ lossy' = lossy
         \/ promised' = promised /\ lossy' = lossy
  BY DEF Fs!Close, Fs!ReachesFile, FsInv, FsTyped
<1>2. /\ content' \in [Path -> Nat] /\ content[handle] \in Nat
      /\ content[handle] <= content'[handle]
      /\ Fs!SaveAll => content'[handle] = size
      /\ \A q \in Path \ {handle} : content'[q] = content[q]
  BY <1>1, SavedFits DEF FsInv, FsTyped
<1>3. said \in Promise /\ said.there /\ said.bytes = size /\ size \in Nat
  BY DEF Promise, FsInv, FsTyped
<1> HIDE DEF said
<1>4. promised' \in [Path -> Promise] /\ \A q \in Path \ {handle} : promised'[q] = promised[q]
  BY <1>1, <1>3 DEF FsInv, FsTyped
<1>5. ASSUME NEW q \in Path \ {handle}
      PROVE  /\ promised'[q].there => tree'[q] # "none"
             /\ q \notin lossy' => promised'[q].bytes <= content'[q]
  <2>1. q \notin lossy' => q \notin lossy
    BY <1>1
  <2> QED BY <1>1, <1>2, <1>4, <2>1 DEF FsInv, PromiseKept, Fs!PromiseKept
<1>6. handle \notin lossy' => promised'[handle].bytes <= content'[handle]
  <2>1. CASE promised' = promised /\ lossy' = lossy
    <3>1. handle \notin lossy => promised[handle].bytes <= content[handle]
      BY <1>1 DEF FsInv, PromiseKept, Fs!PromiseKept
    <3>2. promised[handle].bytes \in Nat
      BY <1>1 DEF FsInv, FsTyped, Promise
    <3>3. content'[handle] \in Nat
      BY <1>1, <1>2
    <3>4. handle \notin lossy => promised[handle].bytes <= content'[handle]
      BY ONLY <1>2, <3>1, <3>2, <3>3
    <3> QED BY <2>1, <3>4
  <2>2. CASE promised' = [promised EXCEPT ![handle] = said] /\ Fs!SaveAll
    <3>1. promised'[handle] = said
      BY <1>1, <2>2 DEF FsInv, FsTyped
    <3> QED BY <1>2, <1>3, <2>2, <3>1
  <2>3. CASE handle \in lossy /\ lossy' = lossy
    BY <2>3
  <2> QED BY <1>1, <2>1, <2>2, <2>3
<1>7. tree'[handle] # "none"
  BY <1>1
<1>8. AtLeast'
  BY <1>1 DEF AtLeast
<1>9. \A q \in Path : (promised'[q].there => tree'[q] # "none")
                      /\ (q \notin lossy' => promised'[q].bytes <= content'[q])
  BY <1>5, <1>6, <1>7
<1> QED
  BY <1>1, <1>2, <1>4, <1>8, <1>9, KeptSuffices DEF FsInv, FsTyped, MakingTyped

LEMMA RemoveStep ==
  ASSUME FsInv, NEW o \in Object, NEW p \in Path, Fs!Remove(o, p)
  PROVE  FsInv'
<1>1. tree' = [tree EXCEPT ![p] = "none"] /\ content' = [content EXCEPT ![p] = 0]
      /\ promised' = [promised EXCEPT ![p] = [there |-> FALSE, bytes |-> 0]]
      /\ lossy' = lossy \ {p} /\ handle # p
      /\ UNCHANGED <<handle, size, making>>
  BY DEF Fs!Remove
<1>2. [there |-> FALSE, bytes |-> 0] \in Promise
  BY DEF Promise
<1>3. promised' \in [Path -> Promise] /\ content' \in [Path -> Nat]
      /\ tree' \in [Path -> {"none", "dir", "file"}]
  BY <1>1, <1>2 DEF FsInv, FsTyped
<1>4. promised'[p] = [there |-> FALSE, bytes |-> 0] /\ content'[p] = 0
      /\ \A q \in Path \ {p} : /\ promised'[q] = promised[q] /\ content'[q] = content[q]
                               /\ tree'[q] = tree[q]
  BY <1>1 DEF FsInv, FsTyped
<1>5. \A q \in Path : (promised'[q].there => tree'[q] # "none")
                      /\ (q \notin lossy' => promised'[q].bytes <= content'[q])
  BY <1>1, <1>4 DEF FsInv, PromiseKept, Fs!PromiseKept
<1>6. AtLeast'
  BY <1>1, <1>4 DEF FsInv, FsTyped, AtLeast
<1> QED BY <1>1, <1>3, <1>5, <1>6, KeptSuffices DEF FsInv, FsTyped, MakingTyped

(* The promise about a file goes with it to its new name. *)
LEMMA RenameStep ==
  ASSUME FsInv, NEW o \in Object, NEW p \in Path, NEW q \in Path, Fs!Rename(o, p, q)
  PROVE  FsInv'
<1>1. p # q /\ handle \notin {p, q} /\ tree' = [tree EXCEPT ![p] = "none", ![q] = "file"]
      /\ content' = [content EXCEPT ![p] = 0, ![q] = content[p]]
      /\ promised' = [promised EXCEPT ![p] = [there |-> FALSE, bytes |-> 0],
                                      ![q] = promised[p]]
      /\ lossy' = {IF r = p THEN q ELSE r : r \in lossy}
      /\ UNCHANGED <<handle, size, making>>
  BY DEF Fs!Rename
<1>2. [there |-> FALSE, bytes |-> 0] \in Promise
      /\ promised[p] \in Promise /\ content[p] \in Nat
  BY DEF Promise, FsInv, FsTyped
<1>3. promised' \in [Path -> Promise] /\ content' \in [Path -> Nat]
      /\ tree' \in [Path -> {"none", "dir", "file"}]
  BY <1>1, <1>2 DEF FsInv, FsTyped
<1>4. /\ promised'[p] = [there |-> FALSE, bytes |-> 0] /\ content'[p] = 0
      /\ promised'[q] = promised[p] /\ content'[q] = content[p] /\ tree'[q] = "file"
      /\ \A r \in Path \ {p, q} : /\ promised'[r] = promised[r] /\ content'[r] = content[r]
                                  /\ tree'[r] = tree[r]
  BY <1>1 DEF FsInv, FsTyped
<1>5. \A r \in Path : (promised'[r].there => tree'[r] # "none")
                      /\ (r \notin lossy' => promised'[r].bytes <= content'[r])
  <2>1. /\ p \in lossy => q \in lossy'
        /\ \A r \in Path \ {p, q} : r \in lossy => r \in lossy'
    BY <1>1
  <2>2. \A r \in Path : (promised[r].there => tree[r] # "none")
                        /\ (r \notin lossy => promised[r].bytes <= content[r])
    BY DEF FsInv, PromiseKept, Fs!PromiseKept
  <2> QED BY <1>4, <2>1, <2>2
<1>6. AtLeast'
  BY <1>1, <1>4 DEF FsInv, FsTyped, AtLeast
<1> QED BY <1>1, <1>3, <1>5, <1>6, KeptSuffices DEF FsInv, FsTyped, MakingTyped

LEMMA OpenStep ==
  ASSUME FsInv, NEW o \in Object, NEW p \in Path, Fs!Open(o, p)
  PROVE  FsInv'
<1>1. tree' = [tree EXCEPT ![p] = "file"] /\ handle' = p
      /\ promised' = [promised EXCEPT ![p].there = TRUE] /\ size' = content[p]
      /\ UNCHANGED <<content, lossy, making>>
  BY DEF Fs!Open
<1>2. promised[p] \in Promise /\ content[p] \in Nat
  BY DEF FsInv, FsTyped
<1>3. [promised[p] EXCEPT !.there = TRUE] \in Promise
      /\ [promised[p] EXCEPT !.there = TRUE].bytes = promised[p].bytes
  BY <1>2 DEF Promise
<1>4. promised' \in [Path -> Promise] /\ tree' \in [Path -> {"none", "dir", "file"}]
  BY <1>1, <1>3 DEF FsInv, FsTyped
<1>5. promised'[p].bytes = promised[p].bytes /\ tree'[p] = "file"
      /\ \A q \in Path \ {p} : promised'[q] = promised[q] /\ tree'[q] = tree[q]
  BY <1>1, <1>3 DEF FsInv, FsTyped
<1>6. \A q \in Path : (promised'[q].there => tree'[q] # "none")
                      /\ (q \notin lossy' => promised'[q].bytes <= content'[q])
  BY <1>1, <1>5 DEF FsInv, PromiseKept, Fs!PromiseKept
<1>7. AtLeast'
  BY <1>1, <1>2 DEF AtLeast
<1> QED BY <1>1, <1>2, <1>4, <1>6, <1>7, KeptSuffices DEF FsInv, FsTyped, MakingTyped

LEMMA FsStep ==
  ASSUME FsInv, Fs!Next \/ UNCHANGED fsVars
  PROVE  FsInv'
<1>1. CASE UNCHANGED <<tree, content, promised, lossy>> /\ handle' \in Path \cup {<<>>}
           /\ size' \in Nat /\ MakingTyped' /\ AtLeast'
  BY <1>1 DEF FsInv, FsTyped, PromiseKept, Fs!PromiseKept
<1>2. ASSUME NEW o \in Object, Fs!Construct(o) PROVE FsInv'
  <2>1. UNCHANGED <<handle, size, making>>
    BY <1>2 DEF Fs!Construct
  <2> QED BY <1>2, <2>1, MountStep DEF Fs!Construct
<1>3. ASSUME NEW o \in Object, Fs!MountFirst(o) PROVE FsInv'
  BY <1>3, MountStep DEF Fs!MountFirst
<1>4. ASSUME NEW o \in Object, NEW p \in Path, Fs!Mkdir(o, p) PROVE FsInv'
  <2>1. Len(p) \in Int
    BY ServicesAssumption
  <2>2. making' \in Making
    BY <1>4, <2>1 DEF Fs!Mkdir, Making
  <2> QED BY <1>1, <1>4, <2>2 DEF Fs!Mkdir, FsInv, FsTyped, MakingTyped, AtLeast
<1>5. ASSUME NEW o \in Object, Fs!Write(o) PROVE FsInv'
  <2>1. /\ size' = size + 1 /\ handle \in Path
        /\ UNCHANGED <<tree, content, handle, making, promised, lossy>>
    BY <1>5 DEF Fs!Write, Fs!ReachesFile, FsInv, FsTyped
  <2>2. content[handle] \in Nat /\ size \in Nat /\ content[handle] <= size
    BY <2>1, PathsAreNames DEF FsInv, FsTyped, AtLeast
  <2>3. AtLeast' /\ size' \in Nat
    BY <2>1, <2>2 DEF AtLeast
  <2> QED BY <1>1, <2>1, <2>3 DEF FsInv, FsTyped, MakingTyped
<1>6. ASSUME NEW o \in Object, Fs!Flush(o) \/ Fs!Close(o) PROVE FsInv'
  BY <1>6, FlushStep, CloseStep
<1>7. CASE Fs!Restart
  BY <1>1, <1>7 DEF Fs!Restart, FsInv, FsTyped, MakingTyped, AtLeast
<1>8. CASE UNCHANGED fsVars
  BY <1>1, <1>8 DEF fsVars, FsInv, FsTyped, MakingTyped, AtLeast
<1> QED
  BY <1>2, <1>3, <1>4, <1>5, <1>6, <1>7, <1>8, MkdirStepKeeps, RemoveStep, RenameStep,
     OpenStep DEF Fs!Next

LEMMA FsAlways == Spec => []FsInv
<1>1. Init => FsInv
  <2> SUFFICES ASSUME Init PROVE FsInv
    OBVIOUS
  <2>1. tree = Fs!Nothing /\ content = Fs!Empty /\ promised = Fs!NoPromise
        /\ handle = <<>> /\ size = 0 /\ making = Fs!Idle
    BY DEF Init, Fs!Init
  <2>2. \A p \in Path : promised[p] = [there |-> FALSE, bytes |-> 0] /\ content[p] = 0
    BY <2>1 DEF Fs!Empty, Fs!NoPromise
  <2>3. promised \in [Path -> Promise] /\ content \in [Path -> Nat]
        /\ tree \in [Path -> {"none", "dir", "file"}]
    BY <2>1 DEF Fs!Nothing, Fs!Empty, Fs!NoPromise, Promise
  <2> QED
    BY <2>1, <2>2, <2>3
    DEF FsInv, FsTyped, MakingTyped, AtLeast, PromiseKept, Fs!PromiseKept
<1>2. FsInv /\ [Next]_vars => FsInv'
  BY WhoseStep, FsStep
<1> QED BY <1>1, <1>2, PTL DEF Spec

(* What the file system has told a sketch is there is there, over failed    *)
(* and interrupted mkdir()s, objects that do not mount, and restarts; but   *)
(* for files that have been through a flush() that failed (VFSFILE,         *)
(* FS_LITTLEFS).                                                            *)
THEOREM PromiseKeptAlways == Spec => []PromiseKept
<1>1. FsInv => PromiseKept
  BY DEF FsInv
<1> QED BY <1>1, FsAlways, PTL
-----------------------------------------------------------------------------
(* Button: what has elapsed by the clock that wraps is the time between the *)
(* looks that saw the press, as long as a press that is not yet reported is *)
(* shorter than a round of the clock, which a long press never is allowed   *)
(* to outgrow by more than the time between two looks.  What the button     *)
(* really did in between is no more than one such time longer.              *)
Called == {"click", "remove"}

ButtonTyped ==
  /\ millis \in 0 .. Millis - 1 /\ buttonPressMs \in 0 .. Millis - 1
  /\ isPress \in 0 .. 3 /\ slipped \in BOOLEAN
  /\ held \in 0 .. LongPressMs + 2 * MaxGap /\ seen \in 0 .. LongPressMs + MaxGap
  /\ calls \in Seq(Called)

Pressing ==
  isPress \in {1, 2} =>
    /\ Press!Elapsed(millis, buttonPressMs) = seen /\ seen < LongPressMs
    /\ isPress = 1 => seen <= DebounceMs
    /\ isPress = 2 => seen > DebounceMs
    /\ held <= LongPressMs + MaxGap
    /\ ~ slipped => seen <= held /\ held <= seen + MaxGap
    /\ calls = <<>>

ButtonInv ==
  ButtonTyped /\ Pressing /\ (isPress = 3 => calls = <<"remove">>) /\ PressMeansOneThing

LEMMA ModSmall == \A m \in Nat \ {0} : \A x \in 0 .. m - 1 : x % m = x
BY SMTT(20)

LEMMA ModOnce == \A m \in Nat \ {0} : \A x \in m .. 2 * m - 1 : x % m = x - m
BY SMTT(20)

(* Times add up over a wrap. *)
LEMMA ElapsedAdds ==
  ASSUME NEW m \in Nat \ {0}, NEW now \in 0 .. m - 1, NEW start \in 0 .. m - 1,
         NEW h \in Nat, NEW g \in Nat, h + g < m, (now + m - start) % m = h
  PROVE  /\ ((now + g) % m) \in 0 .. m - 1
         /\ (((now + g) % m) + m - start) % m = h + g
<1>1. h = IF now >= start THEN now - start ELSE now + m - start
  <2>1. CASE now >= start
    <3>1. now + m - start \in m .. 2 * m - 1
      BY <2>1
    <3> QED BY <2>1, <3>1, ModOnce
  <2>2. CASE now < start
    <3>1. now + m - start \in 0 .. m - 1
      BY <2>2
    <3> QED BY <2>2, <3>1, ModSmall
  <2> QED BY <2>1, <2>2
<1>2. CASE now + g < m
  <2>1. (now + g) % m = now + g
    BY <1>2, ModSmall
  <2>2. CASE now >= start
    <3>1. now + g + m - start \in m .. 2 * m - 1 /\ now + g + m - start - m = h + g
      BY <1>1, <2>2
    <3>2. (now + g + m - start) % m = h + g
      BY <3>1, ModOnce
    <3> QED BY <1>2, <2>1, <3>2
  <2>3. CASE now < start
    <3>1. now + g + m - start \in 0 .. m - 1 /\ now + g + m - start = h + g
      BY <1>1, <2>3
    <3>2. (now + g + m - start) % m = h + g
      BY <3>1, ModSmall
    <3> QED BY <1>2, <2>1, <3>2
  <2> QED BY <2>2, <2>3
<1>3. CASE now + g >= m
  <2>1. now + g \in m .. 2 * m - 1
    BY <1>3
  <2>2. (now + g) % m = now + g - m
    BY <2>1, ModOnce, SMTT(30)
  <2>3. now + g - m + m - start \in 0 .. m - 1 /\ now + g - m + m - start = h + g
    BY <1>1, <1>3
  <2>4. (now + g - m + m - start) % m = h + g
    BY <2>3, ModSmall
  <2> QED BY <1>3, <2>1, <2>2, <2>4
<1> QED BY <1>2, <1>3

LEMMA ButtonConstants ==
  /\ Millis \in Nat \ {0} /\ DebounceMs \in Nat /\ LongPressMs \in Nat /\ MaxGap \in Nat
  /\ DebounceMs < LongPressMs /\ LongPressMs + 2 * MaxGap < Millis
BY ServicesAssumption

(* The clock, and what has elapsed of a press under way, at the next look. *)
LEMMA LookAgain ==
  ASSUME ButtonInv, NEW gap \in 0 .. MaxGap
  PROVE  LET now == (millis + gap) % Millis
         IN /\ now \in 0 .. Millis - 1
            /\ isPress \in {1, 2} => Press!Elapsed(now, buttonPressMs) = seen + gap
<1> DEFINE now == (millis + gap) % Millis
<1>1. gap \in Nat /\ gap <= MaxGap /\ gap < Millis
  BY ButtonConstants
<1>2. millis \in 0 .. Millis - 1 /\ buttonPressMs \in 0 .. Millis - 1 /\ seen \in Nat
  BY ButtonConstants DEF ButtonInv, ButtonTyped
<1>3. now \in 0 .. Millis - 1
  <2>1. (millis + Millis - millis) % Millis = 0
    <3>1. millis + Millis - millis = Millis /\ Millis \in Millis .. 2 * Millis - 1
      BY <1>2, ButtonConstants
    <3>2. Millis % Millis = Millis - Millis
      BY <3>1, ModOnce, ButtonConstants
    <3> QED BY <3>1, <3>2, ButtonConstants
  <2> QED BY <1>1, <1>2, <2>1, ElapsedAdds, ButtonConstants
<1>4. ASSUME isPress \in {1, 2} PROVE Press!Elapsed(now, buttonPressMs) = seen + gap
  <2>1. (millis + Millis - buttonPressMs) % Millis = seen /\ seen < LongPressMs
    BY <1>4 DEF ButtonInv, Pressing, Press!Elapsed
  <2>2. seen + gap < Millis
    BY <1>1, <1>2, <2>1, ButtonConstants
  <2>3. (((millis + gap) % Millis) + Millis - buttonPressMs) % Millis = seen + gap
    BY <1>1, <1>2, <2>1, <2>2, ElapsedAdds, ButtonConstants
  <2> QED BY <2>3 DEF Press!Elapsed
<1> QED BY <1>3, <1>4

(* The one call of a press. *)
LEMMA OneCall ==
  ASSUME calls = <<>>, NEW c \in Called, calls' = Append(calls, c)
  PROVE  calls' \in Seq(Called) /\ calls' = <<c>> /\ Len(calls') = 1
<1>1. calls' = <<c>>
  OBVIOUS
<1> QED BY <1>1

LEMMA LookStep ==
  ASSUME ButtonInv, NEW gap \in 0 .. MaxGap, Press!Look(gap)
  PROVE  ButtonInv'
<1> DEFINE now == (millis + gap) % Millis
           e   == seen + gap
<1>1. /\ millis' = now
      /\ Press!Down(now, gap) \/ Press!Up(now, gap)
  BY DEF Press!Look
<1>2. now \in 0 .. Millis - 1
      /\ (isPress \in {1, 2} => Press!Elapsed(now, buttonPressMs) = e)
  BY LookAgain
<1>3. /\ DebounceMs \in Nat /\ LongPressMs \in Nat /\ MaxGap \in Nat /\ gap \in 0 .. MaxGap
      /\ DebounceMs < LongPressMs
  BY ButtonConstants
<1>4. /\ buttonPressMs \in 0 .. Millis - 1 /\ isPress \in 0 .. 3 /\ slipped \in BOOLEAN
      /\ held \in 0 .. LongPressMs + 2 * MaxGap /\ seen \in 0 .. LongPressMs + MaxGap
      /\ calls \in Seq(Called)
  BY DEF ButtonInv, ButtonTyped
<1>5. isPress \in {1, 2} => /\ seen < LongPressMs /\ calls = <<>>
                            /\ isPress = 1 => seen <= DebounceMs
                            /\ isPress = 2 => seen > DebounceMs
                            /\ held <= LongPressMs + MaxGap
                            /\ ~ slipped => seen <= held /\ held <= seen + MaxGap
  BY DEF ButtonInv, Pressing
<1>6. (isPress = 3 => calls = <<"remove">>) /\ Press!PressMeansOneThing
  BY DEF ButtonInv, PressMeansOneThing
<1>7. e \in Nat /\ e = seen + gap /\ seen <= e /\ e <= seen + MaxGap
  BY <1>3, <1>4
<1>8. Press!Elapsed(now, now) = 0
  <2>1. now + Millis - now = Millis /\ Millis \in Millis .. 2 * Millis - 1
    BY <1>2, ButtonConstants
  <2>2. Millis % Millis = Millis - Millis
    BY <2>1, ModOnce, ButtonConstants
  <2> QED BY <2>1, <2>2, ButtonConstants DEF Press!Elapsed
<1>9. "click" # "remove" /\ <<"click">> # <<"remove">> /\ <<>> # <<"click">> /\ <<>> # <<"remove">>
      /\ Len(<<>>) = 0
  OBVIOUS
<1> HIDE DEF now, e
<1>10. ASSUME Press!Up(now, gap) PROVE ButtonInv'
  <2>1. isPress' = 0 /\ buttonPressMs' = buttonPressMs /\ Press!WasLetGo(gap)
    BY <1>10 DEF Press!Up
  <2>2. CASE isPress \notin {1, 2}
    <3>1. calls' = calls /\ held' = held /\ seen' = seen /\ slipped' = slipped
      BY <1>10, <2>1, <2>2 DEF Press!Up, Press!WasLetGo, Press!press
    <3>2. PressMeansOneThing'
      <4>1. isPress = 3 => calls = <<"remove">>
        BY <1>6
      <4>2. isPress = 0 \/ isPress = 3
        BY <1>4, <2>2
      <4> QED BY <1>6, <1>9, <2>1, <3>1, <4>1, <4>2 DEF PressMeansOneThing, Press!PressMeansOneThing
    <3> QED BY <1>1, <1>2, <1>4, <2>1, <3>1, <3>2 DEF ButtonInv, ButtonTyped, Pressing
  <2>3. CASE isPress \in {1, 2}
    <3>1. seen' = e /\ slipped' \in BOOLEAN /\ held' \in 0 .. LongPressMs + 2 * MaxGap
          /\ (~ slipped' => ~ slipped /\ held <= held' /\ held' <= held + gap)
      <4>1. /\ seen' = e
            /\ \/ held' \in (IF slipped THEN {0} ELSE held .. held + gap) /\ slipped' = slipped
               \/ held' = 0 /\ slipped' = TRUE
        BY <2>1, <2>3 DEF Press!WasLetGo, e
      <4>2. slipped' \in BOOLEAN
        BY <1>4, <4>1, Zenon
      <4>3. CASE held' = 0 /\ slipped' = TRUE
        BY <1>3, <4>1, <4>2, <4>3
      <4>4. CASE slipped /\ held' = 0 /\ slipped' = slipped
        BY <1>3, <4>1, <4>2, <4>4
      <4>5. CASE ~ slipped /\ held' \in held .. held + gap /\ slipped' = slipped
        <5>1. held' \in 0 .. LongPressMs + 2 * MaxGap /\ held <= held' /\ held' <= held + gap
          BY <1>3, <1>4, <1>5, <2>3, <4>5
        <5> QED BY <4>1, <4>2, <4>5, <5>1
      <4> QED BY <4>1, <4>3, <4>4, <4>5
    <3>2. e \in 0 .. LongPressMs + MaxGap
      BY <1>3, <1>4, <1>5, <1>7, <2>3
    <3>3. CASE isPress = 1
      <4>1. calls' = <<>>
        BY <1>5, <1>10, <2>3, <3>3 DEF Press!Up
      <4>2. ~ slipped' => held' <= DebounceMs + 2 * MaxGap
        BY <1>3, <1>4, <1>5, <3>1, <3>3
      <4>3. PressMeansOneThing'
        BY <1>3, <1>9, <3>1, <4>1, <4>2 DEF PressMeansOneThing, Press!PressMeansOneThing
      <4> QED BY <1>1, <1>2, <1>4, <2>1, <3>1, <3>2, <4>1, <4>3 DEF ButtonInv, ButtonTyped, Pressing
    <3>4. CASE isPress = 2
      <4> DEFINE c == IF e < LongPressMs THEN "click" ELSE "remove"
      <4>1. calls' = Append(calls, c) /\ c \in Called
        BY <1>2, <1>10, <2>3, <3>4 DEF Press!Up, Called
      <4>2. (c = "click" => e < LongPressMs) /\ (c = "remove" => e >= LongPressMs)
        BY <1>3, <1>7, <1>9
      <4> HIDE DEF c
      <4>3. calls' \in Seq(Called) /\ calls' = <<c>> /\ Len(calls') = 1
        BY <1>5, <2>3, <4>1, OneCall
      <4>4. e > DebounceMs
        BY <1>3, <1>4, <1>5, <1>7, <3>4
      <4>5. calls' # <<>> /\ (calls' = <<"click">> => c = "click") /\ (calls' = <<"remove">> => c = "remove")
        BY <4>3
      <4>6. ASSUME ~ slipped'
            PROVE  held' <= e + MaxGap /\ held' > DebounceMs /\ e <= held' + MaxGap
        <5>1. held <= held' /\ held' <= held + gap /\ held' \in Nat /\ held \in Nat /\ seen \in Nat
          BY <1>3, <1>4, <3>1, <4>6
        <5>2. seen <= held /\ held <= seen + MaxGap /\ seen > DebounceMs
          BY <1>5, <2>3, <3>1, <3>4, <4>6
        <5>3. gap \in Nat /\ gap <= MaxGap /\ MaxGap \in Nat /\ DebounceMs \in Nat /\ e = seen + gap
          BY <1>3, <1>7
        <5>4. e \in Nat /\ held' > DebounceMs /\ e <= seen + MaxGap
          BY <5>1, <5>2, <5>3
        <5>5. held' <= e + MaxGap
          BY <5>1, <5>2, <5>3
        <5>6. e <= held' + MaxGap
          <6> DEFINE h == held'
          <6>1. h \in Nat /\ seen \in Nat /\ seen <= h /\ e \in Nat /\ e <= seen + MaxGap /\ MaxGap \in Nat
            BY <5>1, <5>2, <5>3, <5>4
          <6> HIDE DEF h
          <6>2. e <= h + MaxGap
            BY ONLY <6>1
          <6> QED BY <6>2 DEF h
        <5> QED BY <5>4, <5>5, <5>6
      <4>7. calls' = <<"click">> => e \in DebounceMs + 1 .. LongPressMs - 1
        BY <1>3, <1>7, <4>2, <4>4, <4>5
      <4>8. ~ slipped' =>
              /\ calls' = <<"click">> => held' > DebounceMs /\ held' < LongPressMs + MaxGap
              /\ calls' = <<"remove">> => LongPressMs <= held' + MaxGap
        <5> SUFFICES ASSUME ~ slipped'
                     PROVE  /\ c = "click" => held' > DebounceMs /\ held' < LongPressMs + MaxGap
                            /\ c = "remove" => LongPressMs <= held' + MaxGap
          BY <4>5
        <5>1. held' \in Nat /\ held' <= e + MaxGap /\ held' > DebounceMs /\ e <= held' + MaxGap
          BY <1>3, <3>1, <4>6
        <5>2. e \in Nat /\ LongPressMs \in Nat /\ MaxGap \in Nat
          BY <1>3, <1>7
        <5>3. ASSUME c = "click" PROVE held' < LongPressMs + MaxGap
          BY <4>2, <5>1, <5>2, <5>3
        <5>4. ASSUME c = "remove" PROVE LongPressMs <= held' + MaxGap
          <6> DEFINE h == held'
          <6>1. h \in Nat /\ e <= h + MaxGap /\ LongPressMs <= e
            BY <4>2, <5>1, <5>2, <5>4
          <6> HIDE DEF h
          <6>2. LongPressMs <= h + MaxGap
            BY <5>2, <6>1
          <6> QED BY <6>2 DEF h
        <5> QED BY <5>1, <5>3, <5>4
      <4>9. PressMeansOneThing'
        BY <1>9, <3>1, <4>2, <4>3, <4>5, <4>7, <4>8 DEF PressMeansOneThing, Press!PressMeansOneThing
      <4> QED BY <1>1, <1>2, <1>4, <2>1, <3>1, <3>2, <4>3, <4>9 DEF ButtonInv, ButtonTyped, Pressing
    <3> QED BY <2>3, <3>3, <3>4
  <2> QED BY <2>2, <2>3
<1>11. ASSUME Press!Down(now, gap), isPress = 0 PROVE ButtonInv'
  <2>1. ~ (0 > DebounceMs) /\ 0 < LongPressMs /\ 0 <= DebounceMs
    BY <1>3
  <2>2. /\ isPress' = 1 /\ buttonPressMs' = now /\ calls' = <<>>
        /\ held' \in 0 .. gap /\ seen' = 0 /\ slipped' = FALSE
    BY <1>8, <1>11, <2>1 DEF Press!Down, Press!WasDown
  <2>3. Press!Elapsed(millis, buttonPressMs)' = 0
    BY <1>1, <1>8, <2>2 DEF Press!Elapsed
  <2>4. held' \in 0 .. LongPressMs + 2 * MaxGap /\ held' <= LongPressMs + MaxGap
        /\ 0 <= held' /\ held' <= 0 + MaxGap /\ 0 \in 0 .. LongPressMs + MaxGap
    BY <1>3, <2>2
  <2>5. PressMeansOneThing'
    BY <1>9, <2>2 DEF PressMeansOneThing, Press!PressMeansOneThing
  <2>6. calls' \in Seq(Called)
    BY <2>2
  <2>7. Pressing'
    BY <2>1, <2>2, <2>3, <2>4 DEF Pressing
  <2>8. slipped' \in BOOLEAN
    BY <2>2, Zenon
  <2>9. isPress' \in 0 .. 3 /\ isPress' # 3 /\ seen' \in 0 .. LongPressMs + MaxGap
    BY <2>2, <2>4
  <2>10. ButtonTyped'
    BY <1>1, <1>2, <2>2, <2>4, <2>6, <2>8, <2>9 DEF ButtonTyped
  <2> QED BY <2>5, <2>7, <2>9, <2>10 DEF ButtonInv
<1>12. ASSUME Press!Down(now, gap), isPress = 3 PROVE ButtonInv'
  <2>1. isPress' = 3 /\ buttonPressMs' = buttonPressMs /\ calls' = calls
        /\ held' = held /\ seen' = seen /\ slipped' = slipped
    BY <1>12 DEF Press!Down, Press!WasDown, Press!press
  <2> QED
    BY <1>1, <1>2, <1>4, <1>6, <1>12, <2>1
    DEF ButtonInv, ButtonTyped, Pressing, PressMeansOneThing, Press!PressMeansOneThing
<1>13. ASSUME Press!Down(now, gap), isPress \in {1, 2} PROVE ButtonInv'
  <2> DEFINE settled == IF isPress = 1 /\ e > DebounceMs THEN 2 ELSE isPress
             long    == settled = 2 /\ e >= LongPressMs
  <2>1. /\ buttonPressMs' = buttonPressMs
        /\ isPress' = IF long THEN 3 ELSE settled
        /\ calls' = IF long THEN Append(calls, "remove") ELSE calls
        /\ Press!WasDown(gap)
    BY <1>2, <1>13 DEF Press!Down
  <2>2. settled \in {1, 2} /\ (settled = 2 => e > DebounceMs) /\ (settled = 1 => e <= DebounceMs)
    <3>1. isPress = 2 => e > DebounceMs
      BY <1>3, <1>4, <1>5, <1>7
    <3> QED BY <1>3, <1>7, <1>13, <3>1
  <2>3. seen' = e /\ slipped' \in BOOLEAN /\ held' \in 0 .. LongPressMs + 2 * MaxGap
        /\ (~ slipped' => ~ slipped /\ held' = held + gap)
        /\ (slipped' => held' = 0)
    <3>1. /\ seen' = e
          /\ \/ held' = (IF slipped THEN 0 ELSE held + gap) /\ slipped' = slipped
             \/ held' = 0 /\ slipped' = TRUE
      BY <1>13, <2>1 DEF Press!WasDown, e
    <3>2. slipped' \in BOOLEAN
      BY <1>4, <3>1, Zenon
    <3>3. CASE held' = 0 /\ slipped' = TRUE
      BY <1>3, <3>1, <3>2, <3>3
    <3>4. CASE slipped /\ held' = 0 /\ slipped' = slipped
      BY <1>3, <3>1, <3>2, <3>4
    <3>5. CASE ~ slipped /\ held' = held + gap /\ slipped' = slipped
      <4>1. held' \in 0 .. LongPressMs + 2 * MaxGap
        BY <1>3, <1>4, <1>5, <1>13, <3>5
      <4> QED BY <3>1, <3>2, <3>5, <4>1
    <3> QED BY <3>1, <3>3, <3>4, <3>5
  <2>4. e \in 0 .. LongPressMs + MaxGap
    BY <1>3, <1>4, <1>5, <1>7, <1>13
  <2>5. ~ slipped' => e <= held' /\ held' <= e + MaxGap
    BY <1>3, <1>4, <1>5, <1>7, <1>13, <2>3
  <2>6. CASE long
    <3>1. calls' = Append(calls, "remove") /\ "remove" \in Called /\ e >= LongPressMs /\ isPress' = 3
      BY <2>1, <2>6 DEF Called
    <3>2. calls' \in Seq(Called) /\ calls' = <<"remove">> /\ Len(calls') = 1
      BY <1>5, <1>13, <3>1, OneCall
    <3>3. ~ slipped' => LongPressMs <= held' + MaxGap
      BY <1>3, <1>7, <2>3, <2>5, <3>1
    <3>4. calls' # <<"click">>
      BY <1>9, <3>2
    <3>5. PressMeansOneThing'
      BY <2>3, <3>1, <3>2, <3>3, <3>4 DEF PressMeansOneThing, Press!PressMeansOneThing
    <3>6. ButtonTyped'
      BY <1>1, <1>2, <1>4, <2>1, <2>3, <2>4, <3>1, <3>2 DEF ButtonTyped
    <3>7. isPress' \notin {1, 2}
      BY <3>1
    <3> QED BY <3>2, <3>5, <3>6, <3>7 DEF ButtonInv, Pressing
  <2>7. CASE ~ long
    <3>1. isPress' = settled /\ calls' = <<>>
      BY <1>5, <1>13, <2>1, <2>7
    <3>2. e < LongPressMs
      BY <1>3, <1>5, <1>7, <1>13, <2>2, <2>7
    <3>3. Press!Elapsed(millis, buttonPressMs)' = e
      BY <1>1, <1>2, <1>13, <2>1 DEF Press!Elapsed
    <3>4. held' <= LongPressMs + MaxGap
      BY <1>3, <1>7, <2>3, <2>5, <3>2
    <3> HIDE DEF settled, long
    <3>5. Pressing'
      BY <2>2, <2>3, <2>5, <3>1, <3>2, <3>3, <3>4 DEF Pressing
    <3>6. isPress' \in {1, 2}
      BY <2>2, <3>1
    <3>7. PressMeansOneThing'
      BY <1>9, <3>1, <3>6 DEF PressMeansOneThing, Press!PressMeansOneThing
    <3>8. calls' \in Seq(Called)
      BY <3>1
    <3> QED
      BY <1>1, <1>2, <1>4, <2>1, <2>3, <2>4, <3>5, <3>6, <3>7, <3>8 DEF ButtonInv, ButtonTyped
  <2> QED BY <2>6, <2>7
<1> QED BY <1>1, <1>4, <1>10, <1>11, <1>12, <1>13

LEMMA ButtonAlways == Spec => []ButtonInv
<1>1. Init => ButtonInv
  <2> SUFFICES ASSUME Press!Init PROVE ButtonInv
    BY DEF Init
  <2>1. /\ millis \in 0 .. Millis - 1 /\ isPress = 0 /\ buttonPressMs = 0
        /\ held = 0 /\ seen = 0 /\ slipped = FALSE /\ calls = <<>>
    BY DEF Press!Init
  <2>2. slipped \in BOOLEAN
    BY <2>1, Zenon
  <2>3. calls \in Seq(Called) /\ Len(calls) = 0 /\ calls # <<"click">> /\ calls # <<"remove">>
    BY <2>1
  <2>4. ButtonTyped /\ Pressing
    BY <2>1, <2>2, <2>3, ButtonConstants DEF ButtonTyped, Pressing
  <2>5. PressMeansOneThing
    BY <2>1, <2>3, ButtonConstants DEF PressMeansOneThing, Press!PressMeansOneThing
  <2> QED BY <2>1, <2>4, <2>5 DEF ButtonInv
<1>2. ButtonInv /\ [Next]_vars => ButtonInv'
  <2> SUFFICES ASSUME ButtonInv, [Next]_vars PROVE ButtonInv'
    OBVIOUS
  <2>1. CASE UNCHANGED buttonVars
    BY <2>1
    DEF buttonVars, ButtonInv, ButtonTyped, Pressing, Press!Elapsed, PressMeansOneThing,
        Press!PressMeansOneThing
  <2>2. CASE Press!Next
    BY <2>2, LookStep DEF Press!Next
  <2> QED BY <2>1, <2>2, WhoseStep
<1> QED BY <1>1, <1>2, PTL DEF Spec

(* A press clicks or removes the device or does nothing: one thing, by how  *)
(* far apart the looks are that saw it, and by what the button really did   *)
(* if it was not let go unseen, for any times and however the clock wraps   *)
(* (buttonCheck()).                                                         *)
THEOREM PressMeansOneThingAlways == Spec => []PressMeansOneThing
<1>1. ButtonInv => PressMeansOneThing
  BY DEF ButtonInv
<1> QED BY <1>1, ButtonAlways, PTL

-----------------------------------------------------------------------------
(* WiFiMulti: which results are still out, at each place of run() and of   *)
(* the sketch.  run() only comes to scan again after a wide scan.          *)
ScanTyped ==
  /\ scans \in Nat /\ ap_num \in Nat /\ wide \in BOOLEAN
  /\ heap \subseteq 1 .. scans /\ ap_info \in 0 .. scans
  /\ multiAt \in {"sketch", "looks", "scan", "again", "choose", "wait"}

ResultsOut ==
  /\ ~ twice
  /\ ap_num > 0 => ap_info \in heap
  /\ multiAt \in {"looks", "choose"} => ap_info = 0 \/ ap_info \in heap
  /\ multiAt = "again" => wide
  /\ ~ wide => heap \subseteq (IF multiAt \in {"looks", "choose"} THEN {ap_info} ELSE {})

MultiInv == ScanTyped /\ ResultsOut

(* A scan finds no more than a count in a byte and half of one can say.    *)
LEMMA FoundKinds ==
  ASSUME NEW w \in Multi!Found
  PROVE  \/ \E n \in 0 .. Int8Max : w \in [1 .. n -> Multi!Network]
         \/ \E n \in Multi!Many : w = Multi!Lined(n)
<1>1. w \in UNION {[1 .. n -> Multi!Network] : n \in 0 .. Int8Max}
      \/ w \in {Multi!Lined(n) : n \in Multi!Many}
  BY DEF Multi!Found
<1>2. CASE w \in UNION {[1 .. n -> Multi!Network] : n \in 0 .. Int8Max}
  BY <1>2
<1>3. CASE w \in {Multi!Lined(n) : n \in Multi!Many}
  BY <1>3
<1> QED BY <1>1, <1>2, <1>3

(* There is a network of either strength.                                   *)
LEMMA AnyNetwork == \A v \in Multi!Strength : Multi!AnyOf(v) \in Multi!Network
<1> SUFFICES ASSUME NEW v \in Multi!Strength PROVE Multi!AnyOf(v) \in Multi!Network
  OBVIOUS
<1>1. PICK n : n \in Ssid
  BY ServicesAssumption
<1> DEFINE w == [ssid |-> n, open |-> TRUE, rssi |-> v]
<1>2. w \in Multi!Network /\ w.rssi = v
  BY <1>1 DEF Multi!Network
<1> HIDE DEF w
<1> QED BY <1>2 DEF Multi!AnyOf

LEMMA FoundIs ==
  ASSUME NEW w \in Multi!Found
  PROVE  w \in Seq(Multi!Network) /\ Len(w) \in 0 .. 3 * Int8Max + 2
<1>1. Int8Max \in Nat \ {0}
  BY ServicesAssumption
<1>2. ASSUME NEW n \in 0 .. Int8Max, w \in [1 .. n -> Multi!Network]
      PROVE  w \in Seq(Multi!Network) /\ Len(w) \in 0 .. 3 * Int8Max + 2
  <2>1. n \in Nat
    BY <1>1
  <2>2. w \in Seq(Multi!Network) /\ Len(w) = n
    BY <1>2, <2>1
  <2> QED BY <1>1, <2>2
<1>3. ASSUME NEW n \in Multi!Many, w = Multi!Lined(n)
      PROVE  w \in Seq(Multi!Network) /\ Len(w) \in 0 .. 3 * Int8Max + 2
  <2>1. n \in 0 .. 3 * Int8Max + 2 /\ n \in Nat
    BY <1>1 DEF Multi!Many
  <2> DEFINE a == Multi!AnyOf(-1)
             b == Multi!AnyOf(-2)
  <2>2. a \in Multi!Network /\ b \in Multi!Network
    BY AnyNetwork DEF Multi!Strength
  <2>3. w = [i \in 1 .. n |-> IF i = n THEN a ELSE b]
    BY <1>3 DEF Multi!Lined
  <2> HIDE DEF a, b
  <2>4. w \in [1 .. n -> Multi!Network]
    BY <2>2, <2>3
  <2>5. w \in Seq(Multi!Network) /\ Len(w) = n
    BY <2>1, <2>4
  <2> QED BY <2>1, <2>5
<1> QED BY <1>2, <1>3, FoundKinds

(* What int8_t makes of such a number is an integer and no greater.         *)
LEMMA Int8Of ==
  ASSUME NEW n \in 0 .. 3 * Int8Max + 2
  PROVE  Multi!Int8(n) \in Int /\ Multi!Int8(n) <= n
<1> DEFINE m == 2 * (Int8Max + 1)
           x == n + Int8Max + 1
<1>1. Int8Max \in Nat /\ m \in Nat \ {0} /\ n \in Nat
  BY ServicesAssumption
<1>2. Multi!Int8(n) = (x % m) - (Int8Max + 1)
  BY DEF Multi!Int8
<1>3. x \in 0 .. m - 1 \/ x \in m .. 2 * m - 1
  BY <1>1
<1>4. x % m = x \/ x % m = x - m
  BY <1>1, <1>3, ModSmall, ModOnce
<1> HIDE DEF x
<1>5. x = n + Int8Max + 1
  BY DEF x
<1> QED BY <1>1, <1>2, <1>4, <1>5

LEMMA FoundLength ==
  ASSUME NEW w \in Multi!Found
  PROVE  /\ Len(w) \in Nat /\ Multi!Int8(Len(w)) \in Int
         /\ Len(w) = 0 => Multi!Int8(Len(w)) = 0
<1>1. Len(w) \in 0 .. 3 * Int8Max + 2 /\ Int8Max \in Nat \ {0}
  BY FoundIs, ServicesAssumption
<1>2. Multi!Int8(0) = 0
  <2>1. 2 * (Int8Max + 1) \in Nat \ {0} /\ Int8Max + 1 \in 0 .. 2 * (Int8Max + 1) - 1
        /\ 0 + Int8Max + 1 = Int8Max + 1
    BY <1>1
  <2>2. (0 + Int8Max + 1) % (2 * (Int8Max + 1)) = Int8Max + 1
    BY <2>1, ModSmall
  <2> QED BY <1>1, <2>2 DEF Multi!Int8
<1>3. Multi!Int8(Len(w)) \in Int
  BY <1>1, Int8Of
<1>4. Len(w) \in Nat
  BY <1>1
<1> QED BY <1>2, <1>3, <1>4

LEMMA FillResults ==
  ASSUME MultiInv, NEW w \in Multi!Found, Multi!Fill(w), twice' = twice,
         ~ wide => heap = {}
  PROVE  /\ scans' \in Nat /\ ap_num' \in Nat /\ wide' \in BOOLEAN
         /\ heap' \subseteq 1 .. scans' /\ ap_info' \in 0 .. scans'
         /\ ~ twice' /\ (ap_num' > 0 => ap_info' \in heap')
         /\ ap_info' = 0 \/ ap_info' \in heap'
         /\ ~ wide' => ~ wide /\ heap' \subseteq {ap_info'} /\ ~ (Multi!Int8(Len(w)) < 0)
<1> USE DEF MultiInv, ScanTyped, ResultsOut
<1>1. Len(w) \in Nat /\ Multi!Int8(Len(w)) \in Int /\ (Len(w) = 0 => Multi!Int8(Len(w)) = 0)
  BY FoundLength
<1>2. CASE ap_info' = 0 /\ ap_num' = 0 /\ w = <<>> /\ UNCHANGED <<heap, scans, wide>>
  <2>1. Len(w) = 0
    BY <1>2
  <2> QED BY <1>1, <1>2, <2>1
<1>3. CASE /\ scans' = scans + 1 /\ ap_info' = scans + 1 /\ heap' = heap \cup {scans + 1}
           /\ ap_num' = Len(w) /\ wide' = (wide \/ Multi!Int8(Len(w)) < 0)
  <2> DEFINE n == scans + 1
  <2>1. n \in Nat /\ heap \subseteq 1 .. n /\ n \in 1 .. n /\ n \in 0 .. n
    OBVIOUS
  <2> HIDE DEF n
  <2>2. scans' = n /\ ap_info' = n /\ heap' = heap \cup {n}
    BY <1>3 DEF n
  <2>3. heap' \subseteq 1 .. scans' /\ ap_info' \in 0 .. scans' /\ scans' \in Nat
    BY <2>1, <2>2
  <2>4. ap_num' \in Nat /\ wide' \in BOOLEAN /\ ap_info' \in heap' /\ ~ twice'
    BY <1>1, <1>3, <2>2
  <2>5. ~ wide' => ~ wide /\ heap' \subseteq {ap_info'} /\ ~ (Multi!Int8(Len(w)) < 0)
    BY <1>3, <2>2
  <2> QED BY <2>3, <2>4, <2>5
<1> QED BY <1>2, <1>3 DEF Multi!Fill

LEMMA MultiStep == MultiInv /\ (Multi!Next \/ UNCHANGED multiVars) => MultiInv'
<1> SUFFICES ASSUME MultiInv, Multi!Next \/ UNCHANGED multiVars PROVE MultiInv'
  OBVIOUS
<1>1. CASE /\ UNCHANGED <<ap_info, ap_num, heap, scans, twice, wide>>
           /\ multiAt' = multiAt \/ (multiAt \in {"sketch", "wait"}
                                      /\ multiAt' \in {"scan", "sketch"})
  BY <1>1 DEF MultiInv, ScanTyped, ResultsOut
<1>2. CASE Multi!SketchDeletes \/ Multi!Choose
  <2>1. /\ multiAt \in {"looks", "choose"} /\ multiAt' \in {"sketch", "wait"}
        /\ heap' = heap \ {ap_info} /\ ap_num' = 0
        /\ twice' = (twice \/ (ap_info # 0 /\ ap_info \notin heap))
        /\ UNCHANGED <<ap_info, scans, wide>>
    BY <1>2 DEF Multi!SketchDeletes, Multi!Choose, Multi!ScanDelete
  <2>2. ap_info = 0 \/ ap_info \in heap
    BY <2>1 DEF MultiInv, ResultsOut
  <2>3. ~ twice'
    BY <2>1, <2>2 DEF MultiInv, ResultsOut
  <2>4. ScanTyped'
    BY <2>1 DEF MultiInv, ScanTyped
  <2>5. ~ wide' => heap' = {}
    BY <2>1 DEF MultiInv, ResultsOut
  <2> QED BY <2>1, <2>3, <2>4, <2>5 DEF MultiInv, ResultsOut
<1>3. ASSUME NEW w \in Multi!Found,
             Multi!Scan(w) \/ Multi!ScanAgain(w) \/ Multi!SketchScans(w)
      PROVE  MultiInv'
  <2>1. /\ multiAt \in {"scan", "again", "sketch"}
        /\ Multi!Fill(w) /\ twice' = twice
    BY <1>3 DEF Multi!Scan, Multi!ScanAgain, Multi!SketchScans, Multi!ScanNetworks
  <2>2. ~ wide => heap = {}
    BY <2>1 DEF MultiInv, ResultsOut
  <2>3. /\ scans' \in Nat /\ ap_num' \in Nat /\ wide' \in BOOLEAN
        /\ heap' \subseteq 1 .. scans' /\ ap_info' \in 0 .. scans'
        /\ ~ twice' /\ (ap_num' > 0 => ap_info' \in heap')
        /\ ap_info' = 0 \/ ap_info' \in heap'
        /\ ~ wide' => ~ wide /\ heap' \subseteq {ap_info'} /\ ~ (Multi!Int8(Len(w)) < 0)
    BY <2>1, <2>2, FillResults
  <2>4. CASE Multi!Scan(w)
    <3>1. /\ multiAt' \in {"choose", "sketch", "again"}
          /\ multiAt' # "choose" => ~ (Multi!Int8(Len(w)) >= 0)
      BY <2>4 DEF Multi!Scan
    <3>2. multiAt' # "choose" => Multi!Int8(Len(w)) < 0
      BY <3>1, FoundLength
    <3>3. multiAt' # "choose" => wide'
      BY <2>3, <3>2
    <3> QED BY <2>3, <3>1, <3>3 DEF MultiInv, ScanTyped, ResultsOut
  <2>5. CASE Multi!ScanAgain(w)
    <3>1. multiAt = "again" /\ multiAt' = "sketch"
      BY <2>5 DEF Multi!ScanAgain
    <3>2. wide
      BY <3>1 DEF MultiInv, ResultsOut
    <3> QED BY <2>3, <3>1, <3>2 DEF MultiInv, ScanTyped, ResultsOut
  <2>6. CASE Multi!SketchScans(w)
    <3>1. multiAt' = "looks"
      BY <2>6 DEF Multi!SketchScans
    <3> QED BY <2>3, <3>1 DEF MultiInv, ScanTyped, ResultsOut
  <2> QED BY <1>3, <2>4, <2>5, <2>6
<1> QED
  BY <1>1, <1>2, <1>3
  DEF multiVars, Multi!Next, Multi!StationMoves, Multi!Run, Multi!Return, Multi!AddAP,
      Multi!scanVars

LEMMA MultiAlways == Spec => []MultiInv
<1>1. Init => MultiInv
  <2> SUFFICES ASSUME Multi!Init PROVE MultiInv
    BY DEF Init
  <2>1. /\ scans = 0 /\ ap_num = 0 /\ wide = FALSE /\ twice = FALSE /\ heap = {}
        /\ ap_info = 0 /\ multiAt = "sketch"
    BY DEF Multi!Init
  <2>2. ScanTyped
    <3>1. 0 \in Nat /\ 0 \in 0 .. 0 /\ {} \subseteq 1 .. 0 /\ FALSE \in BOOLEAN
      OBVIOUS
    <3>2. scans \in Nat /\ ap_num \in Nat /\ wide \in BOOLEAN /\ ap_info \in 0 .. scans
      BY <2>1, <3>1
    <3>3. heap \subseteq 1 .. scans
      BY <2>1, <3>1
    <3> QED BY <2>1, <3>2, <3>3 DEF ScanTyped
  <2>3. ResultsOut
    BY <2>1 DEF ResultsOut
  <2> QED BY <2>2, <2>3 DEF MultiInv
<1>2. MultiInv /\ [Next]_vars => MultiInv'
  BY WhoseStep, MultiStep
<1> QED BY <1>1, <1>2, PTL DEF Spec

(* Every result of a scan is given back, once, and not read after that,     *)
(* for any numbers of networks, scans and run()s (WiFiMulti::run(),         *)
(* WiFiScanClass::scanNetworks() and scanDelete()).                         *)
THEOREM ReleasedOnceAlways == Spec => []Multi!ReleasedOnce
<1>1. MultiInv => Multi!ReleasedOnce
  BY DEF MultiInv, ScanTyped, ResultsOut, Multi!ReleasedOnce
<1> QED BY <1>1, MultiAlways, PTL

-----------------------------------------------------------------------------
(* run() looks at one network after the other: what is the best after each.*)
Better(w, b) ==
  IF \E x \in Multi!Entry(w.ssid) : Multi!Joins(w, x) /\ (b = <<>> \/ w.rssi > b[1].rssi)
    THEN <<w>> ELSE b

IsLook(g, n) ==
  g = [i \in 0 .. n |-> IF i = 0 THEN <<>> ELSE Better(found[i], g[i - 1])]

LEMMA LookExists == \A n \in Nat : \E g : IsLook(g, n)
<1> DEFINE S == {n \in Nat : \E g : IsLook(g, n)}
<1>1. 0 \in S
  <2> DEFINE g == [i \in 0 .. 0 |-> <<>>]
  <2>1. IsLook(g, 0)
    BY DEF IsLook
  <2> HIDE DEF g
  <2> QED BY <2>1
<1>2. ASSUME NEW n \in Nat, n \in S PROVE n + 1 \in S
  <2>1. PICK g : IsLook(g, n)
    BY <1>2
  <2> DEFINE h == [i \in 0 .. n + 1 |-> IF i = n + 1 THEN Better(found[n + 1], g[n]) ELSE g[i]]
             k == [i \in 0 .. n + 1 |-> IF i = 0 THEN <<>> ELSE Better(found[i], h[i - 1])]
  <2>2. \A i \in 0 .. n + 1 : h[i] = k[i]
    <3> SUFFICES ASSUME NEW i \in 0 .. n + 1 PROVE h[i] = k[i]
      OBVIOUS
    <3>1. CASE i = n + 1
      <4>1. h[n] = g[n] /\ i # 0 /\ i - 1 = n
        BY <3>1
      <4> HIDE DEF h
      <4>2. k[i] = Better(found[n + 1], g[n])
        BY <3>1, <4>1
      <4> QED BY <3>1, <4>2 DEF h
    <3>2. CASE i \in 0 .. n /\ i = 0
      BY <2>1, <3>2 DEF IsLook
    <3>3. CASE i \in 1 .. n
      <4>1. h[i] = g[i] /\ h[i - 1] = g[i - 1]
        BY <3>3
      <4>2. g[i] = Better(found[i], g[i - 1])
        BY <2>1, <3>3 DEF IsLook
      <4> HIDE DEF h
      <4>3. k[i] = Better(found[i], h[i - 1])
        BY <3>3
      <4> QED BY <4>1, <4>2, <4>3
    <3> QED BY <3>1, <3>2, <3>3
  <2>3. h = k
    BY <2>2
  <2> HIDE DEF h
  <2>4. IsLook(h, n + 1)
    BY <2>3 DEF IsLook
  <2> QED BY <2>4
<1> HIDE DEF S
<1>3. Nat \subseteq S
  BY <1>1, <1>2, Induction
<1> QED BY <1>3 DEF S

(* How many it looks at.                                                    *)
Looks == Multi!Int8(Len(found))

LEMMA ChoiceIs ==
  ASSUME Looks \in Nat
  PROVE  \E g : IsLook(g, Looks) /\ Multi!Choice = g[Looks]
<1> DEFINE g == CHOOSE g : IsLook(g, Looks)
<1>1. IsLook(g, Looks)
  BY LookExists
<1>2. Multi!Choice = g[Looks]
  BY DEF Multi!Choice, IsLook, Better, Looks
<1> QED BY <1>1, <1>2

Usable ==
  {i \in 1 .. Looks : \E x \in Multi!Entry(found[i].ssid) :
                          found[i].open \/ aplist[x].passphrase}

(* What b must be when the first n networks have been looked at. *)
IsBest(b, n) ==
  IF b = <<>> THEN \A i \in Usable : i > n
  ELSE /\ \E i \in Usable : b = <<found[i]>>
       /\ \A i \in Usable : i <= n => found[i].rssi <= b[1].rssi

LEMMA BetterIsBest ==
  ASSUME found \in Seq(Multi!Network), Looks \in Nat, Looks <= Len(found),
         NEW n \in 1 .. Looks, NEW b, IsBest(b, n - 1)
  PROVE  IsBest(Better(found[n], b), n)
<1>1. Looks \in Nat /\ \A i \in 1 .. Looks : found[i].rssi \in Int
  <2>1. \A i \in 1 .. Len(found) : found[i] \in Multi!Network
    BY ElementOfSeq
  <2>2. Len(found) \in Nat /\ \A i \in 1 .. Looks : i \in 1 .. Len(found)
    BY LenProperties
  <2> QED BY <2>1, <2>2 DEF Multi!Network, Multi!Strength
<1>2. n \in Usable <=> \E x \in Multi!Entry(found[n].ssid) : Multi!Joins(found[n], x)
  BY <1>1 DEF Usable, Multi!Joins
<1>3. Usable \subseteq 1 .. Looks
  BY <1>1 DEF Usable
<1>4. CASE n \in Usable /\ (b = <<>> \/ found[n].rssi > b[1].rssi)
  <2>1. Better(found[n], b) = <<found[n]>>
    BY <1>2, <1>4 DEF Better
  <2>2. \A i \in Usable : i <= n => found[i].rssi <= found[n].rssi
    <3> SUFFICES ASSUME NEW i \in Usable, i <= n PROVE found[i].rssi <= found[n].rssi
      OBVIOUS
    <3>1. CASE i = n
      BY <1>1, <3>1
    <3>2. CASE i <= n - 1
      <4>1. b # <<>> /\ found[i].rssi <= b[1].rssi
        BY <1>3, <3>2 DEF IsBest
      <4>2. PICK j \in Usable : b = <<found[j]>>
        BY <4>1 DEF IsBest
      <4>3. b[1].rssi \in Int
        BY <1>1, <1>3, <4>2
      <4> QED BY <1>1, <1>3, <1>4, <4>1, <4>3
    <3> QED BY <1>3, <3>1, <3>2
  <2> QED BY <1>4, <2>1, <2>2 DEF IsBest
<1>5. CASE ~ (n \in Usable /\ (b = <<>> \/ found[n].rssi > b[1].rssi))
  <2>1. Better(found[n], b) = b
    BY <1>2, <1>5 DEF Better
  <2>2. CASE b = <<>>
    BY <1>3, <1>5, <2>1, <2>2 DEF IsBest
  <2>3. CASE b # <<>>
    <3>1. PICK j \in Usable : b = <<found[j]>>
      BY <2>3 DEF IsBest
    <3>2. b[1].rssi \in Int
      BY <1>1, <1>3, <3>1
    <3>3. n \in Usable => found[n].rssi <= b[1].rssi
      BY <1>1, <1>5, <2>3, <3>2
    <3>4. \A i \in Usable : i <= n => i <= n - 1 \/ i = n
      BY <1>3
    <3> QED BY <2>1, <2>3, <3>1, <3>3, <3>4 DEF IsBest
  <2> QED BY <2>2, <2>3
<1> QED BY <1>4, <1>5

LEMMA ChoiceIsBest ==
  ASSUME found \in Seq(Multi!Network), Looks \in Nat, Looks <= Len(found)
  PROVE  IsBest(Multi!Choice, Looks)
<1>1. Looks \in Nat
  OBVIOUS
<1>2. PICK g : IsLook(g, Looks) /\ Multi!Choice = g[Looks]
  BY <1>1, ChoiceIs
<1> DEFINE S == {n \in Nat : n <= Looks => IsBest(g[n], n)}
<1>3. 0 \in S
  <2>1. g[0] = <<>>
    BY <1>1, <1>2 DEF IsLook
  <2> QED BY <1>1, <2>1 DEF IsBest, Usable
<1>4. ASSUME NEW n \in Nat, n \in S PROVE n + 1 \in S
  <2> SUFFICES ASSUME n + 1 <= Looks PROVE IsBest(g[n + 1], n + 1)
    OBVIOUS
  <2>1. n <= Looks /\ n + 1 \in 1 .. Looks /\ (n + 1) - 1 = n
    BY <1>1
  <2>2. g[n + 1] = Better(found[n + 1], g[n])
    BY <1>2, <2>1 DEF IsLook
  <2>3. IsBest(g[n], n)
    BY <1>4, <2>1
  <2> DEFINE m == n + 1
  <2>4. m \in 1 .. Looks /\ IsBest(g[n], m - 1)
    BY <2>1, <2>3
  <2> HIDE DEF m
  <2>5. IsBest(Better(found[m], g[n]), m)
    BY <2>4, BetterIsBest
  <2> QED BY <2>2, <2>5 DEF m
<1> HIDE DEF S
<1>5. Looks \in S
  BY <1>1, <1>3, <1>4, Induction
<1> QED BY <1>1, <1>2, <1>5 DEF S

(* What run() chooses from are networks, and while it waits for the one it  *)
(* chose neither they nor the list change.                                  *)
ChosenInv ==
  /\ multiAt = "choose" => /\ found \in Seq(Multi!Network)
                           /\ Looks \in Nat /\ Looks <= Len(found)
  /\ Multi!ChoosesStrongest

LEMMA ChosenStep == ChosenInv /\ (Multi!Next \/ UNCHANGED multiVars) => ChosenInv'
<1> SUFFICES ASSUME ChosenInv, Multi!Next \/ UNCHANGED multiVars PROVE ChosenInv'
  OBVIOUS
<1>1. CASE UNCHANGED <<multiAt, found, aplist, best>>
  BY <1>1 DEF ChosenInv, Multi!ChoosesStrongest, Multi!Entry, Looks, Multi!Int8
<1>2. CASE multiAt' \notin {"choose", "wait"}
  BY <1>2 DEF ChosenInv, Multi!ChoosesStrongest
<1>3. ASSUME NEW w \in Multi!Found, Multi!Scan(w), multiAt' = "choose" PROVE ChosenInv'
  <2>1. Multi!Int8(Len(w)) >= 0 /\ found' = w
    BY <1>3 DEF Multi!Scan, Multi!ScanNetworks, Multi!Fill
  <2>2. w \in Seq(Multi!Network) /\ Len(w) \in 0 .. 3 * Int8Max + 2
    BY FoundIs
  <2>3. Multi!Int8(Len(w)) \in Int /\ Multi!Int8(Len(w)) <= Len(w)
    BY <2>2, Int8Of
  <2>4. Looks' = Multi!Int8(Len(w))
    BY <2>1 DEF Looks, Multi!Int8
  <2>5. found' \in Seq(Multi!Network) /\ Looks' \in Nat /\ Looks' <= Len(found')
    BY <2>1, <2>2, <2>3, <2>4
  <2> QED BY <1>3, <2>5 DEF ChosenInv, Multi!ChoosesStrongest
<1>4. CASE Multi!Choose
  <2>1. /\ multiAt = "choose" /\ multiAt' = "wait" /\ best' = Multi!Choice
        /\ UNCHANGED <<found, aplist>>
    BY <1>4 DEF Multi!Choose
  <2>2. found \in Seq(Multi!Network) /\ Looks \in Nat /\ Looks <= Len(found)
    BY <2>1 DEF ChosenInv
  <2>3. IsBest(best', Looks)
    BY <2>1, <2>2, ChoiceIsBest
  <2>4. Usable' = Usable /\ \A i \in Usable : i <= Looks /\ ~ (i > Looks)
    BY <2>1, <2>2 DEF Usable, Multi!Entry, Looks, Multi!Int8
  <2>5. IF best' = <<>> THEN Usable' = {}
        ELSE /\ \E i \in Usable' : found'[i] = best'[1]
             /\ \A i \in Usable' : found'[i].rssi <= best'[1].rssi
    BY <2>1, <2>3, <2>4 DEF IsBest
  <2>6. Multi!ChoosesStrongest'
    BY <2>5 DEF Multi!ChoosesStrongest, Usable, Looks
  <2> QED BY <2>1, <2>6 DEF ChosenInv
<1> QED
  BY <1>1, <1>2, <1>3, <1>4
  DEF multiVars, Multi!Next, Multi!StationMoves, Multi!Run, Multi!Return, Multi!AddAP,
      Multi!scanVars, Multi!Scan, Multi!ScanAgain, Multi!SketchScans, Multi!SketchDeletes

LEMMA ChosenAlways == Spec => []ChosenInv
<1>1. Init => ChosenInv
  BY DEF Init, Multi!Init, ChosenInv, Multi!ChoosesStrongest
<1>2. ChosenInv /\ [Next]_vars => ChosenInv'
  BY WhoseStep, ChosenStep
<1> QED BY <1>1, <1>2, PTL DEF Spec

(* run() chooses, of the networks it looks at and can join, the strongest,  *)
(* for any list of access points and any networks, any number of them       *)
(* included (WiFiMulti::run()).                                             *)
THEOREM ChoosesStrongestAlways == Spec => []Multi!ChoosesStrongest
<1>1. ChosenInv => Multi!ChoosesStrongest
  BY DEF ChosenInv
<1> QED BY <1>1, ChosenAlways, PTL

(* What choosing an access point is for, and giving back what a scan has    *)
(* found, both at once (WiFiMulti, WiFiScan).                               *)
THEOREM ScansServeAlways == Spec => []ScansServe
<1>1. Multi!ChoosesStrongest /\ Multi!ReleasedOnce => ScansServe
  BY DEF ScansServe
<1> QED BY <1>1, ChoosesStrongestAlways, ReleasedOnceAlways, PTL

-----------------------------------------------------------------------------
(* TuyaIot: the buffers hold what the sketch said, a pointer leads to each *)
(* that holds something or is about to, and begin() starts the thread      *)
(* last; all of it as long as the sketch has begun once at most.           *)
Field == {"pid", "license"}

CloudTyped ==
  /\ begins \in Nat
  /\ buffer \in [Field -> Text \cup {Unset}] /\ told = buffer
  /\ sg \in [Field -> {Unset, "buffer"}]
  /\ begin \in {Cloud!ShortSteps, Cloud!LongSteps, <<"start">>, <<>>}

(* The pointers that begin() has still to set. *)
ToSet(f) == begin = Cloud!LongSteps \/ (begin = Cloud!ShortSteps /\ f = "pid")

Led1(config1) == \A f \in Field : buffer[f] # Unset => config1[f] = "buffer"

(* There is no thread before begin() is done, and none if it could not be   *)
(* made.                                                                    *)
NoThread == thread = <<>> /\ config = <<>> /\ client = 0

OnceBegun ==
  /\ begins = 0 => begin = <<>>
  /\ \A f \in Field : buffer[f] # Unset => sg[f] = "buffer" \/ ToSet(f)
  /\ begins = 0 \/ begin # <<>> => NoThread
  /\ begins = 1 /\ begin = <<>> /\ ~ NoThread =>
       /\ DOMAIN thread = {1}
       /\ DOMAIN config = {1} /\ config[1] \in [Field -> {Unset, "buffer"}]
       /\ client \in {0, 1}
       /\ client = 1 => thread[1] # "copy"
       /\ thread[1] # "copy" => Led1(config[1])

CloudInv == CloudTyped /\ (begins <= 1 => OnceBegun)

(* The steps of begin(), and what is left to do after each. *)
LEMMA StepsOfBegin ==
  ASSUME CloudTyped, begin # <<>>
  PROVE  /\ Head(begin) \in {"pid", "license", "start"}
         /\ Head(begin) = "start" => Tail(begin) = <<>> /\ \A f \in Field : ~ ToSet(f)
         /\ Head(begin) = "license" => Tail(begin) = Cloud!ShortSteps
         /\ Head(begin) = "pid" => Tail(begin) = <<"start">> /\ ~ ToSet("license")
<1> USE DEF Cloud!ShortSteps, Cloud!LongSteps, ToSet, Field
<1>1. CASE begin = <<"pid", "start">>
  BY <1>1
<1>2. CASE begin = <<"license", "pid", "start">>
  BY <1>2
<1>3. CASE begin = <<"start">>
  BY <1>3
<1> QED BY <1>1, <1>2, <1>3 DEF CloudTyped

LEMMA BeginStepKeeps ==
  ASSUME CloudInv, Cloud!BeginStep
  PROVE  CloudInv'
<1> DEFINE h == Head(begin)
<1>1. /\ begin # <<>> /\ begin' = Tail(begin) /\ CloudTyped
      /\ UNCHANGED <<buffer, begins, client, told>>
  BY DEF Cloud!BeginStep, CloudInv
<1>2. /\ h \in {"pid", "license", "start"}
      /\ h = "start" => Tail(begin) = <<>> /\ \A f \in Field : ~ ToSet(f)
      /\ h = "license" => Tail(begin) = Cloud!ShortSteps
      /\ h = "pid" => Tail(begin) = <<"start">> /\ ~ ToSet("license")
  BY <1>1, StepsOfBegin
<1>3. begin' \in {Cloud!ShortSteps, <<"start">>, <<>>}
  BY <1>1, <1>2
<1>4. CASE h = "start"
  <2> DEFINE none == [pid |-> Unset, license |-> Unset]
  <2>1. /\ \/ thread' = Append(thread, "copy") /\ config' = Append(config, none)
           \/ UNCHANGED <<thread, config>>
        /\ sg' = sg /\ begin' = <<>>
    BY <1>1, <1>2, <1>4 DEF Cloud!BeginStep
  <2>2. CloudTyped'
    BY <1>1, <1>3, <2>1 DEF CloudTyped
  <2>3. ASSUME begins <= 1 PROVE OnceBegun'
    <3>1. /\ OnceBegun /\ thread = <<>> /\ config = <<>> /\ client = 0 /\ begins = 1
      BY <1>1, <2>3 DEF CloudInv, CloudTyped, OnceBegun, NoThread
    <3>2. \A f \in Field : buffer'[f] # Unset => sg'[f] = "buffer"
      BY <1>1, <1>2, <1>4, <2>1, <3>1 DEF OnceBegun
    <3>3. begins' = 1 /\ client' = 0 /\ begin' = <<>>
      BY <1>1, <2>1, <3>1
    <3>4. CASE UNCHANGED <<thread, config>>
      <4>1. NoThread'
        BY <3>1, <3>3, <3>4 DEF NoThread
      <4> QED BY <3>2, <3>3, <4>1 DEF OnceBegun
    <3>5. CASE thread' = Append(thread, "copy") /\ config' = Append(config, none)
      <4>1. thread' = <<"copy">> /\ config' = <<none>>
        BY <3>1, <3>5
      <4>2. none \in [Field -> {Unset, "buffer"}]
        BY DEF Field
      <4> HIDE DEF none
      <4>3. /\ DOMAIN thread' = {1} /\ DOMAIN config' = {1}
            /\ thread'[1] = "copy" /\ config'[1] = none
        BY <4>1
      <4> QED BY <3>2, <3>3, <4>2, <4>3 DEF OnceBegun
    <3> QED BY <2>1, <3>4, <3>5
  <2> QED BY <1>1, <2>2, <2>3 DEF CloudInv
<1>5. CASE h # "start"
  <2>1. sg' = [sg EXCEPT ![h] = "buffer"] /\ UNCHANGED <<thread, config>>
    BY <1>5 DEF Cloud!BeginStep
  <2>2. h \in Field
    BY <1>2, <1>5 DEF Field
  <2>3. CloudTyped'
    BY <1>1, <1>3, <2>1, <2>2 DEF CloudTyped
  <2>4. \A f \in Field : ToSet(f) => f = h \/ ToSet(f)'
    BY <1>1, <1>2, <1>5 DEF ToSet, Field
  <2>5. ASSUME begins <= 1 PROVE OnceBegun'
    <3>1. OnceBegun
      BY <2>5 DEF CloudInv
    <3>2. ASSUME NEW f \in Field, buffer[f] # Unset PROVE sg'[f] = "buffer" \/ ToSet(f)'
      BY <1>1, <2>1, <2>2, <2>4, <3>1, <3>2 DEF OnceBegun, CloudTyped
    <3>3. begin' # <<>>
      BY <1>1, <1>2, <1>5 DEF Cloud!ShortSteps
    <3>4. NoThread' /\ begins' # 0
      BY <1>1, <2>1, <3>1 DEF OnceBegun, NoThread
    <3> QED BY <1>1, <3>2, <3>3, <3>4 DEF OnceBegun
  <2> QED BY <1>1, <2>3, <2>5 DEF CloudInv
<1> QED BY <1>4, <1>5

(* The sketch asks: a buffer is filled, and its pointer set or about to be. *)
LEMMA AskingKeeps ==
  ASSUME CloudInv,
         \/ \E l \in Text : Cloud!SetLicense(l)
         \/ \E p \in Text : Cloud!BeginTwo(p)
         \/ \E p, l \in Text : Cloud!BeginFour(p, l)
  PROVE  CloudInv'
<1>0. CloudTyped /\ begins \in Nat /\ (begins = 0 => OnceBegun)
  BY DEF CloudInv, CloudTyped
<1>1. ASSUME NEW l \in Text, Cloud!SetLicense(l) PROVE CloudInv'
  <2>1. /\ begin = <<>> /\ begins = 0 /\ OnceBegun
        /\ buffer' = [buffer EXCEPT !["license"] = l]
        /\ told' = [told EXCEPT !["license"] = l]
        /\ sg' = [sg EXCEPT !["license"] = "buffer"]
        /\ UNCHANGED <<begin, begins, thread, config, client>>
    BY <1>0, <1>1 DEF Cloud!SetLicense
  <2>2. CloudTyped'
    BY <1>0, <2>1 DEF CloudTyped, Field
  <2>3. \A f \in Field : buffer'[f] # Unset => sg'[f] = "buffer" \/ ToSet(f)'
    BY <1>0, <2>1 DEF CloudTyped, OnceBegun, Field, ToSet
  <2>4. OnceBegun'
    BY <2>1, <2>3 DEF OnceBegun, NoThread
  <2> QED BY <2>2, <2>4 DEF CloudInv
<1>2. ASSUME NEW p \in Text, Cloud!BeginTwo(p) \/ \E l \in Text : Cloud!BeginFour(p, l)
      PROVE  CloudInv'
  <2> DEFINE n == begins + 1
  <2>1. /\ begins' = n /\ begin' \in {Cloud!ShortSteps, Cloud!LongSteps}
        /\ UNCHANGED <<sg, thread, config, client>>
    BY <1>2 DEF Cloud!BeginTwo, Cloud!BeginFour
  <2>2. \/ /\ buffer' = [buffer EXCEPT !["pid"] = p] /\ told' = [told EXCEPT !["pid"] = p]
        \/ /\ begin' = Cloud!LongSteps
           /\ \E l \in Text : buffer' = [pid |-> p, license |-> l] /\ told' = buffer'
    BY <1>2 DEF Cloud!BeginTwo, Cloud!BeginFour
  <2>3. /\ buffer' \in [Field -> Text \cup {Unset}] /\ told' = buffer'
        /\ begin' = Cloud!LongSteps \/ buffer'["license"] = buffer["license"]
    BY <1>0, <2>2 DEF CloudTyped, Field
  <2>4. n \in Nat /\ n # 0 /\ (n <= 1 => begins = 0)
    BY <1>0
  <2> HIDE DEF n
  <2>5. CloudTyped'
    BY <1>0, <2>1, <2>3, <2>4 DEF CloudTyped
  <2>6. ASSUME begins = 0 PROVE OnceBegun'
    <3>1. OnceBegun /\ begin = <<>>
      BY <1>0, <2>6 DEF OnceBegun
    <3>0. NoThread'
      BY <2>1, <2>6, <3>1 DEF OnceBegun, NoThread
    <3>2. begin' # <<>>
      BY <2>1 DEF Cloud!ShortSteps, Cloud!LongSteps
    <3>3. buffer["license"] # Unset => sg["license"] = "buffer"
      BY <3>1 DEF OnceBegun, ToSet, Field, Cloud!ShortSteps, Cloud!LongSteps
    <3>4. \A f \in Field : buffer'[f] # Unset => sg'[f] = "buffer" \/ ToSet(f)'
      BY <2>1, <2>3, <3>3 DEF ToSet, Field
    <3> QED BY <2>1, <2>4, <2>6, <3>0, <3>1, <3>2, <3>4 DEF OnceBegun
  <2> QED BY <2>1, <2>4, <2>5, <2>6 DEF CloudInv
<1> QED BY <1>1, <1>2

(* A thread reads the pointers, which by then are all set. *)
LEMMA ThreadKeeps ==
  ASSUME CloudInv, NEW t \in DOMAIN thread, Cloud!Copy(t) \/ Cloud!InitClient(t)
  PROVE  CloudInv'
<1>1. UNCHANGED <<buffer, sg, begin, begins, told>> /\ CloudTyped
  BY DEF Cloud!Copy, Cloud!InitClient, CloudInv
<1>2. CloudTyped'
  BY <1>1 DEF CloudTyped
<1>3. ASSUME begins <= 1 PROVE OnceBegun'
  <2>1. OnceBegun
    BY <1>3 DEF CloudInv
  <2>2. thread # <<>>
    OBVIOUS
  <2>3. begins = 1 /\ begin = <<>>
    BY <1>1, <1>3, <2>1, <2>2 DEF OnceBegun, NoThread, CloudTyped
  <2>4. /\ DOMAIN thread = {1} /\ t = 1 /\ DOMAIN config = {1}
        /\ config[1] \in [Field -> {Unset, "buffer"}]
        /\ client \in {0, 1} /\ (client = 1 => thread[1] # "copy")
        /\ (thread[1] # "copy" => Led1(config[1]))
    BY <2>1, <2>2, <2>3 DEF OnceBegun, NoThread
  <2>5. Led1(sg) /\ sg \in [Field -> {Unset, "buffer"}]
    BY <1>1, <2>1, <2>3
    DEF OnceBegun, CloudTyped, Led1, ToSet, Cloud!ShortSteps, Cloud!LongSteps
  <2>6. CASE Cloud!Copy(t)
    <3>1. /\ client = 0 /\ client' = client
          /\ config' = [config EXCEPT ![1] = sg] /\ thread' = [thread EXCEPT ![1] = "init"]
      BY <2>4, <2>6 DEF Cloud!Copy
    <3>2. /\ DOMAIN thread' = {1} /\ DOMAIN config' = {1} /\ config'[1] = sg
      BY <2>4, <3>1
    <3>3. Led1(config[1])'
      BY <1>1, <2>5, <3>2 DEF Led1
    <3> QED BY <1>1, <2>1, <2>3, <2>5, <3>1, <3>2, <3>3 DEF OnceBegun, ToSet
  <2>7. CASE Cloud!InitClient(t)
    <3>1. /\ thread[1] = "init" /\ config' = config
          /\ \/ client' = 1 /\ thread' = [thread EXCEPT ![1] = "run"]
             \/ client' = client /\ thread' = [thread EXCEPT ![1] = "stopped"]
      BY <2>4, <2>7 DEF Cloud!InitClient
    <3>2. DOMAIN thread' = {1} /\ thread'[1] # "copy" /\ client' \in {0, 1}
      BY <2>4, <3>1
    <3>3. Led1(config[1])' /\ config'[1] = config[1]
      BY <1>1, <2>4, <3>1 DEF Led1
    <3> QED BY <1>1, <2>1, <2>3, <2>4, <3>1, <3>2, <3>3 DEF OnceBegun, ToSet
  <2> QED BY <2>6, <2>7
<1> QED BY <1>1, <1>2, <1>3 DEF CloudInv

LEMMA CloudStep == CloudInv /\ (Cloud!Next \/ UNCHANGED cloudVars) => CloudInv'
<1> SUFFICES ASSUME CloudInv, Cloud!Next \/ UNCHANGED cloudVars PROVE CloudInv'
  OBVIOUS
<1>1. CASE UNCHANGED <<buffer, sg, begin, begins, thread, config, client, told>>
  BY <1>1 DEF CloudInv, CloudTyped, OnceBegun, NoThread, ToSet, Led1
<1> QED
  BY <1>1, AskingKeeps, BeginStepKeeps, ThreadKeeps
  DEF cloudVars, Cloud!Next, Cloud!SetEventCallback, Cloud!Receive, Cloud!Echo,
      Cloud!Returns

LEMMA CloudAlways == Spec => []CloudInv
<1>1. Init => CloudInv
  <2> SUFFICES ASSUME Cloud!Init PROVE CloudInv
    BY DEF Init
  <2>1. CloudTyped
    BY DEF Cloud!Init, CloudTyped, Field
  <2>2. OnceBegun
    BY DEF Cloud!Init, OnceBegun, NoThread, Field
  <2> QED BY <2>1, <2>2 DEF CloudInv
<1>2. CloudInv /\ [Next]_vars => CloudInv'
  BY WhoseStep, CloudStep
<1> QED BY <1>1, <1>2, PTL DEF Spec

(* A sketch that begins once has a client that is who the sketch said,     *)
(* whenever the client's thread comes to read the pointers                 *)
(* (TuyaIoTCloudClass::begin(), tuya_app_thread()).                        *)
THEOREM ClientIsWhoWasMeantAlways == Spec => []Cloud!ClientIsWhoWasMeant
<1>1. CloudInv => Cloud!ClientIsWhoWasMeant
  <2> SUFFICES ASSUME CloudInv, client # 0, begins = 1
               PROVE  Cloud!Behind(config[client]) = told
    BY DEF Cloud!ClientIsWhoWasMeant
  <2>1. OnceBegun /\ CloudTyped /\ begin = <<>>
    BY DEF CloudInv, OnceBegun, NoThread
  <2>2. client = 1 /\ Led1(config[1]) /\ config[1] \in [Field -> {Unset, "buffer"}]
    BY <2>1 DEF OnceBegun, NoThread
  <2>3. Unset # "buffer"
    BY ServicesAssumption
  <2>4. \A f \in Field : (IF config[1][f] = Unset THEN Unset ELSE buffer[f]) = buffer[f]
    BY <2>2, <2>3 DEF Led1
  <2>5. buffer = [f \in Field |-> buffer[f]] /\ told = buffer
    BY <2>1 DEF CloudTyped
  <2> QED BY <2>2, <2>4, <2>5 DEF Cloud!Behind, Field
<1> QED BY <1>1, CloudAlways, PTL

(* The event being handled, and what of it has been reported. *)
HandlingInv ==
  /\ Len(event) \in 0 .. MaxDps /\ DOMAIN event = 1 .. Len(event)
  /\ \A n \in 1 .. Len(event) : event[n] \in Cloud!Dp
  /\ \A m, n \in 1 .. Len(event) : event[m].id = event[n].id => m = n
  /\ cloudAt \in 0 .. Len(event) + 1
  /\ reported \in Seq([id : DpId, value : {0, 1, 2}])
  /\ unwritten \subseteq 1 .. cloudAt - 1
  /\ cloudAt = 0 => event = <<>> /\ reported = <<>>
  /\ Cloud!EchoesWhatCame

(* How many of a set are among the first numbers: one more with one that    *)
(* is, and at least one from there on.                                      *)
UpTo(S, k) == {m \in 1 .. k : m \in S}

LEMMA CountGrows ==
  ASSUME NEW n \in Nat \ {0}, NEW S
  PROVE  /\ Cardinality(UpTo(S, n))
              = Cardinality(UpTo(S, n - 1)) + (IF n \in S THEN 1 ELSE 0)
         /\ Cardinality(UpTo(S, n)) \in 0 .. n
         /\ UpTo(S, n) = IF n \in S THEN UpTo(S, n - 1) \cup {n} ELSE UpTo(S, n - 1)
         /\ \A m \in UpTo(S, n) : Cardinality(UpTo(S, m)) \in 1 .. Cardinality(UpTo(S, n))
<1>1. \A k \in Nat : /\ IsFiniteSet(UpTo(S, k)) /\ Cardinality(UpTo(S, k)) \in 0 .. k
  <2> TAKE k \in Nat
  <2>1. UpTo(S, k) \subseteq 1 .. k
    BY DEF UpTo
  <2>2. Cardinality(1 .. k) = k /\ IsFiniteSet(1 .. k)
    BY CountUpTo
  <2>3. IsFiniteSet(UpTo(S, k)) /\ Cardinality(UpTo(S, k)) <= k
    BY <2>1, <2>2, FS_Subset
  <2>4. Cardinality(UpTo(S, k)) \in Nat
    BY <2>3, FS_CardinalityType
  <2> QED BY <2>3, <2>4
<1>2. UpTo(S, n) = IF n \in S THEN UpTo(S, n - 1) \cup {n} ELSE UpTo(S, n - 1)
  BY DEF UpTo
<1>3. n - 1 \in Nat /\ n \notin UpTo(S, n - 1)
  BY DEF UpTo
<1>4. Cardinality(UpTo(S, n)) = Cardinality(UpTo(S, n - 1)) + (IF n \in S THEN 1 ELSE 0)
  <2>1. IsFiniteSet(UpTo(S, n - 1)) /\ Cardinality(UpTo(S, n - 1)) \in Nat
    BY <1>1, <1>3
  <2>2. Cardinality(UpTo(S, n - 1) \cup {n}) = Cardinality(UpTo(S, n - 1)) + 1
    BY <1>3, <2>1, FS_AddElement
  <2> QED BY <1>2, <2>1, <2>2
<1>5. ASSUME NEW m \in UpTo(S, n)
      PROVE  Cardinality(UpTo(S, m)) \in 1 .. Cardinality(UpTo(S, n))
  <2>1. m \in 1 .. n /\ m \in Nat /\ m \in UpTo(S, m) /\ UpTo(S, m) \subseteq UpTo(S, n)
    BY DEF UpTo
  <2>2. /\ IsFiniteSet(UpTo(S, n)) /\ Cardinality(UpTo(S, n)) \in Nat
        /\ IsFiniteSet(UpTo(S, m)) /\ Cardinality(UpTo(S, m)) \in Nat
    BY <1>1, <2>1
  <2>3. Cardinality(UpTo(S, m)) <= Cardinality(UpTo(S, n))
    BY <2>1, <2>2, FS_Subset
  <2>4. Cardinality(UpTo(S, m)) # 0
    BY <2>1, <2>2, FS_EmptySet
  <2> QED BY <2>2, <2>3, <2>4
<1>6. Cardinality(UpTo(S, n)) \in 0 .. n
  BY <1>1
<1> QED BY <1>2, <1>4, <1>5, <1>6

(* A data point of the schema with a case is read and cast as it came. *)
LEMMA ComesThrough ==
  ASSUME HandlingInv, NEW n \in 1 .. Len(event), Cloud!HasCase(event[n].id)
  PROVE  LET d == event[n].id
             t == Schema[d]
         IN /\ d \in DpId /\ event[n].value \in {0, 1, 2}
            /\ Cloud!Cast(Cloud!Wide(t), Cloud!Read(d, Cloud!Wide(t))) = event[n].value
<1> DEFINE d == event[n].id
           v == event[n].value
           t == Schema[d]
<1>1. /\ event[n].type = t /\ v \in Cloud!Value(t) /\ d \in DpId
      /\ t \in {"bool", "value", "enum", "str"}
  <2>1. event[n] \in Cloud!Dp
    BY DEF HandlingInv
  <2>2. Schema \in [DpId -> {"bool", "value", "enum", "bitmap", "str"}] /\ "other" \notin DpId
    BY ServicesAssumption
  <2>3. d \in DpId /\ t # "bitmap"
    BY DEF Cloud!HasCase
  <2> QED BY <2>1, <2>2, <2>3 DEF Cloud!Dp, Cloud!Other
<1>2. Cloud!Found(d) = {n}
  BY DEF HandlingInv, Cloud!Found
<1> HIDE DEF d, t, v
<1>3. /\ (t = "str") <=> (Cloud!Wide(t) = "char*")
      /\ Cloud!Cast(Cloud!Wide(t), v) = v
      /\ v \in {0, 1, 2}
  BY <1>1 DEF Cloud!Wide, Cloud!Cast, Cloud!Value
<1>4. Cloud!Read(d, Cloud!Wide(t)) = v
  <2>1. event[CHOOSE k \in Cloud!Found(d) : TRUE].value = v
    BY <1>2 DEF v
  <2>2. (event[n].type = "str") = (Cloud!Wide(t) = "char*")
    BY <1>1, <1>3
  <2> QED BY <1>2, <1>3, <2>1, <2>2 DEF Cloud!Read
<1> QED BY <1>1, <1>3, <1>4 DEF d, t, v

LEMMA EchoKeeps ==
  ASSUME HandlingInv, Cloud!Echo
  PROVE  HandlingInv'
<1> DEFINE n == cloudAt
           d == event[n].id
           S == {m \in 1 .. n : Cloud!HasCase(event[m].id) /\ m \notin unwritten'}
           r == [id |-> d, value |-> event[n].value]
<1>1. /\ n \in 1 .. Len(event) /\ n \in Nat \ {0} /\ cloudAt' = n + 1 /\ event' = event
      /\ n # 0 /\ (n + 1) - 1 = n /\ unwritten \subseteq 1 .. n - 1
  BY DEF Cloud!Echo, HandlingInv
<1>2. /\ Len(reported) = Cardinality(Cloud!Reports(n - 1))
      /\ \A m \in Cloud!Reports(n - 1) :
           reported[Cardinality(Cloud!Reports(m))]
             = [id |-> event[m].id, value |-> event[m].value]
      /\ reported \in Seq([id : DpId, value : {0, 1, 2}])
  BY <1>1, CountsAlike DEF HandlingInv, Cloud!EchoesWhatCame
<1>3. \/ /\ Cloud!HasCase(d)
         /\ reported' = Append(reported, r) /\ unwritten' = unwritten
      \/ Cloud!HasCase(d) /\ reported' = reported /\ unwritten' = unwritten \cup {n}
      \/ ~ Cloud!HasCase(d) /\ reported' = reported /\ unwritten' = unwritten
  BY <1>1, ComesThrough DEF Cloud!Echo, Cloud!ObjWrite
<1>4. unwritten' \subseteq 1 .. n /\ \A m \in 1 .. n - 1 : m \in unwritten' <=> m \in unwritten
  <2>1. unwritten' = unwritten \/ unwritten' = unwritten \cup {n}
    BY <1>3
  <2>2. n \in 1 .. n /\ n \notin 1 .. n - 1 /\ 1 .. n - 1 \subseteq 1 .. n
    BY <1>1
  <2> HIDE DEF n
  <2> QED BY <1>1, <2>1, <2>2
<1>5. \A m \in 1 .. n : m \in S <=> (Cloud!HasCase(event[m].id) /\ m \notin unwritten')
  OBVIOUS
<1>6. \A k \in 0 .. n : Cloud!Reports(k)' = UpTo(S, k)
  BY <1>1, <1>5 DEF Cloud!Reports, Cloud!HasCase, UpTo
<1>7. \A k \in 0 .. n - 1 : Cloud!Reports(k) = UpTo(S, k)
  BY <1>1, <1>4, <1>5 DEF Cloud!Reports, UpTo
<1> HIDE DEF S
<1>8. /\ Len(reported) = Cardinality(UpTo(S, n - 1))
      /\ \A m \in UpTo(S, n - 1) :
           reported[Cardinality(UpTo(S, m))] = [id |-> event[m].id, value |-> event[m].value]
  <2>1. \A m \in UpTo(S, n - 1) : m \in 0 .. n - 1 /\ n - 1 \in 0 .. n - 1
    BY <1>1 DEF UpTo
  <2>2. n - 1 \in 0 .. n - 1
    BY <1>1
  <2> QED BY <1>2, <1>7, <2>1, <2>2
<1>9. /\ reported' \in Seq([id : DpId, value : {0, 1, 2}])
      /\ Len(reported') = Cardinality(UpTo(S, n))
      /\ \A m \in UpTo(S, n) :
           reported'[Cardinality(UpTo(S, m))] = [id |-> event[m].id, value |-> event[m].value]
  <2>1. CASE n \in S
    <3>1. Cloud!HasCase(d) /\ n \notin unwritten'
      BY <1>1, <1>5, <2>1
    <3>2. reported' = Append(reported, r)
      BY <1>3, <3>1
    <3>3. r \in [id : DpId, value : {0, 1, 2}]
      BY <1>1, <3>1, ComesThrough
    <3> HIDE DEF r
    <3>4. /\ Cardinality(UpTo(S, n)) = Len(reported) + 1
          /\ UpTo(S, n) = UpTo(S, n - 1) \cup {n}
          /\ Len(reported) \in Nat
      BY <1>1, <1>2, <1>8, <2>1, CountGrows
    <3>5. \A m \in UpTo(S, n - 1) : Cardinality(UpTo(S, m)) \in 1 .. Len(reported)
      <4>1. CASE n = 1
        BY <4>1 DEF UpTo
      <4>2. CASE n > 1
        <5> DEFINE k == n - 1
        <5>1. k \in Nat \ {0} /\ Len(reported) = Cardinality(UpTo(S, k))
          BY <1>1, <1>8, <4>2
        <5> HIDE DEF k
        <5>2. \A m \in UpTo(S, k) : Cardinality(UpTo(S, m)) \in 1 .. Cardinality(UpTo(S, k))
          BY <5>1, CountGrows
        <5> QED BY <5>1, <5>2 DEF k
      <4> QED BY <1>1, <4>1, <4>2
    <3>6. /\ Len(reported') = Len(reported) + 1
          /\ \A i \in 1 .. Len(reported) : reported'[i] = reported[i]
          /\ reported'[Len(reported) + 1] = r
          /\ reported' \in Seq([id : DpId, value : {0, 1, 2}])
      BY <1>2, <3>2, <3>3
    <3>7. ASSUME NEW m \in UpTo(S, n)
          PROVE  reported'[Cardinality(UpTo(S, m))]
                   = [id |-> event[m].id, value |-> event[m].value]
      <4>1. CASE m = n
        BY <3>4, <3>6, <4>1 DEF r
      <4>2. CASE m \in UpTo(S, n - 1)
        BY <1>8, <3>5, <3>6, <4>2
      <4> QED BY <3>4, <4>1, <4>2
    <3> QED BY <3>4, <3>6, <3>7
  <2>2. CASE n \notin S
    <3>1. ~ Cloud!HasCase(d) \/ n \in unwritten'
      BY <1>1, <1>5, <2>2
    <3>2. n \notin unwritten
      BY <1>1
    <3>3. reported' = reported
      BY <1>3, <3>1, <3>2
    <3>4. /\ Cardinality(UpTo(S, n)) = Cardinality(UpTo(S, n - 1)) + 0
          /\ UpTo(S, n) = UpTo(S, n - 1)
      BY <1>1, <2>2, CountGrows
    <3>5. Cardinality(UpTo(S, n)) = Len(reported)
      BY <1>8, <3>4
    <3> QED BY <1>2, <1>8, <3>3, <3>4, <3>5
  <2> QED BY <2>1, <2>2
<1>10. n \in 0 .. n /\ \A m \in UpTo(S, n) : m \in 0 .. n
  BY <1>1 DEF UpTo
<1> HIDE DEF n, d, r
<1>11. Cloud!EchoesWhatCame'
  <2>1. cloudAt' - 1 = n /\ cloudAt' # 0
    BY <1>1
  <2>2. \A k : k = cloudAt' - 1 => Cloud!Reports(k)' = UpTo(S, n)
    BY <1>6, <1>10, <2>1
  <2>3. \A m \in UpTo(S, n) : Cloud!Reports(m)' = UpTo(S, m)
    BY <1>6, <1>10
  <2>4. Len(reported') = Cloud!Cardinality(UpTo(S, n))
    BY <1>9, CountsAlike
  <2>5. \A m \in UpTo(S, n) : reported'[Cloud!Cardinality(UpTo(S, m))]
                                = [id |-> event'[m].id, value |-> event'[m].value]
    BY <1>1, <1>9, CountsAlike
  <2> QED BY <2>1, <2>2, <2>3, <2>4, <2>5 DEF Cloud!EchoesWhatCame
<1>12. cloudAt' \in 0 .. Len(event) + 1 /\ cloudAt' # 0 /\ unwritten' \subseteq 1 .. cloudAt' - 1
  BY <1>1, <1>4
<1>13. /\ Len(event) \in 0 .. MaxDps /\ DOMAIN event = 1 .. Len(event)
       /\ \A k \in 1 .. Len(event) : event[k] \in Cloud!Dp
       /\ \A m, k \in 1 .. Len(event) : event[m].id = event[k].id => m = k
  BY DEF HandlingInv
<1>14. Cloud!Dp' = Cloud!Dp
  BY DEF Cloud!Dp
<1> QED BY <1>1, <1>9, <1>11, <1>12, <1>13, <1>14 DEF HandlingInv

LEMMA HandlingStep == HandlingInv /\ (Cloud!Next \/ UNCHANGED cloudVars) => HandlingInv'
<1> SUFFICES ASSUME HandlingInv, Cloud!Next \/ UNCHANGED cloudVars PROVE HandlingInv'
  OBVIOUS
<1>1. ASSUME UNCHANGED Cloud!handling PROVE HandlingInv'
  <2>1. UNCHANGED <<event, cloudAt, reported, unwritten>>
    BY <1>1 DEF Cloud!handling
  <2>2. \A k : Cloud!Reports(k)' = Cloud!Reports(k)
    BY <2>1 DEF Cloud!Reports, Cloud!HasCase
  <2>3. Cloud!EchoesWhatCame'
    BY <2>1, <2>2 DEF HandlingInv, Cloud!EchoesWhatCame
  <2>4. Cloud!Dp' = Cloud!Dp
    BY DEF Cloud!Dp
  <2> QED BY <2>1, <2>3, <2>4 DEF HandlingInv
<1>2. ASSUME NEW dps \in Cloud!Event, Cloud!Receive(dps) PROVE HandlingInv'
  <2>1. CASE ~ callback
    BY <1>1, <1>2, <2>1 DEF Cloud!Receive
  <2>2. CASE callback
    <3>1. event' = dps /\ cloudAt' = 1 /\ reported' = <<>> /\ unwritten' = {}
      BY <1>2, <2>2 DEF Cloud!Receive
    <3>2. PICK n \in 0 .. MaxDps : dps \in [1 .. n -> Cloud!Dp]
      BY DEF Cloud!Event
    <3>3. MaxDps \in Nat
      BY ServicesAssumption
    <3>4. n \in Nat /\ Len(dps) = n /\ DOMAIN dps = 1 .. n
      BY <3>2, <3>3
    <3>5. \A m, k \in 1 .. n : dps[m].id = dps[k].id => m = k
      BY <3>4 DEF Cloud!Event
    <3>6. Cloud!EchoesWhatCame'
      <4>1. \A k : k = 0 => Cloud!Reports(k)' = {}
        BY DEF Cloud!Reports
      <4>2. Cloud!Cardinality({}) = 0 /\ Len(<<>>) = 0 /\ 1 - 1 = 0
        BY FS_EmptySet, CountsAlike
      <4>3. cloudAt' - 1 = 0 /\ Len(reported') = 0
        BY <3>1, <4>2
      <4> QED BY <4>1, <4>2, <4>3 DEF Cloud!EchoesWhatCame
    <3>7. Cloud!Dp' = Cloud!Dp
      BY DEF Cloud!Dp
    <3> QED BY <3>1, <3>2, <3>4, <3>5, <3>6, <3>7 DEF HandlingInv
  <2> QED BY <2>1, <2>2
<1>3. CASE Cloud!Echo
  BY <1>3, EchoKeeps
<1>4. CASE Cloud!Returns
  <2>1. cloudAt' = 0 /\ event' = <<>> /\ reported' = <<>> /\ unwritten' = {}
    BY <1>4 DEF Cloud!Returns
  <2>2. MaxDps \in Nat
    BY ServicesAssumption
  <2>3. Cloud!EchoesWhatCame'
    BY <2>1 DEF Cloud!EchoesWhatCame
  <2> QED BY <2>1, <2>2, <2>3 DEF HandlingInv
<1> QED
  BY <1>1, <1>2, <1>3, <1>4
  DEF cloudVars, Cloud!handling, Cloud!Next, Cloud!SetEventCallback, Cloud!SetLicense,
      Cloud!BeginTwo, Cloud!BeginFour, Cloud!BeginStep, Cloud!Copy, Cloud!InitClient

LEMMA HandlingAlways == Spec => []HandlingInv
<1>1. Init => HandlingInv
  <2> SUFFICES ASSUME Cloud!Init PROVE HandlingInv
    BY DEF Init
  <2>1. MaxDps \in Nat /\ cloudAt = 0 /\ event = <<>> /\ reported = <<>> /\ unwritten = {}
    BY ServicesAssumption DEF Cloud!Init
  <2> QED BY <2>1 DEF HandlingInv, Cloud!EchoesWhatCame
<1>2. HandlingInv /\ [Next]_vars => HandlingInv'
  BY WhoseStep, HandlingStep
<1> QED BY <1>1, <1>2, PTL DEF Spec

(* Data points come back as they came, once and in their order, but those   *)
(* without a case and those whose report failed, for any schema and any     *)
(* event (dpType's callback, TuyaIoTCloudClass::read() and write()).        *)
THEOREM EchoesWhatCameAlways == Spec => []Cloud!EchoesWhatCame
<1>1. HandlingInv => Cloud!EchoesWhatCame
  BY DEF HandlingInv
<1> QED BY <1>1, HandlingAlways, PTL

(* The cloud client is who the sketch said it is, and reports what came     *)
(* back as it came (TuyaIoTCloudClass).                                     *)
THEOREM CloudIsFaithfulAlways == Spec => []CloudIsFaithful
<1>1. Cloud!ClientIsWhoWasMeant /\ Cloud!EchoesWhatCame => CloudIsFaithful
  BY DEF CloudIsFaithful
<1> QED BY <1>1, ClientIsWhoWasMeantAlways, EchoesWhatCameAlways, PTL

-----------------------------------------------------------------------------
(* TuyaWeather: the forecast functions, and what they read. *)
LEMMA DemoIs ==
  ASSUME NEW n \in 1 .. 13, NEW f, f = Weather!Demo[n], days \in Nat
  PROVE  /\ f.lists \subseteq f.codes /\ f.codes \subseteq Weather!Code
         /\ f.dates \in Nat
         /\ f.lists # {} =>
              /\ f.dates = days
              /\ f.lists \ f.pads \subseteq
                   f.codes \ {"w.windLevel", "w.rank", "w.temp", "w.pressure"}
              /\ \E c \in f.lists : c \notin {"w.windLevel", "w.rank", "w.temp", "w.pressure"}
<1> USE DEF Weather!Demo, Weather!Ask, Weather!Undated, Weather!Current, Weather!Forecast
<1>0. f.codes \subseteq Weather!Code
  BY DEF Weather!Code
<1>1. CASE n \in 1 .. 8 \/ n = 13
  <2>1. f.lists = {} /\ f.dates \in {0, 1}
    BY <1>1 DEF Weather!getCurrentConditions, Weather!getTodayHighLowTemp,
        Weather!getCurrentWind, Weather!getCurrentWindCN, Weather!getCurrentSunriseSunsetGMT,
        Weather!getCurrentSunriseSunsetLocal, Weather!getCurrentAQI, Weather!getCurrentAQICN,
        Weather!getCity
  <2> QED BY <1>0, <2>1
<1>2. CASE n = 9
  BY <1>0, <1>2 DEF Weather!getForecastConditions
<1>3. CASE n = 10
  BY <1>0, <1>3 DEF Weather!getForecastConditionsCN
<1>4. CASE n = 11
  BY <1>0, <1>4 DEF Weather!getForecastWind
<1>5. CASE n = 12
  BY <1>0, <1>5 DEF Weather!getForecastHighLowTemp
<1> QED BY <1>1, <1>2, <1>3, <1>4, <1>5

(* Of days that are kept from the first or second on, the n-th.            *)
LEMMA PlaceOf ==
  ASSUME NEW d \in Nat \ {0}, NEW a \in 1 .. 2, NEW i \in a .. d
  PROVE  Cardinality({j \in a .. d : j <= i}) = i - a + 1
<1>1. {j \in a .. d : j <= i} = a .. i /\ a \in Int /\ i \in Int
  OBVIOUS
<1>2. Cardinality(a .. i) = IF a > i THEN 0 ELSE i - a + 1
  BY ONLY <1>1, FS_Interval, Zenon
<1>3. Cardinality(a .. i) = i - a + 1
  BY <1>2
<1> QED BY <1>1, <1>3, Zenon

LEMMA KeptFrom ==
  ASSUME NEW f, NEW c, NEW answer, NEW a \in 1 .. 2, f.dates \in Nat \ {0},
         \A i \in 1 .. f.dates : (<<c, i>> \in answer \/ c \in f.pads) <=> a <= i
  PROVE  Weather!Entries(f, c, answer)
           = [i \in 1 .. f.dates - a + 1 |->
                IF <<c, i + a - 1>> \in answer THEN i + a - 1 ELSE 0]
<1> DEFINE kept == {i \in 1 .. f.dates : <<c, i>> \in answer \/ c \in f.pads}
           day(n) == CHOOSE i \in kept : Weather!Cardinality({j \in kept : j <= i}) = n
<1>1. kept = a .. f.dates
  OBVIOUS
<1>2. Cardinality(kept) = f.dates - a + 1
  <2>1. a \in Int /\ f.dates \in Int
    OBVIOUS
  <2>2. Cardinality(a .. f.dates) = IF a > f.dates THEN 0 ELSE f.dates - a + 1
    BY ONLY <2>1, FS_Interval, Zenon
  <2>3. f.dates - a + 1 = IF a > f.dates THEN 0 ELSE f.dates - a + 1
    OBVIOUS
  <2> QED BY <1>1, <2>2, <2>3, Zenon
<1>3. ASSUME NEW n \in 1 .. f.dates - a + 1 PROVE day(n) = n + a - 1
  <2>1. \A i \in kept : Weather!Cardinality({j \in kept : j <= i}) = i - a + 1
    BY <1>1, CountsAlike, PlaceOf
  <2> QED BY <1>1, <2>1
<1>4. Weather!Entries(f, c, answer)
        = [n \in 1 .. Weather!Cardinality(kept) |->
             IF <<c, day(n)>> \in answer THEN day(n) ELSE 0]
  BY DEF Weather!Entries
<1> HIDE DEF kept, day
<1> QED BY <1>2, <1>3, <1>4, CountsAlike

(* Types, and what the sketch gets. *)
WeatherInv == Weather!TypeOK /\ Weather!WholeAnswerFills

(* What a vector gets from an answer that has items at all. *)
LEMMA EntriesAre ==
  ASSUME days \in 1 .. 7, NEW n \in 1 .. 13, NEW f, f = Weather!Demo[n], NEW c \in f.lists,
         NEW missing \in {{}} \cup {{x} : x \in Weather!Has(f) \ Weather!Later(f)}
  PROVE  LET e == Weather!Entries(f, c, Weather!Has(f) \ missing)
         IN /\ \A i \in DOMAIN e : e[i] \in 0 .. 7
            /\ missing = {} =>
                 /\ Len(e) = days
                 /\ \A i \in 1 .. days :
                      e[i] = IF <<c, i>> \in Weather!Has(f) THEN i ELSE 0
<1> DEFINE answer == Weather!Has(f) \ missing
           far == {"w.windLevel", "w.rank", "w.temp", "w.pressure"}
<1>1. f.dates = days /\ f.lists \ f.pads \subseteq f.codes \ far
  BY DemoIs
<1>2. \A i \in 1 .. days : <<c, i>> \in Weather!Has(f) \/ c \in f.pads
  BY <1>1 DEF Weather!Has
<1>3. \A i \in 2 .. days : <<c, i>> \in Weather!Has(f) => <<c, i>> \in answer
  BY <1>1 DEF Weather!Has, Weather!Later
<1>4. PICK a \in 1 .. 2 :
        /\ \A i \in 1 .. f.dates : (<<c, i>> \in answer \/ c \in f.pads) <=> a <= i
        /\ missing = {} => a = 1
  <2>1. CASE <<c, 1>> \in answer \/ c \in f.pads
    BY <1>1, <1>2, <1>3, <2>1
  <2>2. CASE ~ (<<c, 1>> \in answer \/ c \in f.pads)
    BY <1>1, <1>2, <1>3, <2>2
  <2> QED BY <2>1, <2>2
<1> HIDE DEF answer
<1>5. f.dates \in Nat \ {0} /\ f.dates = days
  BY <1>1
<1>6. Weather!Entries(f, c, answer)
        = [i \in 1 .. f.dates - a + 1 |->
             IF <<c, i + a - 1>> \in answer THEN i + a - 1 ELSE 0]
  <2>1. /\ a \in 1 .. 2 /\ f.dates \in Nat \ {0}
        /\ \A i \in 1 .. f.dates : (<<c, i>> \in answer \/ c \in f.pads) <=> a <= i
    BY <1>4, <1>5
  <2> QED BY ONLY <2>1, KeptFrom, SMT
<1> DEFINE e == Weather!Entries(f, c, answer)
<1>7. \A i \in DOMAIN e : e[i] \in 0 .. 7
  <2>1. /\ DOMAIN e = 1 .. days - a + 1
        /\ \A i \in 1 .. days - a + 1 :
             e[i] = IF <<c, i + a - 1>> \in answer THEN i + a - 1 ELSE 0
    BY <1>5, <1>6
  <2> HIDE DEF e
  <2>2. \A i \in 1 .. days - a + 1 : i + a - 1 \in 0 .. 7
    <3>1. a \in {1, 2} /\ days \in Nat /\ days <= 7
      OBVIOUS
    <3> QED BY ONLY <3>1
  <2>3. 0 \in 0 .. 7
    OBVIOUS
  <2>4. ASSUME NEW i \in 1 .. days - a + 1 PROVE e[i] \in 0 .. 7
    <3>1. e[i] = i + a - 1 \/ e[i] = 0
      BY ONLY <2>1, Zenon
    <3> QED BY ONLY <2>2, <2>3, <3>1, Zenon
  <2> QED BY ONLY <2>1, <2>4, Zenon
<1>8. ASSUME missing = {}
      PROVE  /\ Len(e) = days
             /\ \A i \in 1 .. days : e[i] = IF <<c, i>> \in Weather!Has(f) THEN i ELSE 0
  <2>1. answer = Weather!Has(f) /\ a = 1
    BY <1>4, <1>8 DEF answer
  <2>2. e = [i \in 1 .. days |-> IF <<c, i>> \in Weather!Has(f) THEN i ELSE 0]
    BY <1>5, <1>6, <2>1
  <2> HIDE DEF e
  <2> QED BY <2>2
<1> QED BY <1>7, <1>8 DEF answer

LEMMA AnsweredStep ==
  ASSUME WeatherInv, next # Weather!Done, Weather!Answered(Weather!Demo[next])
  PROVE  WeatherInv'
<1> DEFINE f == Weather!Demo[next]
<1>1. /\ next \in 1 .. 13 /\ next + 1 \in 1 .. Weather!Done /\ days \in Nat
      /\ next + 1 > 1 /\ (next + 1) - 1 = next
  <2>1. Weather!Done = 14
    BY DEF Weather!Done, Weather!Demo
  <2>2. Days \subseteq Nat
    BY ServicesAssumption
  <2> QED BY <2>1, <2>2 DEF WeatherInv, Weather!TypeOK
<1>2. PICK missing \in {{}} \cup {{x} : x \in Weather!Has(f) \ Weather!Later(f)}
                       \cup {Weather!Has(f)} :
        LET answer == Weather!Has(f) \ missing
            data   == missing # Weather!Has(f)
        IN /\ out' = {x[1] : x \in answer \cap f.reads}
           /\ list' = [c \in Weather!Code |->
                         IF c \notin f.lists THEN list[c]
                         ELSE IF data THEN Weather!Entries(f, c, answer) ELSE <<>>]
           /\ whole' = (missing = {})
  BY DEF Weather!Answered
<1>3. /\ next' = next + 1 /\ Weather!Asks(f)
      /\ UNCHANGED <<days, abroad, ready>>
  BY DEF Weather!Answered
<1>4. /\ f.lists \subseteq Weather!Code /\ f.codes \subseteq Weather!Code
      /\ f.lists # {} => days \in 1 .. 7 /\ Weather!Has(f) # {}
  <2>1. f.lists \subseteq f.codes /\ f.codes \subseteq Weather!Code
    BY <1>1, DemoIs
  <2>2. ASSUME f.lists # {} PROVE days \in 1 .. 7 /\ Weather!Has(f) # {}
    <3>1. days \in 1 .. 7
      BY <1>3, <2>2 DEF Weather!Asks
    <3>2. /\ f.dates = days
          /\ \E c \in f.lists : c \notin {"w.windLevel", "w.rank", "w.temp", "w.pressure"}
      BY <1>1, <2>2, DemoIs
    <3>3. PICK c \in f.lists : <<c, 1>> \in Weather!Has(f)
      BY <2>1, <3>1, <3>2 DEF Weather!Has
    <3> QED BY <3>1, <3>3
  <2> QED BY <2>1, <2>2
<1>5. Weather!Code' = Weather!Code /\ Weather!Demo' = Weather!Demo
      /\ \A g : Weather!Has(g)' = Weather!Has(g)
  BY <1>3
  DEF Weather!Code, Weather!Demo, Weather!Has, Weather!Ask, Weather!Forecast,
      Weather!getForecastConditions, Weather!getForecastConditionsCN,
      Weather!getForecastWind, Weather!getForecastHighLowTemp
<1> HIDE DEF f
<1>6. \A c \in f.lists :
        LET data == missing # Weather!Has(f)
            v == list'[c]
        IN /\ \A i \in DOMAIN v : v[i] \in 0 .. 7
           /\ whole' =>
                /\ Len(v) = days
                /\ \A i \in 1 .. days :
                     v[i] = IF <<c, i>> \in Weather!Has(f) THEN i ELSE 0
  <2> SUFFICES ASSUME NEW c \in f.lists
               PROVE  /\ \A i \in DOMAIN list'[c] : list'[c][i] \in 0 .. 7
                      /\ whole' =>
                           /\ Len(list'[c]) = days
                           /\ \A i \in 1 .. days :
                                list'[c][i] = IF <<c, i>> \in Weather!Has(f) THEN i ELSE 0
    OBVIOUS
  <2>1. days \in 1 .. 7 /\ Weather!Has(f) # {} /\ c \in Weather!Code
    BY <1>4
  <2>2. CASE missing = Weather!Has(f)
    <3>1. list'[c] = <<>> /\ ~ whole'
      BY <1>2, <2>1, <2>2
    <3> QED BY <3>1
  <2>3. CASE missing # Weather!Has(f)
    <3>1. list'[c] = Weather!Entries(f, c, Weather!Has(f) \ missing)
          /\ (whole' <=> missing = {})
      BY <1>2, <2>1, <2>3
    <3>2. missing \in {{}} \cup {{x} : x \in Weather!Has(f) \ Weather!Later(f)}
      BY <2>3
    <3> DEFINE e == Weather!Entries(f, c, Weather!Has(f) \ missing)
    <3>3. /\ \A i \in DOMAIN e : e[i] \in 0 .. 7
          /\ missing = {} =>
               /\ Len(e) = days
               /\ \A i \in 1 .. days :
                    e[i] = IF <<c, i>> \in Weather!Has(f) THEN i ELSE 0
      BY <1>1, <2>1, <3>2, EntriesAre DEF f
    <3> HIDE DEF e
    <3>4. list'[c] = e
      BY <3>1 DEF e
    <3> QED BY <3>1, <3>3, <3>4
  <2> QED BY <2>2, <2>3
<1>7. Weather!TypeOK'
  <2>1. \A c \in Weather!Code : \A i \in DOMAIN list'[c] : list'[c][i] \in 0 .. 7
    <3> SUFFICES ASSUME NEW c \in Weather!Code
                 PROVE  \A i \in DOMAIN list'[c] : list'[c][i] \in 0 .. 7
      OBVIOUS
    <3>1. CASE c \notin f.lists
      <4>1. list'[c] = list[c]
        BY <1>2, <3>1
      <4> QED BY <4>1 DEF WeatherInv, Weather!TypeOK
    <3>2. CASE c \in f.lists
      BY <1>6, <3>2
    <3> QED BY <3>1, <3>2
  <2>2. out' \subseteq Weather!Code
    <3>1. \A x \in Weather!Has(f) : x[1] \in f.codes
      BY DEF Weather!Has
    <3> QED BY <1>2, <1>4, <3>1
  <2>3. whole' \in BOOLEAN /\ next' \in 1 .. Weather!Done' /\ Weather!Done' = Weather!Done
    BY <1>1, <1>2, <1>3 DEF Weather!Done, Weather!Demo
  <2> QED BY <1>3, <1>5, <2>1, <2>2, <2>3 DEF WeatherInv, Weather!TypeOK
<1>8. Weather!WholeAnswerFills'
  <2> SUFFICES ASSUME whole'
               PROVE  /\ \A x \in f.reads : x \in Weather!Has(f) => x[1] \in out'
                      /\ \A c \in f.lists :
                           /\ Len(list'[c]) = days'
                           /\ \A i \in 1 .. days' :
                                list'[c][i] = IF <<c, i>> \in Weather!Has(f) THEN i ELSE 0
    <3>1. Weather!Demo'[next' - 1] = f
      BY <1>1, <1>3, <1>5 DEF f
    <3> QED BY <1>5, <3>1 DEF Weather!WholeAnswerFills
  <2>1. \A x \in f.reads : x \in Weather!Has(f) => x[1] \in out'
    BY <1>2
  <2> QED BY <1>3, <1>5, <1>6, <2>1
<1> QED BY <1>7, <1>8 DEF WeatherInv

LEMMA WeatherStep == WeatherInv /\ (Weather!Next \/ UNCHANGED weatherVars) => WeatherInv'
<1> SUFFICES ASSUME WeatherInv, Weather!Next \/ UNCHANGED weatherVars PROVE WeatherInv'
  OBVIOUS
<1>0. ASSUME UNCHANGED <<days, abroad>>
      PROVE  /\ Weather!Code' = Weather!Code /\ Weather!Demo' = Weather!Demo
             /\ Weather!Done' = Weather!Done /\ Weather!Done = 14
             /\ \A g : Weather!Has(g)' = Weather!Has(g)
  BY <1>0
  DEF Weather!Done, Weather!Code, Weather!Demo, Weather!Has, Weather!Ask, Weather!Forecast,
      Weather!getForecastConditions, Weather!getForecastConditionsCN,
      Weather!getForecastWind, Weather!getForecastHighLowTemp
<1>1. CASE Weather!Network \/ UNCHANGED weatherVars
  <2>1. UNCHANGED <<days, abroad, next, out, list, whole>>
        /\ (ready \in BOOLEAN => ready' \in BOOLEAN)
    BY <1>1 DEF Weather!Network, weatherVars
  <2>2. Weather!TypeOK'
    BY <1>0, <2>1 DEF WeatherInv, Weather!TypeOK
  <2>3. Weather!WholeAnswerFills'
    BY <1>0, <2>1 DEF WeatherInv, Weather!WholeAnswerFills
  <2> QED BY <2>2, <2>3 DEF WeatherInv
<1>2. CASE Weather!Fails
  <2>1. Weather!StartOver /\ UNCHANGED <<days, abroad, ready>>
    BY <1>2 DEF Weather!Fails
  <2>2. Weather!TypeOK'
    <3>1. \A c \in Weather!Code : list'[c] = <<>>
      BY <2>1 DEF Weather!StartOver, Weather!NoDays
    <3>2. 1 \in 1 .. Weather!Done' /\ \A c \in Weather!Code' : DOMAIN list'[c] = {}
      BY <1>0, <2>1, <3>1
    <3>3. /\ days' \in Days /\ {abroad', ready', whole'} \subseteq BOOLEAN
          /\ next' = 1 /\ out' = {}
      BY <2>1 DEF WeatherInv, Weather!TypeOK, Weather!StartOver
    <3> QED BY <3>2, <3>3 DEF Weather!TypeOK
  <2>3. ~ whole'
    BY <2>1 DEF Weather!StartOver
  <2> QED BY <2>2, <2>3 DEF WeatherInv, Weather!WholeAnswerFills
<1>3. CASE next # Weather!Done /\ Weather!Answered(Weather!Demo[next])
  BY <1>3, AnsweredStep
<1> QED BY <1>1, <1>2, <1>3 DEF Weather!Next

LEMMA WeatherInit == Weather!Init => WeatherInv
<1> SUFFICES ASSUME Weather!Init PROVE WeatherInv
  OBVIOUS
<1>1. Weather!Done = 14
  BY DEF Weather!Done, Weather!Demo
<1>2. \A c \in Weather!Code : list[c] = <<>>
  BY DEF Weather!Init, Weather!NoDays
<1>3. Weather!TypeOK
  <2>1. \A c \in Weather!Code : DOMAIN list[c] = {}
    BY <1>2
  <2>2. /\ days \in Days /\ {abroad, ready, whole} \subseteq BOOLEAN
        /\ next = 1 /\ out = {}
    BY DEF Weather!Init
  <2> QED BY <1>1, <2>1, <2>2 DEF Weather!TypeOK
<1> QED BY <1>3 DEF WeatherInv, Weather!Init, Weather!WholeAnswerFills

LEMMA WeatherAlways == Spec => []WeatherInv
<1>1. Init => WeatherInv
  BY WeatherInit DEF Init
<1>2. WeatherInv /\ [Next]_vars => WeatherInv'
  BY WhoseStep, WeatherStep
<1> QED BY <1>1, <1>2, PTL DEF Spec

(* A complete answer fills what the sketch prints, in every region and for  *)
(* every number of days that a sketch may ask for (TuyaIoTWeatherClass).    *)
THEOREM WeatherServesAlways == Spec => []Weather!WholeAnswerFills
<1>1. WeatherInv => Weather!WholeAnswerFills
  BY DEF WeatherInv
<1> QED BY <1>1, WeatherAlways, PTL

-----------------------------------------------------------------------------
(* HttpClient: where a text is divided, and that what is put together comes *)
(* apart again.                                                             *)
LEMMA IndexIs ==
  ASSUME NEW text, Len(text) \in Nat, NEW mark
  PROVE  /\ Http!Index(text, mark) \in 0 .. Len(text)
         /\ Http!Index(text, mark) = 0 <=> \A i \in 1 .. Len(text) : text[i] # mark
         /\ Http!Index(text, mark) # 0 =>
              /\ text[Http!Index(text, mark)] = mark
              /\ \A i \in 1 .. Http!Index(text, mark) - 1 : text[i] # mark
<1> DEFINE I == {i \in 1 .. Len(text) : text[i] = mark}
<1>1. Http!Index(text, mark) = IF I # {} THEN CHOOSE x \in I : \A y \in I : x <= y ELSE 0
  BY DEF Http!Index, Http!SelectInSeq, Http!Min
<1>2. ASSUME I # {}
      PROVE  \E x \in I : \A y \in I : x <= y
  <2>1. I \subseteq Nat
    OBVIOUS
  <2> HIDE DEF I
  <2> QED BY <1>2, <2>1, Least
<1> DEFINE k == CHOOSE x \in I : \A y \in I : x <= y
<1>3. CASE I # {}
  <2>1. k \in I /\ \A y \in I : k <= y
    BY <1>2, <1>3
  <2>2. Http!Index(text, mark) = k
    BY <1>1, <1>3
  <2> HIDE DEF k
  <2> QED BY <2>1, <2>2
<1>4. CASE I = {}
  BY <1>1, <1>4
<1> QED BY <1>3, <1>4

LEMMA Halves ==
  ASSUME NEW S, NEW s \in Seq(S), NEW t \in Seq(S)
  PROVE  /\ SubSeq(s \o t, 1, Len(s)) = s
         /\ SubSeq(s \o t, Len(s) + 1, Len(s \o t)) = t
<1>1. /\ Len(s) \in Nat /\ Len(t) \in Nat
      /\ s \o t \in Seq(S) /\ Len(s \o t) = Len(s) + Len(t)
      /\ \A i \in 1 .. Len(s) + Len(t) :
           (s \o t)[i] = IF i <= Len(s) THEN s[i] ELSE t[i - Len(s)]
      /\ \A i \in 1 .. Len(s) + Len(t) : (s \o t)[i] \in S
  BY LenProperties, ConcatProperties, ElementOfSeq
<1> DEFINE st == s \o t
           a == SubSeq(st, 1, Len(s))
           b == SubSeq(st, Len(s) + 1, Len(st))
<1>2. /\ \A i \in 1 .. Len(s) : st[i] \in S
      /\ \A i \in Len(s) + 1 .. Len(st) : st[i] \in S
      /\ 1 \in Int /\ Len(s) \in Int /\ Len(s) + 1 \in Int /\ Len(st) \in Int
  BY <1>1
<1> HIDE DEF st
<1>3. /\ a \in Seq(S) /\ Len(a) = IF 1 <= Len(s) THEN Len(s) - 1 + 1 ELSE 0
      /\ \A i \in 1 .. Len(s) - 1 + 1 : a[i] = st[1 + i - 1]
  BY <1>2, SubSeqProperties
<1>4. /\ b \in Seq(S)
      /\ Len(b) = IF Len(s) + 1 <= Len(st) THEN Len(st) - (Len(s) + 1) + 1 ELSE 0
      /\ \A i \in 1 .. Len(st) - (Len(s) + 1) + 1 : b[i] = st[Len(s) + 1 + i - 1]
  BY <1>2, SubSeqProperties
<1> HIDE DEF a, b
<1>5. Len(a) = Len(s) /\ \A i \in 1 .. Len(a) : a[i] = s[i]
  BY <1>1, <1>3 DEF st
<1>6. Len(b) = Len(t) /\ \A i \in 1 .. Len(b) : b[i] = t[i]
  <2>1. Len(st) = Len(s) + Len(t)
    BY <1>1 DEF st
  <2>2. Len(b) = Len(t) /\ Len(st) - (Len(s) + 1) + 1 = Len(t)
    BY <1>1, <1>4, <2>1
  <2>3. ASSUME NEW i \in 1 .. Len(t) PROVE b[i] = t[i]
    <3>1. /\ Len(s) + 1 + i - 1 = Len(s) + i /\ Len(s) + i \in 1 .. Len(s) + Len(t)
          /\ ~ (Len(s) + i <= Len(s)) /\ Len(s) + i - Len(s) = i
      BY <1>1
    <3>2. b[i] = st[Len(s) + i]
      BY <1>4, <2>2, <3>1
    <3>3. st[Len(s) + i] = t[i]
      BY <1>1, <3>1 DEF st
    <3> QED BY <3>2, <3>3
  <2> QED BY <2>2, <2>3
<1>7. a = s
  BY ONLY <1>3, <1>5, s \in Seq(S), SeqEqual
<1>8. b = t
  BY ONLY <1>4, <1>6, t \in Seq(S), SeqEqual
<1> QED BY <1>7, <1>8 DEF a, b, st

(* Concatenation is associative; named, so that a prover does not go round  *)
(* in circles with it.                                                      *)
Regroups(x, y, z) == (x \o y) \o z = x \o (y \o z)

LEMMA Associative ==
  ASSUME NEW S, NEW x \in Seq(S), NEW y \in Seq(S), NEW z \in Seq(S)
  PROVE  Regroups(x, y, z)
BY ConcatAssociative DEF Regroups

LEMMA Regroup ==
  ASSUME NEW S, NEW s \in Seq(S), NEW t \in Seq(S), NEW mark \in S
  PROVE  (s \o <<mark>>) \o t = s \o (<<mark>> \o t)
<1>1. <<mark>> \in Seq(S)
  OBVIOUS
<1> QED BY <1>1, Associative DEF Regroups

RegroupsAll(h, a, b, c, d) ==
  (((h \o a) \o b) \o c) \o d = h \o ((a \o (b \o c)) \o d)

LEMMA RegroupFour ==
  ASSUME NEW S, NEW h \in Seq(S), NEW a \in Seq(S), NEW b \in Seq(S), NEW c \in Seq(S),
         NEW d \in Seq(S)
  PROVE  RegroupsAll(h, a, b, c, d)
<1> DEFINE ha == h \o a
           bc == b \o c
           abc == a \o bc
<1>2. ha \in Seq(S) /\ bc \in Seq(S)
  OBVIOUS
<1> HIDE DEF ha, bc
<1>3. abc \in Seq(S)
  BY <1>2
<1> HIDE DEF abc
<1>4. Regroups(h, a, bc) /\ Regroups(ha, b, c) /\ Regroups(h, abc, d)
  BY <1>2, <1>3, Associative
<1> QED BY ONLY <1>4, Zenon DEF ha, bc, abc, Regroups, RegroupsAll

(* A text at its first mark. *)
LEMMA Parts ==
  ASSUME NEW S, NEW s \in Seq(S), NEW t \in Seq(S), NEW mark \in S, mark \notin Http!ToSet(s)
  PROVE  LET text == s \o (<<mark>> \o t)
         IN /\ Http!Index(text, mark) = Len(s) + 1
            /\ Http!Before(text, mark) = s
            /\ Http!After(text, mark) = t
<1> DEFINE text == s \o (<<mark>> \o t)
<1>1. /\ Len(s) \in Nat /\ Len(t) \in Nat /\ <<mark>> \in Seq(S) /\ <<mark>> \o t \in Seq(S)
      /\ text \in Seq(S) /\ Len(text) = Len(s) + 1 + Len(t)
      /\ text[Len(s) + 1] = mark
      /\ \A i \in 1 .. Len(s) : text[i] = s[i] /\ s[i] # mark
  <2>1. /\ Len(s) \in Nat /\ Len(t) \in Nat /\ <<mark>> \in Seq(S) /\ Len(<<mark>>) = 1
        /\ DOMAIN s = 1 .. Len(s)
    BY LenProperties
  <2>2. \A i \in 1 .. Len(s) : s[i] # mark
    BY <2>1 DEF Http!ToSet
  <2> DEFINE mt == <<mark>> \o t
  <2>3. mt \in Seq(S) /\ Len(mt) = 1 + Len(t) /\ mt[1] = mark
    BY <2>1
  <2> HIDE DEF mt
  <2>4. /\ s \o mt \in Seq(S) /\ Len(s \o mt) = Len(s) + Len(mt)
        /\ \A i \in 1 .. Len(s) + Len(mt) :
             (s \o mt)[i] = IF i <= Len(s) THEN s[i] ELSE mt[i - Len(s)]
    BY <2>3, ConcatProperties
  <2> QED BY <2>1, <2>2, <2>3, <2>4 DEF mt
<1>2. Http!Index(text, mark) = Len(s) + 1
  <2> HIDE DEF text
  <2>1. Len(text) \in Nat
    BY <1>1
  <2> DEFINE k == Http!Index(text, mark)
  <2>2. /\ k \in 0 .. Len(text)
        /\ k = 0 <=> \A i \in 1 .. Len(text) : text[i] # mark
        /\ k # 0 => text[k] = mark /\ \A i \in 1 .. k - 1 : text[i] # mark
    BY <2>1, IndexIs
  <2> HIDE DEF k
  <2>3. k = Len(s) + 1
    BY <1>1, <2>2, SMTT(30)
  <2> QED BY <2>3 DEF k
<1>3. Http!Before(text, mark) = s
  <2>1. SubSeq(text, 1, Len(s)) = s
    BY <1>1, Halves
  <2>2. Http!Index(text, mark) # 0 /\ Http!Index(text, mark) - 1 = Len(s)
    BY <1>1, <1>2
  <2> QED BY <2>1, <2>2 DEF Http!Before
<1>4. Http!After(text, mark) = t
  <2> DEFINE sm == s \o <<mark>>
  <2>1. sm \in Seq(S) /\ Len(sm) = Len(s) + 1
    BY <1>1
  <2>2. text = sm \o t
    BY <1>1, ConcatAssociative
  <2> HIDE DEF sm, text
  <2>3. SubSeq(sm \o t, Len(sm) + 1, Len(sm \o t)) = t
    BY <2>1, Halves
  <2> QED BY <1>2, <2>1, <2>2, <2>3 DEF Http!After
<1> QED BY <1>2, <1>3, <1>4

LEMMA Whole ==
  ASSUME NEW S, NEW s \in Seq(S), NEW mark, mark \notin Http!ToSet(s)
  PROVE  /\ Http!Index(s, mark) = 0
         /\ Http!Before(s, mark) = s
         /\ Http!After(s, mark) = s
<1>1. Len(s) \in Nat /\ DOMAIN s = 1 .. Len(s)
  BY LenProperties
<1>2. Http!Index(s, mark) = 0
  BY <1>1, IndexIs DEF Http!ToSet
<1>3. SubSeq(s, 0 + 1, Len(s)) = s
  BY SubSeqFull
<1> QED BY <1>2, <1>3 DEF Http!Before, Http!After

LEMMA ToSetOf ==
  ASSUME NEW S, NEW s \in Seq(S), NEW t \in Seq(S)
  PROVE  Http!ToSet(s \o t) = Http!ToSet(s) \cup Http!ToSet(t)
<1>1. /\ Len(s) \in Nat /\ DOMAIN s = 1 .. Len(s)
      /\ Len(t) \in Nat /\ DOMAIN t = 1 .. Len(t)
      /\ s \o t \in Seq(S) /\ Len(s \o t) = Len(s) + Len(t)
      /\ DOMAIN (s \o t) = 1 .. Len(s) + Len(t)
      /\ \A i \in 1 .. Len(s) + Len(t) :
           (s \o t)[i] = IF i <= Len(s) THEN s[i] ELSE t[i - Len(s)]
  BY LenProperties, ConcatProperties
<1>2. \A i \in 1 .. Len(s) : (s \o t)[i] = s[i] /\ i \in DOMAIN (s \o t)
  BY <1>1
<1>3. \A i \in 1 .. Len(t) : (s \o t)[Len(s) + i] = t[i] /\ Len(s) + i \in DOMAIN (s \o t)
  BY <1>1
<1>4. \A i \in DOMAIN (s \o t) : i \in 1 .. Len(s) \/ i - Len(s) \in 1 .. Len(t)
  BY <1>1
<1>5. Http!ToSet(s) \subseteq Http!ToSet(s \o t)
  BY <1>1, <1>2 DEF Http!ToSet
<1>6. Http!ToSet(t) \subseteq Http!ToSet(s \o t)
  <2> SUFFICES ASSUME NEW i \in 1 .. Len(t) PROVE t[i] \in Http!ToSet(s \o t)
    BY <1>1 DEF Http!ToSet
  <2>1. Len(s) + i \in DOMAIN (s \o t) /\ (s \o t)[Len(s) + i] = t[i]
    BY <1>3
  <2> QED BY <2>1 DEF Http!ToSet
<1>7. Http!ToSet(s \o t) \subseteq Http!ToSet(s) \cup Http!ToSet(t)
  <2> SUFFICES ASSUME NEW i \in DOMAIN (s \o t)
               PROVE  (s \o t)[i] \in Http!ToSet(s) \cup Http!ToSet(t)
    BY DEF Http!ToSet
  <2>1. CASE i \in 1 .. Len(s)
    BY <1>1, <1>2, <2>1 DEF Http!ToSet
  <2>2. CASE i - Len(s) \in 1 .. Len(t)
    <3>1. (s \o t)[i] = t[i - Len(s)]
      BY <1>1, <2>2
    <3> QED BY <1>1, <2>2, <3>1 DEF Http!ToSet
  <2> QED BY <1>4, <2>1, <2>2
<1> QED BY <1>5, <1>6, <1>7

LEMMA ToSetOfOne == \A mark : Http!ToSet(<<mark>>) = {mark} /\ Http!ToSet(<<>>) = {}
BY DEF Http!ToSet

(* The parts of a URL that beginInternal() sees one after the other. *)
Marked(s, mark) == IF s = <<>> THEN <<>> ELSE s \o <<mark>>
Marks(mark, s) == IF s = <<>> THEN <<>> ELSE <<mark>> \o s
Authority(u) == Marked(u.auth, "@") \o (u.host \o Marks(":", u.port))

(* What texts are made of: words, and the marks between them. *)
Letter == STRING \cup {":", "/", "@"}

LEMMA UrlParts ==
  ASSUME NEW u \in Url
  PROVE  /\ u.protocol \in Seq(Letter) /\ u.auth \in Seq(Letter) /\ u.host \in Seq(Letter)
         /\ u.port \in Seq(Letter) /\ u.path \in Seq(Letter)
         /\ ":" \notin Http!ToSet(u.protocol)
         /\ ":" \notin Http!ToSet(u.host) /\ "/" \notin Http!ToSet(u.host)
         /\ "@" \notin Http!ToSet(u.host)
         /\ "/" \notin Http!ToSet(u.auth) /\ "@" \notin Http!ToSet(u.auth)
         /\ "/" \notin Http!ToSet(u.port) /\ "@" \notin Http!ToSet(u.port)
         /\ u.path = <<>> \/ u.path[1] = "/"
         /\ u.port = <<>> \/ \E word \in DOMAIN Number : u.port = <<word>>
<1>1. STRING \subseteq Letter
  BY DEF Letter
<1>2. /\ u.protocol \in Seq(STRING) /\ u.auth \in Seq(STRING) /\ u.host \in Seq(STRING)
      /\ u.port \in Seq(STRING) /\ u.path \in Seq(STRING)
  BY UrlAssumption DEF Http!WellFormed
<1>3. /\ u.protocol \in Seq(Letter) /\ u.auth \in Seq(Letter) /\ u.host \in Seq(Letter)
      /\ u.port \in Seq(Letter) /\ u.path \in Seq(Letter)
  BY <1>1, <1>2, SeqMonotonic
<1> QED BY <1>3, UrlAssumption DEF Http!WellFormed

LEMMA AuthorityIs ==
  ASSUME NEW u \in Url
  PROVE  /\ Authority(u) \in Seq(Letter) /\ "/" \notin Http!ToSet(Authority(u))
         /\ Http!Place(Authority(u)).host = u.host
         /\ u.port # <<>> => Http!Place(Authority(u)).port = Number[u.port[1]] % 65536
<1> DEFINE a == Marked(u.auth, "@")
           p == Marks(":", u.port)
           h == u.host \o p
<1>1. /\ u.auth \in Seq(Letter) /\ u.host \in Seq(Letter) /\ u.port \in Seq(Letter)
      /\ "@" \in Letter /\ ":" \in Letter /\ "/" \in Letter
      /\ <<"@">> \in Seq(Letter) /\ <<":">> \in Seq(Letter) /\ <<>> \in Seq(Letter)
  <2>1. "@" \in Letter /\ ":" \in Letter /\ "/" \in Letter
    BY DEF Letter
  <2>2. <<"@">> \in Seq(Letter) /\ <<":">> \in Seq(Letter) /\ <<>> \in Seq(Letter)
    BY <2>1
  <2> QED BY <2>1, <2>2, UrlParts
<1>2. a \in Seq(Letter) /\ p \in Seq(Letter) /\ h \in Seq(Letter)
  <2>1. a \in Seq(Letter)
    BY <1>1, ConcatProperties DEF Marked
  <2>2. p \in Seq(Letter)
    BY <1>1, ConcatProperties DEF Marks
  <2> HIDE DEF p
  <2>3. u.host \o p \in Seq(Letter)
    BY <1>1, <2>2, ConcatProperties
  <2> QED BY <2>1, <2>2, <2>3
<1>3. /\ Http!ToSet(p) \subseteq {":"} \cup Http!ToSet(u.port)
      /\ Http!ToSet(a) \subseteq {"@"} \cup Http!ToSet(u.auth)
  <2>1. /\ Http!ToSet(u.auth \o <<"@">>) = Http!ToSet(u.auth) \cup Http!ToSet(<<"@">>)
        /\ Http!ToSet(<<":">> \o u.port) = Http!ToSet(<<":">>) \cup Http!ToSet(u.port)
    BY <1>1, ToSetOf, ZenonT(30)
  <2> QED BY <2>1, ToSetOfOne DEF Marks, Marked
<1>4. "@" \notin Http!ToSet(h) /\ "/" \notin Http!ToSet(h)
  <2> HIDE DEF p
  <2>1. Http!ToSet(u.host \o p) = Http!ToSet(u.host) \cup Http!ToSet(p)
    BY <1>1, <1>2, ToSetOf
  <2> QED BY <1>3, <2>1, UrlParts
<1>5. Http!After(a \o h, "@") = h
  <2> HIDE DEF h, p
  <2>1. CASE u.auth = <<>>
    <3>1. a \o h = h
      BY <1>2, <2>1, ConcatEmptySeq DEF Marked
    <3> QED BY <1>2, <1>4, <3>1, Whole
  <2>2. CASE u.auth # <<>>
    <3>1. a \o h = u.auth \o (<<"@">> \o h)
      <4>1. \A x, y \in Seq(Letter) : (x \o <<"@">>) \o y = x \o (<<"@">> \o y)
        BY <1>1, Regroup
      <4>2. (u.auth \o <<"@">>) \o h = u.auth \o (<<"@">> \o h)
        BY <1>1, <1>2, <4>1
      <4> QED BY <2>2, <4>2 DEF Marked
    <3>2. "@" \notin Http!ToSet(u.auth)
      BY UrlParts
    <3>3. Http!After(u.auth \o (<<"@">> \o h), "@") = h
      BY ONLY <1>1, <1>2, <3>2, Parts, SMTT(30)
    <3> QED BY <3>1, <3>3
  <2> QED BY <2>1, <2>2
<1>6. Http!Before(h, ":") = u.host
  <2>1. ":" \notin Http!ToSet(u.host)
    BY UrlParts
  <2>2. CASE u.port = <<>>
    <3>1. h = u.host
      BY <1>1, <2>2, ConcatEmptySeq DEF Marks
    <3> HIDE DEF h
    <3> QED BY <1>1, <2>1, <3>1, Whole
  <2>3. CASE u.port # <<>>
    <3>1. h = u.host \o (<<":">> \o u.port)
      BY <2>3 DEF Marks
    <3> HIDE DEF h
    <3> QED BY <1>1, <2>1, <3>1, Parts
  <2> QED BY <2>2, <2>3
<1>7. ASSUME u.port # <<>>
      PROVE  Http!Index(h, ":") # 0 /\ Http!After(h, ":") = u.port
  <2>1. ":" \notin Http!ToSet(u.host) /\ Len(u.host) \in Nat
    BY <1>1, UrlParts, LenProperties
  <2>2. h = u.host \o (<<":">> \o u.port)
    BY <1>7 DEF Marks
  <2> HIDE DEF h
  <2>3. Http!Index(h, ":") = Len(u.host) + 1 /\ Http!After(h, ":") = u.port
    BY <1>1, <2>1, <2>2, Parts
  <2> QED BY <2>1, <2>3
<1> HIDE DEF a, h
<1>8. Authority(u) = a \o h
  BY DEF Authority, a, h
<1>9. Authority(u) \in Seq(Letter)
  BY <1>2, <1>8, ConcatProperties
<1>10. "/" \notin Http!ToSet(Authority(u))
  <2>1. Http!ToSet(a \o h) = Http!ToSet(a) \cup Http!ToSet(h)
    BY <1>1, <1>2, ToSetOf
  <2> QED BY <1>3, <1>4, <1>8, <2>1, UrlParts
<1>11. /\ Http!Place(Authority(u)).host = u.host
       /\ u.port # <<>> => Http!Place(Authority(u)).port = Http!Port(u.port)
  BY <1>5, <1>6, <1>7, <1>8 DEF Http!Place
<1>12. u.port # <<>> => Http!Port(u.port) = Number[u.port[1]] % 65536
  BY DEF Http!Port, Http!ToInt
<1> QED BY <1>9, <1>10, <1>11, <1>12

(* A URL is its protocol, "://", its authority and its path. *)
LEMMA WrittenIs ==
  ASSUME NEW u \in Url
  PROVE  LET x == Authority(u) \o u.path
         IN /\ x \in Seq(Letter)
            /\ Http!Index(Http!Written(u), ":") = Len(u.protocol) + 1
            /\ Http!Before(Http!Written(u), ":") = u.protocol
            /\ SubSeq(Http!Written(u), Len(u.protocol) + 4, Len(Http!Written(u))) = x
<1> DEFINE p == u.protocol
           colon == <<":", "/", "/">>
           a == Marked(u.auth, "@")
           m == Marks(":", u.port)
           x == Authority(u) \o u.path
<1>1. /\ p \in Seq(Letter) /\ u.host \in Seq(Letter) /\ u.path \in Seq(Letter)
      /\ u.auth \in Seq(Letter) /\ u.port \in Seq(Letter) /\ Len(p) \in Nat
  BY UrlParts, LenProperties
<1>2. /\ ":" \in Letter /\ "/" \in Letter /\ "@" \in Letter
      /\ <<":">> \in Seq(Letter) /\ <<"@">> \in Seq(Letter) /\ <<>> \in Seq(Letter)
      /\ <<"/", "/">> \in Seq(Letter) /\ colon \in Seq(Letter) /\ Len(colon) = 3
      /\ colon = <<":">> \o <<"/", "/">>
  <2>1. ":" \in Letter /\ "/" \in Letter /\ "@" \in Letter
    BY DEF Letter
  <2> QED BY <2>1
<1>3. a \in Seq(Letter) /\ m \in Seq(Letter)
  BY <1>1, <1>2, ConcatProperties DEF Marked, Marks
<1>4. p \o colon \in Seq(Letter) /\ Len(p \o colon) = Len(p) + 3
  BY <1>1, <1>2, ConcatProperties
<1>5. x \in Seq(Letter)
  BY <1>1, AuthorityIs, ConcatProperties
<1>6. Http!Written(u) = (p \o colon) \o x
  <2>1. Http!Written(u) = ((((p \o colon) \o a) \o u.host) \o m) \o u.path
    BY DEF Http!Written, Marked, Marks
  <2> HIDE DEF p, colon, a, m
  <2> DEFINE h == p \o colon
  <2>2. h \in Seq(Letter)
    BY <1>4
  <2> HIDE DEF h
  <2>3. RegroupsAll(h, a, u.host, m, u.path)
    BY <1>1, <1>3, <2>2, RegroupFour
  <2> QED BY ONLY <2>1, <2>3, Zenon DEF Authority, h, a, m, x, RegroupsAll
<1> HIDE DEF x, colon, p, a, m
<1> DEFINE slashes == <<"/", "/">>
           first == <<":">>
<1>7. first \in Seq(Letter) /\ slashes \in Seq(Letter)
  BY <1>2
<1> HIDE DEF slashes, first
<1>8. (p \o colon) \o x = p \o (first \o (slashes \o x))
  <2>1. Regroups(p, colon, x) /\ Regroups(first, slashes, x)
    BY <1>1, <1>2, <1>5, <1>7, Associative
  <2>2. colon = first \o slashes
    BY <1>2 DEF first, slashes
  <2> QED BY ONLY <2>1, <2>2, Zenon DEF Regroups
<1> USE DEF slashes, first
<1>9. <<"/", "/">> \o x \in Seq(Letter)
  BY <1>2, <1>5, ConcatProperties
<1>10. ":" \notin Http!ToSet(p)
  BY UrlParts DEF p
<1> DEFINE y == <<"/", "/">> \o x
<1>11. /\ Http!Index(Http!Written(u), ":") = Len(p) + 1
       /\ Http!Before(Http!Written(u), ":") = p
  <2>1. Http!Written(u) = p \o (<<":">> \o y) /\ y \in Seq(Letter)
    BY <1>6, <1>8, <1>9
  <2> HIDE DEF y
  <2>2. /\ Http!Index(p \o (<<":">> \o y), ":") = Len(p) + 1
        /\ Http!Before(p \o (<<":">> \o y), ":") = p
    BY <1>1, <1>2, <1>10, <2>1, Parts
  <2> QED BY <2>1, <2>2
<1>12. SubSeq(Http!Written(u), Len(p) + 4, Len(Http!Written(u))) = x
  <2> DEFINE h == p \o colon
  <2>1. h \in Seq(Letter) /\ Len(h) + 1 = Len(p) + 4 /\ Http!Written(u) = h \o x
    BY <1>1, <1>4, <1>6
  <2> HIDE DEF h
  <2>2. SubSeq(h \o x, Len(h) + 1, Len(h \o x)) = x
    BY <1>5, <2>1, Halves
  <2> QED BY <2>1, <2>2
<1> QED BY <1>5, <1>11, <1>12 DEF p, x

LEMMA RestIs ==
  ASSUME NEW u \in Url
  PROVE  LET x == Authority(u) \o u.path
             slash == Http!Index(x, "/")
         IN /\ Http!Before(x, "/") = Authority(u)
            /\ u.path = <<>> => slash = 0
            /\ u.path # <<>> => slash # 0 /\ SubSeq(x, slash, Len(x)) = u.path
<1> DEFINE a == Authority(u)
           path == u.path
           x == a \o path
<1>1. /\ a \in Seq(Letter) /\ "/" \notin Http!ToSet(a) /\ Len(a) \in Nat
      /\ path \in Seq(Letter) /\ (path = <<>> \/ path[1] = "/")
  BY AuthorityIs, UrlParts, LenProperties
<1> HIDE DEF a, path
<1>2. CASE path = <<>>
  <2>1. x = a
    BY <1>1, <1>2, ConcatEmptySeq
  <2>2. Http!Index(a, "/") = 0 /\ Http!Before(a, "/") = a
    BY <1>1, Whole
  <2> QED BY <1>2, <2>1, <2>2 DEF a, path
<1>3. CASE path # <<>>
  <2>1. /\ path[1] = "/" /\ Tail(path) \in Seq(Letter) /\ "/" \in Letter
        /\ path = <<"/">> \o Tail(path)
    <3>1. "/" \in Letter
      BY DEF Letter
    <3>2. path[1] = "/" /\ Tail(path) \in Seq(Letter)
      BY <1>1, <1>3
    <3>3. path = <<path[1]>> \o Tail(path)
      BY <1>1, <1>3
    <3> QED BY <3>1, <3>2, <3>3
  <2> DEFINE t == Tail(path)
  <2>2. x = a \o (<<"/">> \o t) /\ t \in Seq(Letter)
    BY <2>1
  <2> HIDE DEF t
  <2>3. /\ Http!Index(a \o (<<"/">> \o t), "/") = Len(a) + 1
        /\ Http!Before(a \o (<<"/">> \o t), "/") = a
    BY <1>1, <2>1, <2>2, Parts
  <2>4. SubSeq(x, Len(a) + 1, Len(x)) = path
    BY <1>1, Halves
  <2>5. Http!Index(x, "/") = Len(a) + 1 /\ Len(a) + 1 # 0 /\ Http!Before(x, "/") = a
    BY <1>1, <2>2, <2>3
  <2> HIDE DEF x
  <2> QED BY <1>3, <2>4, <2>5 DEF x, a, path
<1> QED BY <1>2, <1>3

(* The parts kept are those of the URL last begun, and what was asked with  *)
(* them is asked of them.                                                   *)
HttpInv ==
  meant # <<>> =>
    LET u == meant[1]
    IN /\ server.protocol = u.protocol /\ server.host = u.host
       /\ u.port # <<>> => server.port = Number[u.port[1]] % 65536
       /\ server.path = IF u.path = <<>> THEN <<"/">> ELSE u.path
       /\ httpAt = "end" => asked[1].host = server.host /\ asked[1].path = server.path

LEMMA BeginStep ==
  ASSUME NEW u \in Url, Http!Begin(u)
  PROVE  HttpInv'
<1> DEFINE text == Http!Written(u)
           rest == SubSeq(text, Http!Index(text, ":") + 3, Len(text))
           slash == Http!Index(rest, "/")
           x == Authority(u) \o u.path
<1>1. /\ Http!Index(text, ":") = Len(u.protocol) + 1 /\ Len(u.protocol) \in Nat
      /\ Http!Before(text, ":") = u.protocol
      /\ SubSeq(text, Len(u.protocol) + 4, Len(text)) = x
  BY WrittenIs, UrlParts, LenProperties
<1>2. rest = x
  <2>1. Http!Index(text, ":") + 3 = Len(u.protocol) + 4
    BY <1>1
  <2> QED BY <1>1, <2>1
<1>3. /\ Http!Before(x, "/") = Authority(u)
      /\ u.path = <<>> => Http!Index(x, "/") = 0
      /\ u.path # <<>> => /\ Http!Index(x, "/") # 0
                          /\ SubSeq(x, Http!Index(x, "/"), Len(x)) = u.path
  BY RestIs
<1>4. server' = [protocol |-> Http!Before(text, ":"),
                 host |-> Http!Place(Http!Before(rest, "/")).host,
                 port |-> Http!Place(Http!Before(rest, "/")).port,
                 path |-> IF slash = 0 THEN <<"/">> ELSE SubSeq(rest, slash, Len(rest))]
  BY DEF Http!Begin, Http!TakeApart
<1>5. /\ Http!Place(Authority(u)).host = u.host
      /\ u.port # <<>> => Http!Place(Authority(u)).port = Number[u.port[1]] % 65536
  BY AuthorityIs
<1> HIDE DEF text, rest, x
<1>6. /\ server'.protocol = u.protocol /\ server'.host = u.host
      /\ u.port # <<>> => server'.port = Number[u.port[1]] % 65536
      /\ server'.path = IF u.path = <<>> THEN <<"/">> ELSE u.path
  <2>1. server'.protocol = u.protocol
    BY <1>1, <1>4
  <2>2. /\ server'.host = Http!Place(Authority(u)).host
        /\ server'.port = Http!Place(Authority(u)).port
    BY <1>2, <1>3, <1>4
  <2>3. server'.path = IF u.path = <<>> THEN <<"/">> ELSE u.path
    BY <1>2, <1>3, <1>4
  <2> QED BY <1>5, <2>1, <2>2, <2>3
<1>7. meant' = <<u>> /\ httpAt' = "request"
  BY DEF Http!Begin
<1>8. meant'[1] = u
  BY <1>7
<1> QED BY <1>6, <1>7, <1>8 DEF HttpInv

LEMMA HttpStep == HttpInv /\ (Http!Next \/ UNCHANGED httpVars) => HttpInv'
<1> SUFFICES ASSUME HttpInv, Http!Next \/ UNCHANGED httpVars PROVE HttpInv'
  OBVIOUS
<1>1. ASSUME NEW u \in Url, Http!Begin(u) PROVE HttpInv'
  BY <1>1, BeginStep
<1>2. CASE Http!Refuse
  BY <1>2 DEF HttpInv, Http!Refuse
<1>3. ASSUME NEW method \in Http!Method, Http!Request(method) PROVE HttpInv'
  <2>1. /\ asked' = <<[method |-> method, host |-> server.host, path |-> server.path]>>
        /\ UNCHANGED <<server, meant>>
    BY <1>3 DEF Http!Request
  <2>2. asked'[1].host = server.host /\ asked'[1].path = server.path
    BY <2>1
  <2> QED BY <2>1, <2>2 DEF HttpInv
<1>4. CASE Http!End
  BY <1>4 DEF HttpInv, Http!End
<1>5. CASE UNCHANGED httpVars
  BY <1>5 DEF HttpInv, httpVars
<1> QED BY <1>1, <1>2, <1>3, <1>4, <1>5 DEF Http!Next

(* A request is given the host and the path of the URL last begun, for any  *)
(* well-formed URLs and after any others; protocol and port, by its lower   *)
(* 16 bits, are told from them and kept (HTTPClient::begin(), GET()).       *)
THEOREM AsksWhatWasMeantAlways == Spec => []Http!AsksWhatWasMeant
<1>1. Init => HttpInv
  BY DEF Init, Http!Init, HttpInv
<1>2. HttpInv /\ [Next]_vars => HttpInv'
  BY WhoseStep, HttpStep
<1>3. HttpInv => Http!AsksWhatWasMeant
  BY DEF HttpInv, Http!AsksWhatWasMeant
<1> QED BY <1>1, <1>2, <1>3, PTL DEF Spec

(* A complete answer of the weather service fills all that is printed, and  *)
(* a server is asked for the host and the path that were meant              *)
(* (TuyaIoTWeatherClass, HTTPClient).                                       *)
THEOREM AnswersServeAlways == Spec => []AnswersServe
<1>1. Weather!WholeAnswerFills /\ Http!AsksWhatWasMeant
        => AnswersServe
  BY DEF AnswersServe
<1> QED BY <1>1, WeatherServesAlways, AsksWhatWasMeantAlways, PTL

-----------------------------------------------------------------------------
(* The types, and with them every bound on a count, a length or an index:  *)
(* what each part adds to its invariant to keep them.                      *)
LEMMA MqttTypeStep ==
  Mqtt!TypeOK /\ (Mqtt!Next \/ UNCHANGED mqttVars) => Mqtt!TypeOK'
BY DEF Mqtt!TypeOK, mqttVars, Mqtt!Next, Mqtt!InitClient, Mqtt!Sketch, Mqtt!Begin,
       Mqtt!ConnectOk, Mqtt!ConnectFails, Mqtt!Publish, Mqtt!Subscribe, Mqtt!Yield,
       Mqtt!OnMessage, Mqtt!Disconnect, Mqtt!Free, Mqtt!Dropped

LEMMA LedTypeStep ==
  Led!TypeOK /\ (Led!Next \/ UNCHANGED ledVars) => Led!TypeOK'
<1> SUFFICES ASSUME Led!TypeOK, Led!Next \/ UNCHANGED ledVars PROVE Led!TypeOK'
  OBVIOUS
<1> USE DEF Led!TypeOK, Led!Go
<1>1. CASE UNCHANGED ledVars
  BY <1>1 DEF ledVars
<1>2. CASE Led!Update \/ Led!Toggle
  BY <1>2 DEF Led!Update, Led!Toggle
<1>3. ASSUME NEW t \in Led!Thread, NEW state \in {"off", "on", "blink"},
             NEW report \in BOOLEAN, NEW there \in {"set", "write"},
             Led!Begin(t, state, report, there)
      PROVE  Led!TypeOK'
  BY <1>3 DEF Led!Begin
<1>4. CASE Led!Click \/ Led!BindStart \/ Led!Activated \/ Led!MqttConnected \/ Led!Receive
  BY <1>3, <1>4
  DEF Led!Click, Led!BindStart, Led!Activated, Led!MqttConnected, Led!Receive, Led!Thread
<1>5. ASSUME NEW t \in Led!Thread, Led!Set(t) PROVE Led!TypeOK'
  <2> DEFINE o == Led!Other(t)
  <2>1. raced' = raced \/ raced' = (pc[o] \in {"toggle", "pin", "write"})
    BY <1>5 DEF Led!Set, Led!Caught
  <2> HIDE DEF o
  <2>2. raced \in BOOLEAN
    OBVIOUS
  <2>4. raced' = raced \/ raced' = TRUE \/ raced' = FALSE
    BY ONLY <2>1
  <2>3. raced' \in BOOLEAN
    BY ONLY <2>2, <2>4, Zenon
  <2> QED BY <1>5, <2>3 DEF Led!Set, Led!Thread
<1>6. ASSUME NEW t \in Led!Thread, Led!Pin(t) PROVE Led!TypeOK'
  BY <1>6 DEF Led!Pin
<1>7. ASSUME NEW t \in Led!Thread, Led!Write(t) PROVE Led!TypeOK'
  <2>1. dp' \in {"off", "on"} \/ dp' = dp
    BY <1>7 DEF Led!Write, Led!AsBool
  <2>2. {interval, nowLevel, lit, unsaid, failed, raced}' \subseteq BOOLEAN
    BY <1>7 DEF Led!Write
  <2>3. pc' \in [Led!Thread -> {"idle", "toggle", "set", "pin", "write"}]
    BY <1>7 DEF Led!Write
  <2> QED BY <1>7, <2>1, <2>2, <2>3 DEF Led!Write
<1> QED BY <1>1, <1>2, <1>4, <1>5, <1>6, <1>7 DEF Led!Next

LEMMA HttpTypeStep ==
  Http!TypeOK /\ (Http!Next \/ UNCHANGED httpVars) => Http!TypeOK'
<1> SUFFICES ASSUME Http!TypeOK, Http!Next \/ UNCHANGED httpVars PROVE Http!TypeOK'
  OBVIOUS
<1> USE DEF Http!TypeOK
<1>1. ASSUME NEW method \in Http!Method, Http!Request(method) PROVE Http!TypeOK'
  <2>1. asked' = <<[method |-> method, host |-> server.host, path |-> server.path]>>
    BY <1>1 DEF Http!Request
  <2>2. Len(asked') = 1 /\ \A n \in DOMAIN asked' : asked'[n].method \in Http!Method
    BY <2>1
  <2> QED BY <1>1, <2>2 DEF Http!Request, Http!Method
<1>2. ASSUME NEW u \in Url, Http!Begin(u) PROVE Http!TypeOK'
  BY <1>2 DEF Http!Begin, Http!Method
<1> QED
  BY <1>1, <1>2 DEF httpVars, Http!Next, Http!Refuse, Http!End, Http!Method

-----------------------------------------------------------------------------
BleCounts ==
  /\ bleAt \in {"init", "chars", "advertise", "send?", "notify", "indicate", "left?",
                "again", "noteLeft", "came?", "note"}
  /\ char_index \in 0 .. CharMax
  /\ table \in [0 .. CharMax - 1 -> 0 .. Chars]
  /\ {stack, advertising, deviceConnected, oldDeviceConnected, missed,
      refused} \subseteq BOOLEAN
  /\ conn \in 0 .. MaxHandle /\ handles \in 0 .. MaxHandle
  /\ connect_handle \in 0 .. MaxHandle
  /\ Len(sent) <= 1

LEMMA BleTypeStep ==
  ASSUME BleInv, BleCounts, Central!Next \/ UNCHANGED bleVars
  PROVE  BleCounts'
<1>0. MaxHandle \in Nat /\ Chars \in Nat /\ CharMax \in Nat /\ Chars <= CharMax
  <2>1. MaxHandle \in Nat
    BY ServicesAssumption
  <2> QED BY <2>1, CharsFit
<1> USE DEF Central!tables, Central!link
<1>1. CASE Central!CreateCharacteristic
  <2>1. /\ bleAt = "chars" /\ Len(notify_handle) < Chars
        /\ table' = [table EXCEPT ![char_index] = Len(notify_handle) + 1]
        /\ char_index' = char_index + 1
        /\ UNCHANGED <<bleAt, stack, advertising, conn, handles, connect_handle,
                       deviceConnected, missed, refused, oldDeviceConnected, sent>>
    BY <1>1 DEF Central!CreateCharacteristic
  <2>2. char_index = Len(notify_handle) /\ Len(notify_handle) \in Nat
    BY <2>1 DEF BleInv, BleTyped, Created
  <2>3. char_index' \in 0 .. CharMax /\ Len(notify_handle) + 1 \in 0 .. Chars
    BY <1>0, <2>1, <2>2
  <2>4. table' \in [0 .. CharMax - 1 -> 0 .. Chars]
    BY <2>1, <2>3 DEF BleCounts
  <2> QED BY <2>1, <2>3, <2>4 DEF BleCounts
<1>2. ASSUME UNCHANGED <<char_index, table, stack, handles, sent>> \/
             (UNCHANGED <<table, stack, handles, sent>> /\ char_index' = 0),
             bleAt' \in {"init", "chars", "advertise", "send?", "notify", "indicate", "left?",
                         "again", "noteLeft", "came?", "note"},
             {advertising', deviceConnected', oldDeviceConnected', missed', refused'}
               \subseteq BOOLEAN,
             conn' \in {conn, 0}, connect_handle' \in {connect_handle, 0}
      PROVE  BleCounts'
  BY <1>0, <1>2 DEF BleCounts
<1>3. CASE Central!CreateService
  BY <1>2, <1>3 DEF Central!CreateService, BleCounts
<1>11. CASE Central!Advertise \/ Central!Again
  <2>1. /\ refused' \in BOOLEAN /\ bleAt' \in {"send?", "noteLeft"}
        /\ UNCHANGED <<char_index, table, notify_handle, stack, conn, handles, connect_handle,
                       deviceConnected, oldDeviceConnected, missed, sent>>
    BY <1>11 DEF Central!Advertise, Central!Again, Central!Start
  <2>2. advertising' = (~ refused' /\ conn = 0)
    BY <1>11 DEF Central!Advertise, Central!Again, Central!Start
  <2>3. advertising' \in BOOLEAN
    BY <2>2, Zenon
  <2> QED BY <2>1, <2>3 DEF BleCounts
<1>4. CASE Central!StartService
  BY <1>4 DEF Central!StartService, BleCounts
<1>5. CASE Central!LookConnected \/ Central!LookLeft \/ Central!LookCame
  BY <1>2, <1>5 DEF Central!LookConnected, Central!LookLeft, Central!LookCame, Central!Look,
                    BleCounts
<1>6. CASE Central!Notify \/ Central!Indicate
  <2>1. /\ Len(sent') = 1 /\ bleAt' \in {"indicate", "left?"}
        /\ UNCHANGED <<Central!tables, Central!link, oldDeviceConnected>>
    BY <1>6 DEF Central!Notify, Central!Indicate, Central!Send
  <2> QED BY <2>1 DEF BleCounts
<1>7. CASE Central!NoteLeft \/ Central!NoteCame
  BY <1>2, <1>7 DEF Central!NoteLeft, Central!NoteCame, Central!Note, BleCounts
<1>8. CASE Central!Connect
  <2>1. handles < MaxHandle /\ handles \in 0 .. MaxHandle
    BY <1>8 DEF Central!Connect, BleCounts
  <2>2. handles + 1 \in 0 .. MaxHandle
    BY <1>0, <2>1
  <2> QED BY <1>8, <2>2 DEF Central!Connect, BleCounts
<1>9. CASE Central!Disconnect
  BY <1>2, <1>9 DEF Central!Disconnect, Central!Leave, BleCounts
<1>10. CASE UNCHANGED bleVars
  BY <1>10 DEF bleVars, BleCounts
<1> QED
  BY <1>1, <1>3, <1>4, <1>5, <1>6, <1>7, <1>8, <1>9, <1>10, <1>11
  DEF Central!Next, Central!Sketch

-----------------------------------------------------------------------------
Station == {"idle", "connecting", "got_ip", "failed"}

(* The lists, and what they are of. *)
ListsTyped ==
  /\ aplist \in Seq([ssid : Ssid, passphrase : BOOLEAN])
  /\ station \in Station /\ joining \in Ssid \cup {NoName}
  /\ ap_num \in 0 .. 3 * Int8Max + 2 /\ Len(found) <= 3 * Int8Max + 2
  /\ scans \in 0 .. MaxScans
  /\ Len(best) <= 1

(* What run() chooses is no network or one it has found. *)
LEMMA ChoiceTyped ==
  ASSUME found \in Seq(Multi!Network), Looks \in Nat, Looks <= Len(found)
  PROVE  Multi!Choice = <<>> \/ (Len(Multi!Choice) = 1 /\ Multi!Choice[1].ssid \in Ssid)
<1>1. IsBest(Multi!Choice, Looks)
  BY ChoiceIsBest
<1>2. CASE Multi!Choice # <<>>
  <2>1. PICK i \in Usable : Multi!Choice = <<found[i]>>
    BY <1>1, <1>2 DEF IsBest
  <2>2. i \in 1 .. Len(found)
    BY LenProperties DEF Usable
  <2>3. found[i] \in Multi!Network
    BY <2>2, ElementOfSeq
  <2> QED BY <2>1, <2>3 DEF Multi!Network
<1> QED BY <1>2

LEMMA FillTyped ==
  ASSUME ListsTyped, NEW w \in Multi!Found, Multi!ScanNetworks(w)
  PROVE  /\ ap_num' \in 0 .. 3 * Int8Max + 2 /\ Len(found') <= 3 * Int8Max + 2
         /\ scans' \in 0 .. MaxScans
<1>1. Int8Max \in Nat /\ MaxScans \in Nat
  <2>1. Int8Max \in Nat
    BY ServicesAssumption
  <2>2. MaxScans \in Nat
    BY ServicesAssumption
  <2> QED BY <2>1, <2>2
<1>2. Len(w) \in 0 .. 3 * Int8Max + 2
  BY FoundIs
<1>3. CASE ap_num' = 0 /\ found' = <<>> /\ UNCHANGED scans
  BY <1>1, <1>3 DEF ListsTyped
<1>4. CASE ap_num' = Len(w) /\ found' = w /\ scans < MaxScans /\ scans' = scans + 1
  <2>1. scans' \in 0 .. MaxScans
    BY <1>1, <1>4 DEF ListsTyped
  <2> QED BY <1>1, <1>2, <1>4, <2>1
<1> QED BY <1>3, <1>4 DEF Multi!ScanNetworks, Multi!Fill

LEMMA ListsStep ==
  ASSUME ListsTyped, ChosenInv, Multi!Next \/ UNCHANGED multiVars
  PROVE  ListsTyped'
<1>1. Int8Max \in Nat
  BY ServicesAssumption
<1>2. CASE UNCHANGED <<aplist, station, joining, ap_num, found, scans, best>>
  BY <1>2 DEF ListsTyped
<1>3. CASE Multi!StationMoves
  BY <1>3 DEF Multi!StationMoves, Multi!scanVars, ListsTyped, Station
<1>4. ASSUME NEW ssid \in Ssid, NEW passphrase \in BOOLEAN, Multi!AddAP(ssid, passphrase)
      PROVE  ListsTyped'
  <2> DEFINE x == [ssid |-> ssid, passphrase |-> passphrase]
  <2>1. aplist' = Append(aplist, x) /\ x \in [ssid : Ssid, passphrase : BOOLEAN]
    BY <1>4 DEF Multi!AddAP
  <2> HIDE DEF x
  <2>2. aplist' \in Seq([ssid : Ssid, passphrase : BOOLEAN])
    BY <2>1 DEF ListsTyped
  <2> QED BY <1>4, <2>2 DEF Multi!AddAP, Multi!scanVars, ListsTyped
<1>5. CASE Multi!Run
  <2>1. /\ UNCHANGED <<aplist, ap_num, found, scans, best>>
        /\ station' \in {station, "idle"} /\ joining' \in {joining, NoName}
    BY <1>5 DEF Multi!Run, Multi!scanVars, Multi!Leave
  <2> QED BY <2>1 DEF ListsTyped, Station
<1>6. CASE Multi!Choose
  <2>1. found \in Seq(Multi!Network) /\ Looks \in Nat /\ Looks <= Len(found)
    BY <1>6 DEF Multi!Choose, ChosenInv
  <2>2. Multi!Choice = <<>> \/ (Len(Multi!Choice) = 1 /\ Multi!Choice[1].ssid \in Ssid)
    BY <2>1, ChoiceTyped
  <2>3. /\ best' = Multi!Choice /\ UNCHANGED <<aplist, found, scans>> /\ ap_num' = 0
        /\ \/ Multi!Choice # <<>> /\ station' = "connecting" /\ joining' = Multi!Choice[1].ssid
           \/ UNCHANGED <<station, joining>>
    BY <1>6 DEF Multi!Choose, Multi!ScanDelete
  <2>4. Len(best') <= 1
    BY <2>2, <2>3
  <2>5. station' \in Station /\ joining' \in Ssid \cup {NoName}
    BY <2>2, <2>3 DEF ListsTyped, Station
  <2>6. ap_num' \in 0 .. 3 * Int8Max + 2
    BY <1>1, <2>3
  <2> QED BY <2>3, <2>4, <2>5, <2>6 DEF ListsTyped
<1>7. CASE Multi!Return \/ Multi!SketchDeletes
  <2>1. /\ UNCHANGED <<aplist, station, joining, scans>> /\ found' = <<>>
        /\ ap_num' \in {ap_num, 0} /\ best' \in {best, <<>>}
    BY <1>7 DEF Multi!Return, Multi!SketchDeletes, Multi!ScanDelete
  <2>2. ap_num' \in 0 .. 3 * Int8Max + 2 /\ Len(found') <= 3 * Int8Max + 2 /\ Len(best') <= 1
    BY <1>1, <2>1 DEF ListsTyped
  <2> QED BY <2>1, <2>2 DEF ListsTyped
<1>8. ASSUME NEW w \in Multi!Found,
             Multi!Scan(w) \/ Multi!ScanAgain(w) \/ Multi!SketchScans(w)
      PROVE  ListsTyped'
  <2>1. /\ Multi!ScanNetworks(w) /\ UNCHANGED <<aplist, best>>
        /\ station' \in {station, "idle"} /\ joining' \in {joining, NoName}
    BY <1>8 DEF Multi!Scan, Multi!ScanAgain, Multi!SketchScans, Multi!Leave
  <2>2. /\ ap_num' \in 0 .. 3 * Int8Max + 2 /\ Len(found') <= 3 * Int8Max + 2
        /\ scans' \in 0 .. MaxScans
    BY <2>1, FillTyped
  <2> QED BY <2>1, <2>2 DEF ListsTyped, Station
<1> QED BY <1>2, <1>3, <1>4, <1>5, <1>6, <1>7, <1>8 DEF Multi!Next, multiVars

-----------------------------------------------------------------------------
(* A thread per begin() that has come to it, and a copy for each. *)
ThreadsTyped ==
  /\ callback \in BOOLEAN /\ begins \in 0 .. MaxBegins
  /\ Len(thread) \in Nat /\ DOMAIN thread = 1 .. Len(thread)
  /\ DOMAIN config = DOMAIN thread /\ Len(config) = Len(thread)
  /\ thread \in Seq({"copy", "init", "run", "stopped"})
  /\ config \in Seq([Field -> {Unset, "buffer"}])
  /\ Len(thread) + (IF begin = <<>> THEN 0 ELSE 1) <= begins
  /\ client \in 0 .. Len(thread)

LEMMA ThreadsStep ==
  ASSUME CloudInv, ThreadsTyped, Cloud!Next \/ UNCHANGED cloudVars
  PROVE  ThreadsTyped'
<1> USE DEF ThreadsTyped
<1>1. CASE UNCHANGED <<begin, begins, thread, config, client>> /\ callback' \in BOOLEAN
  BY <1>1
<1>2. ASSUME begin = <<>>, begins < MaxBegins, begins' = begins + 1,
             begin' \in {Cloud!ShortSteps, Cloud!LongSteps},
             UNCHANGED <<callback, thread, config, client>>
      PROVE  ThreadsTyped'
  <2>1. MaxBegins \in Nat
    BY ServicesAssumption
  <2>2. begins' \in 0 .. MaxBegins /\ Len(thread) + 1 <= begins'
    BY <1>2, <2>1
  <2> QED BY <1>2, <2>2
<1>3. CASE Cloud!BeginStep
  <2>1. begin # <<>> /\ begin' = Tail(begin) /\ UNCHANGED <<callback, begins, client>>
    BY <1>3 DEF Cloud!BeginStep
  <2>4. Head(begin) = "start" => begin' = <<>>
    BY <2>1, StepsOfBegin DEF CloudInv
  <2>5. CASE UNCHANGED <<thread, config>> /\ Head(begin) = "start"
    BY <2>1, <2>4, <2>5
  <2>2. CASE Head(begin) = "start" /\ ~ UNCHANGED <<thread, config>>
    <3>1. begin' = <<>>
      BY <2>2, <2>4
    <3> DEFINE u == [pid |-> Unset, license |-> Unset]
    <3>2. thread' = Append(thread, "copy") /\ config' = Append(config, u)
      BY <1>3, <2>2 DEF Cloud!BeginStep
    <3>3. u \in [Field -> {Unset, "buffer"}]
      BY DEF Field
    <3> HIDE DEF u
    <3>4. /\ Len(thread') = Len(thread) + 1 /\ Len(config') = Len(config) + 1
          /\ thread' \in Seq({"copy", "init", "run", "stopped"})
          /\ config' \in Seq([Field -> {Unset, "buffer"}])
          /\ DOMAIN thread' = 1 .. Len(thread') /\ DOMAIN config' = 1 .. Len(config')
      BY <3>2, <3>3
    <3>5. Len(thread) + 1 <= begins /\ client' \in 0 .. Len(thread')
      BY <2>1, <3>4
    <3> QED BY <2>1, <3>1, <3>4, <3>5
  <2>3. CASE Head(begin) # "start"
    <3>4. <<"pid", "start">> # <<>> /\ <<"start">> # <<>>
      OBVIOUS
    <3>1. begin' # <<>>
      BY <2>1, <2>3, <3>4, StepsOfBegin, Zenon DEF CloudInv, Cloud!ShortSteps
    <3>2. UNCHANGED <<thread, config>>
      BY <1>3, <2>3 DEF Cloud!BeginStep
    <3> QED BY <2>1, <3>1, <3>2
  <2> QED BY <2>2, <2>3, <2>5
<1>4. ASSUME NEW t \in DOMAIN thread, Cloud!Copy(t) PROVE ThreadsTyped'
  <2>1. sg \in [Field -> {Unset, "buffer"}]
    BY DEF CloudInv, CloudTyped
  <2>2. /\ config' = [config EXCEPT ![t] = sg] /\ thread' = [thread EXCEPT ![t] = "init"]
        /\ UNCHANGED <<callback, begin, begins, client>>
    BY <1>4 DEF Cloud!Copy
  <2>3. /\ thread' \in Seq({"copy", "init", "run", "stopped"}) /\ Len(thread') = Len(thread)
        /\ config' \in Seq([Field -> {Unset, "buffer"}]) /\ Len(config') = Len(config)
        /\ DOMAIN thread' = DOMAIN thread /\ DOMAIN config' = DOMAIN config
    BY <2>1, <2>2
  <2> QED BY <2>2, <2>3
<1>5. ASSUME NEW t \in DOMAIN thread, Cloud!InitClient(t) PROVE ThreadsTyped'
  <2>1. /\ thread' \in {[thread EXCEPT ![t] = "run"], [thread EXCEPT ![t] = "stopped"]}
        /\ client' \in {client, t} /\ UNCHANGED <<callback, begin, begins, config>>
    BY <1>5 DEF Cloud!InitClient
  <2>2. /\ thread' \in Seq({"copy", "init", "run", "stopped"}) /\ Len(thread') = Len(thread)
        /\ DOMAIN thread' = DOMAIN thread
    <3>1. CASE thread' = [thread EXCEPT ![t] = "run"]
      BY <3>1
    <3>2. CASE thread' = [thread EXCEPT ![t] = "stopped"]
      BY <3>2
    <3> QED BY <2>1, <3>1, <3>2
  <2>3. client' \in 0 .. Len(thread)
    BY <2>1
  <2> QED BY <2>1, <2>2, <2>3
<1>6. CASE UNCHANGED cloudVars
  BY <1>1, <1>6 DEF cloudVars
<1>7. ASSUME NEW l \in Text, Cloud!SetLicense(l) PROVE ThreadsTyped'
  BY <1>1, <1>7 DEF Cloud!SetLicense
<1>8. CASE Cloud!SetEventCallback \/ Cloud!Echo \/ Cloud!Returns
           \/ \E dps \in Cloud!Event : Cloud!Receive(dps)
  BY <1>1, <1>8 DEF Cloud!SetEventCallback, Cloud!Echo, Cloud!Returns, Cloud!Receive
<1>9. ASSUME NEW p \in Text, Cloud!BeginTwo(p) PROVE ThreadsTyped'
  BY <1>2, <1>9 DEF Cloud!BeginTwo
<1>10. ASSUME NEW p \in Text, NEW l \in Text, Cloud!BeginFour(p, l) PROVE ThreadsTyped'
  BY <1>2, <1>10 DEF Cloud!BeginFour
<1> QED
  BY <1>3, <1>4, <1>5, <1>6, <1>7, <1>8, <1>9, <1>10 DEF Cloud!Next

-----------------------------------------------------------------------------
(* Files, what is written to one, and what was promised of them, are no     *)
(* longer than MaxLen.                                                      *)
Bytes == [there : BOOLEAN, bytes : 0 .. MaxLen]

HandleFits ==
  /\ content \in [Path -> 0 .. MaxLen] /\ size \in 0 .. MaxLen
  /\ promised \in [Path -> Bytes]
  /\ lossy \subseteq Path

ObjectsTyped ==
  /\ object \in [Object -> {"unmade", "unmounted", "mounted"}]
  /\ formatted \in BOOLEAN

(* How deep a mkdir() is in its path. *)
DepthTyped ==
  /\ making.target \in Path \cup {<<>>} /\ making.again \in BOOLEAN
  /\ Len(making.target) \in Nat /\ making.depth \in 0 .. Len(making.target)

FitsInv == FsInv /\ HandleFits /\ ObjectsTyped /\ DepthTyped

LEMMA IdleIsTyped == making' = Fs!Idle => DepthTyped'
BY DEF DepthTyped, Fs!Idle

LEMMA MkdirTypes ==
  ASSUME FitsInv, Fs!MkdirStep
  PROVE  HandleFits' /\ ObjectsTyped' /\ DepthTyped'
<1> DEFINE d == making.depth
           p == SubSeq(making.target, 1, d)
<1>0. ObjectsTyped'
  BY DEF Fs!MkdirStep, FitsInv, ObjectsTyped
<1>1. making \in Making /\ d \in 0 .. Len(making.target) /\ Len(making.target) \in Nat
  BY DEF Fs!MkdirStep, FitsInv, FsInv, MakingTyped, DepthTyped
<1>2. PICK answer \in Fs!MkdirAnswers(p) :
        /\ tree' = IF answer = "ok" THEN [tree EXCEPT ![p] = "dir"] ELSE tree
        /\ \/ answer = "ok" /\ Fs!ReturnsDone(d)
           \/ answer = "exist" /\ ~ making.again /\ Fs!ReturnsDone(d)
           \/ /\ answer = "noent" /\ ~ making.again
              /\ making' = [making EXCEPT !.depth = d - 1]
              /\ UNCHANGED promised
           \/ (answer = "error" \/ answer = "noent") /\ Fs!ReturnsFailed
  BY DEF Fs!MkdirStep
<1>3. DepthTyped'
  <2>1. CASE making' = Fs!Idle
    BY <2>1, IdleIsTyped
  <2>2. CASE d # Len(making.target) /\ making' = [making EXCEPT !.depth = d + 1, !.again = TRUE]
    BY <1>1, <2>2 DEF DepthTyped, Making
  <2>3. CASE answer = "noent" /\ making' = [making EXCEPT !.depth = d - 1]
    <3>1. d # 0
      <4>1. SUFFICES ASSUME d = 0 PROVE FALSE
        OBVIOUS
      <4>2. p = <<>>
        BY <4>1, SubSeqEmpty
      <4> QED BY <2>3, <4>2 DEF Fs!MkdirAnswers, Fs!Kind
    <3> QED BY <1>1, <2>3, <3>1 DEF DepthTyped, Making
  <2> QED BY <1>2, <2>1, <2>2, <2>3 DEF Fs!ReturnsDone, Fs!ReturnsFailed
<1>4. HandleFits'
  <2>1. UNCHANGED <<content, size, lossy>>
    BY DEF Fs!MkdirStep
  <2>2. CASE UNCHANGED promised
    BY <2>1, <2>2 DEF FitsInv, HandleFits
  <2>3. CASE promised' = [promised EXCEPT ![making.target].there = TRUE]
    <3>1. promised' \in [Path -> Bytes]
      BY <2>3 DEF FitsInv, HandleFits, Bytes
    <3> QED BY <2>1, <3>1 DEF FitsInv, HandleFits
  <2> QED BY <1>2, <2>2, <2>3 DEF Fs!ReturnsDone, Fs!ReturnsFailed
<1> QED BY <1>0, <1>3, <1>4

LEMMA MountTypes ==
  ASSUME FitsInv, NEW o \in Object, Fs!Mount(o), UNCHANGED <<handle, size, making>>
  PROVE  HandleFits' /\ ObjectsTyped' /\ DepthTyped'
<1>1. ObjectsTyped'
  <2>1. CASE UNCHANGED formatted /\ object' = [object EXCEPT ![o] = "mounted"]
    BY <2>1 DEF FitsInv, ObjectsTyped
  <2>2. ASSUME NEW again \in BOOLEAN, formatted' = again,
               object' = [object EXCEPT ![o] = IF again THEN "mounted" ELSE "unmounted"]
        PROVE  ObjectsTyped'
    BY <2>2 DEF FitsInv, ObjectsTyped
  <2> QED BY <2>1, <2>2 DEF Fs!Mount
<1>2. DepthTyped'
  BY DEF FitsInv, DepthTyped
<1>3. HandleFits'
  <2>1. CASE UNCHANGED <<content, promised, lossy>>
    BY <2>1 DEF FitsInv, HandleFits
  <2>2. CASE content' = Fs!Empty /\ promised' = Fs!NoPromise /\ lossy' = {}
    <3>1. 0 \in 0 .. MaxLen
      BY ServicesAssumption
    <3>2. content' \in [Path -> 0 .. MaxLen] /\ promised' \in [Path -> Bytes]
      BY <2>2, <3>1 DEF Fs!Empty, Fs!NoPromise, Bytes
    <3> QED BY <2>2, <3>2 DEF FitsInv, HandleFits
  <2> QED BY <2>1, <2>2 DEF Fs!Mount
<1> QED BY <1>1, <1>2, <1>3

LEMMA SaveTypes ==
  ASSUME FitsInv, handle \in Path, Fs!SaveAll \/ Fs!SaveSome
  PROVE  content' \in [Path -> 0 .. MaxLen]
<1>1. MaxLen \in Nat
  BY ServicesAssumption
<1>2. /\ content \in [Path -> 0 .. MaxLen] /\ size \in 0 .. MaxLen
      /\ content[handle] \in 0 .. MaxLen
  BY DEF FitsInv, HandleFits
<1>3. CASE Fs!SaveAll
  BY <1>2, <1>3 DEF Fs!SaveAll
<1>4. CASE Fs!SaveSome
  <2>1. PICK n \in content[handle] .. size : content' = [content EXCEPT ![handle] = n]
    BY <1>4 DEF Fs!SaveSome
  <2>2. n \in 0 .. MaxLen
    BY <1>1, <1>2
  <2> QED BY <1>2, <2>1, <2>2
<1> QED BY <1>3, <1>4

LEMMA FitsStep ==
  ASSUME FitsInv, Fs!Next \/ UNCHANGED fsVars
  PROVE  FitsInv'
<1>0. FsInv' /\ MaxLen \in Nat
  <2>1. MaxLen \in Nat
    BY ServicesAssumption
  <2> QED BY <2>1, FsStep DEF FitsInv
<1> SUFFICES HandleFits' /\ ObjectsTyped' /\ DepthTyped'
  BY <1>0 DEF FitsInv
<1>1. /\ handle \in Path \cup {<<>>} /\ tree \in [Path -> {"none", "dir", "file"}]
      /\ content \in [Path -> 0 .. MaxLen]
      /\ \A p \in Path : p # <<>>
  BY PathsAreNames DEF FitsInv, FsInv, FsTyped, HandleFits
<1>2. UNCHANGED <<object, formatted>> => ObjectsTyped'
  BY DEF FitsInv, ObjectsTyped
<1>3. UNCHANGED making => DepthTyped'
  BY DEF FitsInv, DepthTyped
<1>4. UNCHANGED <<content, size, promised, lossy>> => HandleFits'
  BY DEF FitsInv, HandleFits
<1>5. ASSUME NEW o \in Object, Fs!Construct(o)
      PROVE  HandleFits' /\ ObjectsTyped' /\ DepthTyped'
  <2>1. UNCHANGED <<handle, size, making>>
    BY <1>5 DEF Fs!Construct
  <2>2. Fs!Mount(o)
    BY <1>5 DEF Fs!Construct
  <2> QED BY <2>1, <2>2, MountTypes
<1>6. ASSUME NEW o \in Object, Fs!MountFirst(o)
      PROVE  HandleFits' /\ ObjectsTyped' /\ DepthTyped'
  BY <1>6, MountTypes DEF Fs!MountFirst
<1>7. ASSUME NEW o \in Object, NEW p \in Path, Fs!Mkdir(o, p)
      PROVE  HandleFits' /\ ObjectsTyped' /\ DepthTyped'
  <2>1. Len(p) \in Nat
    BY ServicesAssumption
  <2>2. making' = [target |-> p, depth |-> Len(p), again |-> FALSE]
    BY <1>7 DEF Fs!Mkdir
  <2>3. DepthTyped'
    BY <2>1, <2>2 DEF DepthTyped
  <2> QED BY <1>2, <1>4, <1>7, <2>3 DEF Fs!Mkdir
<1>8. ASSUME NEW o \in Object, NEW p \in Path, Fs!Remove(o, p)
      PROVE  HandleFits' /\ ObjectsTyped' /\ DepthTyped'
  <2>1. /\ content' = [content EXCEPT ![p] = 0]
        /\ promised' = [promised EXCEPT ![p] = [there |-> FALSE, bytes |-> 0]]
        /\ lossy' = lossy \ {p}
        /\ UNCHANGED <<object, formatted, size, making>>
    BY <1>8 DEF Fs!Remove
  <2>2. 0 \in 0 .. MaxLen
    BY <1>0
  <2>3. content' \in [Path -> 0 .. MaxLen] /\ promised' \in [Path -> Bytes]
    BY <2>1, <2>2 DEF FitsInv, HandleFits, Bytes
  <2>4. HandleFits'
    BY <2>1, <2>3 DEF FitsInv, HandleFits
  <2> QED BY <1>2, <1>3, <2>1, <2>4
<1>9. ASSUME NEW o \in Object, NEW p \in Path, NEW q \in Path, Fs!Rename(o, p, q)
      PROVE  HandleFits' /\ ObjectsTyped' /\ DepthTyped'
  <2>1. /\ content' = [content EXCEPT ![p] = 0, ![q] = content[p]]
        /\ promised' = [promised EXCEPT ![p] = [there |-> FALSE, bytes |-> 0],
                                         ![q] = promised[p]]
        /\ lossy' = {IF r = p THEN q ELSE r : r \in lossy}
        /\ UNCHANGED <<object, formatted, size, making>>
    BY <1>9 DEF Fs!Rename
  <2>2. 0 \in 0 .. MaxLen /\ content[p] \in 0 .. MaxLen /\ promised[p] \in Bytes
    BY <1>0, <1>1 DEF FitsInv, HandleFits
  <2>3. content' \in [Path -> 0 .. MaxLen]
    BY <1>1, <2>1, <2>2
  <2>4. promised' \in [Path -> Bytes]
    <3> DEFINE none == [there |-> FALSE, bytes |-> 0]
    <3>1. none \in Bytes
      BY <2>2 DEF Bytes
    <3>2. promised' = [promised EXCEPT ![p] = none, ![q] = promised[p]]
      BY <2>1
    <3>3. promised \in [Path -> Bytes]
      BY DEF FitsInv, HandleFits
    <3> HIDE DEF none
    <3> QED BY <2>2, <3>1, <3>2, <3>3
  <2>5. lossy' \subseteq Path
    BY <2>1 DEF FitsInv, HandleFits
  <2>6. HandleFits'
    BY <2>1, <2>3, <2>4, <2>5 DEF FitsInv, HandleFits
  <2> QED BY <1>2, <1>3, <2>1, <2>6
<1>10. ASSUME NEW o \in Object, NEW p \in Path, Fs!Open(o, p)
       PROVE  HandleFits' /\ ObjectsTyped' /\ DepthTyped'
  <2>1. /\ size' = content[p] /\ promised' = [promised EXCEPT ![p].there = TRUE]
        /\ UNCHANGED <<object, formatted, content, making, lossy>>
    BY <1>10 DEF Fs!Open
  <2>2. size' \in 0 .. MaxLen /\ promised' \in [Path -> Bytes]
    BY <1>1, <2>1 DEF FitsInv, HandleFits, Bytes
  <2>3. HandleFits'
    BY <2>1, <2>2 DEF FitsInv, HandleFits
  <2> QED BY <1>2, <1>3, <2>1, <2>3
<1>11. ASSUME NEW o \in Object, Fs!Write(o)
       PROVE  HandleFits' /\ ObjectsTyped' /\ DepthTyped'
  <2>1. /\ size < MaxLen /\ size' = size + 1
        /\ UNCHANGED <<object, formatted, content, making, promised, lossy>>
    BY <1>11 DEF Fs!Write
  <2>2. size \in 0 .. MaxLen
    BY DEF FitsInv, HandleFits
  <2>3. size' \in 0 .. MaxLen
    BY <1>0, <2>1, <2>2
  <2>4. HandleFits'
    BY <2>1, <2>3 DEF FitsInv, HandleFits
  <2> QED BY <1>2, <1>3, <2>1, <2>4
<1>12. ASSUME NEW o \in Object, Fs!Flush(o)
       PROVE  HandleFits' /\ ObjectsTyped' /\ DepthTyped'
  <2>1. /\ handle \in Path /\ (Fs!SaveAll \/ Fs!SaveSome)
        /\ lossy' \in {lossy, lossy \cup {handle}}
        /\ UNCHANGED <<object, formatted, size, making, promised>>
    BY <1>1, <1>12 DEF Fs!Flush, Fs!ReachesFile
  <2>2. HandleFits'
    BY <2>1, SaveTypes DEF FitsInv, HandleFits
  <2> QED BY <1>2, <1>3, <2>1, <2>2
<1>16. ASSUME NEW o \in Object, Fs!Close(o)
       PROVE  HandleFits' /\ ObjectsTyped' /\ DepthTyped'
  <2>1. /\ handle \in Path /\ (Fs!SaveAll \/ Fs!SaveSome)
        /\ lossy' \in {lossy, lossy \ {handle}}
        /\ promised' \in {promised, [promised EXCEPT ![handle] = [there |-> TRUE, bytes |-> size]]}
        /\ size' = 0
        /\ UNCHANGED <<object, formatted, making>>
    BY <1>1, <1>16 DEF Fs!Close, Fs!ReachesFile
  <2>2. content' \in [Path -> 0 .. MaxLen] /\ size' \in 0 .. MaxLen
    BY <1>0, <2>1, SaveTypes
  <2> DEFINE b == [there |-> TRUE, bytes |-> size]
  <2>5. b \in Bytes /\ promised \in [Path -> Bytes]
    BY DEF FitsInv, HandleFits, Bytes
  <2>6. promised' = promised \/ promised' = [promised EXCEPT ![handle] = b]
    BY <2>1
  <2> HIDE DEF b
  <2>3. promised' \in [Path -> Bytes]
    BY <2>1, <2>5, <2>6
  <2>4. HandleFits'
    BY <2>1, <2>2, <2>3 DEF FitsInv, HandleFits
  <2> QED BY <1>2, <1>3, <2>1, <2>4
<1>13. CASE Fs!MkdirStep
  BY <1>13, MkdirTypes
<1>14. CASE Fs!Restart
  <2>1. /\ object' = [o \in Object |-> "unmade"] /\ handle' = <<>> /\ size' = 0
        /\ making' = Fs!Idle /\ UNCHANGED <<formatted, content, promised, lossy>>
    BY <1>14 DEF Fs!Restart
  <2>2. ObjectsTyped'
    BY <2>1 DEF FitsInv, ObjectsTyped
  <2>3. HandleFits'
    BY <1>0, <2>1 DEF FitsInv, HandleFits
  <2> QED BY <2>1, <2>2, <2>3, IdleIsTyped
<1>15. CASE UNCHANGED fsVars
  BY <1>2, <1>3, <1>4, <1>15 DEF fsVars
<1> QED
  BY <1>5, <1>6, <1>7, <1>8, <1>9, <1>10, <1>11, <1>12, <1>13, <1>14, <1>15, <1>16
  DEF Fs!Next

-----------------------------------------------------------------------------
(* Each part keeps its types, from its invariant and what is added. *)
LEMMA MqttTypes == Spec => []Mqtt!TypeOK
<1>1. Init => Mqtt!TypeOK
  BY DEF Init, Mqtt!Init, Mqtt!TypeOK
<1>2. Mqtt!TypeOK /\ [Next]_vars => Mqtt!TypeOK'
  BY WhoseStep, MqttTypeStep
<1> QED BY <1>1, <1>2, PTL DEF Spec

LEMMA LedTypes == Spec => []Led!TypeOK
<1>1. Init => Led!TypeOK
  BY DEF Init, Led!Init, Led!TypeOK
<1>2. Led!TypeOK /\ [Next]_vars => Led!TypeOK'
  BY WhoseStep, LedTypeStep
<1> QED BY <1>1, <1>2, PTL DEF Spec

LEMMA HttpTypes == Spec => []Http!TypeOK
<1>1. Init => Http!TypeOK
  <2> SUFFICES ASSUME Init PROVE Http!TypeOK
    OBVIOUS
  <2>1. httpAt = "begin" /\ response = FALSE /\ meant = <<>> /\ asked = <<>>
    BY DEF Init, Http!Init
  <2>2. Len(meant) = 0 /\ Len(asked) = 0 /\ DOMAIN asked = {}
    BY <2>1
  <2>3. response \in BOOLEAN
    BY <2>1, Zenon
  <2>4. \A n \in DOMAIN asked : asked[n].method \in Http!Method
    BY <2>2, Zenon
  <2> QED BY <2>1, <2>2, <2>3, <2>4 DEF Http!TypeOK
<1>2. Http!TypeOK /\ [Next]_vars => Http!TypeOK'
  BY WhoseStep, HttpTypeStep
<1> QED BY <1>1, <1>2, PTL DEF Spec

LEMMA WeatherTypes == Spec => []Weather!TypeOK
<1>1. WeatherInv => Weather!TypeOK
  BY DEF WeatherInv
<1> QED BY <1>1, WeatherAlways, PTL

LEMMA ButtonTypes == Spec => []Press!TypeOK
<1>1. ButtonInv => Press!TypeOK
  <2> SUFFICES ASSUME ButtonInv PROVE Press!TypeOK
    OBVIOUS
  <2>1. calls \in Seq(Called)
    BY DEF ButtonInv, ButtonTyped
  <2>2. \A n \in DOMAIN calls : calls[n] \in Called
    BY <2>1, ElementOfSeq, LenProperties
  <2> QED BY <2>2 DEF ButtonInv, ButtonTyped, Press!TypeOK, Called
<1> QED BY <1>1, ButtonAlways, PTL

LEMMA BleTypes == Spec => []Central!TypeOK
<1>1. Init => BleCounts
  <2> SUFFICES ASSUME Central!Init PROVE BleCounts
    BY DEF Init
  <2>1. MaxHandle \in Nat
    BY ServicesAssumption
  <2>2. /\ bleAt = "init" /\ char_index = 0 /\ table = [i \in 0 .. CharMax - 1 |-> 0]
        /\ stack = FALSE /\ advertising = FALSE /\ conn = 0 /\ handles = 0
        /\ connect_handle = 0 /\ deviceConnected = FALSE /\ oldDeviceConnected = FALSE
        /\ missed = FALSE /\ refused = FALSE
    BY DEF Central!Init
  <2>3. Len(sent) = 0
    BY DEF Central!Init
  <2>4. table \in [0 .. CharMax - 1 -> 0 .. Chars]
    BY <2>2, CharsFit
  <2>5. {stack, advertising, deviceConnected, oldDeviceConnected, missed,
         refused} \subseteq BOOLEAN
    BY <2>2
  <2> QED BY <2>1, <2>2, <2>3, <2>4, <2>5, CharsFit DEF BleCounts
<1>2. BleInv /\ BleCounts /\ [Next]_vars => BleCounts'
  BY WhoseStep, BleTypeStep
<1>3. BleInv /\ BleCounts => Central!TypeOK
  BY DEF BleInv, BleTyped, BleCounts, Central!TypeOK
<1> QED BY <1>1, <1>2, <1>3, BleAlways, PTL DEF Spec

TwiceTyped == twice \in BOOLEAN

LEMMA TwiceStep ==
  ASSUME TwiceTyped, Multi!Next \/ UNCHANGED multiVars
  PROVE  TwiceTyped'
<1> USE DEF TwiceTyped
<1>1. CASE UNCHANGED twice
  BY <1>1
<1>2. CASE twice' = (twice \/ (ap_info # 0 /\ ap_info \notin heap))
  BY <1>2, Zenon
<1>3. UNCHANGED twice \/ Multi!Choose \/ Multi!SketchDeletes \/ Multi!Return
  BY DEF Multi!Next, Multi!StationMoves, Multi!AddAP, Multi!Run, Multi!scanVars, Multi!Scan,
         Multi!ScanAgain, Multi!SketchScans, Multi!ScanNetworks, multiVars
<1> QED
  BY <1>1, <1>2, <1>3 DEF Multi!Choose, Multi!SketchDeletes, Multi!Return, Multi!ScanDelete

LEMMA MultiTypes == Spec => []Multi!TypeOK
<1>1. Init => ListsTyped
  <2> SUFFICES ASSUME Multi!Init PROVE ListsTyped
    BY DEF Init
  <2>1. Int8Max \in Nat
    BY ServicesAssumption
  <2>2. MaxScans \in Nat
    BY ServicesAssumption
  <2>3. /\ station = "idle" /\ joining = NoName /\ ap_num = 0 /\ scans = 0
        /\ Len(found) = 0 /\ Len(best) = 0
    BY DEF Multi!Init
  <2>4. aplist \in Seq([ssid : Ssid, passphrase : BOOLEAN])
    BY DEF Multi!Init
  <2> QED BY <2>1, <2>2, <2>3, <2>4 DEF ListsTyped, Station
<1>2. ChosenInv /\ ListsTyped /\ [Next]_vars => ListsTyped'
  BY WhoseStep, ListsStep
<1>3. MultiInv /\ ListsTyped /\ TwiceTyped => Multi!TypeOK
  <2> SUFFICES ASSUME MultiInv, ListsTyped, TwiceTyped PROVE Multi!TypeOK
    OBVIOUS
  <2>1. \A x \in DOMAIN aplist : aplist[x] \in [ssid : Ssid, passphrase : BOOLEAN]
    BY ElementOfSeq, LenProperties DEF ListsTyped
  <2>2. /\ ap_info \in 0 .. scans /\ heap \subseteq 1 .. scans
        /\ twice \in BOOLEAN /\ wide \in BOOLEAN
        /\ multiAt \in {"sketch", "looks", "scan", "again", "choose", "wait"}
    BY DEF MultiInv, ScanTyped, TwiceTyped
  <2> QED BY <2>1, <2>2 DEF ListsTyped, Station, Multi!TypeOK
<1>4. Init => TwiceTyped
  BY DEF TwiceTyped, Init, Multi!Init
<1>5. TwiceTyped /\ [Next]_vars => TwiceTyped'
  BY WhoseStep, TwiceStep
<1> QED BY <1>1, <1>2, <1>3, <1>4, <1>5, MultiAlways, ChosenAlways, PTL DEF Spec

LEMMA CloudTypes == Spec => []Cloud!TypeOK
<1>1. Init => ThreadsTyped
  <2> SUFFICES ASSUME Cloud!Init PROVE ThreadsTyped
    BY DEF Init
  <2>1. MaxBegins \in Nat
    BY ServicesAssumption
  <2>2. callback = FALSE /\ begin = <<>> /\ begins = 0 /\ client = 0
    BY DEF Cloud!Init
  <2>3. /\ Len(thread) = 0 /\ Len(config) = 0
        /\ DOMAIN thread = 1 .. Len(thread) /\ DOMAIN config = DOMAIN thread
    BY DEF Cloud!Init
  <2>4. /\ thread \in Seq({"copy", "init", "run", "stopped"})
        /\ config \in Seq([Field -> {Unset, "buffer"}])
    BY DEF Cloud!Init
  <2>5. callback \in BOOLEAN
    BY <2>2, Zenon
  <2>6. begins \in 0 .. MaxBegins /\ client \in 0 .. Len(thread)
    BY <2>1, <2>2, <2>3
  <2>7. Len(thread) + (IF begin = <<>> THEN 0 ELSE 1) <= begins
    BY <2>2, <2>3
  <2>8. Len(thread) \in Nat
    BY <2>3
  <2> QED BY ONLY <2>3, <2>4, <2>5, <2>6, <2>7, <2>8 DEF ThreadsTyped
<1>2. CloudInv /\ ThreadsTyped /\ [Next]_vars => ThreadsTyped'
  BY WhoseStep, ThreadsStep
<1>3. CloudInv /\ ThreadsTyped /\ HandlingInv => Cloud!TypeOK
  <2> SUFFICES ASSUME CloudInv, ThreadsTyped, HandlingInv PROVE Cloud!TypeOK
    OBVIOUS
  <2>1. MaxDps \in Nat
    BY ServicesAssumption
  <2>2. Len(event) \in 0 .. MaxDps /\ cloudAt \in 0 .. Len(event) + 1
    BY DEF HandlingInv
  <2>3. cloudAt \in 0 .. MaxDps + 1
    BY <2>1, <2>2
  <2>4. Len(reported) <= MaxDps
    <3>1. CASE cloudAt = 0
      BY <2>1, <3>1 DEF HandlingInv
    <3>2. CASE cloudAt # 0
      <4>1. cloudAt - 1 \in Nat /\ cloudAt - 1 <= MaxDps
        BY <2>1, <2>3, <3>2
      <4> DEFINE R == Cloud!Reports(cloudAt - 1)
      <4>2. Len(reported) = Cardinality(R)
        BY <3>2, CountsAlike DEF HandlingInv, Cloud!EchoesWhatCame
      <4>3. R \subseteq 1 .. cloudAt - 1
        BY DEF Cloud!Reports
      <4> HIDE DEF R
      <4>4. Cardinality(1 .. cloudAt - 1) = cloudAt - 1 /\ IsFiniteSet(1 .. cloudAt - 1)
        BY <4>1, CountUpTo
      <4>5. Cardinality(R) <= cloudAt - 1 /\ Cardinality(R) \in Nat
        BY <4>3, <4>4, FS_Subset, FS_CardinalityType
      <4> QED BY <2>1, <4>1, <4>2, <4>5
    <3> QED BY <3>1, <3>2
  <2>5. /\ buffer \in [Field -> Text \cup {Unset}] /\ told = buffer
        /\ sg \in [Field -> {Unset, "buffer"}]
    BY DEF CloudInv, CloudTyped
  <2>6. \A f \in {"pid", "license"} :
           /\ buffer[f] \in Text \cup {Unset} /\ told[f] \in Text \cup {Unset}
           /\ sg[f] \in {Unset, "buffer"}
    BY <2>5 DEF Field
  <2>7. /\ callback \in BOOLEAN /\ begins \in 0 .. MaxBegins
        /\ DOMAIN config = DOMAIN thread /\ Len(thread) <= begins
        /\ client \in 0 .. Len(thread)
    BY DEF ThreadsTyped
  <2>8. unwritten \subseteq 1 .. MaxDps
    BY <2>1, <2>3 DEF HandlingInv
  <2> QED BY <2>3, <2>4, <2>6, <2>7, <2>8 DEF Cloud!TypeOK
<1> QED BY <1>1, <1>2, <1>3, CloudAlways, HandlingAlways, PTL DEF Spec

LEMMA FsTypes == Spec => []Fs!TypeOK
<1>1. Init /\ FsInv => FitsInv
  <2> SUFFICES ASSUME Fs!Init, FsInv PROVE FitsInv
    BY DEF Init
  <2>1. MaxLen \in Nat
    BY ServicesAssumption
  <2>2. HandleFits
    <3>1. 0 \in 0 .. MaxLen
      BY <2>1
    <3> QED BY <3>1 DEF Fs!Init, Fs!Empty, Fs!NoPromise, HandleFits, Bytes
  <2>3. ObjectsTyped
    BY DEF Fs!Init, ObjectsTyped
  <2>4. DepthTyped
    BY DEF Fs!Init, Fs!Idle, DepthTyped
  <2> QED BY <2>2, <2>3, <2>4 DEF FitsInv
<1>2. FitsInv /\ [Next]_vars => FitsInv'
  BY WhoseStep, FitsStep
<1>3. FitsInv => Fs!TypeOK
  <2> SUFFICES ASSUME FitsInv PROVE Fs!TypeOK
    OBVIOUS
  <2> QED
    BY DEF FitsInv, FsInv, FsTyped, HandleFits, Bytes, ObjectsTyped, DepthTyped, Fs!TypeOK
<1> QED BY <1>1, <1>2, <1>3, FsAlways, PTL DEF Spec

(* Each of the nine keeps its types, the counts and lengths among them     *)
(* within their bounds, for any paths, files, texts, times, networks,      *)
(* characteristics and connections.                                        *)
THEOREM TypeOKAlways == Spec => []TypeOK
<1>1. /\ Fs!TypeOK /\ Mqtt!TypeOK /\ Cloud!TypeOK /\ Press!TypeOK /\ Led!TypeOK
      /\ Weather!TypeOK /\ Http!TypeOK /\ Central!TypeOK /\ Multi!TypeOK
      => TypeOK
  BY DEF TypeOK
<1> QED
  BY <1>1, FsTypes, MqttTypes, CloudTypes, ButtonTypes, LedTypes, WeatherTypes, HttpTypes,
     BleTypes, MultiTypes, PTL
=============================================================================
