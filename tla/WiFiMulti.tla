----------------------------- MODULE WiFiMulti -----------------------------
(***************************************************************************)
(* Choosing an access point (libraries/WiFi): WiFiMulti::run(), which the  *)
(* sketches WiFiMulti and WiFiTelnetToSerial call in every loop(), over    *)
(* WiFiScan's one result, which the sketch WiFiScan uses as well, and the  *)
(* station.                                                                *)
(***************************************************************************)
LOCAL INSTANCE Integers
LOCAL INSTANCE Sequences

CONSTANTS
  Ssid,      \* names of access points
  NoName,    \* the empty name
  Int8Max,   \* 127 in the code: a scan's count goes through int8_t
  MaxAPs,    \* bound: access points added
  MaxScans   \* bound: scans that found anything

VARIABLES
  aplist,    \* APlist: the access points added, each with a passphrase or not
  station,   \* what tkl_wifi_station_get_status() says, as far as run() tells it apart
  joining,   \* the name the station was last told to join
  ap_info,   \* WiFiScan: the result it points to, 0 for NULL
  ap_num,    \* ... and its count
  found,     \* what the result held, while anyone asks
  heap,      \* results the system has given and not got back
  scans,     \* results so far
  twice,     \* one was given back that the system did not have out
  wide,      \* the count of a scan has come out negative
  at,        \* where run() is, or the sketch
  best       \* the network that run() chose, or <<>>

multiVars == <<aplist, station, joining, ap_info, ap_num, found, heap, scans, twice,
               wide, at, best>>
scanVars == <<ap_info, ap_num, found, heap, scans, twice, wide>>

Strength == {-2, -1}
Network == [ssid : Ssid, open : BOOLEAN, rssi : Strength]

Init ==
  /\ aplist = <<>>
  /\ station = "idle" /\ joining = NoName
  /\ ap_info = 0 /\ ap_num = 0 /\ found = <<>>
  /\ heap = {} /\ scans = 0 /\ twice = FALSE /\ wide = FALSE
  /\ at = "sketch" /\ best = <<>>

-----------------------------------------------------------------------------
(* The station finds its access point or not, or loses it. *)
StationMoves ==
  /\ station' \in CASE station = "connecting" -> {"got_ip", "failed"}
                    [] station = "got_ip" -> {"failed"}
                    [] OTHER -> {}
  /\ UNCHANGED <<aplist, joining, scanVars, at, best>>

(* addAP(). *)
AddAP(ssid, passphrase) ==
  /\ at = "sketch" /\ Len(aplist) < MaxAPs
  /\ aplist' = Append(aplist, [ssid |-> ssid, passphrase |-> passphrase])
  /\ UNCHANGED <<station, joining, scanVars, at, best>>

(* WiFiSTAClass::SSID() is the empty string, whatever is joined. *)
StationSSID == NoName

(* disconnect() works or not; run() does not ask. *)
Leave ==
  \/ station' = "idle" /\ joining' = NoName
  \/ UNCHANGED <<station, joining>>

(* run() of a connected station returns if that is an access point of the   *)
(* list, and else leaves it.                                                *)
Run ==
  /\ at = "sketch"
  /\ IF station = "got_ip"
       THEN \/ /\ \E x \in DOMAIN aplist : aplist[x].ssid = StationSSID
               /\ UNCHANGED <<station, joining, at>>
            \/ /\ \A x \in DOMAIN aplist : aplist[x].ssid # StationSSID
               /\ Leave /\ at' = "scan"
       ELSE at' = "scan" /\ UNCHANGED <<station, joining>>
  /\ UNCHANGED <<aplist, scanVars, best>>

-----------------------------------------------------------------------------
(* The count of a scan goes through int8_t. *)
Int8(n) == ((n + Int8Max + 1) % (2 * (Int8Max + 1))) - (Int8Max + 1)

(* What a scan finds: a few networks in any order, or so many that int8_t   *)
(* makes something else of their number: the least and the greatest of the  *)
(* negative, and those that are 0 and more once again.                      *)
Many == {Int8Max + 1, 2 * Int8Max + 1} \cup 2 * (Int8Max + 1) .. 3 * Int8Max + 2
AnyOf(rssi) == CHOOSE w \in Network : w.rssi = rssi
Lined(n) == [i \in 1 .. n |-> IF i = n THEN AnyOf(-1) ELSE AnyOf(-2)]
Found == (UNION {[1 .. n -> Network] : n \in 0 .. Int8Max}) \cup {Lined(n) : n \in Many}

(* The scan fails, or gives a result to the caller. *)
Fill(networks) ==
  \/ /\ ap_info' = 0 /\ ap_num' = 0 /\ found' = <<>>
     /\ networks = <<>>
     /\ UNCHANGED <<heap, scans, wide>>
  \/ /\ scans < MaxScans /\ scans' = scans + 1
     /\ ap_info' = scans + 1 /\ heap' = heap \cup {scans + 1}
     /\ ap_num' = Len(networks) /\ found' = networks
     /\ wide' = (wide \/ Int8(Len(networks)) < 0)

(* scanNetworks(): the pointer is cleared, and whatever it led to forgotten. *)
ScanNetworks(networks) == Fill(networks) /\ UNCHANGED twice

(* scanDelete(): the result is given back, the pointer kept. *)
ScanDelete ==
  /\ heap' = heap \ {ap_info}
  /\ twice' = (twice \/ (ap_info # 0 /\ ap_info \notin heap))
  /\ ap_num' = 0
  /\ UNCHANGED <<ap_info, scans, wide>>

(* The sketch WiFiScan: a scan, a look at every network, scanDelete(). *)
SketchScans(networks) ==
  /\ at = "sketch" /\ ScanNetworks(networks)
  /\ at' = "looks"
  /\ UNCHANGED <<aplist, station, joining, best>>

SketchDeletes ==
  /\ at = "looks" /\ ScanDelete /\ found' = <<>>
  /\ at' = "sketch"
  /\ UNCHANGED <<aplist, station, joining, best>>

-----------------------------------------------------------------------------
(* The entry of the list that counts for a name: the one added last. *)
Entry(ssid) == {x \in DOMAIN aplist : /\ aplist[x].ssid = ssid
                                      /\ \A y \in x + 1 .. Len(aplist) : aplist[y].ssid # ssid}

(* Mutant of Joins: without a look at the network's security. *)
JoinsAny(network, x) == TRUE

(* A network can be joined if it is open or its entry has a passphrase. *)
Joins(network, x) == network.open \/ aplist[x].passphrase

(* run() over the networks as they come, as many as int8_t counts: one that *)
(* is stronger than the best so far, known and joinable, becomes the best.  *)
Choice ==
  LET after[i \in 0 .. Int8(Len(found))] ==
        IF i = 0 THEN <<>>
        ELSE LET w == found[i]
                 b == after[i - 1]
             IN IF \E x \in Entry(w.ssid) : Joins(w, x) /\ (b = <<>> \/ w.rssi > b[1].rssi)
                  THEN <<w>> ELSE b
  IN after[Int8(Len(found))]

(* run() scans.  By what int8_t makes of the count it looks through the     *)
(* networks, takes a scan to be running, or disconnects and scans again.    *)
Scan(networks) ==
  /\ at = "scan" /\ ScanNetworks(networks)
  /\ LET n == Int8(Len(networks))
     IN at' = IF n >= 0 THEN "choose" ELSE IF n = -1 THEN "sketch" ELSE "again"
  /\ UNCHANGED <<aplist, station, joining, best>>

ScanAgain(networks) ==
  /\ at = "again" /\ ScanNetworks(networks)
  /\ Leave
  /\ at' = "sketch"
  /\ UNCHANGED <<aplist, best>>

(* The best one is copied, the result given back, and the station told to   *)
(* join: by name, for begin() drops the channel and the BSSID it is given.  *)
(* It may fail to, and run() does not look at its answer.                   *)
Choose ==
  /\ at = "choose" /\ ScanDelete /\ UNCHANGED found
  /\ best' = Choice
  /\ at' = "wait"
  /\ \/ /\ Choice # <<>>
        /\ station' = "connecting" /\ joining' = Choice[1].ssid
     \/ UNCHANGED <<station, joining>>
  /\ UNCHANGED aplist

(* It waits, if it joins one, until the station is done or the time over.  *)
Return ==
  /\ at = "wait"
  /\ at' = "sketch" /\ best' = <<>> /\ found' = <<>>
  /\ UNCHANGED <<aplist, station, joining, ap_info, ap_num, heap, scans, twice, wide>>

Next ==
  \/ StationMoves \/ Run \/ Choose \/ Return \/ SketchDeletes
  \/ \E ssid \in Ssid, passphrase \in BOOLEAN : AddAP(ssid, passphrase)
  \/ \E w \in Found : Scan(w) \/ ScanAgain(w) \/ SketchScans(w)
-----------------------------------------------------------------------------
TypeOK ==
  /\ \A x \in DOMAIN aplist : aplist[x] \in [ssid : Ssid, passphrase : BOOLEAN]
  /\ station \in {"idle", "connecting", "got_ip", "failed"}
  /\ joining \in Ssid \cup {NoName}
  /\ ap_info \in 0 .. scans /\ ap_num \in 0 .. 3 * Int8Max + 2
  /\ Len(found) <= 3 * Int8Max + 2 /\ heap \subseteq 1 .. scans /\ scans \in 0 .. MaxScans
  /\ twice \in BOOLEAN /\ wide \in BOOLEAN
  /\ at \in {"sketch", "looks", "scan", "again", "choose", "wait"}
  /\ Len(best) <= 1

(* run() chooses the strongest network among those it looks at and may      *)
(* join: no other that the list knows, and that is open or has a passphrase *)
(* there, is stronger; and it chooses none only if there is none.  It looks *)
(* at all that were found if their number fits in an int8_t, and at the     *)
(* first few or none of 256 and more.  (The station is told the name only,  *)
(* and joins whichever network of that name the driver prefers.)            *)
ChoosesStrongest ==
  at = "wait" =>
    LET usable == {i \in 1 .. Int8(Len(found)) : \E x \in Entry(found[i].ssid) :
                                            found[i].open \/ aplist[x].passphrase}
    IN IF best = <<>> THEN usable = {}
       ELSE /\ \E i \in usable : found[i] = best[1]
            /\ \A i \in usable : found[i].rssi <= best[1].rssi

(* Every result of a scan is given back, once, and not read after that:     *)
(* whatever scans fail or find nothing, the sketch's own scans between two  *)
(* run()s included; unless it found a number of networks that an int8_t     *)
(* takes for a negative one, and is never given back.                       *)
ReleasedOnce ==
  /\ ~ twice
  /\ ap_num > 0 => ap_info \in heap
  /\ at = "sketch" /\ ~ wide => heap = {}
=============================================================================
