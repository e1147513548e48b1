------------------------------ MODULE TuyaIot ------------------------------
(***************************************************************************)
(* The cloud client (libraries/TuyaIoT): TuyaIoTCloudClass on the sketch's *)
(* thread, tuya_app_thread() over the one global ArduinoIoTClient, and the *)
(* event callback of the sketch dpType, which runs on the client's thread, *)
(* reads every data point of an event and reports it back.                 *)
(***************************************************************************)
EXTENDS Naturals, Sequences, FiniteSets

CONSTANTS
  Text,       \* product ids and licenses
  Unset,      \* a buffer with nothing in it, a pointer that is NULL
  DpId,       \* data points of the schema
  Schema,     \* [DpId -> the property type of each]
  MaxDps,     \* bound: data points in one event
  MaxBegins   \* bound: calls of begin()

VARIABLES
  buffer,     \* TuyaIoTCloudClass: what _pid and _uuid hold
  sg,         \* the static pointers: Unset, or "buffer"
  callback,   \* eventCallback is registered
  begin,      \* steps of the begin() under way
  begins,     \* calls of begin() so far
  thread,     \* per thread started: "copy", "init", "run" or "stopped"
  config,     \* per thread: its copy of the static pointers
  client,     \* the thread whose configuration ArduinoIoTClient has, or 0
  told,       \* what the sketch has asked for, by the last begin()
  event,      \* the data points of the event being handled
  at,         \* index of the callback's loop, 0 if no event is handled
  reported,   \* what was reported since the event came
  unwritten   \* indices of the event whose report failed

cloudVars == <<buffer, sg, callback, begin, begins, thread, config, client, told,
               event, at, reported, unwritten>>

Init ==
  /\ buffer = [pid |-> Unset, license |-> Unset]
  /\ sg = [pid |-> Unset, license |-> Unset]
  /\ callback = FALSE
  /\ begin = <<>> /\ begins = 0
  /\ thread = <<>> /\ config = <<>> /\ client = 0
  /\ told = [pid |-> Unset, license |-> Unset]
  /\ event = <<>> /\ at = 0 /\ reported = <<>> /\ unwritten = {}

(* What a pointer leads to: the buffers are the object's own. *)
Behind(pointers) == [f \in {"pid", "license"} |->
                       IF pointers[f] = Unset THEN Unset ELSE buffer[f]]

handling == <<event, at, reported, unwritten>>

-----------------------------------------------------------------------------
SetEventCallback ==
  /\ begin = <<>> /\ ~ callback
  /\ callback' = TRUE
  /\ UNCHANGED <<buffer, sg, begin, begins, thread, config, client, told, handling>>

(* setLicense() of a sketch that has not begun yet. *)
SetLicense(l) ==
  /\ begin = <<>> /\ begins = 0
  /\ buffer' = [buffer EXCEPT !.license = l]
  /\ sg' = [sg EXCEPT !.license = "buffer"]
  /\ told' = [told EXCEPT !.license = l]
  /\ UNCHANGED <<callback, begin, begins, thread, config, client, handling>>

(* begin() with and without a license: the buffers are filled, then the     *)
(* pointers set, then the thread started.                                   *)
ShortSteps == <<"pid", "start">>
LongSteps == <<"license", "pid", "start">>

BeginTwo(p) ==
  /\ begin = <<>> /\ begins < MaxBegins
  /\ begin' = ShortSteps /\ begins' = begins + 1
  /\ buffer' = [buffer EXCEPT !.pid = p]
  /\ told' = [told EXCEPT !.pid = p]
  /\ UNCHANGED <<sg, callback, thread, config, client, handling>>

BeginFour(p, l) ==
  /\ begin = <<>> /\ begins < MaxBegins
  /\ begin' = LongSteps /\ begins' = begins + 1
  /\ buffer' = [pid |-> p, license |-> l]
  /\ told' = [pid |-> p, license |-> l]
  /\ UNCHANGED <<sg, callback, thread, config, client, handling>>

(* app_iot_license_set(), and app_iot_task_start(), which makes another     *)
(* thread whether or not there is one, or cannot and does not say so.       *)
BeginStep ==
  /\ begin # <<>> /\ begin' = Tail(begin)
  /\ IF Head(begin) = "start"
       THEN /\ \/ /\ thread' = Append(thread, "copy")
                  /\ config' = Append(config, [pid |-> Unset, license |-> Unset])
               \/ UNCHANGED <<thread, config>>
            /\ UNCHANGED sg
       ELSE /\ sg' = [sg EXCEPT ![Head(begin)] = "buffer"]
            /\ UNCHANGED <<thread, config>>
  /\ UNCHANGED <<buffer, callback, begins, client, told, handling>>

-----------------------------------------------------------------------------
(* tuya_app_thread(): copies the pointers, initialises the client, which    *)
(* must work (assert), and serves it for ever.                              *)
Copy(t) ==
  /\ thread[t] = "copy"
  /\ config' = [config EXCEPT ![t] = sg]
  /\ thread' = [thread EXCEPT ![t] = "init"]
  /\ UNCHANGED <<buffer, sg, callback, begin, begins, client, told, handling>>

InitClient(t) ==
  /\ thread[t] = "init"
  /\ \/ client' = t /\ thread' = [thread EXCEPT ![t] = "run"]
     \/ thread' = [thread EXCEPT ![t] = "stopped"] /\ UNCHANGED client
  /\ UNCHANGED <<buffer, sg, callback, begin, begins, config, told, handling>>

-----------------------------------------------------------------------------
(* Values as the schema's types hold them, and the C++ type with which the  *)
(* sketch reads and writes each of those that it has a case for: a bitmap   *)
(* it has none for.                                                         *)
Value(type) == CASE type = "bool" -> {0, 1}
                 [] type \in {"value", "enum"} -> {0, 1, 2}
                 [] type = "str" -> {1, 2}
                 [] type = "bitmap" -> {1}
Wide(type) == CASE type = "bool" -> "bool"
                [] type = "value" -> "int"
                [] type = "enum" -> "uint32_t"
                [] type = "str" -> "char*"
HasCase(dpid) == dpid \in DpId /\ Schema[dpid] # "bitmap"

(* Mutant of Cast: everything is read through bool. *)
CastToBool(as, v) == IF v = 0 THEN 0 ELSE 1

(* An int as bool is its being different from zero; a type as wide as the   *)
(* property's keeps it.                                                     *)
Cast(as, v) == IF as = "bool" THEN (IF v = 0 THEN 0 ELSE 1) ELSE v

(* objRead() finds the first data point of the event with the id. *)
Found(dpid) == {n \in DOMAIN event : event[n].id = dpid
                                   /\ \A m \in 1 .. n - 1 : event[m].id # dpid}

(* read(): by the type of the data point found; a string only into a char*, *)
(* anything else only into an integer.  What is not found or does not fit   *)
(* leaves the variable as the sketch set it, to zero.                       *)
Read(dpid, as) ==
  IF \E n \in Found(dpid) : (event[n].type = "str") = (as = "char*")
    THEN Cast(as, event[CHOOSE n \in Found(dpid) : TRUE].value)
    ELSE 0

(* objWrite(): the node's type says as what the variable is read.  The node *)
(* may not be found, or the SDK not take the report; no sketch looks at the *)
(* answer.                                                                  *)
ObjWrite(dpid, v) ==
  \/ /\ reported' = Append(reported, [id |-> dpid, value |-> Cast(Wide(Schema[dpid]), v)])
     /\ UNCHANGED unwritten
  \/ unwritten' = unwritten \cup {at} /\ UNCHANGED reported

(* tuya_iot_yield() waits for an event for the client, and calls the        *)
(* handler, which calls the sketch if it has registered.                    *)
Awaits == at = 0 /\ client # 0

Receive(dps) ==
  /\ Awaits
  /\ IF callback THEN event' = dps /\ at' = 1 /\ reported' = <<>> /\ unwritten' = {}
                 ELSE UNCHANGED handling
  /\ UNCHANGED <<buffer, sg, callback, begin, begins, thread, config, client, told>>

(* One round of the callback's loop: the id at the index, read and written. *)
Echo ==
  /\ at # 0 /\ at <= Len(event)
  /\ LET dpid == event[at].id
     IN IF HasCase(dpid) THEN ObjWrite(dpid, Read(dpid, Wide(Schema[dpid])))
                         ELSE UNCHANGED <<reported, unwritten>>
  /\ at' = at + 1
  /\ UNCHANGED <<buffer, sg, callback, begin, begins, thread, config, client, told, event>>

Returns ==
  /\ at > Len(event)
  /\ at' = 0 /\ event' = <<>> /\ reported' = <<>> /\ unwritten' = {}
  /\ UNCHANGED <<buffer, sg, callback, begin, begins, thread, config, client, told>>

(* Events the cloud sends: data points of the schema, each once, in any     *)
(* order, and one the sketch does not know.                                 *)
Other == "other"
Dp == (UNION {[id : {d}, type : {Schema[d]}, value : Value(Schema[d])] : d \in DpId})
        \cup [id : {Other}, type : {"value"}, value : {1}]
Event == {s \in UNION {[1 .. n -> Dp] : n \in 0 .. MaxDps} :
            \A m, n \in DOMAIN s : s[m].id = s[n].id => m = n}

Next ==
  \/ SetEventCallback
  \/ \E p \in Text : BeginTwo(p)
  \/ \E l \in Text : SetLicense(l)
  \/ \E p, l \in Text : BeginFour(p, l)
  \/ BeginStep
  \/ \E t \in DOMAIN thread : Copy(t) \/ InitClient(t)
  \/ Awaits /\ \E dps \in Event : Receive(dps)
  \/ Echo \/ Returns
-----------------------------------------------------------------------------
TypeOK ==
  /\ \A f \in {"pid", "license"} : /\ buffer[f] \in Text \cup {Unset}
                                   /\ told[f] \in Text \cup {Unset}
                                   /\ sg[f] \in {Unset, "buffer"}
  /\ callback \in BOOLEAN /\ begins \in 0 .. MaxBegins
  /\ DOMAIN config = DOMAIN thread /\ Len(thread) <= begins
  /\ client \in 0 .. Len(thread)
  /\ at \in 0 .. MaxDps + 1 /\ Len(reported) <= MaxDps
  /\ unwritten \subseteq 1 .. MaxDps

(* A sketch that begins once has a client that is who the sketch said: the  *)
(* thread, which reads the static pointers and through them the buffers at  *)
(* a time of its own, finds there what setLicense() and begin() were given. *)
(* (After a second begin() there are two threads over one client and one    *)
(* set of buffers, and the code promises nothing.)                          *)
ClientIsWhoWasMeant ==
  client # 0 /\ begins = 1 => Behind(config[client]) = told

(* Of the first n data points of the event those that the sketch has a case *)
(* for and whose report did not fail.                                       *)
Reports(n) == {m \in 1 .. n : HasCase(event[m].id) /\ m \notin unwritten}

(* Whatever data points an event brings, in whatever order, each that the   *)
(* sketch has a case for goes back with the value it came with, once, and   *)
(* in their order, unless its own report failed: reading by id while        *)
(* counting by index does not mix them up, no type loses a value on the way *)
(* through, and a report that fails costs no other.                         *)
EchoesWhatCame ==
  at # 0 =>
    /\ Len(reported) = Cardinality(Reports(at - 1))
    /\ \A m \in Reports(at - 1) :
         reported[Cardinality(Reports(m))] = [id |-> event[m].id, value |-> event[m].value]
=============================================================================
