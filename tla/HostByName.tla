----------------------------- MODULE HostByName -----------------------------
(***************************************************************************)
(* hostByName() of libraries/WiFi/src/WiFiGeneric.cpp: any number of       *)
(* threads look names up through one asynchronous resolver, and share two  *)
(* bits of one event group, WIFI_DNS_IDLE_BIT and WIFI_DNS_DONE_BIT.       *)
(*                                                                         *)
(* The resolver writes its answer through the pointer it was given, into   *)
(* the caller's IPAddress (a cell of mem), possibly after the caller has   *)
(* given up.  A name stands for its own address.                           *)
(*                                                                         *)
(* Time passes in ticks, and only when every thread waits: the steps       *)
(* between two waits take no time.                                         *)
(***************************************************************************)
EXTENDS Naturals

CONSTANTS
  Thread,       (* the threads that look names up                           *)
  Host,         (* the names looked up                                      *)
  None,         (* of a thread that is not inside                           *)
  Zero,         (* the address 0.0.0.0: no answer                           *)
  Cell,         (* the IPAddress variables of the callers                   *)
  DoneWait,     (* the 15000 ms of line 477, in ticks                       *)
  TableSize     (* the lookups the resolver has room for                    *)

ASSUME HostByNameAssumption ==
  /\ DoneWait \in Nat
  /\ TableSize \in Nat
  /\ Zero \notin Host
  /\ None \notin Host \cup Cell

VARIABLES
  bits,     (* of _arduino_event_group: "idle" and "done"                   *)
  pc,       (* where each thread is                                         *)
  timer,    (* what is left of its wait, 0 when it does not wait            *)
  host,     (* the name it looks up                                         *)
  cell,     (* where it wants the address                                   *)
  mem,      (* what the cells hold                                          *)
  pending,  (* what the resolver still has to answer                        *)
  owed      (* history: the names whose answers were still to come for the  *)
            (* thread's variable when it called                             *)

vars == <<bits, pc, timer, host, cell, mem, pending, owed>>

(* An entry of the resolver's table.                                       *)
Query == [slot : 1 .. TableSize, host : Host, cell : Cell]

(* Mutant of IdleWait: as long as the wait for an answer. *)
IdleWaitSame == DoneWait

(* The 16000 ms of line 471: a little more than the wait for an answer.    *)
IdleWait == DoneWait + 1

Goto(t, from, to) == pc[t] = from /\ pc' = [pc EXCEPT ![t] = to]

-----------------------------------------------------------------------------
Init ==
  /\ bits = {"idle"}
  /\ pc = [t \in Thread |-> "out"]
  /\ timer = [t \in Thread |-> 0]
  /\ host = [t \in Thread |-> None]
  /\ cell = [t \in Thread |-> None]
  /\ mem = [c \in Cell |-> Zero]
  /\ pending = {}
  /\ owed = [t \in Thread |-> {}]

(* A variable is in one call at a time.  It is free again when the call    *)
(* returns, also when the resolver has yet to answer: WiFiClient::connect()*)
(* looks names up into a local variable (WiFiClient.cpp:303), and the next *)
(* call's is at the same place of the stack.                               *)
Busy(c) == \E t \in Thread : cell[t] = c

(* An address in figures is parsed on the spot: it is some name's too.     *)
CallFigures(t, h, c) ==
  /\ Goto(t, "out", "out")
  /\ ~ Busy(c)
  /\ mem' = [mem EXCEPT ![c] = h]
  /\ UNCHANGED <<bits, timer, host, cell, pending, owed>>

(* A wait returns at once when its bit is set already.                     *)
Call(t, h, c) ==
  /\ Goto(t, "out", IF "idle" \in bits THEN "clear" ELSE "wait_idle")
  /\ ~ Busy(c)
  /\ host' = [host EXCEPT ![t] = h]
  /\ cell' = [cell EXCEPT ![t] = c]
  /\ mem' = [mem EXCEPT ![c] = Zero]
  /\ timer' = [timer EXCEPT ![t] = IF "idle" \in bits THEN 0 ELSE IdleWait]
  /\ owed' = [owed EXCEPT ![t] = {q.host : q \in {p \in pending : p.cell = c}}]
  /\ UNCHANGED <<bits, pending>>

Clear(t) ==
  /\ Goto(t, "clear", "ask")
  /\ bits' = bits \ {"idle", "done"}
  /\ UNCHANGED <<timer, host, cell, mem, pending, owed>>

Free == (1 .. TableSize) \ {q.slot : q \in pending}

(* dns_gethostbyname(): ERR_OK with an address, an error, ERR_INPROGRESS.  *)
Ask(t) ==
  /\ \/ /\ Goto(t, "ask", "set_idle")
        /\ mem' = [mem EXCEPT ![cell[t]] = host[t]]
        /\ UNCHANGED pending
     \/ /\ Goto(t, "ask", "set_idle")
        /\ UNCHANGED <<mem, pending>>
     \/ /\ Goto(t, "ask", "await")
        /\ \E s \in Free :
             /\ \A r \in Free : s <= r
             /\ pending' = pending \cup
                  {[slot |-> s, host |-> host[t], cell |-> cell[t]]}
        /\ UNCHANGED mem
  /\ UNCHANGED <<bits, timer, host, cell, owed>>

Await(t) ==
  /\ Goto(t, "await", IF "done" \in bits THEN "clear_done" ELSE "wait_done")
  /\ timer' = [timer EXCEPT ![t] = IF "done" \in bits THEN 0 ELSE DoneWait]
  /\ UNCHANGED <<bits, host, cell, mem, pending, owed>>

(* What follows each wait: neither result is looked at.                    *)
After(t) == IF pc[t] = "wait_idle" THEN "clear" ELSE "clear_done"

(* Mutant of Expires: the wait for an answer has no limit. *)
ExpiresIdle(t) ==
  /\ timer[t] = 0
  /\ Goto(t, "wait_idle", "clear")
  /\ UNCHANGED <<bits, timer, host, cell, mem, pending, owed>>

(* waitStatusBits() gives up.                                              *)
Expires(t) ==
  /\ timer[t] = 0
  /\ pc[t] \in {"wait_idle", "wait_done"}
  /\ pc' = [pc EXCEPT ![t] = After(t)]
  /\ UNCHANGED <<bits, timer, host, cell, mem, pending, owed>>

ClearDone(t) ==
  /\ Goto(t, "clear_done", "set_idle")
  /\ bits' = bits \ {"done"}
  /\ UNCHANGED <<timer, host, cell, mem, pending, owed>>

(* Mutant of SetIdle: only a lookup that found something sets the bit. *)
SetIdleOnSuccess(t) ==
  /\ pc[t] = "set_idle"
  /\ bits' = IF mem[cell[t]] = Zero THEN bits ELSE bits \cup {"idle"}
  /\ pc' = [u \in Thread |->
              IF u = t THEN "out"
              ELSE IF pc[u] = "wait_idle" /\ "idle" \in bits' THEN "clear"
              ELSE pc[u]]
  /\ timer' = [u \in Thread |-> IF pc'[u] \in {"wait_idle", "wait_done"} THEN timer[u] ELSE 0]
  /\ host' = [host EXCEPT ![t] = None]
  /\ cell' = [cell EXCEPT ![t] = None]
  /\ owed' = [owed EXCEPT ![t] = {}]
  /\ UNCHANGED <<mem, pending>>

(* Every thread that waits for the bit is woken, not one of them; then the *)
(* call returns.                                                           *)
SetIdle(t) ==
  /\ pc[t] = "set_idle"
  /\ bits' = bits \cup {"idle"}
  /\ pc' = [u \in Thread |->
              IF u = t THEN "out"
              ELSE IF pc[u] = "wait_idle" THEN "clear" ELSE pc[u]]
  /\ timer' = [u \in Thread |-> IF pc'[u] = "wait_done" THEN timer[u] ELSE 0]
  /\ host' = [host EXCEPT ![t] = None]
  /\ cell' = [cell EXCEPT ![t] = None]
  /\ owed' = [owed EXCEPT ![t] = {}]
  /\ UNCHANGED <<mem, pending>>

(* Mutant of Target: where whoever waits now wants its address. *)
TargetLatest(q) ==
  IF \E t \in Thread : pc[t] = "wait_done"
  THEN cell[CHOOSE t \in Thread : pc[t] = "wait_done"] ELSE q.cell

(* The callback_arg of the callback. *)
Target(q) == q.cell

(* wifi_dns_found_callback(), with an address or with none; it wakes every *)
(* thread that waits for an answer.                                        *)
Found(q) ==
  /\ pending' = pending \ {q}
  /\ \/ mem' = [mem EXCEPT ![Target(q)] = q.host]
     \/ UNCHANGED mem
  /\ bits' = bits \cup {"done"}
  /\ pc' = [u \in Thread |-> IF pc[u] = "wait_done" THEN "clear_done" ELSE pc[u]]
  /\ timer' = [u \in Thread |-> IF pc[u] = "wait_done" THEN 0 ELSE timer[u]]
  /\ UNCHANGED <<host, cell, owed>>

Waiting(t) == pc[t] \in {"wait_idle", "wait_done"}

Tick ==
  /\ \A t \in Thread : pc[t] = "out" \/ (Waiting(t) /\ timer[t] > 0)
  /\ \E t \in Thread : Waiting(t)
  /\ timer' = [t \in Thread |-> IF Waiting(t) THEN timer[t] - 1 ELSE timer[t]]
  /\ UNCHANGED <<bits, pc, host, cell, mem, pending, owed>>

(* What a thread does until hostByName() returns. *)
Run(t) ==
  \/ Clear(t) \/ Ask(t) \/ Await(t) \/ ClearDone(t) \/ SetIdle(t)
  \/ Expires(t)

Next ==
  \/ \E t \in Thread, h \in Host, c \in Cell : CallFigures(t, h, c) \/ Call(t, h, c)
  \/ \E t \in Thread : Run(t)
  \/ \E q \in pending : Found(q)
  \/ Tick

(* Threads get the processor and clocks run.  Nothing is assumed of the    *)
(* resolver.  Time can stand still while a thread comes and goes, hence    *)
(* the strong fairness of Tick.                                            *)
Spec == Init /\ [][Next]_vars /\ (\A t \in Thread : WF_vars(Run(t))) /\ SF_vars(Tick)

-----------------------------------------------------------------------------
Place == {"out", "wait_idle", "clear", "ask", "await", "wait_done",
          "clear_done", "set_idle"}

TypeOK ==
  /\ bits \subseteq {"idle", "done"}
  /\ pc \in [Thread -> Place]
  /\ timer \in [Thread -> 0 .. DoneWait + 1]
  /\ host \in [Thread -> Host \cup {None}]
  /\ cell \in [Thread -> Cell \cup {None}]
  /\ \A t \in Thread : pc[t] # "out" => host[t] # None /\ cell[t] # None
  /\ mem \in [Cell -> Host \cup {Zero}]
  /\ pending \subseteq Query
  /\ owed \in [Thread -> SUBSET Host]

(* The wait for WIFI_DNS_IDLE_BIT never runs out, however many threads     *)
(* wait and however late answers come: that is why its result may be       *)
(* ignored.  It holds because whoever cleared the bit sets it within       *)
(* DoneWait, and all who wait are woken at once.                           *)
IdleNeverExpires == \A t \in Thread : pc[t] = "wait_idle" => timer[t] > 0

(* The idle bit is never lost: when no thread is inside, it is set, and    *)
(* until it is, whoever has cleared it is still on the way to set it.      *)
IdleRestored ==
  \/ "idle" \in bits
  \/ \E t \in Thread : pc[t] \notin {"out", "wait_idle", "clear"}

(* The address a lookup returns is never another thread's: it is of the    *)
(* name looked up, or of a name that a lookup which gave up before had     *)
(* asked for, into the same variable (line 477: the resolver keeps the     *)
(* pointer).  So a caller that takes a fresh variable gets the truth, with *)
(* any number of threads sharing the DONE bit and late answers on the way, *)
(* and one that uses a variable again after a failure may not.             *)
Truthful ==
  \A t \in Thread : pc[t] = "set_idle" => mem[cell[t]] \in {Zero, host[t]} \cup owed[t]

(* Every lookup returns, whatever the resolver does.                       *)
EveryLookupReturns == \A t \in Thread : pc[t] # "out" ~> pc[t] = "out"

=============================================================================
