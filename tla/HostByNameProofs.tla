-------------------------- MODULE HostByNameProofs --------------------------
(***************************************************************************)
(* Proofs about HostByName, for any number of threads, names and cells and *)
(* any length of the waits.                                                *)
(*                                                                         *)
(* That the wait for the idle bit never runs out is not inductive: behind  *)
(* every thread that waits there must be one on the way to set the bit,    *)
(* and with less time left (BitComes).                                     *)
(***************************************************************************)
EXTENDS HostByName, TLAPS

(* Past Clear and not yet past SetIdle. *)
Runner(u) ==
  pc[u] \in {"ask", "await", "wait_done", "clear_done", "set_idle"}

(* The longest it can take u to set the idle bit. *)
Left(u) ==
  IF pc[u] \in {"ask", "await"} THEN DoneWait
  ELSE IF pc[u] = "wait_done" THEN timer[u] ELSE 0

ClocksOK ==
  /\ pc \in [Thread -> Place]
  /\ timer \in [Thread -> Nat]
  /\ \A u \in Thread : Left(u) \in Nat /\ Left(u) <= DoneWait

BitMissing == \A t \in Thread : pc[t] = "wait_idle" => "idle" \notin bits

SomeoneRuns == "idle" \notin bits => \E u \in Thread : Runner(u)

BitComes ==
  \A t \in Thread : pc[t] = "wait_idle" =>
    \E u \in Thread : Runner(u) /\ Left(u) < timer[t]

IInv == ClocksOK /\ BitMissing /\ SomeoneRuns /\ BitComes

-----------------------------------------------------------------------------
LEMMA InitInv == Init => IInv
  BY HostByNameAssumption
  DEF Init, IInv, ClocksOK, BitMissing, SomeoneRuns, BitComes, Left, Place

(* A step of thread t that keeps the bits, and with which nobody gets      *)
(* further from setting the idle bit, keeps the invariant.                 *)
LEMMA StepOfOne ==
  ASSUME IInv,
         NEW t \in Thread,
         pc' \in [Thread -> Place],
         timer' \in [Thread -> Nat],
         \A u \in Thread \ {t} : pc'[u] = pc[u] /\ timer'[u] = timer[u],
         Runner(t) => Runner(t)' /\ Left(t)' <= Left(t),
         Left(t)' \in Nat, Left(t)' <= DoneWait,
         pc'[t] # "wait_idle",
         "idle" \in bits' <=> "idle" \in bits
  PROVE  IInv'
  <1>1. \A u \in Thread \ {t} : Left(u)' = Left(u) /\ (Runner(u)' <=> Runner(u))
    BY DEF Left, Runner
  <1>2. \A u \in Thread : Runner(u) => Runner(u)' /\ Left(u)' <= Left(u)
    BY <1>1 DEF IInv, ClocksOK
  <1>3. ClocksOK'
    BY <1>1 DEF IInv, ClocksOK
  <1>4. BitMissing'
    BY DEF IInv, BitMissing
  <1>5. SomeoneRuns'
    BY <1>2 DEF IInv, SomeoneRuns
  <1>6. BitComes'
    <2> SUFFICES ASSUME NEW w \in Thread, pc'[w] = "wait_idle"
                 PROVE  \E u \in Thread : Runner(u)' /\ Left(u)' < timer'[w]
      BY DEF BitComes
    <2>1. w # t /\ pc[w] = "wait_idle" /\ timer'[w] = timer[w]
      OBVIOUS
    <2>2. PICK u \in Thread : Runner(u) /\ Left(u) < timer[w]
      BY <2>1 DEF IInv, BitComes
    <2>3. Left(u) \in Nat /\ Left(u)' \in Nat /\ timer[w] \in Nat
      BY <1>3 DEF IInv, ClocksOK
    <2> QED
      BY <1>2, <2>1, <2>2, <2>3
  <1> QED
    BY <1>3, <1>4, <1>5, <1>6 DEF IInv

(* Waking all who wait for the idle bit, with the bit set, keeps the       *)
(* invariant whoever does it.                                              *)
LEMMA SetIdleInv ==
  ASSUME IInv, NEW t \in Thread, SetIdle(t)
  PROVE  IInv'
  <1>1. /\ pc' \in [Thread -> Place]
        /\ timer' \in [Thread -> Nat]
        /\ \A u \in Thread : pc'[u] # "wait_idle"
        /\ \A u \in Thread : pc'[u] = "wait_done" => pc[u] = "wait_done" /\ timer'[u] = timer[u]
    BY DEF IInv, ClocksOK, SetIdle, Place
  <1>2. \A u \in Thread : Left(u)' \in Nat /\ Left(u)' <= DoneWait
    BY <1>1, HostByNameAssumption DEF IInv, ClocksOK, Left
  <1>3. "idle" \in bits'
    BY DEF SetIdle
  <1> QED
    BY <1>1, <1>2, <1>3
    DEF IInv, ClocksOK, BitMissing, SomeoneRuns, BitComes

(* A thread that arrives while the bit is missing waits longer than        *)
(* whoever has to set it can take.                                         *)
LEMMA CallInv ==
  ASSUME IInv, NEW t \in Thread, NEW h \in Host, NEW c \in Cell, Call(t, h, c)
  PROVE  IInv'
  <1>1. CASE "idle" \in bits
    <2>1. /\ pc' \in [Thread -> Place] /\ timer' \in [Thread -> Nat]
          /\ \A u \in Thread \ {t} : pc'[u] = pc[u] /\ timer'[u] = timer[u]
          /\ ~ Runner(t) /\ pc'[t] = "clear" /\ bits' = bits
      BY <1>1, HostByNameAssumption
      DEF IInv, ClocksOK, Call, Goto, Runner, Place, IdleWait
    <2>2. Left(t)' = 0
      BY <2>1 DEF Left
    <2> QED
      BY <2>1, <2>2, StepOfOne, HostByNameAssumption
  <1>2. CASE "idle" \notin bits
    <2>1. /\ pc' = [pc EXCEPT ![t] = "wait_idle"]
          /\ timer' = [timer EXCEPT ![t] = DoneWait + 1]
          /\ pc[t] = "out" /\ bits' = bits
      BY <1>2 DEF Call, Goto, IdleWait
    <2>2. pc' \in [Thread -> Place] /\ timer' \in [Thread -> Nat]
      BY <2>1, HostByNameAssumption DEF IInv, ClocksOK, Place
    <2>3. \A u \in Thread \ {t} : Left(u)' = Left(u) /\ (Runner(u)' <=> Runner(u))
      BY <2>1, <2>2 DEF IInv, ClocksOK, Left, Runner
    <2>4. Left(t)' = 0 /\ ~ Runner(t)
      BY <2>1, <2>2 DEF IInv, ClocksOK, Left, Runner
    <2>5. ClocksOK'
      BY <2>2, <2>3, <2>4, HostByNameAssumption DEF IInv, ClocksOK
    <2>6. BitMissing' /\ SomeoneRuns'
      BY <1>2, <2>1, <2>3, <2>4 DEF IInv, BitMissing, SomeoneRuns
    <2>7. BitComes'
      <3> SUFFICES ASSUME NEW w \in Thread, pc'[w] = "wait_idle"
                   PROVE  \E u \in Thread : Runner(u)' /\ Left(u)' < timer'[w]
        BY DEF BitComes
      <3>1. CASE w = t
        <4>1. PICK u \in Thread : Runner(u)
          BY <1>2 DEF IInv, SomeoneRuns
        <4>2. u # t /\ Left(u) \in Nat /\ Left(u) <= DoneWait
          BY <4>1, <2>4 DEF IInv, ClocksOK
        <4>3. timer'[w] = DoneWait + 1
          BY <3>1, <2>1 DEF IInv, ClocksOK
        <4> QED
          BY <4>1, <4>2, <4>3, <2>3, HostByNameAssumption
      <3>2. CASE w # t
        <4>1. pc[w] = "wait_idle" /\ timer'[w] = timer[w]
          BY <3>2, <2>1 DEF IInv, ClocksOK
        <4>2. PICK u \in Thread : Runner(u) /\ Left(u) < timer[w]
          BY <4>1 DEF IInv, BitComes
        <4> QED
          BY <4>1, <4>2, <2>3, <2>4
      <3> QED
        BY <3>1, <3>2
    <2> QED
      BY <2>5, <2>6, <2>7 DEF IInv
  <1> QED
    BY <1>1, <1>2

(* Clear takes the bit, and the thread that took it is a runner.           *)
LEMMA ClearInv ==
  ASSUME IInv, NEW t \in Thread, Clear(t)
  PROVE  IInv'
  <1>1. /\ pc[t] = "clear" /\ pc' = [pc EXCEPT ![t] = "ask"]
        /\ timer' = timer /\ "idle" \notin bits'
    BY DEF Clear, Goto
  <1>2. pc' \in [Thread -> Place] /\ timer' \in [Thread -> Nat]
    BY <1>1 DEF IInv, ClocksOK, Place
  <1>3. \A u \in Thread \ {t} : Left(u)' = Left(u) /\ (Runner(u)' <=> Runner(u))
    BY <1>1, <1>2 DEF IInv, ClocksOK, Left, Runner
  <1>4. Left(t)' = DoneWait /\ Runner(t)' /\ ~ Runner(t) /\ pc'[t] = "ask"
    BY <1>1, <1>2 DEF IInv, ClocksOK, Left, Runner
  <1>5. ClocksOK'
    BY <1>2, <1>3, <1>4, HostByNameAssumption DEF IInv, ClocksOK
  <1>6. BitMissing' /\ SomeoneRuns'
    BY <1>1, <1>4 DEF BitMissing, SomeoneRuns
  <1>7. BitComes'
    <2> SUFFICES ASSUME NEW w \in Thread, pc'[w] = "wait_idle"
                 PROVE  \E u \in Thread : Runner(u)' /\ Left(u)' < timer'[w]
      BY DEF BitComes
    <2>1. pc[w] = "wait_idle" /\ timer'[w] = timer[w]
      BY <1>1, <1>4 DEF IInv, ClocksOK
    <2>2. PICK u \in Thread : Runner(u) /\ Left(u) < timer[w]
      BY <2>1 DEF IInv, BitComes
    <2> QED
      BY <2>1, <2>2, <1>3, <1>4
  <1> QED
    BY <1>5, <1>6, <1>7 DEF IInv

(* A tick brings every wait nearer to its end by the same amount, and no   *)
(* thread is anywhere but waiting when it happens.                         *)
LEMMA TickInv ==
  ASSUME IInv, Tick
  PROVE  IInv'
  <1>1. /\ pc' = pc /\ bits' = bits
        /\ timer' = [u \in Thread |-> IF Waiting(u) THEN timer[u] - 1 ELSE timer[u]]
        /\ \A u \in Thread : pc[u] = "out" \/ (Waiting(u) /\ timer[u] > 0)
    BY DEF Tick
  <1>2. timer' \in [Thread -> Nat]
    BY <1>1 DEF IInv, ClocksOK, Waiting
  <1>3. \A u \in Thread : Runner(u) =>
          /\ pc[u] = "wait_done" /\ Left(u) = timer[u]
          /\ timer'[u] = timer[u] - 1 /\ Left(u)' = timer'[u] /\ Runner(u)'
    BY <1>1 DEF Runner, Waiting, Left
  <1>4. \A u \in Thread : ~ Runner(u) => Left(u)' = 0 /\ ~ Runner(u)'
    BY <1>1 DEF Runner, Left
  <1>5. ClocksOK'
    <2> SUFFICES ASSUME NEW u \in Thread
                 PROVE  Left(u)' \in Nat /\ Left(u)' <= DoneWait
      BY <1>1, <1>2 DEF IInv, ClocksOK
    <2>1. timer[u] \in Nat /\ timer'[u] \in Nat /\ Left(u) <= DoneWait
      BY <1>2 DEF IInv, ClocksOK
    <2>2. CASE Runner(u)
      <3>1. /\ Left(u)' = timer[u] - 1 /\ timer[u] <= DoneWait
            /\ timer[u] > 0
        BY <2>1, <2>2, <1>1, <1>3
      <3> QED
        BY <3>1, <2>1, HostByNameAssumption
    <2>3. CASE ~ Runner(u)
      BY <2>3, <1>4, HostByNameAssumption
    <2> QED
      BY <2>2, <2>3
  <1>6. BitMissing' /\ SomeoneRuns'
    BY <1>1, <1>3 DEF IInv, BitMissing, SomeoneRuns
  <1>7. BitComes'
    <2> SUFFICES ASSUME NEW w \in Thread, pc[w] = "wait_idle"
                 PROVE  \E u \in Thread : Runner(u)' /\ Left(u)' < timer'[w]
      BY <1>1 DEF BitComes
    <2>1. timer[w] \in Nat /\ timer'[w] = timer[w] - 1
      BY <1>1 DEF IInv, ClocksOK, Waiting
    <2>2. PICK u \in Thread : Runner(u) /\ Left(u) < timer[w]
      BY DEF IInv, BitComes
    <2>3. timer[u] \in Nat /\ timer[u] < timer[w] /\ Left(u)' = timer[u] - 1 /\ Runner(u)'
      BY <2>2, <1>3 DEF IInv, ClocksOK
    <2> QED
      BY <2>1, <2>3
  <1> QED
    BY <1>5, <1>6, <1>7 DEF IInv

(* An answer ends waits and starts none.                                   *)
LEMMA FoundInv ==
  ASSUME IInv, NEW q \in pending, Found(q)
  PROVE  IInv'
  <1>1. /\ pc' = [u \in Thread |-> IF pc[u] = "wait_done" THEN "clear_done" ELSE pc[u]]
        /\ bits' = bits \cup {"done"}
        /\ timer' = [u \in Thread |-> IF pc[u] = "wait_done" THEN 0 ELSE timer[u]]
    BY DEF Found
  <1>2. pc' \in [Thread -> Place] /\ timer' \in [Thread -> Nat]
    BY <1>1 DEF IInv, ClocksOK, Place
  <1>3. \A u \in Thread : Left(u)' \in Nat /\ Left(u)' <= Left(u) /\ Left(u)' <= DoneWait
    BY <1>1, HostByNameAssumption DEF IInv, ClocksOK, Left
  <1>4. \A u \in Thread : Runner(u) => Runner(u)'
    BY <1>1 DEF Runner
  <1>5. ClocksOK'
    BY <1>2, <1>3 DEF ClocksOK
  <1>6. BitMissing' /\ SomeoneRuns'
    BY <1>1, <1>4 DEF IInv, BitMissing, SomeoneRuns
  <1>7. BitComes'
    <2> SUFFICES ASSUME NEW w \in Thread, pc'[w] = "wait_idle"
                 PROVE  \E u \in Thread : Runner(u)' /\ Left(u)' < timer'[w]
      BY DEF BitComes
    <2>1. pc[w] = "wait_idle" /\ timer'[w] = timer[w]
      BY <1>1
    <2>2. PICK u \in Thread : Runner(u) /\ Left(u) < timer[w]
      BY <2>1 DEF IInv, BitComes
    <2>3. Left(u) \in Nat /\ Left(u)' \in Nat /\ timer[w] \in Nat
      BY <1>3 DEF IInv, ClocksOK
    <2> QED
      BY <1>3, <1>4, <2>1, <2>2, <2>3
  <1> QED
    BY <1>5, <1>6, <1>7 DEF IInv

(* The other steps of a call touch one thread and not the idle bit.        *)
LEMMA RunInv ==
  ASSUME IInv, NEW t \in Thread, Run(t)
  PROVE  IInv'
  <1> USE HostByNameAssumption
  <1>1. CASE Expires(t) /\ pc[t] = "wait_idle"
    <2>1. PICK u \in Thread : Runner(u) /\ Left(u) < timer[t]
      BY <1>1 DEF IInv, BitComes
    <2>2. Left(u) \in Nat /\ timer[t] = 0
      BY <1>1 DEF IInv, ClocksOK, Expires
    <2> QED
      BY <2>1, <2>2
  <1>2. CASE Clear(t)
    BY <1>2, ClearInv
  <1>3. CASE Ask(t)
    <2>1. PICK p \in {"set_idle", "await"} :
            pc[t] = "ask" /\ pc' = [pc EXCEPT ![t] = p] /\ timer' = timer /\ bits' = bits
      BY <1>3 DEF Ask, Goto
    <2>2. /\ pc' \in [Thread -> Place] /\ timer' \in [Thread -> Nat]
          /\ \A u \in Thread \ {t} : pc'[u] = pc[u] /\ timer'[u] = timer[u]
          /\ pc'[t] = p
      BY <2>1 DEF IInv, ClocksOK, Place
    <2>3. /\ Left(t) = DoneWait /\ Left(t)' \in {0, DoneWait}
          /\ Runner(t)'
      BY <2>1, <2>2 DEF Left, Runner
    <2> QED
      BY <2>1, <2>2, <2>3, StepOfOne
  <1>4. CASE Await(t)
    <2>1. PICK p \in {"wait_done", "clear_done"} :
            /\ pc[t] = "await" /\ pc' = [pc EXCEPT ![t] = p]
            /\ timer' = [timer EXCEPT ![t] = IF "done" \in bits THEN 0 ELSE DoneWait]
            /\ bits' = bits
      BY <1>4 DEF Await, Goto
    <2>2. /\ pc' \in [Thread -> Place] /\ timer' \in [Thread -> Nat]
          /\ \A u \in Thread \ {t} : pc'[u] = pc[u] /\ timer'[u] = timer[u]
          /\ pc'[t] = p /\ timer'[t] \in {0, DoneWait}
      BY <2>1 DEF IInv, ClocksOK, Place
    <2>3. Left(t) = DoneWait /\ Left(t)' \in {0, DoneWait} /\ Runner(t)'
      BY <2>1, <2>2 DEF Left, Runner
    <2> QED
      BY <2>1, <2>2, <2>3, StepOfOne
  <1>5. CASE (Expires(t) /\ pc[t] # "wait_idle") \/ ClearDone(t)
    <2>1. PICK p \in {"clear_done", "set_idle"} :
            /\ pc[t] \in {"wait_done", "clear_done"} /\ pc' = [pc EXCEPT ![t] = p]
            /\ timer' = timer /\ ("idle" \in bits' <=> "idle" \in bits)
      BY <1>5 DEF Expires, After, ClearDone, Goto
    <2>2. /\ pc' \in [Thread -> Place] /\ timer' \in [Thread -> Nat]
          /\ \A u \in Thread \ {t} : pc'[u] = pc[u] /\ timer'[u] = timer[u]
          /\ pc'[t] = p
      BY <2>1 DEF IInv, ClocksOK, Place
    <2>3. Left(t)' = 0 /\ Runner(t)' /\ Left(t) \in Nat
      BY <2>1, <2>2 DEF IInv, ClocksOK, Left, Runner
    <2> QED
      BY <2>1, <2>2, <2>3, StepOfOne
  <1>6. CASE SetIdle(t)
    BY <1>6, SetIdleInv
  <1> QED
    BY <1>1, <1>2, <1>3, <1>4, <1>5, <1>6 DEF Run

LEMMA NextInv == IInv /\ [Next]_vars => IInv'
  <1> SUFFICES ASSUME IInv, [Next]_vars PROVE IInv'
    OBVIOUS
  <1>1. ASSUME NEW t \in Thread, NEW h \in Host, NEW c \in Cell, CallFigures(t, h, c) PROVE IInv'
    <2>1. pc[t] = "out" /\ pc' = [pc EXCEPT ![t] = "out"] /\ timer' = timer /\ bits' = bits
      BY <1>1 DEF CallFigures, Goto
    <2>2. pc' = pc
      BY <2>1 DEF IInv, ClocksOK
    <2> QED
      BY <2>1, <2>2
      DEF IInv, ClocksOK, BitMissing, SomeoneRuns, BitComes, Left, Runner
  <1>2. CASE UNCHANGED vars
    BY <1>2 DEF vars, IInv, ClocksOK, BitMissing, SomeoneRuns, BitComes, Left, Runner
  <1> QED
    BY <1>1, <1>2, CallInv, RunInv, FoundInv, TickInv DEF Next

-----------------------------------------------------------------------------
(* Ignoring the result of the wait for WIFI_DNS_IDLE_BIT (line 471) is     *)
(* right for every number of threads and every DoneWait: the wait that is  *)
(* one tick longer never runs out.                                         *)
THEOREM IdleWaitSuffices == Spec => []IdleNeverExpires
  <1>1. IInv => IdleNeverExpires
    <2> SUFFICES ASSUME IInv, NEW t \in Thread, pc[t] = "wait_idle"
                 PROVE  timer[t] > 0
      BY DEF IdleNeverExpires
    <2>1. PICK u \in Thread : Runner(u) /\ Left(u) < timer[t]
      BY DEF IInv, BitComes
    <2> QED
      BY <2>1 DEF IInv, ClocksOK
  <1> QED
    BY <1>1, InitInv, NextInv, PTL DEF Spec

(* The idle bit is never lost: while it is missing, some thread is on the  *)
(* way to set it.                                                          *)
THEOREM IdleBitReturns == Spec => []IdleRestored
  <1>1. IInv => IdleRestored
    BY DEF IInv, SomeoneRuns, Runner, IdleRestored
  <1> QED
    BY <1>1, InitInv, NextInv, PTL DEF Spec
-----------------------------------------------------------------------------
(* Truthful: a variable is in one call at a time, and an answer still to   *)
(* come for the variable of a call is one to its own question, or one that *)
(* was owed to the variable when the call was made.                        *)
Insiders ==
  /\ pc \in [Thread -> Place]
  /\ host \in [Thread -> Host \cup {None}] /\ cell \in [Thread -> Cell \cup {None}]
  /\ mem \in [Cell -> Host \cup {Zero}]
  /\ owed \in [Thread -> SUBSET Host]
  /\ pending \subseteq Query
  /\ \A t \in Thread : pc[t] # "out" => host[t] \in Host /\ cell[t] \in Cell

CellsApart == \A t, u \in Thread : cell[t] = cell[u] /\ cell[t] # None => t = u

Expected(t) == {host[t]} \cup owed[t]

AnswersExpected ==
  \A q \in pending, t \in Thread : cell[t] = q.cell => q.host \in Expected(t)

HoldsExpected ==
  \A t \in Thread : pc[t] # "out" => mem[cell[t]] \in {Zero} \cup Expected(t)

TruthInv == Insiders /\ CellsApart /\ AnswersExpected /\ HoldsExpected

(* Steps that go on inside a call and touch neither variables nor answers. *)
LEMMA GoesOn ==
  ASSUME TruthInv, pc' \in [Thread -> Place], UNCHANGED <<host, cell, mem, pending, owed>>,
         \A t \in Thread : pc'[t] # "out" => pc[t] # "out"
  PROVE  TruthInv'
<1> QED BY DEF TruthInv, Insiders, CellsApart, AnswersExpected, HoldsExpected, Expected

LEMMA CallTruth ==
  ASSUME TruthInv, NEW t \in Thread, NEW h \in Host, NEW c \in Cell,
         Call(t, h, c)
  PROVE  TruthInv'
<1>1. /\ pc[t] = "out" /\ ~ Busy(c)
      /\ host' = [host EXCEPT ![t] = h] /\ cell' = [cell EXCEPT ![t] = c]
      /\ mem' = [mem EXCEPT ![c] = Zero] /\ pending' = pending
      /\ owed' = [owed EXCEPT ![t] = {q.host : q \in {r \in pending : r.cell = c}}]
  BY DEF Call, Goto
<1>2. PICK p \in {"clear", "wait_idle"} : pc' = [pc EXCEPT ![t] = p]
  BY DEF Call, Goto
<1>3. \A u \in Thread : cell[u] # c
  BY <1>1 DEF Busy
<1>4. /\ host'[t] = h /\ cell'[t] = c /\ mem'[c] = Zero
      /\ \A u \in Thread \ {t} : pc'[u] = pc[u] /\ host'[u] = host[u] /\ cell'[u] = cell[u]
      /\ \A d \in Cell \ {c} : mem'[d] = mem[d]
  BY <1>1, <1>2 DEF TruthInv, Insiders
<1>9. /\ owed' \in [Thread -> SUBSET Host]
      /\ owed'[t] = {q.host : q \in {r \in pending : r.cell = c}}
      /\ \A u \in Thread \ {t} : owed'[u] = owed[u]
  <2>1. {q.host : q \in {r \in pending : r.cell = c}} \in SUBSET Host
    BY DEF TruthInv, Insiders, Query
  <2> QED BY <1>1, <2>1 DEF TruthInv, Insiders
<1>5. Insiders'
  <2>1. pc' \in [Thread -> Place]
    BY <1>2 DEF TruthInv, Insiders, Place
  <2>2. /\ host' \in [Thread -> Host \cup {None}] /\ cell' \in [Thread -> Cell \cup {None}]
        /\ mem' \in [Cell -> Host \cup {Zero}] /\ pending' \subseteq Query
    BY <1>1 DEF TruthInv, Insiders
  <2> QED BY <1>4, <1>9, <2>1, <2>2 DEF TruthInv, Insiders
<1>6. CellsApart'
  BY <1>3, <1>4 DEF TruthInv, CellsApart
<1>7. AnswersExpected'
  <2> SUFFICES ASSUME NEW q \in pending, NEW u \in Thread, cell'[u] = q.cell
               PROVE  q.host \in {host'[u]} \cup owed'[u]
    BY <1>1 DEF AnswersExpected, Expected
  <2>1. CASE u = t
    BY <1>4, <1>9, <2>1
  <2>2. CASE u # t
    BY <1>4, <1>9, <2>2 DEF TruthInv, AnswersExpected, Expected
  <2> QED BY <2>1, <2>2
<1>8. HoldsExpected'
  BY <1>3, <1>4, <1>9 DEF TruthInv, HoldsExpected, Expected, Insiders
<1> QED BY <1>5, <1>6, <1>7, <1>8 DEF TruthInv

LEMMA AskTruth ==
  ASSUME TruthInv, NEW t \in Thread, Ask(t)
  PROVE  TruthInv'
<1>1. PICK p \in {"set_idle", "await"} :
        pc[t] = "ask" /\ pc' = [pc EXCEPT ![t] = p] /\ UNCHANGED <<host, cell, owed>>
  BY DEF Ask, Goto
<1>2. pc' \in [Thread -> Place] /\ \A u \in Thread : pc'[u] # "out" <=> pc[u] # "out"
  BY <1>1 DEF TruthInv, Insiders, Place
<1>3. cell[t] \in Cell /\ host[t] \in Host
  BY <1>1 DEF TruthInv, Insiders
<1>4. CASE UNCHANGED <<mem, pending>>
  BY <1>1, <1>2, <1>4, GoesOn
<1>5. CASE mem' = [mem EXCEPT ![cell[t]] = host[t]] /\ pending' = pending
  <2>1. mem'[cell[t]] = host[t] /\ \A d \in Cell \ {cell[t]} : mem'[d] = mem[d]
        /\ mem' \in [Cell -> Host \cup {Zero}]
    BY <1>3, <1>5 DEF TruthInv, Insiders
  <2>2. Insiders'
    BY <1>1, <1>2, <1>5, <2>1 DEF TruthInv, Insiders
  <2>3. HoldsExpected'
    <3> SUFFICES ASSUME NEW u \in Thread, pc'[u] # "out"
                 PROVE  mem'[cell[u]] \in {Zero} \cup Expected(u)
      BY <1>1 DEF HoldsExpected, Expected
    <3>1. cell[u] \in Cell /\ mem[cell[u]] \in {Zero} \cup Expected(u)
      BY <1>2 DEF TruthInv, Insiders, HoldsExpected
    <3>2. cell[u] = cell[t] => u = t
      BY <3>1, HostByNameAssumption DEF TruthInv, CellsApart
    <3> QED BY <2>1, <3>1, <3>2 DEF Expected
  <2> QED BY <1>1, <1>5, <2>2, <2>3 DEF TruthInv, CellsApart, AnswersExpected, Expected
<1>6. ASSUME NEW s \in 1 .. TableSize,
             pending' = pending \cup {[slot |-> s, host |-> host[t], cell |-> cell[t]]},
             mem' = mem
      PROVE  TruthInv'
  <2>1. [slot |-> s, host |-> host[t], cell |-> cell[t]] \in Query
    BY <1>3 DEF Query
  <2>2. Insiders'
    BY <1>1, <1>2, <1>6, <2>1 DEF TruthInv, Insiders
  <2>3. AnswersExpected'
    <3> SUFFICES ASSUME NEW q \in pending', NEW u \in Thread, cell[u] = q.cell
                 PROVE  q.host \in Expected(u)
      BY <1>1 DEF AnswersExpected, Expected
    <3>1. CASE q \in pending
      BY <3>1 DEF TruthInv, AnswersExpected
    <3>2. CASE q = [slot |-> s, host |-> host[t], cell |-> cell[t]]
      <4>1. u = t
        BY <1>3, <3>2, HostByNameAssumption DEF TruthInv, CellsApart
      <4> QED BY <3>2, <4>1 DEF Expected
    <3> QED BY <1>6, <3>1, <3>2
  <2> QED BY <1>1, <1>2, <1>6, <2>2, <2>3 DEF TruthInv, CellsApart, HoldsExpected, Expected
<1> QED BY <1>4, <1>5, <1>6 DEF Ask, Free

(* A thread that has given up and one that waits are the same to an answer. *)
LEMMA FoundTruth ==
  ASSUME TruthInv, NEW q \in pending, Found(q)
  PROVE  TruthInv'
<1>1. /\ pending' = pending \ {q} /\ UNCHANGED <<host, cell, owed>>
      /\ pc' = [u \in Thread |-> IF pc[u] = "wait_done" THEN "clear_done" ELSE pc[u]]
      /\ mem' = [mem EXCEPT ![q.cell] = q.host] \/ mem' = mem
  BY DEF Found, Target
<1>2. pc' \in [Thread -> Place] /\ \A u \in Thread : pc'[u] # "out" <=> pc[u] # "out"
  BY <1>1 DEF TruthInv, Insiders, Place
<1>3. q.cell \in Cell /\ q.host \in Host
  BY DEF TruthInv, Insiders, Query
<1>4. mem' \in [Cell -> Host \cup {Zero}]
      /\ \A d \in Cell : mem'[d] = mem[d] \/ (d = q.cell /\ mem'[d] = q.host)
  BY <1>1, <1>3 DEF TruthInv, Insiders
<1>5. Insiders'
  BY <1>1, <1>2, <1>4 DEF TruthInv, Insiders
<1>6. HoldsExpected'
  <2> SUFFICES ASSUME NEW u \in Thread, pc'[u] # "out"
               PROVE  mem'[cell[u]] \in {Zero} \cup Expected(u)
    BY <1>1 DEF HoldsExpected, Expected
  <2>1. cell[u] \in Cell /\ mem[cell[u]] \in {Zero} \cup Expected(u)
    BY <1>2 DEF TruthInv, Insiders, HoldsExpected
  <2>2. cell[u] = q.cell => q.host \in Expected(u)
    BY DEF TruthInv, AnswersExpected
  <2> QED BY <1>4, <2>1, <2>2
<1> QED BY <1>1, <1>5, <1>6 DEF TruthInv, CellsApart, AnswersExpected, Expected

LEMMA SetIdleTruth ==
  ASSUME TruthInv, NEW t \in Thread, SetIdle(t)
  PROVE  TruthInv'
<1>1. /\ pc' = [u \in Thread |-> IF u = t THEN "out"
                                 ELSE IF pc[u] = "wait_idle" THEN "clear" ELSE pc[u]]
      /\ host' = [host EXCEPT ![t] = None] /\ cell' = [cell EXCEPT ![t] = None]
      /\ owed' = [owed EXCEPT ![t] = {}] /\ UNCHANGED <<mem, pending>>
  BY DEF SetIdle
<1>2. /\ pc' \in [Thread -> Place] /\ pc'[t] = "out" /\ cell'[t] = None
      /\ \A u \in Thread \ {t} : /\ pc'[u] # "out" <=> pc[u] # "out"
                                 /\ host'[u] = host[u] /\ cell'[u] = cell[u]
                                 /\ owed'[u] = owed[u]
  BY <1>1 DEF TruthInv, Insiders, Place
<1>3. Insiders'
  BY <1>1, <1>2 DEF TruthInv, Insiders
<1>4. CellsApart' /\ HoldsExpected'
  BY <1>1, <1>2 DEF TruthInv, CellsApart, HoldsExpected, Expected
<1>5. AnswersExpected'
  <2>1. \A q \in pending : q.cell # None
    BY HostByNameAssumption DEF TruthInv, Insiders, Query
  <2> QED BY <1>1, <1>2, <2>1 DEF TruthInv, AnswersExpected, Expected
<1> QED BY <1>3, <1>4, <1>5 DEF TruthInv

LEMMA NextTruth ==
  ASSUME TruthInv, [Next]_vars
  PROVE  TruthInv'
<1>1. ASSUME NEW t \in Thread, NEW h \in Host, NEW c \in Cell, CallFigures(t, h, c) PROVE TruthInv'
  <2>1. /\ pc' = pc /\ mem' = [mem EXCEPT ![c] = h]
        /\ UNCHANGED <<host, cell, pending, owed>>
        /\ \A u \in Thread : cell[u] # c
    BY <1>1 DEF CallFigures, Goto, Busy, TruthInv, Insiders
  <2>2. mem' \in [Cell -> Host \cup {Zero}] /\ \A d \in Cell \ {c} : mem'[d] = mem[d]
    BY <2>1 DEF TruthInv, Insiders
  <2> QED
    BY <2>1, <2>2 DEF TruthInv, Insiders, CellsApart, AnswersExpected, HoldsExpected, Expected
<1>2. ASSUME NEW t \in Thread, Clear(t) \/ Await(t) \/ Expires(t) \/ ClearDone(t)
      PROVE  TruthInv'
  <2>1. PICK p \in Place \ {"out"} : pc[t] # "out" /\ pc' = [pc EXCEPT ![t] = p]
    BY <1>2 DEF Clear, Await, Expires, ClearDone, After, Goto, Place
  <2>2. UNCHANGED <<host, cell, mem, pending, owed>>
    BY <1>2 DEF Clear, Await, Expires, ClearDone
  <2>3. pc' \in [Thread -> Place] /\ \A u \in Thread : pc'[u] # "out" => pc[u] # "out"
    BY <2>1 DEF TruthInv, Insiders
  <2> QED BY <2>2, <2>3, GoesOn
<1>3. CASE Tick \/ UNCHANGED vars
  BY <1>3, GoesOn DEF Tick, vars, TruthInv, Insiders
<1> QED
  BY <1>1, <1>2, <1>3, CallTruth, AskTruth, FoundTruth, SetIdleTruth DEF Next, Run

(* However late and in whatever order answers come, and however many calls *)
(* share the DONE bit (hostByName(), line 477), a call returns the address *)
(* of its own name, or of one whose answer was still owed to its variable  *)
(* when it was made: nothing else a caller does can spoil its answer.      *)
THEOREM LookupsTruthful == Spec => []Truthful
<1>1. Init => TruthInv
  BY HostByNameAssumption
  DEF Init, TruthInv, Insiders, CellsApart, AnswersExpected, HoldsExpected, Place
<1>2. TruthInv => Truthful
  BY DEF TruthInv, HoldsExpected, Expected, Truthful
<1>3. TruthInv /\ [Next]_vars => TruthInv'
  BY NextTruth
<1> QED BY <1>1, <1>2, <1>3, PTL DEF Spec
=============================================================================
