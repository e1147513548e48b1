------------------------- MODULE WiFiGenericProofs -------------------------
(***************************************************************************)
(* What holds of WiFiGeneric.cpp's events and modes, for any number of     *)
(* handlers, events and removals.                                          *)
(*                                                                         *)
(* CalledInOrder is not inductive: that the handlers still to come are     *)
(* later ones rests on the order of the list (Ascending) and on where the  *)
(* walk is (Behind).  Nor is RemovalHidesOne: erasing can leave the walk's *)
(* place beyond the end, where an entry that is added later is hidden at   *)
(* once, so such places count as well (Gaps).                              *)
(*                                                                         *)
(* OnMeansReady, ModeTruthful and OffIsQuiet rest on Ready4: a WiFi is up  *)
(* only when lowLevelInitDone is set, and that flag is set only when       *)
(* everything is up.  The modes use the queue as WiFiEvents says           *)
(* (ModesUseTheEvents), so what it promises holds under them too.          *)
(***************************************************************************)
EXTENDS WiFiMode, FiniteSetTheorems, TLAPS

(* The list is in the order in which its entries came. *)
Ascending ==
  /\ \A i, j \in 1 .. Len(list) : i < j => list[i].no < list[j].no
  /\ \A i \in 1 .. Len(list) : list[i].no <= added

(* What was called is behind everything that the walk has before it. *)
Behind ==
  \A c \in 1 .. Len(called) :
    /\ called[c] <= added
    /\ \A j \in 1 .. Len(list) : j > Place => called[c] < list[j].no

Rest == task.pc = "fetch" => called = <<>>

OrderInv == EventsTypeOK /\ Ascending /\ Behind /\ Rest /\ CalledInOrder

-----------------------------------------------------------------------------
(* EventsTypeOK in parts that a step changes together. *)
QueueTyped == queue \in Seq(Kind) /\ Len(queue) <= QueueSize /\ accepted \in Nat
ListTyped ==
  /\ list \in Seq(Handler) /\ nextId \in Nat /\ added \in Nat /\ hidden \in Nat
  /\ doing \in [By -> {Idle} \cup Registering \cup Removing]
TaskTyped ==
  /\ task \in [pc : {"fetch", "walk", "call"}, event : Kind \cup {AnyKind}, i : Nat]
  /\ called \in Seq(Nat) /\ handled \in Nat

LEMMA Parts == EventsTypeOK <=> QueueTyped /\ ListTyped /\ TaskTyped
BY DEF EventsTypeOK, QueueTyped, ListTyped, TaskTyped

(* What the calls under way are. *)
LEMMA Doings ==
  ASSUME ListTyped, NEW by \in By
  PROVE  /\ doing[by].op = "remove" => doing[by] \in Removing
         /\ doing[by].op \in {"store", "push"} => doing[by] \in Registering
BY DEF ListTyped, Idle, Registering, Removing

(* The types are kept by every step. *)
LEMMA QueueStep == QueueTyped /\ [EventsNext]_events => QueueTyped'
<1> SUFFICES ASSUME QueueTyped, [EventsNext]_events PROVE QueueTyped'
  OBVIOUS
<1> USE WiFiEventsAssumption DEF QueueTyped
<1>1. ASSUME NEW k \in Kind, Post(k) PROVE QueueTyped'
  BY <1>1, SMTT(30) DEF Post, Posted
<1>2. CASE Fetch
  <2>1. queue # <<>> /\ queue' = Tail(queue) /\ accepted' = accepted
    BY <1>2 DEF Fetch, history
  <2>2. Tail(queue) \in Seq(Kind) /\ Len(Tail(queue)) <= Len(queue)
    BY <2>1
  <2> QED BY <2>1, <2>2
<1>3. CASE UNCHANGED <<queue, accepted>>
  BY <1>3
<1> QED
  BY <1>1, <1>2, <1>3
  DEF EventsNext, Program, GoOn, EventTask, events, history, Walk, Return, Finish, OnEvent,
      StoreId, PushBack, RemoveEvent, RemoveRound, RemoveDone

(* A round of a removal. *)
LEMMA RoundTyped ==
  ASSUME ListTyped, NEW by \in By, RemoveRound(by)
  PROVE  /\ ListTyped'
         /\ doing[by].i + 1 \in 1 .. Len(list)
         /\ UNCHANGED <<added, task, called>>
         /\ \/ UNCHANGED <<list, hidden>>
            \/ /\ list' = Erase(doing[by].i + 1)
               /\ hidden' = IF task.pc # "fetch" /\ doing[by].i + 1 <= Place
                            THEN hidden + 1 ELSE hidden
<1>1. /\ doing[by].op = "remove" /\ doing[by].i < Len(list)
      /\ doing' = [doing EXCEPT ![by].i = @ + 1]
      /\ UNCHANGED <<nextId, added, task, called>>
  BY DEF RemoveRound
<1>2. doing[by] \in Removing
  BY <1>1, Doings
<1>3. doing[by].i \in Nat /\ Len(list) \in Nat
  BY <1>2 DEF Removing, ListTyped
<1>4. doing[by].i + 1 \in 1 .. Len(list)
  BY <1>1, <1>3
<1>5. \/ UNCHANGED <<list, hidden>>
      \/ /\ list' = Erase(doing[by].i + 1)
         /\ hidden' = IF task.pc # "fetch" /\ doing[by].i + 1 <= Place
                      THEN hidden + 1 ELSE hidden
  BY DEF RemoveRound
<1>6. Erase(doing[by].i + 1) \in Seq(Handler)
  <2> DEFINE j == doing[by].i + 1
  <2>1. j \in 1 .. Len(list) /\ list \in Seq(Handler)
    BY <1>4 DEF ListTyped
  <2> HIDE DEF j
  <2>2. Erase(j) \in Seq(Handler)
    BY <2>1 DEF Erase
  <2> QED BY <2>2 DEF j
<1>7. list' \in Seq(Handler) /\ hidden' \in Nat
  BY <1>5, <1>6 DEF ListTyped
<1>8. [doing[by] EXCEPT !.i = @ + 1] \in Removing
  BY <1>2, <1>3 DEF Removing
<1>9. doing' = [doing EXCEPT ![by] = [doing[by] EXCEPT !.i = @ + 1]]
  BY <1>1
<1>10. doing' \in [By -> {Idle} \cup Registering \cup Removing]
  BY <1>8, <1>9 DEF ListTyped
<1> QED BY <1>1, <1>4, <1>5, <1>7, <1>10 DEF ListTyped

LEMMA ListStep == EventsTypeOK /\ [EventsNext]_events => ListTyped'
<1> SUFFICES ASSUME ListTyped, [EventsNext]_events PROVE ListTyped'
  BY Parts
<1>1. ASSUME NEW by \in By, NEW cb \in Callback, NEW k \in Wanted, OnEvent(by, cb, k)
      PROVE ListTyped'
  <2>1. [op |-> "store", id |-> nextId, cb |-> cb, event |-> k] \in Registering
    BY DEF Registering, ListTyped
  <2>2. doing' \in [By -> {Idle} \cup Registering \cup Removing]
    BY <1>1, <2>1 DEF OnEvent, ListTyped
  <2> QED BY <1>1, <2>2 DEF OnEvent, ListTyped, history
<1>2. ASSUME NEW by \in By, StoreId(by) PROVE ListTyped'
  <2>1. doing[by] \in Registering
    BY <1>2, Doings DEF StoreId
  <2>2. [doing[by] EXCEPT !.op = "push"] \in Registering /\ doing[by].id \in Nat
    BY <2>1 DEF Registering
  <2>3. doing' = [doing EXCEPT ![by] = [doing[by] EXCEPT !.op = "push"]]
    BY <1>2 DEF StoreId
  <2>4. doing' \in [By -> {Idle} \cup Registering \cup Removing]
    BY <2>2, <2>3 DEF ListTyped
  <2>5. nextId' \in Nat
    BY <1>2, <2>2 DEF StoreId
  <2> QED BY <1>2, <2>4, <2>5 DEF StoreId, ListTyped, history
<1>3. ASSUME NEW by \in By, PushBack(by) PROVE ListTyped'
  <2>1. doing[by] \in Registering
    BY <1>3, Doings DEF PushBack
  <2>2. Entry(by) \in Handler /\ added' \in Nat
    BY <1>3, <2>1 DEF Entry, Handler, Registering, PushBack, ListTyped
  <2>3. list' \in Seq(Handler)
    BY <1>3, <2>2 DEF PushBack, ListTyped
  <2>4. doing' \in [By -> {Idle} \cup Registering \cup Removing]
    BY <1>3 DEF PushBack, ListTyped
  <2> QED BY <1>3, <2>2, <2>3, <2>4 DEF PushBack, ListTyped, history
<1>4. ASSUME NEW by \in By, NEW test \in Test, RemoveEvent(by, test) PROVE ListTyped'
  <2>1. [op |-> "remove", test |-> test, i |-> 0] \in Removing
    BY DEF Removing
  <2>2. doing' \in [By -> {Idle} \cup Registering \cup Removing]
    BY <1>4, <2>1 DEF RemoveEvent, ListTyped
  <2> QED BY <1>4, <2>2 DEF RemoveEvent, ListTyped, history
<1>5. ASSUME NEW by \in By, RemoveRound(by) PROVE ListTyped'
  BY <1>5, RoundTyped
<1>6. ASSUME NEW by \in By, RemoveDone(by) PROVE ListTyped'
  <2>1. doing' \in [By -> {Idle} \cup Registering \cup Removing]
    BY <1>6 DEF RemoveDone, ListTyped
  <2> QED BY <1>6, <2>1 DEF RemoveDone, ListTyped, history
<1>7. CASE Finish
  BY <1>7 DEF Finish, ListTyped, program
<1>8. CASE UNCHANGED <<program, hidden>>
  BY <1>8 DEF ListTyped, program
<1> QED
  BY <1>1, <1>2, <1>3, <1>4, <1>5, <1>6, <1>7, <1>8
  DEF EventsNext, Program, GoOn, EventTask, events, program, history, Fetch, Walk, Return, Post

LEMMA TaskStep == EventsTypeOK /\ [EventsNext]_events => TaskTyped'
<1> SUFFICES ASSUME TaskTyped, ListTyped, QueueTyped, [EventsNext]_events PROVE TaskTyped'
  BY Parts
<1> USE DEF TaskTyped
<1>1. CASE Fetch
  <2>1. Head(queue) \in Kind
    BY <1>1 DEF Fetch, QueueTyped
  <2> QED BY <1>1, <2>1 DEF Fetch, history
<1>2. CASE Walk
  <2> DEFINE h == list[task.i + 1]
  <2>1. task.i + 1 \in 1 .. Len(list)
    BY <1>2 DEF Walk, ListTyped
  <2>2. h \in Handler
    BY <2>1 DEF ListTyped
  <2>3. h.no \in Nat
    BY <2>2 DEF Handler
  <2>4. CASE Matches(h, task.event)
    <3>1. task' = [task EXCEPT !.pc = "call"] /\ called' = Append(called, h.no) /\ handled' = handled
      BY <1>2, <2>4 DEF Walk
    <3> HIDE DEF h
    <3> QED BY <3>1, <2>3
  <2>5. CASE ~ Matches(h, task.event)
    <3>1. task' = [task EXCEPT !.i = @ + 1] /\ called' = called /\ handled' = handled
      BY <1>2, <2>5 DEF Walk
    <3> QED BY <3>1
  <2> QED BY <2>4, <2>5
<1>3. CASE Return
  <2>1. /\ task' = [task EXCEPT !.pc = "walk", !.i = @ + 1]
        /\ called' = called /\ handled' = handled
    BY <1>3 DEF Return, history
  <2>2. task' = [pc |-> "walk", event |-> task.event, i |-> task.i + 1]
    BY <2>1
  <2>3. task.event \in Kind \cup {AnyKind} /\ task.i + 1 \in Nat
    OBVIOUS
  <2> QED BY <2>1, <2>2, <2>3
<1>4. CASE Finish
  BY <1>4 DEF Finish, Resting
<1>5. CASE UNCHANGED <<task, called, handled>>
  BY <1>5
<1> QED
  BY <1>1, <1>2, <1>3, <1>4, <1>5
  DEF EventsNext, Program, GoOn, EventTask, events, history, OnEvent, StoreId, PushBack, Post,
      RemoveEvent, RemoveRound, RemoveDone

LEMMA TypeStep == EventsTypeOK /\ [EventsNext]_events => EventsTypeOK'
<1> SUFFICES ASSUME EventsTypeOK, [EventsNext]_events
             PROVE QueueTyped' /\ ListTyped' /\ TaskTyped'
  BY Parts, PTL
<1> QED BY Parts, QueueStep, ListStep, TaskStep

(* So is the order, of the list and of the calls. *)
LEMMA OrderStep == OrderInv /\ [EventsNext]_events => OrderInv'
<1> SUFFICES ASSUME OrderInv, [EventsNext]_events PROVE OrderInv'
  OBVIOUS
<1> USE WiFiEventsAssumption
<1>0. EventsTypeOK /\ EventsTypeOK'
  BY TypeStep DEF OrderInv
<1>a. list \in Seq(Handler) /\ called \in Seq(Nat) /\ added \in Nat /\ ListTyped
  BY <1>0, Parts DEF EventsTypeOK
<1>b. task \in [pc : {"fetch", "walk", "call"}, event : Kind \cup {AnyKind}, i : Nat]
  BY <1>0 DEF EventsTypeOK
<1>c. \A i \in 1 .. Len(list) : list[i].no \in Nat
  <2> TAKE i \in 1 .. Len(list)
  <2>1. list[i] \in Handler
    BY <1>a
  <2> QED BY <2>1 DEF Handler
<1>d. \A c \in 1 .. Len(called) : called[c] \in Nat
  BY <1>a
<1>e. Place \in Nat
  BY <1>b DEF Place
<1>t. Len(list) \in Nat /\ Len(called) \in Nat
  BY <1>a
<1> SUFFICES (Ascending /\ Behind /\ Rest /\ CalledInOrder)'
  BY <1>0 DEF OrderInv
<1> USE DEF OrderInv
<1>1. CASE UNCHANGED <<list, added, task, called>>
  BY <1>1 DEF Ascending, Behind, Rest, CalledInOrder, Place
<1>2. CASE Fetch
  <2>1. called = <<>> /\ called' = <<>>
    BY <1>2 DEF Fetch, Rest, history
  <2> QED BY <1>2, <2>1 DEF Fetch, program, Ascending, Behind, Rest, CalledInOrder
<1>3. CASE Walk
  <2> DEFINE h == list[task.i + 1]
  <2>1. task.i + 1 \in 1 .. Len(list) /\ Place = task.i /\ task.pc = "walk"
    BY <1>3, <1>b, <1>t DEF Walk, Place
  <2>2. list' = list /\ added' = added
    BY <1>3 DEF Walk, program
  <2>3. CASE Matches(h, task.event)
    <3>1. called' = Append(called, h.no) /\ task' = [task EXCEPT !.pc = "call"]
      BY <1>3, <2>3 DEF Walk
    <3>2. Place' = task.i + 1 /\ task'.pc = "call"
      BY <3>1, <1>b DEF Place
    <3>3. \A c \in 1 .. Len(called) : called[c] < h.no
      BY <2>1, <1>b DEF Behind
    <3>4. h.no <= added /\ \A j \in 1 .. Len(list) : j > task.i + 1 => h.no < list[j].no
      BY <2>1 DEF Ascending
    <3>5. h.no \in Nat
      BY <1>c, <2>1
    <3> HIDE DEF h
    <3>6. /\ Len(called') = Len(called) + 1
          /\ \A c \in 1 .. Len(called) : called'[c] = called[c]
          /\ called'[Len(called) + 1] = h.no
      BY <3>1, <1>a
    <3>7. CalledInOrder'
      <4>1. \A i, j \in 1 .. Len(called) + 1 : i < j => called'[i] < called'[j]
        BY <3>3, <3>6, <1>t DEF CalledInOrder
      <4> QED BY <4>1, <3>6 DEF CalledInOrder
    <3>8. Behind'
      <4>1. \A c \in 1 .. Len(called) + 1 :
              /\ called'[c] <= added
              /\ \A j \in 1 .. Len(list) : j > task.i + 1 => called'[c] < list[j].no
        <5> TAKE c \in 1 .. Len(called) + 1
        <5>1. CASE c = Len(called) + 1
          BY <5>1, <3>4, <3>6
        <5>2. CASE c \in 1 .. Len(called)
          BY <5>2, <3>6, <2>1, <1>b, SMTT(30) DEF Behind
        <5> QED BY <5>1, <5>2, <1>t
      <4> QED BY <4>1, <3>2, <3>6, <2>2 DEF Behind
    <3> QED BY <3>2, <3>7, <3>8, <2>2 DEF Ascending, Rest
  <2>4. CASE ~ Matches(h, task.event)
    <3>1. called' = called /\ task' = [task EXCEPT !.i = @ + 1]
      BY <1>3, <2>4 DEF Walk
    <3>2. Place' = task.i + 1 /\ task'.pc = "walk"
      BY <3>1, <2>1, <1>b DEF Place
    <3>3. Behind'
      BY <3>1, <3>2, <2>1, <2>2, <1>b DEF Behind
    <3> QED BY <3>1, <3>2, <3>3, <2>2 DEF Ascending, Rest, CalledInOrder
  <2> QED BY <2>3, <2>4
<1>4. CASE Return
  <2>1. task.pc = "call" /\ task' = [task EXCEPT !.pc = "walk", !.i = @ + 1]
    BY <1>4 DEF Return
  <2>2. called' = called /\ list' = list /\ added' = added
    BY <1>4 DEF Return, history, program
  <2>3. Place' = Place /\ task'.pc = "walk"
    BY <2>1, <1>b DEF Place
  <2> QED BY <2>2, <2>3 DEF Ascending, Behind, Rest, CalledInOrder
<1>5. CASE Finish
  BY <1>5 DEF Finish, program, Ascending, Behind, Rest, CalledInOrder
<1>6. ASSUME NEW by \in By, PushBack(by)
      PROVE (Ascending /\ Behind /\ Rest /\ CalledInOrder)'
  <2>1. /\ list' = Append(list, Entry(by)) /\ Entry(by).no = added + 1
        /\ added' = added + 1 /\ task' = task /\ called' = called
    BY <1>6 DEF PushBack, Entry, history
  <2>2. Place' = Place
    BY <2>1 DEF Place
  <2>3. /\ Len(list') = Len(list) + 1
        /\ \A j \in 1 .. Len(list) : list'[j] = list[j]
        /\ list'[Len(list) + 1].no = added + 1
    BY <2>1, <1>a
  <2>4. Ascending'
    <3>1. \A i, j \in 1 .. Len(list) + 1 : i < j => list'[i].no < list'[j].no
      <4> TAKE i, j \in 1 .. Len(list) + 1
      <4> HAVE i < j
      <4>1. i \in 1 .. Len(list) /\ list'[i] = list[i]
        BY <2>3, <1>t
      <4>2. CASE j = Len(list) + 1
        BY <4>1, <4>2, <2>3, <1>a, <1>c DEF Ascending
      <4>3. CASE j # Len(list) + 1
        <5>1. j \in 1 .. Len(list) /\ list'[j] = list[j]
          BY <4>3, <2>3, <1>t
        <5> QED BY <4>1, <5>1 DEF Ascending
      <4> QED BY <4>2, <4>3
    <3>2. \A i \in 1 .. Len(list) + 1 : list'[i].no <= added + 1
      <4> TAKE i \in 1 .. Len(list) + 1
      <4>1. CASE i = Len(list) + 1
        BY <4>1, <2>3, <1>a
      <4>2. CASE i # Len(list) + 1
        <5>1. i \in 1 .. Len(list) /\ list'[i] = list[i]
          BY <4>2, <2>3, <1>t
        <5>2. list[i].no <= added /\ list[i].no \in Nat
          BY <5>1, <1>c DEF Ascending
        <5> QED BY <5>1, <5>2, <1>a
      <4> QED BY <4>1, <4>2
    <3> QED BY <3>1, <3>2, <2>1, <2>3 DEF Ascending
  <2>5. Behind'
    <3>1. \A c \in 1 .. Len(called) :
            /\ called[c] <= added + 1
            /\ \A j \in 1 .. Len(list) + 1 : j > Place => called[c] < list'[j].no
      <4> TAKE c \in 1 .. Len(called)
      <4>1. called[c] <= added /\ called[c] \in Nat
        BY <1>d DEF Behind
      <4>2. called[c] <= added + 1
        BY <4>1, <1>a
      <4>3. \A j \in 1 .. Len(list) : j > Place => called[c] < list'[j].no
        BY <2>3 DEF Behind
      <4>4. called[c] < list'[Len(list) + 1].no
        BY <4>1, <2>3, <1>a
      <4> QED BY <4>2, <4>3, <4>4, <1>t
    <3> QED BY <3>1, <2>1, <2>2, <2>3 DEF Behind
  <2> QED BY <2>1, <2>4, <2>5 DEF Rest, CalledInOrder
<1>7. ASSUME NEW by \in By, RemoveRound(by), list' = Erase(doing[by].i + 1)
      PROVE (Ascending /\ Behind /\ Rest /\ CalledInOrder)'
  <2> DEFINE j == doing[by].i + 1
  <2>1. list' = Erase(j)
    BY <1>7
  <2>2. UNCHANGED <<added, task, called>>
    BY <1>7, <1>a, RoundTyped
  <2>3. Place' = Place
    BY <2>2 DEF Place
  <2>5. j \in 1 .. Len(list)
    BY <1>7, <1>a, RoundTyped
  <2> HIDE DEF j
  <2>6. /\ Len(list') = Len(list) - 1
        /\ \A p \in 1 .. Len(list) - 1 : list'[p] = IF p < j THEN list[p] ELSE list[p + 1]
    BY <2>1, <2>5, <1>t DEF Erase
  <2>7. Ascending'
    <3> DEFINE old(p) == IF p < j THEN p ELSE p + 1
    <3>0. \A p \in 1 .. Len(list) - 1 : old(p) \in 1 .. Len(list) /\ list'[p] = list[old(p)]
      BY <2>5, <2>6, <1>t
    <3>1. \A p, q \in 1 .. Len(list) - 1 : p < q => list'[p].no < list'[q].no
      <4> TAKE p, q \in 1 .. Len(list) - 1
      <4> HAVE p < q
      <4>1. old(p) < old(q)
        BY <2>5, <1>t
      <4> HIDE DEF old
      <4> QED BY <3>0, <4>1 DEF Ascending
    <3>2. \A p \in 1 .. Len(list) - 1 : list'[p].no <= added
      <4> HIDE DEF old
      <4> QED BY <3>0 DEF Ascending
    <3> QED BY <3>1, <3>2, <2>2, <2>6 DEF Ascending
  <2>8. Behind'
    <3> DEFINE old(p) == IF p < j THEN p ELSE p + 1
    <3>0. \A p \in 1 .. Len(list) - 1 :
            old(p) \in 1 .. Len(list) /\ p <= old(p) /\ list'[p] = list[old(p)]
      BY <2>5, <2>6, <1>t
    <3> HIDE DEF old
    <3>1. \A c \in 1 .. Len(called) :
            \A p \in 1 .. Len(list) - 1 : p > Place => called[c] < list'[p].no
      BY <3>0, <1>e, <1>t DEF Behind
    <3> QED BY <3>1, <2>2, <2>3, <2>6 DEF Behind
  <2> QED BY <2>2, <2>7, <2>8 DEF Rest, CalledInOrder
<1> QED
  <2>1. \A by \in By : RemoveRound(by) => UNCHANGED <<list, added, task, called>>
                                         \/ list' = Erase(doing[by].i + 1)
    BY <1>a, RoundTyped
  <2> QED
    BY <1>1, <1>2, <1>3, <1>4, <1>5, <1>6, <1>7, <2>1
    DEF EventsNext, Program, GoOn, EventTask, Post, OnEvent, StoreId, RemoveEvent, RemoveDone,
        events, history, program

-----------------------------------------------------------------------------
LEMMA OrderInit == EventsInit => OrderInv
BY WiFiEventsAssumption
DEF EventsInit, OrderInv, EventsTypeOK, Resting, Idle, Ascending, Behind, Rest, CalledInOrder

LEMMA OrderGives == OrderInv => EventsTypeOK /\ CalledInOrder
BY DEF OrderInv

(* Every variable keeps its type, the queue its bound. *)
THEOREM TypesKept == EventsSpec => []EventsTypeOK
<1> QED BY OrderInit, OrderGives, TypeStep, PTL DEF EventsSpec

(* However handlers come and go during the walk, each is called at most    *)
(* once for an event, in the order in which the list took them (line 338). *)
THEOREM WalkInOrder == EventsSpec => []CalledInOrder
<1> QED BY OrderInit, OrderGives, OrderStep, PTL DEF EventsSpec

-----------------------------------------------------------------------------
(* Places that the walk has left behind without a call that was due there, *)
(* or that an entry may yet come to.                                       *)
Gap(j) ==
  \/ j > Len(list)
  \/ /\ Matches(list[j], task.event)
     /\ \A c \in 1 .. Len(called) : called[c] # list[j].no

Gaps == {j \in 1 .. Place : Gap(j)}

FewGaps == task.pc # "fetch" => Cardinality(Gaps) <= hidden

LEMMA GapsFinite ==
  ASSUME EventsTypeOK
  PROVE  IsFiniteSet(Gaps) /\ Cardinality(Gaps) \in Nat /\ Place \in Nat
<1>1. Place \in Nat
  BY DEF EventsTypeOK, Place
<1>2. IsFiniteSet(1 .. Place)
  BY <1>1, FS_Interval
<1>3. Gaps \in SUBSET (1 .. Place)
  BY DEF Gaps
<1>4. IsFiniteSet(Gaps)
  BY <1>2, <1>3, FS_Subset
<1> QED BY <1>1, <1>4, FS_CardinalityType

(* A step that opens no gap. *)
LEMMA NoMoreGaps ==
  ASSUME EventsTypeOK, FewGaps, Gaps' \subseteq Gaps, task.pc # "fetch", hidden' = hidden
  PROVE  FewGaps'
<1>1. IsFiniteSet(Gaps) /\ Cardinality(Gaps) \in Nat
  BY GapsFinite
<1>2. Gaps' \in SUBSET Gaps
  OBVIOUS
<1>3. Cardinality(Gaps') \in Nat /\ Cardinality(Gaps') <= Cardinality(Gaps)
  BY <1>1, <1>2, FS_Subset, FS_CardinalityType
<1>4. Cardinality(Gaps)' = Cardinality(Gaps')
  OBVIOUS
<1>5. hidden \in Nat
  BY DEF EventsTypeOK
<1> HIDE DEF Gaps
<1> QED BY <1>1, <1>3, <1>4, <1>5 DEF FewGaps

(* Entries from the erased one on move down; no two to the same place. *)
LEMMA ShiftInjective ==
  \A j, p, q \in Int : (IF p < j THEN p ELSE p + 1) = (IF q < j THEN q ELSE q + 1) => p = q
OBVIOUS

(* An erase at or before the walk's place opens at most one, at that place: *)
(* what is a gap before it was one where it stood.                          *)
LEMMA OneMoreGap ==
  ASSUME EventsTypeOK, FewGaps, NEW j \in 1 .. Len(list), j <= Place, list' = Erase(j),
         UNCHANGED <<task, called>>, hidden' = hidden + 1, task.pc # "fetch"
  PROVE  FewGaps'
<1>1. IsFiniteSet(Gaps) /\ Cardinality(Gaps) \in Nat /\ Place \in Nat
  BY GapsFinite
<1>2. Len(list) \in Nat /\ hidden \in Nat
  BY DEF EventsTypeOK
<1>3. /\ Len(list') = Len(list) - 1
      /\ \A p \in 1 .. Len(list) - 1 : list'[p] = IF p < j THEN list[p] ELSE list[p + 1]
  BY <1>2 DEF Erase
<1>4. Place' = Place /\ Place \in 1 .. Place
  BY <1>1 DEF Place
<1> DEFINE S == Gaps' \ {Place}
           f == [p \in S |-> IF p < j THEN p ELSE p + 1]
<1>5. \A p \in S : /\ p \in 1 .. Place - 1
                   /\ Gap(p)'
  BY <1>1, <1>4 DEF Gaps
<1>6. \A p \in S : f[p] \in Gaps
  <2> SUFFICES ASSUME NEW p \in S PROVE f[p] \in Gaps
    OBVIOUS
  <2>1. f[p] = (IF p < j THEN p ELSE p + 1) /\ p \in 1 .. Place - 1 /\ Gap(p)'
    BY <1>5
  <2> HIDE DEF S, f
  <2>2. f[p] \in 1 .. Place
    BY <1>1, <2>1
  <2>3. CASE p > Len(list) - 1
    BY <1>1, <1>2, <2>1, <2>2, <2>3 DEF Gaps, Gap
  <2>4. CASE p \in 1 .. Len(list) - 1
    <3>1. list'[p] = list[f[p]]
      BY <1>3, <2>1, <2>4
    <3>2. ~ (p > Len(list'))
      BY <1>2, <1>3, <2>4
    <3>3. Matches(list'[p], task.event)
          /\ \A c \in 1 .. Len(called) : called[c] # list'[p].no
      BY <2>1, <3>2 DEF Gap, Matches
    <3> QED BY <2>2, <3>1, <3>3 DEF Gaps, Gap
  <2> QED BY <1>1, <1>2, <2>1, <2>3, <2>4
<1>7. f \in [S -> Gaps]
  BY <1>6
<1>8. \A p, q \in S : f[p] = f[q] => p = q
  <2> SUFFICES ASSUME NEW p \in S, NEW q \in S, f[p] = f[q] PROVE p = q
    OBVIOUS
  <2>1. /\ f[p] = (IF p < j THEN p ELSE p + 1) /\ f[q] = (IF q < j THEN q ELSE q + 1)
        /\ p \in Int /\ q \in Int
    BY <1>1, <1>5
  <2>2. j \in Int
    BY <1>2
  <2> HIDE DEF S, f
  <2> QED BY <2>1, <2>2, ShiftInjective
<1> HIDE DEF f
<1>9. f \in Injection(S, Gaps)
  BY <1>7, <1>8 DEF Injection, IsInjective
<1>10. IsFiniteSet(S) /\ Cardinality(S) <= Cardinality(Gaps)
  BY <1>1, <1>9, FS_Injection
<1>11. IsFiniteSet(S \cup {Place}) /\ Cardinality(S \cup {Place}) = Cardinality(S) + 1
  BY <1>10, FS_AddElement
<1>12. Gaps' \in SUBSET (S \cup {Place})
  OBVIOUS
<1> HIDE DEF S
<1>13. Cardinality(Gaps') <= Cardinality(S \cup {Place}) /\ Cardinality(Gaps') \in Nat
       /\ Cardinality(S) \in Nat
  BY <1>10, <1>11, <1>12, FS_Subset, FS_CardinalityType
<1>14. Cardinality(Gaps') <= Cardinality(Gaps) + 1
  BY <1>1, <1>10, <1>11, <1>13
<1>15. Cardinality(Gaps) <= hidden
  BY DEF FewGaps
<1>16. Cardinality(Gaps') <= hidden'
  BY <1>1, <1>2, <1>13, <1>14, <1>15
<1> QED BY <1>16 DEF FewGaps

LEMMA GapsStep == EventsTypeOK /\ FewGaps /\ [EventsNext]_events => FewGaps'
<1> SUFFICES ASSUME EventsTypeOK, FewGaps, [EventsNext]_events PROVE FewGaps'
  OBVIOUS
<1>a. /\ list \in Seq(Handler) /\ called \in Seq(Nat) /\ hidden \in Nat
      /\ task \in [pc : {"fetch", "walk", "call"}, event : Kind \cup {AnyKind}, i : Nat]
  BY DEF EventsTypeOK
<1>b. Len(list) \in Nat /\ Len(called) \in Nat /\ Place \in Nat
  BY <1>a DEF Place
<1>d. ListTyped
  BY Parts
<1>1. CASE UNCHANGED <<list, task, called, hidden>>
  BY <1>1, NoMoreGaps DEF FewGaps, Gaps, Gap, Place, Matches
<1>2. CASE Fetch
  <2>1. Gaps' = {}
    BY <1>2 DEF Fetch, Gaps, Place
  <2>2. hidden' = hidden
    BY <1>2 DEF Fetch, history
  <2>3. Cardinality(Gaps') = 0
    BY <2>1, FS_EmptySet
  <2> QED BY <1>a, <2>2, <2>3 DEF FewGaps
<1>3. CASE Walk
  <2> DEFINE h == list[task.i + 1]
  <2>1. /\ task.pc = "walk" /\ task.i < Len(list) /\ Place = task.i
        /\ list' = list /\ hidden' = hidden
    BY <1>3 DEF Walk, Place, program
  <2>2. CASE Matches(h, task.event)
    <3>1. called' = Append(called, h.no) /\ task' = [task EXCEPT !.pc = "call"]
      BY <1>3, <2>2 DEF Walk
    <3>2. h.no \in Nat
      <4>1. h \in Handler
        BY <1>a, <1>b, <2>1
      <4> QED BY <4>1 DEF Handler
    <3>3. Place' = task.i + 1 /\ task'.event = task.event
      BY <3>1, <1>a DEF Place
    <3>4. /\ Len(called') = Len(called) + 1
          /\ \A c \in 1 .. Len(called) : called'[c] = called[c]
          /\ called'[Len(called) + 1] = h.no
      BY <1>a, <3>1, <3>2
    <3>5. \A p \in 1 .. task.i : Gap(p)' => Gap(p)
      BY <1>b, <2>1, <3>3, <3>4 DEF Gap, Matches
    <3>6. \A p \in 1 .. task.i + 1 : Gap(p)' => p \in 1 .. task.i
      <4>1. Len(called) + 1 \in 1 .. Len(called')
        BY <1>b, <3>4
      <4>2. list'[task.i + 1].no = called'[Len(called) + 1] /\ ~ (task.i + 1 > Len(list'))
        BY <1>a, <1>b, <2>1, <3>4
      <4> QED BY <1>a, <4>1, <4>2 DEF Gap
    <3>7. Gaps' \subseteq Gaps
      BY <2>1, <3>3, <3>5, <3>6 DEF Gaps
    <3> QED BY <2>1, <3>7, NoMoreGaps
  <2>3. CASE ~ Matches(h, task.event)
    <3>1. called' = called /\ task' = [task EXCEPT !.i = @ + 1]
      BY <1>3, <2>3 DEF Walk
    <3>2. Place' = task.i + 1 /\ task'.event = task.event
      BY <1>a, <2>1, <3>1 DEF Place
    <3>3. \A p \in 1 .. task.i + 1 : Gap(p)' => Gap(p)
      BY <2>1, <3>1, <3>2 DEF Gap, Matches
    <3>4. ~ Gap(task.i + 1)
      BY <1>a, <1>b, <2>1, <2>3 DEF Gap
    <3>5. Gaps' \subseteq Gaps
      BY <1>a, <2>1, <3>2, <3>3, <3>4 DEF Gaps
    <3> QED BY <2>1, <3>5, NoMoreGaps
  <2> QED BY <2>2, <2>3
<1>4. CASE Return
  <2>1. /\ task.pc = "call" /\ task' = [task EXCEPT !.pc = "walk", !.i = @ + 1]
        /\ list' = list /\ called' = called /\ hidden' = hidden
    BY <1>4 DEF Return, history, program
  <2>2. Place' = Place /\ task'.event = task.event
    BY <1>a, <2>1 DEF Place
  <2>3. Gaps' = Gaps
    BY <2>1, <2>2 DEF Gaps, Gap, Matches
  <2> QED BY <2>1, <2>3, NoMoreGaps
<1>5. CASE Finish
  BY <1>5 DEF Finish, Resting, FewGaps
<1>6. ASSUME NEW by \in By, PushBack(by) PROVE FewGaps'
  <2>1. list' = Append(list, Entry(by)) /\ UNCHANGED <<task, called, hidden>>
    BY <1>6 DEF PushBack, history
  <2>2. /\ Len(list') = Len(list) + 1
        /\ \A p \in 1 .. Len(list) : list'[p] = list[p]
    BY <1>a, <2>1
  <2>3. Place' = Place
    BY <2>1 DEF Place
  <2>4. \A p \in 1 .. Place : Gap(p)' => Gap(p)
    <3> TAKE p \in 1 .. Place
    <3>1. CASE p > Len(list)
      BY <3>1 DEF Gap
    <3>2. CASE p \in 1 .. Len(list)
      BY <1>b, <2>1, <2>2, <3>2 DEF Gap, Matches
    <3> QED BY <1>b, <3>1, <3>2
  <2>5. Gaps' \subseteq Gaps
    BY <2>3, <2>4 DEF Gaps
  <2>6. CASE task.pc = "fetch"
    BY <2>1, <2>6 DEF FewGaps
  <2> QED BY <2>1, <2>5, <2>6, NoMoreGaps
<1>7. ASSUME NEW by \in By, RemoveRound(by), ~ UNCHANGED <<list, hidden>> PROVE FewGaps'
  <2> DEFINE j == doing[by].i + 1
  <2>1. /\ list' = Erase(j)
        /\ hidden' = IF task.pc # "fetch" /\ j <= Place THEN hidden + 1 ELSE hidden
    BY <1>7, <1>d, RoundTyped
  <2>2. UNCHANGED <<task, called>>
    BY <1>7, <1>d, RoundTyped
  <2>4. j \in 1 .. Len(list)
    BY <1>7, <1>d, RoundTyped
  <2> HIDE DEF j
  <2>5. CASE task.pc = "fetch"
    BY <2>2, <2>5 DEF FewGaps
  <2>6. CASE task.pc # "fetch" /\ j <= Place
    BY <2>1, <2>2, <2>4, <2>6, OneMoreGap
  <2>7. CASE task.pc # "fetch" /\ ~ (j <= Place)
    <3>1. Place' = Place /\ hidden' = hidden
      BY <2>1, <2>2, <2>7 DEF Place
    <3>2. \A p \in 1 .. Place : p \in 1 .. Len(list) - 1 /\ list'[p] = list[p]
      BY <1>b, <2>1, <2>4, <2>7 DEF Erase
    <3>3. Len(list') = Len(list) - 1
      BY <1>b, <2>1, <2>4 DEF Erase
    <3>4. \A p \in 1 .. Place : Gap(p)' => Gap(p)
      BY <1>b, <2>2, <3>2, <3>3 DEF Gap, Matches
    <3>5. Gaps' \subseteq Gaps
      BY <3>1, <3>4 DEF Gaps
    <3> QED BY <2>7, <3>1, <3>5, NoMoreGaps
  <2> QED BY <2>5, <2>6, <2>7
<1> QED
  <2>1. \A by \in By : RemoveRound(by) => UNCHANGED <<task, called>>
    BY <1>d, RoundTyped
  <2> QED
    BY <1>1, <1>2, <1>3, <1>4, <1>5, <1>6, <1>7, <2>1
    DEF EventsNext, Program, GoOn, EventTask, Post, OnEvent, StoreId, RemoveEvent, RemoveDone,
        events, history, program

LEMMA GapsInit == EventsInit => FewGaps
BY DEF EventsInit, Resting, FewGaps

(* What was missed is a gap. *)
LEMMA GapsGive == EventsTypeOK /\ FewGaps => RemovalHidesOne
<1> SUFFICES ASSUME EventsTypeOK, FewGaps, task.pc # "fetch"
             PROVE  Cardinality(Missed) <= hidden
  BY DEF RemovalHidesOne
<1>1. IsFiniteSet(Gaps) /\ Cardinality(Gaps) \in Nat
  BY GapsFinite
<1>2. Missed \in SUBSET Gaps
  BY DEF Missed, Gaps, Gap
<1>3. Cardinality(Missed) \in Nat /\ Cardinality(Missed) <= Cardinality(Gaps)
  BY <1>1, <1>2, FS_Subset, FS_CardinalityType
<1>4. hidden \in Nat
  BY DEF EventsTypeOK
<1> QED BY <1>1, <1>3, <1>4 DEF FewGaps

(* A removal during the walk hides at most one handler from the event      *)
(* under way, for any number of removals and of handlers that are added    *)
(* meanwhile (_eventCallback() against removeEvent() and onEvent()).       *)
THEOREM HidesOneEach == EventsSpec => []RemovalHidesOne
<1> QED
  BY OrderInit, OrderGives, TypeStep, GapsInit, GapsStep, GapsGive, PTL DEF EventsSpec

-----------------------------------------------------------------------------
(* The variables of the mode have their types: the bring-up is a beginning *)
(* of StepList.                                                            *)
ModeTyped ==
  /\ made \in {First(n) : n \in 0 .. 4}
  /\ lowLevel \in BOOLEAN /\ started \in BOOLEAN
  /\ work \in Numbers /\ radio \subseteq {STA, AP} /\ left \subseteq {STA, AP}

(* lowLevelInitDone is set when everything is up. *)
Ready4 == lowLevel => made = First(4)

(* A WiFi that was started has a mode, so a query answered OFF is one that *)
(* the driver did not answer.                                              *)
UpHasMode == started => work # OFF

ModeInv == ModeTyped /\ Ready4 /\ UpHasMode /\ ModeTruthful /\ OffIsQuiet

-----------------------------------------------------------------------------
(* OFF has no bits. *)
LEMMA OffHasNoBits == \A bit \in {STA, AP} : Bits(OFF) \cap Bits(bit) = {}
<1>1. \A b \in {1, 2, 4} : (0 \div b) % 2 # 1
  <2>1. 0 \div 1 = 0 /\ 0 \div 2 = 0 /\ 0 \div 4 = 0 /\ 0 % 2 = 0
    OBVIOUS
  <2> QED BY <2>1
<1>2. Bits(OFF) = {}
  BY <1>1 DEF Bits, OFF
<1> QED BY <1>2

(* The queue is made before the driver. *)
LEMMA QueueFirst == \A n \in 0 .. 4 : "driver" \in First(n) => "queue" \in First(n)
<1> SUFFICES ASSUME NEW n \in 0 .. 4, "driver" \in First(n) PROVE "queue" \in First(n)
  OBVIOUS
<1>1. PICK i \in 1 .. n : StepList[i] = "driver"
  BY DEF First
<1>2. StepList[1] = "group" /\ StepList[2] = "queue" /\ StepList[3] = "driver"
      /\ StepList[4] = "thread"
  BY DEF StepList
<1>3. i = 3
  BY <1>1, <1>2
<1> QED BY <1>2, <1>3 DEF First

(* Bitwise operations give no number above 7. *)
LEMMA NumberTyped == \A B : Number(B) \in Numbers
BY DEF Number, Numbers

LEMMA ModesAreNumbers ==
  /\ Modes \subseteq Numbers /\ OFF \in Modes /\ STA \in Modes /\ AP \in Modes
  /\ STA # AP /\ STA # OFF /\ AP # OFF /\ OFF \in Numbers
BY DEF Modes, Numbers, OFF, STA, AP, AP_STA

LEMMA GetModeTyped ==
  ASSUME ModeTyped, NEW cm \in GetMode
  PROVE  cm \in Numbers /\ (cm # OFF => Up /\ cm = work)
BY ModesAreNumbers DEF ModeTyped, GetMode

(* What one of the ways of mode() does to what it changes, whoever calls.  *)
EnterKeeps(cm, m, ok) ==
  /\ ModeTyped' /\ Ready4' /\ UpHasMode' /\ OffIsQuiet'
  /\ ok => IF Up' THEN work' = m \/ (m = OFF /\ Up /\ cm = OFF) ELSE m = OFF

LEMMA EnterStep ==
  ASSUME ModeTyped, Ready4, UpHasMode, OffIsQuiet, NEW cm \in GetMode, NEW m \in Numbers,
         NEW ok \in BOOLEAN, Enter(cm, m, ok)
  PROVE  EnterKeeps(cm, m, ok)
<1> USE DEF EnterKeeps, ModeTyped, Ready4, UpHasMode, OffIsQuiet
<1>1. CASE Already(cm, m, ok)
  <2>1. UNCHANGED <<made, lowLevel, started, work, radio, left>> /\ cm = m
    BY <1>1 DEF Already
  <2>2. (Up' <=> Up) /\ (cm # OFF => Up /\ cm = work) /\ (~ Up => cm = OFF)
    BY <2>1, GetModeTyped DEF Up, GetMode
  <2> QED BY <2>1, <2>2
<1>2. CASE PowerDown(cm, m, ok)
  <2>1. PICK refused \in SUBSET {STA, AP, OFF} :
          /\ work' = IF OFF \in refused THEN work ELSE OFF
          /\ radio' = IF OFF \in refused THEN radio \cap refused ELSE {}
          /\ left' = IF OFF \in refused THEN refused \ {OFF} ELSE {}
    BY <1>2 DEF PowerDown
  <2>2. m = OFF /\ made' = made /\ lowLevel' = FALSE /\ started' = FALSE
    BY <1>2 DEF PowerDown
  <2>3. ~ Up'
    BY <2>2 DEF Up
  <2>4. work' \in Numbers
    BY <2>1, ModesAreNumbers
  <2>5. radio' \subseteq {STA, AP} /\ left' \subseteq {STA, AP} /\ radio' \subseteq left'
    BY <2>1, ModesAreNumbers
  <2> QED BY <2>2, <2>3, <2>4, <2>5
<1>3. CASE NoLowLevel(cm, m, ok)
  <2>1. PICK n \in 0 .. 3 : made \subseteq First(n) /\ LowLevelFails(n)
    BY <1>3 DEF NoLowLevel
  <2>2. made' = First(n) /\ n \in 0 .. 4
    BY <2>1 DEF LowLevelFails
  <2>3. ~ lowLevel /\ lowLevel' = lowLevel /\ ~ ok
    BY <2>1, <1>3 DEF NoLowLevel, LowLevelFails
  <2>4. UNCHANGED <<started, work, radio, left>> /\ ~ Up /\ ~ Up'
    BY <1>3, <2>3 DEF NoLowLevel, Up
  <2> QED BY <2>2, <2>3, <2>4
<1>4. CASE SetMode(cm, m, ok)
  <2>1. m # OFF /\ radio' = radio /\ left' = left
    BY <1>4 DEF SetMode
  <2>2. lowLevel' = TRUE /\ made' = First(4)
    <3>1. CASE cm = OFF
      BY <1>4, <3>1 DEF SetMode, LowLevelSucceeds
    <3>2. CASE cm # OFF
      BY <1>4, <3>2, GetModeTyped DEF SetMode, Up
    <3> QED BY <3>1, <3>2
  <2>3. IF ok THEN started' = TRUE /\ work' = m ELSE UNCHANGED <<started, work>>
    BY <1>4 DEF SetMode
  <2>4. made' \in {First(n) : n \in 0 .. 4}
    BY <2>2
  <2>5. ModeTyped' /\ Ready4'
    BY <2>1, <2>2, <2>3, <2>4
  <2>6. ok => Up' /\ work' = m
    BY <2>2, <2>3 DEF Up
  <2>7. CASE ok
    BY <2>1, <2>5, <2>6, <2>7
  <2>8. CASE ~ ok
    <3>1. Up => Up'
      BY <2>2, <2>3, <2>8 DEF Up
    <3> QED BY <2>1, <2>3, <2>5, <2>8, <3>1
  <2> QED BY <2>7, <2>8
<1> QED BY <1>1, <1>2, <1>3, <1>4 DEF Enter

(* The numbers that enableSTA() and enableAP() hand to mode(). *)
LEMMA EnableEnters ==
  ASSUME ModeTyped, NEW bit \in {STA, AP}, NEW on \in BOOLEAN, NEW ok \in BOOLEAN,
         Enable(bit, on, ok)
  PROVE  \E cm \in GetMode, m \in Numbers : Enter(cm, m, ok)
<1>1. PICK seen \in GetMode, cm \in GetMode :
        \/ Already(seen, seen, ok)
        \/ Enter(cm, Number(Bits(seen) \cup Bits(bit)), ok)
        \/ Enter(cm, Number(Bits(seen) \ Bits(bit)), ok)
  BY DEF Enable
<1>2. seen \in Numbers
  BY GetModeTyped
<1> QED BY <1>1, <1>2, NumberTyped DEF Enter

LEMMA InvStep == ModeInv /\ [Next]_vars => ModeInv'
<1> SUFFICES ASSUME ModeInv, [Next]_vars PROVE ModeInv'
  OBVIOUS
<1> USE DEF ModeInv
<1>1. ASSUME NEW m \in Modes, Mode(m) PROVE ModeInv'
  <2>1. PICK ok \in BOOLEAN, cm \in GetMode :
          Enter(cm, m, ok) /\ Answered("mode", m, ok, Up /\ cm = OFF)
    BY <1>1 DEF Mode
  <2>2. m \in Numbers
    BY ModesAreNumbers
  <2>3. EnterKeeps(cm, m, ok)
    BY <2>1, <2>2, EnterStep
  <2>4. answer' = [call |-> "mode", arg |-> m, ok |-> ok, mute |-> (Up /\ cm = OFF)]
    BY <2>1 DEF Answered
  <2>5. answer'.arg = m /\ answer'.ok = ok /\ answer'.mute = (Up /\ cm = OFF)
    BY <2>4
  <2>6. ModeTruthful'
    BY <2>3, <2>5 DEF EnterKeeps, ModeTruthful
  <2> QED BY <2>3, <2>6 DEF EnterKeeps
<1>2. ASSUME NEW bit \in {STA, AP}, NEW on \in BOOLEAN, EnableMode(bit, on) PROVE ModeInv'
  <2>1. PICK ok \in BOOLEAN :
          Enable(bit, on, ok) /\ Answered(IF on THEN "enable" ELSE "disable", bit, ok, FALSE)
    BY <1>2 DEF EnableMode
  <2>2. PICK cm \in GetMode, m \in Numbers : Enter(cm, m, ok)
    BY <2>1, EnableEnters
  <2>3. EnterKeeps(cm, m, ok)
    BY <2>2, EnterStep
  <2>4. answer'.call # "mode"
    BY <2>1 DEF Answered
  <2> QED BY <2>3, <2>4 DEF EnterKeeps, ModeTruthful
<1>3. ASSUME NEW bit \in {STA, AP}, Start(bit) PROVE ModeInv'
  <2>1. Up
    BY <1>3, OffHasNoBits DEF Start, GetMode
  <2>2. UNCHANGED <<made, lowLevel, started, work, left>>
        /\ radio' \in {radio, radio \cup {bit}} /\ answer' = NoAnswer
    BY <1>3 DEF Start
  <2>3. radio' \subseteq {STA, AP} /\ Up'
    BY <2>1, <2>2 DEF ModeTyped, Up
  <2> QED
    BY <2>2, <2>3 DEF ModeTyped, Ready4, UpHasMode, ModeTruthful, OffIsQuiet, NoAnswer
<1>4. CASE Disconnect \/ SoftAPStop
  <2>1. UNCHANGED <<made, lowLevel, started, work, left>> /\ radio' \subseteq radio
    BY <1>4 DEF Disconnect, SoftAPStop
  <2>2. answer'.call # "mode"
    BY <1>4 DEF Disconnect, SoftAPStop, Answered, NoAnswer
  <2> QED
    BY <2>1, <2>2 DEF ModeTyped, Ready4, UpHasMode, ModeTruthful, OffIsQuiet, Up
<1>5. CASE Apart \/ UNCHANGED modes
  <2>1. UNCHANGED <<made, lowLevel, started, work, radio, left>>
        /\ answer' \in {answer, NoAnswer}
    BY <1>5 DEF Apart, modes
  <2> QED
    BY <2>1 DEF ModeTyped, Ready4, UpHasMode, ModeTruthful, OffIsQuiet, NoAnswer, Up
<1>6. DriverEvent \/ ModeProgram \/ ModeTask => Apart
  BY DEF DriverEvent, ModeProgram, ModeTask
<1>7. UNCHANGED vars => UNCHANGED modes
  BY DEF vars
<1> QED BY <1>1, <1>2, <1>3, <1>4, <1>5, <1>6, <1>7 DEF Next

LEMMA InvInit == Init => ModeInv
<1> SUFFICES ASSUME Init PROVE ModeInv
  OBVIOUS
<1>1. First(0) = {} /\ 0 \in 0 .. 4 /\ OFF \in Numbers
  BY ModesAreNumbers DEF First
<1>2. made = First(0) /\ lowLevel = FALSE /\ started = FALSE /\ work = OFF
      /\ radio = {} /\ left = {} /\ answer = NoAnswer
  BY <1>1 DEF Init
<1>3. ModeTyped
  BY <1>1, <1>2 DEF ModeTyped
<1> QED
  BY <1>2, <1>3 DEF ModeInv, Ready4, UpHasMode, ModeTruthful, OffIsQuiet, NoAnswer

LEMMA ModeInvariant == Spec => []ModeInv
<1> QED BY InvInit, InvStep, PTL DEF Spec

-----------------------------------------------------------------------------
(* Whatever part of the bring-up fails and is tried again, a driver that   *)
(* can call back finds a queue, and a WiFi that is up has the task for its *)
(* events (wifiLowLevelInit(), mode()).                                    *)
THEOREM OnMeansReadyAlways == Spec => []OnMeansReady
<1>1. ModeInv => OnMeansReady
  BY QueueFirst DEF ModeInv, ModeTyped, Ready4, OnMeansReady, Up
<1> QED BY <1>1, ModeInvariant, PTL

(* mode(m) answers true only when the WiFi is in mode m (lines 377 to 416),*)
(* whatever the driver refuses, but for a mode(OFF) to which the driver    *)
(* does not tell its mode.                                                 *)
THEOREM ModeTruthfulAlways == Spec => []ModeTruthful
<1>1. ModeInv => ModeTruthful
  BY DEF ModeInv
<1> QED BY <1>1, ModeInvariant, PTL

(* A WiFi that is down runs nothing but what the driver refused to stop    *)
(* when it was powered down (bkWiFiStop()).                                *)
THEOREM OffIsQuietAlways == Spec => []OffIsQuiet
<1>1. ModeInv => OffIsQuiet
  BY DEF ModeInv
<1> QED BY <1>1, ModeInvariant, PTL

-----------------------------------------------------------------------------
(* The calls that set the mode change the events' side only by the one     *)
(* event that the bring-up posts, as any other is posted.                  *)
LEMMA EnterPosts ==
  ASSUME NEW cm, NEW m, NEW ok, Enter(cm, m, ok), accepted < MaxEvents, UNCHANGED Elsewhere
  PROVE  Post(Ready) \/ UNCHANGED events
<1>1. UNCHANGED <<program, task, handled, called, hidden>>
  BY DEF Elsewhere
<1>2. Posted(Ready) \/ UNCHANGED <<queue, accepted>>
  <2>1. CASE Already(cm, m, ok)
    BY <2>1 DEF Already
  <2>2. CASE PowerDown(cm, m, ok)
    BY <2>2 DEF PowerDown
  <2>3. CASE NoLowLevel(cm, m, ok)
    BY <2>3 DEF NoLowLevel, LowLevelFails
  <2>4. CASE SetMode(cm, m, ok)
    BY <2>4 DEF SetMode, LowLevelSucceeds
  <2> QED BY <2>1, <2>2, <2>3, <2>4 DEF Enter
<1>3. CASE Posted(Ready)
  BY <1>1, <1>3 DEF Post
<1>4. CASE UNCHANGED <<queue, accepted>>
  BY <1>1, <1>4 DEF events, program
<1> QED BY <1>2, <1>3, <1>4

LEMMA ModeStepIsEventStep == [Next]_vars => [EventsNext]_events
<1> SUFFICES ASSUME [Next]_vars PROVE EventsNext \/ UNCHANGED events
  OBVIOUS
<1>1. Ready \in Kind /\ GotIp \in Kind /\ Lost \in Kind
  BY WiFiModeAssumption
<1>2. ASSUME NEW m \in Modes, Mode(m) PROVE EventsNext \/ UNCHANGED events
  <2>1. PICK ok \in BOOLEAN, cm \in GetMode : Enter(cm, m, ok)
    BY <1>2 DEF Mode
  <2>2. accepted < MaxEvents /\ UNCHANGED Elsewhere
    BY <1>2 DEF Mode
  <2>3. Post(Ready) \/ UNCHANGED events
    BY <2>1, <2>2, EnterPosts
  <2> QED BY <1>1, <2>3 DEF EventsNext
<1>3. ASSUME NEW bit \in {STA, AP}, NEW on \in BOOLEAN, EnableMode(bit, on)
      PROVE EventsNext \/ UNCHANGED events
  <2>1. PICK ok \in BOOLEAN : Enable(bit, on, ok)
    BY <1>3 DEF EnableMode
  <2>2. PICK cm, m : Enter(cm, m, ok)
    BY <2>1 DEF Enable, Enter
  <2>3. accepted < MaxEvents /\ UNCHANGED Elsewhere
    BY <1>3 DEF EnableMode
  <2>4. Post(Ready) \/ UNCHANGED events
    BY <2>2, <2>3, EnterPosts
  <2> QED BY <1>1, <2>4 DEF EventsNext
<1>4. ASSUME NEW bit \in {STA, AP}, Start(bit) PROVE UNCHANGED events
  BY <1>4 DEF Start
<1>5. Disconnect \/ SoftAPStop => UNCHANGED events
  BY DEF Disconnect, SoftAPStop
<1>6. DriverEvent => EventsNext
  BY <1>1 DEF DriverEvent, EventsNext
<1>7. ModeProgram \/ ModeTask => EventsNext
  BY DEF ModeProgram, ModeTask, EventsNext
<1>8. UNCHANGED vars => UNCHANGED events
  BY DEF vars
<1> QED BY <1>2, <1>3, <1>4, <1>5, <1>6, <1>7, <1>8 DEF Next

(* The radio's modes use the event queue only as WiFiEvents says it is     *)
(* used: whatever mode(), enableSTA(), enableAP() and the driver do, each  *)
(* step is a step of the events' own specification or none of it.          *)
THEOREM ModesUseTheEvents == Spec => EventsInit /\ [][EventsNext]_events
<1>1. Init => EventsInit
  BY DEF Init
<1> QED BY <1>1, ModeStepIsEventStep, PTL DEF Spec

(* So what the events promise holds with the modes above them, through     *)
(* failed bring-ups and power-downs that leave the task and its queue:     *)
(* each handler is called once and in order, and each removal hides one.   *)
THEOREM EventsSoundUnderModes ==
  Spec => [](EventsTypeOK /\ CalledInOrder /\ RemovalHidesOne)
<1> QED
  BY ModesUseTheEvents, OrderInit, OrderGives, OrderStep, TypeStep, GapsInit, GapsStep,
     GapsGive, PTL

(* The call that answer records. *)
Answers ==
  [call : {"none", "mode", "enable", "disable", "disconnect"},
   arg : Numbers, ok : BOOLEAN, mute : BOOLEAN]

AnswerTyped == answer \in Answers

LEMMA AnswerStep == AnswerTyped /\ ModeTyped /\ [Next]_vars => AnswerTyped'
<1> SUFFICES ASSUME AnswerTyped, ModeTyped, [Next]_vars PROVE AnswerTyped'
  OBVIOUS
<1> USE DEF AnswerTyped, Answers
<1>0. NoAnswer \in Answers
  BY ModesAreNumbers DEF NoAnswer
<1>1. Up \in BOOLEAN
  BY DEF Up, ModeTyped
<1>2. ASSUME NEW m \in Modes, Mode(m) PROVE AnswerTyped'
  <2>1. PICK ok \in BOOLEAN, cm \in GetMode : Answered("mode", m, ok, Up /\ cm = OFF)
    BY <1>2 DEF Mode
  <2>2. m \in Numbers /\ (Up /\ cm = OFF) \in BOOLEAN
    BY ModesAreNumbers
  <2> QED BY <2>1, <2>2 DEF Answered
<1>3. ASSUME NEW bit \in {STA, AP}, NEW on \in BOOLEAN, EnableMode(bit, on)
      PROVE AnswerTyped'
  <2>1. PICK ok \in BOOLEAN : Answered(IF on THEN "enable" ELSE "disable", bit, ok, FALSE)
    BY <1>3 DEF EnableMode
  <2>2. bit \in Numbers
    BY ModesAreNumbers
  <2> QED BY <2>1, <2>2 DEF Answered
<1>4. ASSUME NEW bit \in {STA, AP}, Start(bit) PROVE AnswerTyped'
  BY <1>0, <1>4 DEF Start
<1>5. CASE Disconnect
  <2> DEFINE asked(cm) == IF cm = AP_STA THEN STA ELSE cm
  <2>1. PICK cm \in GetMode, refused \in SUBSET {STA, AP} :
          Answered("disconnect", cm, asked(cm) \in {STA, AP} \ refused, Up /\ cm = OFF)
    BY <1>5 DEF Disconnect
  <2>2. cm \in Numbers
    BY GetModeTyped
  <2>3. (asked(cm) \in {STA, AP} \ refused) \in BOOLEAN /\ (Up /\ cm = OFF) \in BOOLEAN
    OBVIOUS
  <2> QED BY <2>1, <2>2, <2>3 DEF Answered
<1>6. CASE SoftAPStop \/ DriverEvent \/ ModeProgram \/ ModeTask
  BY <1>0, <1>6 DEF SoftAPStop, DriverEvent, ModeProgram, ModeTask, Apart
<1>7. CASE UNCHANGED vars
  BY <1>7 DEF vars, modes
<1> QED BY <1>2, <1>3, <1>4, <1>5, <1>6, <1>7 DEF Next

(* Every variable of the mode keeps its type.  The driver's work mode is a *)
(* number below 8, not always a mode: enableSTA() and enableAP() compute   *)
(* 5 to 7 from the modes, and whether the driver takes them is not ours.   *)
THEOREM ModeTypesKept == Spec => []TypeOK
<1>1. Init => AnswerTyped
  BY ModesAreNumbers DEF Init, AnswerTyped, Answers, NoAnswer
<1>2. EventsTypeOK /\ ModeInv /\ AnswerTyped => TypeOK
  BY DEF TypeOK, ModeInv, ModeTyped, AnswerTyped, Answers
<1>3. ModeInv => ModeTyped
  BY DEF ModeInv
<1> QED
  BY <1>1, <1>2, <1>3, AnswerStep, ModeInvariant, EventsSoundUnderModes, PTL DEF Spec
=============================================================================
