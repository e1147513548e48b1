----------------------------- MODULE WiFiEvents -----------------------------
(***************************************************************************)
(* The WiFi events of libraries/WiFi/src/WiFiGeneric.cpp: the queue into   *)
(* which the driver's callback posts, the task that takes events out and   *)
(* walks through the registered handlers, and the calls that register and  *)
(* remove handlers, from a handler or from the program's own thread, while *)
(* that walk is under way.                                                 *)
(*                                                                         *)
(* cbEventList is a std::vector without a lock.  One round of a loop over  *)
(* it (its size, the copy of an entry, an erase()) is one step here, and   *)
(* so is push_back(); the id that a registration takes before is loaded    *)
(* and stored in steps of their own.  What the build makes of one such     *)
(* step that interrupts another is not modelled.                           *)
(***************************************************************************)
EXTENDS Integers, Sequences, FiniteSets

CONSTANTS
  Callback,    (* the functions a program registers                         *)
  Kind,        (* the events that are posted                                *)
  AnyKind,     (* ARDUINO_EVENT_MAX, a handler's wish for all of them       *)
  Wanted,      (* what the handlers of the program are registered for       *)
  QueueSize,   (* the 32 places of _arduino_event_queue                     *)
  MaxIds,      (* bound: registrations                                      *)
  MaxEvents    (* bound: events accepted by the queue                       *)

ASSUME WiFiEventsAssumption ==
  /\ AnyKind \notin Kind
  /\ Wanted \subseteq Kind \cup {AnyKind}
  /\ QueueSize \in Nat \ {0}
  /\ MaxIds \in Nat /\ MaxEvents \in Nat

VARIABLES
  queue,     (* _arduino_event_queue                                        *)
  list,      (* cbEventList                                                 *)
  nextId,    (* WiFiEventCbList::current_id                                 *)
  doing,     (* the onEvent() or removeEvent() that each caller is in       *)
  task,      (* _arduino_event_task: [pc, event, i]                         *)
  added,     (* history: entries put into the list                          *)
  accepted, handled,  (* history: events taken into the queue, finished     *)
  called,    (* history: the handlers called for task's event               *)
  hidden     (* history: removals before the place the walk had reached     *)

events == <<queue, list, nextId, doing, task, added, accepted, handled, called, hidden>>
program == <<list, nextId, doing, added>>
history == <<accepted, handled, called, hidden>>

(* The program's own thread, and the handler that the task is in.          *)
By == {"app", "handler"}

(* `no' is history: the how-manieth entry it was.  The id tells it less    *)
(* surely: two callers may load the same one.                              *)
Handler == [no : Nat, id : Nat, cb : Callback, event : Wanted]

Test ==
  [kind : {"id"}, id : 1 .. MaxIds] \cup [kind : {"cb"}, cb : Callback, event : Wanted]

Registering == [op : {"store", "push"}, id : Nat, cb : Callback, event : Wanted]
Removing == [op : {"remove"}, test : Test, i : Nat]

Resting == [pc |-> "fetch", event |-> AnyKind, i |-> 0]
Idle == [op |-> "none"]

EventsInit ==
  /\ queue = <<>> /\ list = <<>> /\ nextId = 1 /\ added = 0
  /\ task = Resting /\ doing = [by \in By |-> Idle]
  /\ accepted = 0 /\ handled = 0 /\ called = <<>> /\ hidden = 0

(* Mutant of Posted: the queue takes any number of events.                 *)
PostedAlways(k) == queue' = Append(queue, k) /\ accepted' = accepted + 1

(* postArduinoEvent(): with no room the event is lost.                     *)
Posted(k) ==
  IF Len(queue) < QueueSize
  THEN queue' = Append(queue, k) /\ accepted' = accepted + 1
  ELSE UNCHANGED <<queue, accepted>>

Post(k) ==
  /\ accepted < MaxEvents
  /\ Posted(k)
  /\ UNCHANGED <<program, task, handled, called, hidden>>

-----------------------------------------------------------------------------
(* The task. *)

Fetch ==
  /\ task.pc = "fetch" /\ queue # <<>>
  /\ task' = [pc |-> "walk", event |-> Head(queue), i |-> 0]
  /\ queue' = Tail(queue)
  /\ UNCHANGED <<program, history>>

Matches(h, k) == h.event \in {k, AnyKind}

(* Mutant of Walk: the loop advances only past handlers that it called.    *)
WalkStuck ==
  /\ task.pc = "walk" /\ task.i < Len(list)
  /\ LET h == list[task.i + 1] IN
       /\ Matches(h, task.event)
       /\ task' = [task EXCEPT !.pc = "call"]
       /\ called' = Append(called, h.no)
  /\ UNCHANGED <<queue, program, accepted, handled, hidden>>

(* Mutant of Walk: the walk ends with the first handler that wants the     *)
(* event.                                                                  *)
WalkFirst ==
  /\ task.pc = "walk" /\ task.i < Len(list)
  /\ LET h == list[task.i + 1] IN
       IF Matches(h, task.event) /\ called = <<>>
       THEN task' = [task EXCEPT !.pc = "call"] /\ called' = Append(called, h.no)
       ELSE task' = [task EXCEPT !.i = @ + 1] /\ UNCHANGED called
  /\ UNCHANGED <<queue, program, accepted, handled, hidden>>

(* One round of the loop in _eventCallback(): the size is read anew, the   *)
(* entry is copied, and called if it wants the event.                      *)
Walk ==
  /\ task.pc = "walk" /\ task.i < Len(list)
  /\ LET h == list[task.i + 1] IN
       IF Matches(h, task.event)
       THEN task' = [task EXCEPT !.pc = "call"] /\ called' = Append(called, h.no)
       ELSE task' = [task EXCEPT !.i = @ + 1] /\ UNCHANGED called
  /\ UNCHANGED <<queue, program, accepted, handled, hidden>>

(* The handler returns.                                                    *)
Return ==
  /\ task.pc = "call" /\ doing["handler"] = Idle
  /\ task' = [task EXCEPT !.pc = "walk", !.i = @ + 1]
  /\ UNCHANGED <<queue, program, history>>

Finish ==
  /\ task.pc = "walk" /\ task.i >= Len(list)
  /\ task' = Resting
  /\ handled' = handled + 1
  /\ called' = <<>> /\ hidden' = 0
  /\ UNCHANGED <<queue, program, accepted>>

-----------------------------------------------------------------------------
(* The calls of handlers and of the program's thread, which may overlap. *)

Free(by) == doing[by] = Idle /\ (by = "handler" => task.pc = "call")

(* The entries put in, and those on their way.                             *)
Registrations == added + Cardinality({by \in By : doing[by].op \in {"store", "push"}})

(* onEvent(): the constructor's current_id++ loads an id ...               *)
OnEvent(by, cb, k) ==
  /\ Free(by) /\ Registrations < MaxIds
  /\ doing' = [doing EXCEPT ![by] = [op |-> "store", id |-> nextId, cb |-> cb, event |-> k]]
  /\ UNCHANGED <<queue, list, nextId, added, task, history>>

(* ... and stores the next one;                                            *)
StoreId(by) ==
  /\ doing[by].op = "store"
  /\ nextId' = doing[by].id + 1
  /\ doing' = [doing EXCEPT ![by].op = "push"]
  /\ UNCHANGED <<queue, list, added, task, history>>

Entry(by) ==
  [no |-> added + 1, id |-> doing[by].id, cb |-> doing[by].cb, event |-> doing[by].event]

(* Mutant of PushBack: the new handler goes to the front.                  *)
PushFront(by) ==
  /\ doing[by].op = "push"
  /\ list' = <<Entry(by)>> \o list
  /\ added' = added + 1
  /\ doing' = [doing EXCEPT ![by] = Idle]
  /\ UNCHANGED <<queue, nextId, task, history>>

(* then push_back() puts the entry in.                                     *)
PushBack(by) ==
  /\ doing[by].op = "push"
  /\ list' = Append(list, Entry(by))
  /\ added' = added + 1
  /\ doing' = [doing EXCEPT ![by] = Idle]
  /\ UNCHANGED <<queue, nextId, task, history>>

(* removeEvent(cb, k) and removeEvent(id) start.                           *)
RemoveEvent(by, test) ==
  /\ Free(by)
  /\ doing' = [doing EXCEPT ![by] = [op |-> "remove", test |-> test, i |-> 0]]
  /\ UNCHANGED <<queue, list, nextId, added, task, history>>

(* Is the entry one that a removal asks for?                               *)
Sought(test, h) ==
  IF test.kind = "id" THEN h.id = test.id ELSE h.cb = test.cb /\ h.event = test.event

(* The list without its j-th entry.                                        *)
Erase(j) == [i \in 1 .. Len(list) - 1 |-> IF i < j THEN list[i] ELSE list[i + 1]]

(* Where the walk will look next: what is before it has had its turn.      *)
Place == IF task.pc = "call" THEN task.i + 1 ELSE task.i

(* One round of the loop in removeEvent().  After an erase() it passes     *)
(* over an entry: the one that has moved to the place of the erased one.   *)
RemoveRound(by) ==
  /\ doing[by].op = "remove" /\ doing[by].i < Len(list)
  /\ LET j == doing[by].i + 1 IN
       IF Sought(doing[by].test, list[j])
       THEN /\ list' = Erase(j)
            /\ hidden' = IF task.pc # "fetch" /\ j <= Place THEN hidden + 1 ELSE hidden
       ELSE UNCHANGED <<list, hidden>>
  /\ doing' = [doing EXCEPT ![by].i = @ + 1]
  /\ UNCHANGED <<queue, nextId, added, task, accepted, handled, called>>

RemoveDone(by) ==
  /\ doing[by].op = "remove" /\ doing[by].i >= Len(list)
  /\ doing' = [doing EXCEPT ![by] = Idle]
  /\ UNCHANGED <<queue, list, nextId, added, task, history>>

GoOn(by) == StoreId(by) \/ PushBack(by) \/ RemoveRound(by) \/ RemoveDone(by)

Program ==
  \E by \in By :
    \/ \E cb \in Callback, k \in Wanted : OnEvent(by, cb, k)
    \/ \E test \in Test : RemoveEvent(by, test)
    \/ GoOn(by)

EventTask == Fetch \/ Walk \/ Return \/ Finish

EventsNext == Program \/ EventTask \/ \E k \in Kind : Post(k)

(* The task runs whenever it can, calls come to their end, and a handler   *)
(* returns, whatever it calls before.                                      *)
EventsFairness ==
  /\ WF_events(Fetch \/ Walk \/ Finish)
  /\ \A by \in By : WF_events(GoOn(by))
  /\ SF_events(Return)

EventsSpec == EventsInit /\ [][EventsNext]_events /\ EventsFairness

-----------------------------------------------------------------------------
EventsTypeOK ==
  /\ queue \in Seq(Kind) /\ Len(queue) <= QueueSize
  /\ list \in Seq(Handler)
  /\ nextId \in Nat /\ added \in Nat
  /\ task \in [pc : {"fetch", "walk", "call"}, event : Kind \cup {AnyKind}, i : Nat]
  /\ doing \in [By -> {Idle} \cup Registering \cup Removing]
  /\ accepted \in Nat /\ handled \in Nat /\ hidden \in Nat
  /\ called \in Seq(Nat)

(* However handlers come and go during the walk, none is called twice for  *)
(* one event, and they are called in the order in which they were put into *)
(* the list, which need not be that of their ids.                          *)
CalledInOrder ==
  \A i, j \in 1 .. Len(called) : i < j => called[i] < called[j]

(* A handler that wants the event and whose turn is over was called, but   *)
(* for at most one handler per removal of an entry before the walk's       *)
(* place: erase() moves the next entry into the place the walk leaves.     *)
Missed ==
  {j \in 1 .. Len(list) : /\ j <= Place /\ Matches(list[j], task.event)
                          /\ \A c \in 1 .. Len(called) : called[c] # list[j].no}

RemovalHidesOne == task.pc # "fetch" => Cardinality(Missed) <= hidden

(* Every event that the queue took is handled.                             *)
EveryEventHandled == \A n \in 1 .. MaxEvents : accepted >= n ~> handled >= n

=============================================================================
