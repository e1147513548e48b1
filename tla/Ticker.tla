------------------------------- MODULE Ticker -------------------------------
(***************************************************************************)
(* A Ticker object (libraries/Ticker/src/Ticker.h and Ticker.cpp): the     *)
(* program attaches and detaches a callback, with an argument or without,  *)
(* and the thread of the software timers calls it.  Nothing orders the     *)
(* stores of the one with the loads of the other, so every store and every *)
(* load is a step.                                                         *)
(*                                                                         *)
(* The program's thread calls the object, or a callback does while the     *)
(* timer thread runs it; never both at once.                               *)
(***************************************************************************)
EXTENDS Naturals, Sequences

CONSTANTS
  Callback,    (* functions, with an argument or without                    *)
  Arg,         (* arguments                                                 *)
  Null,        (* nullptr                                                   *)
  Timer        (* the handles of the timer service                          *)

VARIABLES
  timer_handle,
  timers,       (* of the service: "free", "stopped", "once" or "cycle"     *)
  callback_function, callback_function_with_arg, arg,
  change,       (* the attach or detach under way, or NoChange              *)
  firing,       (* the timer thread: where it is in _static_callback()      *)
  attached,     (* history: what the last attach that came to its end asked *)
  calls,        (* history: the calls of this firing                        *)
  disturbed     (* history: was anything attached or detached during it?    *)

fields == <<callback_function, callback_function_with_arg, arg>>
tickerHistory == <<attached, calls, disturbed>>
tickerVars == <<timer_handle, timers, fields, change, firing, tickerHistory>>

NoChange == [at |-> 0, op |-> "none"]

(* A request: a plain callback has no argument.                            *)
Request ==
  [cb : Callback, plain : {TRUE}, arg : {Null}]
    \cup [cb : Callback, plain : {FALSE}, arg : Arg]

-----------------------------------------------------------------------------
Init ==
  /\ timer_handle = Null
  /\ timers = [t \in Timer |-> "free"]
  /\ callback_function = Null /\ callback_function_with_arg = Null /\ arg = Null
  /\ change = NoChange
  /\ firing = "no"
  /\ attached = Null /\ calls = <<>> /\ disturbed = FALSE

(* The half-line that each step of a change shares.                        *)
Advance(to) ==
  /\ change' = to
  /\ disturbed' = (disturbed \/ firing # "no")
  /\ UNCHANGED <<firing, calls>>

StepAt(op, i) == change.op = op /\ change.at = i

(* attach(), attach_ms(), once() and once_ms() start; detach() does.       *)
Inside == firing \in {"in_plain", "in_with_arg"}

Attach(r, kind) ==
  /\ change = NoChange
  /\ \E by \in {"program", "callback"} :
       /\ by = "callback" => Inside
       /\ Advance([at |-> 1, op |-> "attach", by |-> by, r |-> r, kind |-> kind])
  /\ UNCHANGED <<timer_handle, timers, fields, attached>>

Detach ==
  /\ change = NoChange /\ timer_handle # Null
  /\ \E by \in {"program", "callback"} :
       /\ by = "callback" => Inside
       /\ Advance([at |-> 1, op |-> "detach", by |-> by])
  /\ UNCHANGED <<timer_handle, timers, fields, attached>>

(* Mutant of Store: the callback with an argument is left from before.     *)
StoreKeepsOther ==
  /\ change.op = "attach" /\ change.at \in 1 .. 3
  /\ LET r == change.r IN
       CASE change.at = 1 -> callback_function' = (IF r.plain THEN r.cb ELSE Null)
                             /\ UNCHANGED <<callback_function_with_arg, arg>>
         [] change.at = 2 -> arg' = r.arg
                             /\ UNCHANGED <<callback_function, callback_function_with_arg>>
         [] change.at = 3 -> callback_function_with_arg' =
                               (IF r.plain THEN callback_function_with_arg ELSE r.cb)
                             /\ UNCHANGED <<callback_function, arg>>
  /\ Advance([change EXCEPT !.at = @ + 1])
  /\ UNCHANGED <<timer_handle, timers, attached>>

(* The three stores of an attach, in the order of the source.              *)
Store ==
  /\ change.op = "attach" /\ change.at \in 1 .. 3
  /\ LET r == change.r IN
       CASE change.at = 1 -> callback_function' = (IF r.plain THEN r.cb ELSE Null)
                             /\ UNCHANGED <<callback_function_with_arg, arg>>
         [] change.at = 2 -> arg' = r.arg
                             /\ UNCHANGED <<callback_function, callback_function_with_arg>>
         [] change.at = 3 -> callback_function_with_arg' =
                               (IF r.plain THEN Null ELSE r.cb)
                             /\ UNCHANGED <<callback_function, arg>>
  /\ Advance([change EXCEPT !.at = @ + 1])
  /\ UNCHANGED <<timer_handle, timers, attached>>

(* Mutant of Create: every attach makes a timer of its own.                *)
CreateAlways ==
  /\ StepAt("attach", 4)
  /\ \E t \in Timer :
       /\ timers[t] = "free"
       /\ timers' = [timers EXCEPT ![t] = "stopped"]
       /\ timer_handle' = t
  /\ Advance([change EXCEPT !.at = 5])
  /\ UNCHANGED <<fields, attached>>

(* _attach_ms(): a timer is made unless there is one; without one nothing  *)
(* is started, and the fields stay as they were stored.                    *)
Create ==
  /\ StepAt("attach", 4)
  /\ \/ /\ timer_handle # Null
        /\ UNCHANGED <<timer_handle, timers>>
        /\ Advance([change EXCEPT !.at = 5])
     \/ /\ timer_handle = Null
        /\ \E t \in Timer :
             /\ timers[t] = "free"
             /\ timers' = [timers EXCEPT ![t] = "stopped"]
             /\ timer_handle' = t
        /\ Advance([change EXCEPT !.at = 5])
     \/ /\ timer_handle = Null
        /\ UNCHANGED <<timer_handle, timers>>
        /\ Advance(NoChange)
  /\ UNCHANGED <<fields, attached>>

Start ==
  /\ StepAt("attach", 5)
  /\ timers' = [timers EXCEPT ![timer_handle] = change.kind]
  /\ attached' = change.r
  /\ Advance(NoChange)
  /\ UNCHANGED <<timer_handle, fields>>

(* detach(): the timer goes first, then the fields.                        *)
StopTimer ==
  /\ StepAt("detach", 1)
  /\ timers' = [timers EXCEPT ![timer_handle] = "stopped"]
  /\ Advance([change EXCEPT !.at = 2])
  /\ UNCHANGED <<timer_handle, fields, attached>>

DeleteTimer ==
  /\ StepAt("detach", 2)
  /\ timers' = [timers EXCEPT ![timer_handle] = "free"]
  /\ Advance([change EXCEPT !.at = 3])
  /\ UNCHANGED <<timer_handle, fields, attached>>

Forget ==
  /\ change.op = "detach" /\ change.at \in 3 .. 6
  /\ CASE change.at = 3 -> timer_handle' = Null /\ UNCHANGED fields
       [] change.at = 4 -> callback_function' = Null
                           /\ UNCHANGED <<timer_handle, callback_function_with_arg, arg>>
       [] change.at = 5 -> arg' = Null
                           /\ UNCHANGED <<timer_handle, callback_function,
                                          callback_function_with_arg>>
       [] change.at = 6 -> callback_function_with_arg' = Null
                           /\ UNCHANGED <<timer_handle, callback_function, arg>>
  /\ Advance(IF change.at = 6 THEN NoChange ELSE [change EXCEPT !.at = @ + 1])
  /\ UNCHANGED <<timers, attached>>

-----------------------------------------------------------------------------
(* The timer thread. *)

Still == UNCHANGED <<timer_handle, fields, change, attached>>

(* A running timer calls _static_callback(); one that runs once has run.   *)
Fire(t) ==
  /\ firing = "no" /\ timers[t] \in {"once", "cycle"}
  /\ firing' = "plain"
  /\ timers' = [timers EXCEPT ![t] = IF @ = "once" THEN "stopped" ELSE @]
  /\ calls' = <<>>
  /\ disturbed' = (change # NoChange)
  /\ Still

(* Lines 57 and 60: is there a callback?                                   *)
TestPlain ==
  /\ firing = "plain"
  /\ firing' = IF callback_function # Null THEN "call_plain" ELSE "with_arg"
  /\ Still /\ UNCHANGED <<timers, calls, disturbed>>

TestWithArg ==
  /\ firing = "with_arg"
  /\ firing' = IF callback_function_with_arg # Null THEN "call_with_arg" ELSE "done"
  /\ Still /\ UNCHANGED <<timers, calls, disturbed>>

(* Lines 58 and 61: the fields are loaded again, and called.               *)
CallPlain ==
  /\ firing = "call_plain"
  /\ firing' = "in_plain"
  /\ calls' = Append(calls, [cb |-> callback_function, plain |-> TRUE, arg |-> Null])
  /\ Still /\ UNCHANGED <<timers, disturbed>>

CallWithArg ==
  /\ firing = "call_with_arg"
  /\ firing' = "in_with_arg"
  /\ calls' = Append(calls, [cb |-> callback_function_with_arg, plain |-> FALSE,
                             arg |-> arg])
  /\ Still /\ UNCHANGED <<timers, disturbed>>

(* The callback returns; not before what it changes is changed.            *)
Return ==
  /\ Inside
  /\ change # NoChange => change.by = "program"
  /\ firing' = IF firing = "in_plain" THEN "with_arg" ELSE "done"
  /\ Still /\ UNCHANGED <<timers, calls, disturbed>>

Finish ==
  /\ firing = "done"
  /\ firing' = "no" /\ calls' = <<>> /\ disturbed' = FALSE
  /\ Still /\ UNCHANGED timers

Next ==
  \/ \E r \in Request, kind \in {"once", "cycle"} : Attach(r, kind)
  \/ Detach
  \/ Store \/ Create \/ Start
  \/ StopTimer \/ DeleteTimer \/ Forget
  \/ \E t \in Timer : Fire(t)
  \/ TestPlain \/ TestWithArg \/ CallPlain \/ CallWithArg \/ Return \/ Finish

-----------------------------------------------------------------------------
TypeOK ==
  /\ timer_handle \in Timer \cup {Null}
  /\ timers \in [Timer -> {"free", "stopped", "once", "cycle"}]
  /\ callback_function \in Callback \cup {Null}
  /\ callback_function_with_arg \in Callback \cup {Null}
  /\ arg \in Arg \cup {Null}
  /\ change.at \in 0 .. 6 /\ change.op \in {"none", "attach", "detach"}
  /\ firing \in {"no", "plain", "call_plain", "in_plain", "with_arg",
                 "call_with_arg", "in_with_arg", "done"}
  /\ attached \in Request \cup {Null}
  /\ disturbed \in BOOLEAN

(* A firing during which nothing is attached or detached makes exactly one *)
(* call, of what the last attach asked for and with its argument, whatever *)
(* was attached, refused a timer or detached before.                       *)
CallsWhatIsAttached == firing = "done" /\ ~ disturbed => calls = <<attached>>

(* The object knows every timer it has made, so that detach() stops the    *)
(* last one and nothing fires afterwards.                                  *)
NoStrayTimer == \A t \in Timer : timers[t] # "free" => timer_handle = t

=============================================================================
