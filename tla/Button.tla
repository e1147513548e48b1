------------------------------- MODULE Button -------------------------------
(***************************************************************************)
(* buttonCheck() of the example sketches (libraries/TuyaIoT/examples): a   *)
(* press is debounced, a short one is a click, a long one removes the      *)
(* device from the cloud.  Time is millis(), which wraps; how long loop()  *)
(* takes between two looks is not known, nor what the button does then: it *)
(* may be let go and pressed again unseen, and a press or the rest of one  *)
(* may be over before the look that would have seen it.                    *)
(***************************************************************************)
LOCAL INSTANCE Naturals
LOCAL INSTANCE Sequences

CONSTANTS
  Millis,      \* values of millis(): 2^32 in the code
  DebounceMs,  \* buttonDebounceMs
  LongPressMs, \* buttonLongPressMs
  MaxGap       \* bound: time between two looks

VARIABLES
  millis,        \* the clock
  isPress,       \* 0 up, 1 seen, 2 debounced, 3 long press has been reported
  buttonPressMs, \* the clock when it was first seen
  held,          \* for how long the button is really down, or was
  seen,          \* ... and for how long by the looks at it
  slipped,       \* it was let go in between, which no look saw
  calls          \* the sketch's functions called in this press

buttonVars == <<millis, isPress, buttonPressMs, held, seen, slipped, calls>>
press == <<held, seen, slipped>>

Init ==
  /\ millis \in 0 .. Millis - 1
  /\ isPress = 0 /\ buttonPressMs = 0
  /\ held = 0 /\ seen = 0 /\ slipped = FALSE /\ calls = <<>>

(* Mutant of Elapsed: as if the clock did not wrap. *)
ElapsedFlat(now, start) == IF now >= start THEN now - start ELSE 0

(* millis() - buttonPressMs in uint32_t. *)
Elapsed(now, start) == (now + Millis - start) % Millis

(* What the button did before a look that sees it down: it came down since  *)
(* the look before, or has been down, or was let go and pressed again.      *)
(* What it does once the long press was reported makes no difference.       *)
WasDown(gap) ==
  \/ /\ isPress = 0
     /\ held' \in 0 .. gap /\ seen' = 0 /\ slipped' = FALSE
  \/ /\ isPress \in {1, 2} /\ seen' = seen + gap
     /\ \/ held' = (IF slipped THEN 0 ELSE held + gap) /\ UNCHANGED slipped
        \/ held' = 0 /\ slipped' = TRUE
  \/ isPress = 3 /\ UNCHANGED press

(* ... and before a look that sees it up again: it was let go at some time, *)
(* and perhaps pressed once more in between.                                *)
WasLetGo(gap) ==
  \/ /\ isPress \in {1, 2} /\ seen' = seen + gap
     /\ \/ held' \in (IF slipped THEN {0} ELSE held .. held + gap) /\ UNCHANGED slipped
        \/ held' = 0 /\ slipped' = TRUE
  \/ isPress \in {0, 3} /\ UNCHANGED press

(* The button is down: seen, debounced, long, one test after the other. *)
Down(now, gap) ==
  LET start   == IF isPress = 0 THEN now ELSE buttonPressMs
      first   == IF isPress = 0 THEN 1 ELSE isPress
      settled == IF first = 1 /\ Elapsed(now, start) > DebounceMs THEN 2 ELSE first
      long    == settled = 2 /\ Elapsed(now, start) >= LongPressMs
  IN /\ buttonPressMs' = start
     /\ isPress' = IF long THEN 3 ELSE settled
     /\ calls' = IF isPress = 0 THEN <<>>
                 ELSE IF long THEN Append(calls, "remove") ELSE calls
     /\ WasDown(gap)

(* The button is up: a press that was debounced and not yet reported is. *)
Up(now, gap) ==
  /\ calls' = IF isPress # 2 THEN calls
              ELSE Append(calls, IF Elapsed(now, buttonPressMs) < LongPressMs
                                   THEN "click" ELSE "remove")
  /\ isPress' = 0
  /\ WasLetGo(gap)
  /\ UNCHANGED buttonPressMs

(* loop() comes by after some time. *)
Look(gap) ==
  LET now == (millis + gap) % Millis
  IN /\ millis' = now
     /\ Down(now, gap) \/ Up(now, gap)

Next == \E gap \in 0 .. MaxGap : Look(gap)
-----------------------------------------------------------------------------
TypeOK ==
  /\ millis \in 0 .. Millis - 1 /\ isPress \in 0 .. 3
  /\ buttonPressMs \in 0 .. Millis - 1
  /\ held \in 0 .. LongPressMs + 2 * MaxGap /\ seen \in 0 .. LongPressMs + MaxGap
  /\ slipped \in BOOLEAN
  /\ \A n \in DOMAIN calls : calls[n] \in {"click", "remove"}

(* A press does one thing at most.  It clicks only if the looks found it    *)
(* down for longer than the debounce time and less than a long press, and   *)
(* removes the device only if they are a long press apart, wherever in it   *)
(* the clock wraps.  If the button was not let go unseen, that is also what *)
(* it really did, to within the time between two looks; and a press that    *)
(* really lasted longer than the debounce time and two such times is not    *)
(* lost.  (Two short presses with no look between them are taken for one,   *)
(* and may so remove the device; a press that is seen but once does         *)
(* nothing.)                                                                *)
PressMeansOneThing ==
  /\ Len(calls) <= 1
  /\ calls = <<"click">> => seen \in DebounceMs + 1 .. LongPressMs - 1
  /\ calls = <<"remove">> => seen >= LongPressMs
  /\ ~ slipped =>
       /\ calls = <<"click">> => held > DebounceMs /\ held < LongPressMs + MaxGap
       /\ calls = <<"remove">> => LongPressMs <= held + MaxGap
       /\ isPress = 0 /\ held > DebounceMs + 2 * MaxGap => calls # <<>>
=============================================================================
