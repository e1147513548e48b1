-------------------------- MODULE PeripheralsProofs --------------------------
(***************************************************************************)
(* Properties of Wire, SPI, Ticker and SerialUART, for any sizes,          *)
(* callbacks and numbers of transfers and bytes.  Each rests on an         *)
(* invariant of its own driver, which only that driver's steps disturb.    *)
(***************************************************************************)
EXTENDS Peripherals, Integers, TLAPS

(* A step is one of a driver's or leaves that driver alone. *)
LEMMA WhoseStep ==
  ASSUME [Next]_vars
  PROVE  /\ Tick!Next \/ UNCHANGED tickerVars
         /\ Uart!Next \/ UNCHANGED serialVars
         /\ I2c!Next \/ UNCHANGED wireVars
         /\ Spi!Next \/ UNCHANGED spiVars
<1> QED BY DEF Next, vars

-----------------------------------------------------------------------------
(* Wire: both buffers are there, of bufferSize bytes, or neither is. *)
WireTyped ==
  /\ bufferSize \in Nat /\ wireRxBuffer \in Nat /\ txBuffer \in Nat
  /\ rxIndex \in Nat /\ rxLength \in Nat /\ txLength \in Nat
  /\ received \in Nat /\ written \in Nat

BothOrNeither ==
  /\ wireRxBuffer = txBuffer
  /\ txBuffer # 0 => txBuffer = bufferSize

WireInv == WireTyped /\ BothOrNeither /\ IndicesMatchBuffers

Zero == rxIndex' = 0 /\ rxLength' = 0 /\ txLength' = 0 /\ received' = 0 /\ written' = 0

(* Freeing the buffers that are there leaves no index behind: what a       *)
(* missing one would have reset is zero already.                           *)
LEMMA FreedAll == WireInv /\ I2c!Freed(wireRxBuffer, txBuffer) => Zero
<1> SUFFICES ASSUME WireInv, I2c!Freed(wireRxBuffer, txBuffer) PROVE Zero
  OBVIOUS
<1>1. wireRxBuffer = 0 => rxIndex = 0 /\ rxLength = 0 /\ txLength = 0
  BY DEF WireInv, WireTyped, BothOrNeither, IndicesMatchBuffers, I2c!IndicesMatchBuffers
<1>2. wireRxBuffer = 0 <=> txBuffer = 0
  BY DEF WireInv, BothOrNeither
<1> QED BY <1>1, <1>2 DEF I2c!Freed, Zero

(* Indices at zero suit any buffers. *)
LEMMA ZeroSuits ==
  ASSUME Zero, bufferSize' \in Nat, wireRxBuffer' \in Nat, wireRxBuffer' = txBuffer',
         txBuffer' # 0 => txBuffer' = bufferSize'
  PROVE  WireInv'
<1> QED
  BY DEF Zero, WireInv, WireTyped, BothOrNeither, IndicesMatchBuffers,
         I2c!IndicesMatchBuffers

LEMMA ResizeStep ==
  ASSUME WireInv, NEW n \in Nat, I2c!SizeKept(n) \/ I2c!Resized(n)
  PROVE  WireInv'
<1>1. CASE I2c!SizeKept(n)
  BY <1>1 DEF I2c!SizeKept, I2c!buffers, I2c!indices, WireInv, WireTyped, BothOrNeither,
              IndicesMatchBuffers, I2c!IndicesMatchBuffers
<1>2. CASE I2c!Resized(n)
  <2>1. I2c!Freed(wireRxBuffer, txBuffer)
        /\ \/ wireRxBuffer' = n /\ txBuffer' = n /\ bufferSize' = n
           \/ wireRxBuffer' = 0 /\ txBuffer' = 0 /\ bufferSize' = bufferSize
    BY <1>2 DEF I2c!Resized, I2c!NoBuffers
  <2>2. wireRxBuffer \in Nat /\ txBuffer \in Nat /\ bufferSize \in Nat
    BY DEF WireInv, WireTyped
  <2>3. Zero
    BY <2>1, <2>2, FreedAll
  <2>4. bufferSize' \in Nat /\ wireRxBuffer' \in Nat /\ wireRxBuffer' = txBuffer'
        /\ (txBuffer' # 0 => txBuffer' = bufferSize')
    BY <2>1, <2>2
  <2> QED BY <2>3, <2>4, ZeroSuits
<1> QED BY <1>1, <1>2

LEMMA WireStep == WireInv /\ (I2c!Next \/ UNCHANGED wireVars) => WireInv'
<1> SUFFICES ASSUME WireInv, I2c!Next \/ UNCHANGED wireVars PROVE WireInv'
  OBVIOUS
<1> USE PeripheralsAssumption
<1>0. wireRxBuffer \in Nat /\ txBuffer \in Nat /\ bufferSize \in Nat
      /\ WireSize \in Nat /\ WireSize # 0
  BY DEF WireInv, WireTyped
<1>1. ASSUME I2c!Freed(wireRxBuffer, txBuffer), I2c!NoBuffers, UNCHANGED bufferSize
      PROVE  WireInv'
  <2>1. Zero
    BY <1>1, FreedAll
  <2>2. bufferSize' \in Nat /\ wireRxBuffer' = 0 /\ txBuffer' = 0
    BY <1>0, <1>1 DEF I2c!NoBuffers
  <2> QED BY <2>1, <2>2, ZeroSuits
<1>2. CASE I2c!Begin
  <2>1. CASE I2c!SizeKept(WireSize) \/ I2c!Resized(WireSize)
    BY <1>0, <2>1, ResizeStep
  <2>2. CASE I2c!Freed(WireSize, WireSize) /\ bufferSize' = WireSize /\ I2c!NoBuffers
    <3>1. Zero
      BY <1>0, <2>2 DEF I2c!Freed, Zero
    <3>2. bufferSize' \in Nat /\ wireRxBuffer' = 0 /\ txBuffer' = 0
      BY <1>0, <2>2 DEF I2c!NoBuffers
    <3> QED BY <3>1, <3>2, ZeroSuits
  <2> QED BY <1>1, <1>2, <2>1, <2>2 DEF I2c!Begin
<1>3. CASE I2c!End
  BY <1>1, <1>3 DEF I2c!End
<1>4. ASSUME NEW n \in 0 .. MaxSize, I2c!SetBufferSize(n) PROVE WireInv'
  BY <1>1, <1>4, ResizeStep DEF I2c!SetBufferSize
<1>5. CASE I2c!BeginTransmission \/ I2c!EndTransmission \/ I2c!Flush \/ UNCHANGED wireVars
  BY <1>5 DEF I2c!BeginTransmission, I2c!EndTransmission, I2c!Flush, wireVars,
              I2c!wireVars, I2c!buffers, I2c!indices, WireInv, WireTyped, BothOrNeither,
              IndicesMatchBuffers, I2c!IndicesMatchBuffers
<1>6. CASE I2c!Write
  BY <1>6 DEF I2c!Write, I2c!buffers, WireInv, WireTyped, BothOrNeither,
              IndicesMatchBuffers, I2c!IndicesMatchBuffers
<1>7. ASSUME NEW n \in 0 .. MaxSize, I2c!RequestFrom(n) PROVE WireInv'
  <2> DEFINE len == IF n > bufferSize THEN bufferSize ELSE n
  <2>1. len \in Nat /\ len <= bufferSize
    BY <1>0
  <2>2. /\ wireRxBuffer # 0 /\ txBuffer # 0 /\ rxIndex' = 0
        /\ UNCHANGED <<bufferSize, wireRxBuffer, txBuffer, txLength, written>>
    BY <1>7 DEF I2c!RequestFrom, I2c!buffers
  <2>3. \/ rxLength' = len /\ received' = len
        \/ rxLength' = 0 /\ received' = 0
    BY <1>7 DEF I2c!RequestFrom
  <2> HIDE DEF len
  <2> QED
    BY <2>1, <2>2, <2>3 DEF WireInv, WireTyped, BothOrNeither, IndicesMatchBuffers,
                            I2c!IndicesMatchBuffers
<1>8. CASE I2c!Read
  BY <1>8 DEF I2c!Read, I2c!buffers, WireInv, WireTyped, BothOrNeither,
              IndicesMatchBuffers, I2c!IndicesMatchBuffers
<1> QED BY <1>2, <1>3, <1>4, <1>5, <1>6, <1>7, <1>8 DEF I2c!Next

(* Whatever is allocated, refused, freed and made again, what is sent was  *)
(* written to the buffer that is there, and what is read was received into *)
(* it by the last request (TwoWire).                                       *)
THEOREM IndicesMatchBuffersAlways == Spec => []IndicesMatchBuffers
<1>1. Init => WireInv
  BY DEF Init, I2c!Init, WireInv, WireTyped, BothOrNeither, IndicesMatchBuffers,
         I2c!IndicesMatchBuffers
<1>2. WireInv /\ [Next]_vars => WireInv'
  BY WhoseStep, WireStep
<1>3. WireInv => IndicesMatchBuffers
  BY DEF WireInv
<1> QED BY <1>1, <1>2, <1>3, PTL DEF Spec

-----------------------------------------------------------------------------
(* SPI: the flag, once up in a transaction that sent one buffer, means     *)
(* that the buffer is through, because it was cleared before the buffer    *)
(* was handed over.                                                        *)
SpiInv ==
  /\ running \in Nat /\ sends \in Nat /\ running <= sends
  /\ at \in {"out", "send", "wait", "deinit"}
  /\ at = "out" /\ ~ isBeginTransaction => running = 0
  /\ at = "send" => sends # 0 /\ running < sends /\ (sends = 1 => ~ transferComplete)
  /\ at = "deinit" => transferComplete
  /\ at \in {"send", "wait", "deinit"} \/ isBeginTransaction \/ running = 0
  /\ at = "send" => isBeginTransaction
  /\ sends = 1 /\ transferComplete => running = 0

LEMMA SpiStep == SpiInv /\ (Spi!Next \/ UNCHANGED spiVars) => SpiInv'
<1> SUFFICES ASSUME SpiInv, Spi!Next \/ UNCHANGED spiVars PROVE SpiInv'
  OBVIOUS
<1> USE DEF SpiInv, Spi!Goto
<1>1. CASE Spi!BeginTransaction
  BY <1>1 DEF Spi!BeginTransaction
<1>2. CASE Spi!TransferStarts
  BY <1>2 DEF Spi!TransferStarts
<1>3. CASE Spi!TransferSends
  BY <1>3 DEF Spi!TransferSends
<1>4. CASE Spi!TransferDone
  BY <1>4 DEF Spi!TransferDone
<1>5. CASE Spi!EndTransaction
  BY <1>5 DEF Spi!EndTransaction
<1>6. CASE Spi!EndWait
  BY <1>6 DEF Spi!EndWait
<1>7. CASE Spi!Deinit
  BY <1>7 DEF Spi!Deinit
<1>8. CASE UNCHANGED spiVars
  BY <1>8 DEF spiVars
<1> QED BY <1>1, <1>2, <1>3, <1>4, <1>5, <1>6, <1>7, <1>8 DEF Spi!Next

(* A transaction with one buffer ends only when the buffer has been        *)
(* transferred, whenever its interrupt comes (endTransaction()).           *)
THEOREM OneBufferIsWholeAlways == Spec => []OneBufferIsWhole
<1>1. Init => SpiInv
  BY DEF Init, Spi!Init, SpiInv
<1>2. SpiInv /\ [Next]_vars => SpiInv'
  BY WhoseStep, SpiStep
<1>3. SpiInv => OneBufferIsWhole
  BY DEF SpiInv, OneBufferIsWhole, Spi!OneBufferIsWhole
<1> QED BY <1>1, <1>2, <1>3, PTL DEF Spec

-----------------------------------------------------------------------------
(* Ticker: a timer that runs when no change is under way, and a firing     *)
(* that none disturbs, find the fields as the last attach stored them.     *)
TimersTyped ==
  /\ timer_handle \in Timer \cup {Null}
  /\ timers \in [Timer -> {"free", "stopped", "once", "cycle"}]

Attaching ==
  [at : 1 .. 5, op : {"attach"}, by : {"program", "callback"}, r : Tick!Request,
   kind : {"once", "cycle"}]
Detaching == [at : 1 .. 6, op : {"detach"}, by : {"program", "callback"}]
ChangeTyped == change \in {Tick!NoChange} \cup Attaching \cup Detaching

AllFree == \A t \in Timer : timers[t] = "free"
SomeRuns == \E t \in Timer : timers[t] \in {"once", "cycle"}

(* The timer is gone before it is forgotten. *)
GoneFirst == change.op = "detach" /\ change.at >= 3 => AllFree

Plain(r) == IF r.plain THEN r.cb ELSE Null
WithArg(r) == IF r.plain THEN Null ELSE r.cb
Matches(r) ==
  callback_function = Plain(r) /\ arg = r.arg /\ callback_function_with_arg = WithArg(r)

(* The stores of an attach so far. *)
Storing ==
  change.op = "attach" =>
    /\ change.at > 1 => callback_function = Plain(change.r)
    /\ change.at > 2 => arg = change.r.arg
    /\ change.at > 3 => callback_function_with_arg = WithArg(change.r)

Settled == change.op = "none" /\ SomeRuns => attached \in Tick!Request /\ Matches(attached)

(* The calls that a firing has made when it is here. *)
Made ==
  CASE firing \in {"plain", "call_plain", "call_with_arg"} -> <<>>
    [] firing \in {"in_plain", "in_with_arg", "done"} -> <<attached>>
    [] firing = "with_arg" -> IF attached.plain THEN <<attached>> ELSE <<>>
    [] OTHER -> calls

Undisturbed ==
  firing # "no" /\ ~ disturbed =>
    /\ change = Tick!NoChange
    /\ attached \in Tick!Request /\ Matches(attached)
    /\ calls = Made
    /\ firing \in {"call_plain", "in_plain"} => attached.plain
    /\ firing \in {"call_with_arg", "in_with_arg"} => ~ attached.plain

TickerInv ==
  /\ TimersTyped /\ ChangeTyped
  /\ NoStrayTimer /\ GoneFirst /\ Storing /\ Settled
  /\ Undisturbed

-----------------------------------------------------------------------------
LEMMA ChangeShapes ==
  ASSUME ChangeTyped
  PROVE  /\ change.op \in {"none", "attach", "detach"}
         /\ change.op = "none" => change = Tick!NoChange
         /\ change.op = "attach" => change \in Attaching
         /\ change.op = "detach" => change \in Detaching
<1> QED BY DEF ChangeTyped, Attaching, Detaching, Tick!NoChange

LEMMA NoChangeIs == Tick!NoChange.op = "none" /\ Tick!NoChange.at = 0
<1> QED BY DEF Tick!NoChange

(* What a step of an attach or a detach need not look at. *)
LEMMA Disturbs ==
  ASSUME NEW to, Tick!Advance(to)
  PROVE  change' = to /\ Undisturbed'
<1>1. firing' # "no" => disturbed'
  BY DEF Tick!Advance
<1> QED BY <1>1 DEF Tick!Advance, Undisturbed

(* No timer runs when all are free. *)
LEMMA FreeRest ==
  /\ AllFree => ~ SomeRuns
  /\ NoStrayTimer /\ timer_handle = Null => AllFree
<1> USE PeripheralsAssumption DEF AllFree, SomeRuns
<1>1. NoStrayTimer /\ timer_handle = Null => AllFree
  BY DEF NoStrayTimer, Tick!NoStrayTimer
<1> QED BY <1>1

LEMMA AttachStep ==
  ASSUME TickerInv, NEW r \in Tick!Request, NEW kind \in {"once", "cycle"},
         Tick!Attach(r, kind)
  PROVE  TickerInv'
<1>1. PICK by \in {"program", "callback"} :
        Tick!Advance([at |-> 1, op |-> "attach", by |-> by, r |-> r, kind |-> kind])
  BY DEF Tick!Attach
<1>2. UNCHANGED <<timer_handle, timers, callback_function, callback_function_with_arg, arg,
                  attached>>
  BY DEF Tick!Attach, Tick!fields
<1>3. change' = [at |-> 1, op |-> "attach", by |-> by, r |-> r, kind |-> kind]
      /\ Undisturbed'
  BY <1>1, Disturbs
<1>4. change' \in Attaching /\ change'.at = 1 /\ change'.op = "attach"
  BY <1>3 DEF Attaching
<1> QED
  BY <1>2, <1>3, <1>4 DEF TickerInv, TimersTyped, ChangeTyped, NoStrayTimer,
      Tick!NoStrayTimer, GoneFirst, Storing, Settled, SomeRuns

LEMMA DetachStep ==
  ASSUME TickerInv, Tick!Detach
  PROVE  TickerInv'
<1>1. PICK by \in {"program", "callback"} :
        Tick!Advance([at |-> 1, op |-> "detach", by |-> by])
  BY DEF Tick!Detach
<1>2. UNCHANGED <<timer_handle, timers, callback_function, callback_function_with_arg, arg,
                  attached>>
  BY DEF Tick!Detach, Tick!fields
<1>3. change' = [at |-> 1, op |-> "detach", by |-> by] /\ Undisturbed'
  BY <1>1, Disturbs
<1>4. change' \in Detaching /\ change'.at = 1 /\ change'.op = "detach"
  BY <1>3 DEF Detaching
<1> QED
  BY <1>2, <1>3, <1>4 DEF TickerInv, TimersTyped, ChangeTyped, NoStrayTimer,
      Tick!NoStrayTimer, GoneFirst, Storing, Settled, SomeRuns

LEMMA StoreStep ==
  ASSUME TickerInv, Tick!Store
  PROVE  TickerInv'
<1>1. change \in Attaching /\ change.at \in 1 .. 3 /\ change.op = "attach"
  BY ChangeShapes DEF TickerInv, Tick!Store
<1>2. UNCHANGED <<timer_handle, timers, attached>>
  BY DEF Tick!Store
<1> DEFINE n == change.at + 1
<1>3. change' = [change EXCEPT !.at = n] /\ Undisturbed'
  BY Disturbs DEF Tick!Store
<1>4. n \in 2 .. 4 /\ n - 1 = change.at
  BY <1>1
<1> HIDE DEF n
<1>5. change' \in Attaching /\ change'.at = n /\ change'.op = "attach"
      /\ change'.r = change.r
  BY <1>1, <1>3, <1>4 DEF Attaching
<1>6. Storing'
  <2>1. CASE change.at = 1
    <3>1. callback_function' = Plain(change.r) /\ n = 2
      BY <1>4, <2>1 DEF Tick!Store, Plain
    <3> QED BY <1>5, <3>1 DEF Storing, Plain
  <2>2. CASE change.at = 2
    <3>1. arg' = change.r.arg /\ n = 3 /\ callback_function' = callback_function
      BY <1>4, <2>2 DEF Tick!Store
    <3>2. callback_function = Plain(change.r)
      BY <1>1, <2>2 DEF TickerInv, Storing
    <3> QED BY <1>5, <3>1, <3>2 DEF Storing, Plain
  <2>3. CASE change.at = 3
    <3>1. callback_function_with_arg' = WithArg(change.r) /\ n = 4
          /\ callback_function' = callback_function /\ arg' = arg
      BY <1>4, <2>3 DEF Tick!Store, WithArg
    <3>2. callback_function = Plain(change.r) /\ arg = change.r.arg
      BY <1>1, <2>3 DEF TickerInv, Storing
    <3> QED BY <1>5, <3>1, <3>2 DEF Storing, Plain, WithArg
  <2> QED BY <1>1, <2>1, <2>2, <2>3
<1> QED
  BY <1>2, <1>3, <1>5, <1>6 DEF TickerInv, TimersTyped, ChangeTyped, NoStrayTimer,
      Tick!NoStrayTimer, GoneFirst, Settled

LEMMA CreateStep ==
  ASSUME TickerInv, Tick!Create
  PROVE  TickerInv'
<1> USE PeripheralsAssumption
<1>1. change \in Attaching /\ change.at = 4 /\ change.op = "attach"
  BY ChangeShapes DEF TickerInv, Tick!Create, Tick!StepAt
<1>2. UNCHANGED <<callback_function, callback_function_with_arg, arg, attached>>
  BY DEF Tick!Create, Tick!fields
<1>3. ASSUME Tick!Advance([change EXCEPT !.at = 5]), TimersTyped', NoStrayTimer'
      PROVE  TickerInv'
  <2>1. change' = [change EXCEPT !.at = 5] /\ Undisturbed'
    BY <1>3, Disturbs
  <2>2. change' \in Attaching /\ change'.at = 5 /\ change'.op = "attach"
        /\ change'.r = change.r
    BY <1>1, <2>1 DEF Attaching
  <2>3. Storing'
    BY <1>1, <1>2, <2>2 DEF TickerInv, Storing, Plain, WithArg
  <2> QED
    BY <1>3, <2>1, <2>2, <2>3 DEF TickerInv, ChangeTyped, GoneFirst, Settled
<1>4. CASE UNCHANGED <<timer_handle, timers>> /\ Tick!Advance([change EXCEPT !.at = 5])
  BY <1>3, <1>4 DEF TickerInv, TimersTyped, NoStrayTimer, Tick!NoStrayTimer
<1>5. ASSUME timer_handle = Null, NEW t \in Timer, timers' = [timers EXCEPT ![t] = "stopped"],
             timer_handle' = t, Tick!Advance([change EXCEPT !.at = 5])
      PROVE  TickerInv'
  <2>1. AllFree
    BY <1>5, FreeRest DEF TickerInv
  <2>2. TimersTyped' /\ NoStrayTimer'
    BY <1>5, <2>1 DEF TickerInv, TimersTyped, AllFree, NoStrayTimer, Tick!NoStrayTimer
  <2> QED BY <1>3, <1>5, <2>2
<1>6. CASE timer_handle = Null /\ UNCHANGED <<timer_handle, timers>>
           /\ Tick!Advance(Tick!NoChange)
  <2>1. change' = Tick!NoChange /\ Undisturbed'
    BY <1>6, Disturbs
  <2>2. AllFree /\ ~ SomeRuns
    BY <1>6, FreeRest DEF TickerInv
  <2>3. ~ SomeRuns'
    BY <1>6, <2>2 DEF SomeRuns
  <2> QED
    BY <1>6, <2>1, <2>3, NoChangeIs DEF TickerInv, TimersTyped, ChangeTyped, NoStrayTimer,
        Tick!NoStrayTimer, GoneFirst, Storing, Settled
<1> QED BY <1>4, <1>5, <1>6 DEF Tick!Create

LEMMA StartStep ==
  ASSUME TickerInv, Tick!Start
  PROVE  TickerInv'
<1>1. change \in Attaching /\ change.at = 5 /\ change.op = "attach"
  BY ChangeShapes DEF TickerInv, Tick!Start, Tick!StepAt
<1>2. change' = Tick!NoChange /\ Undisturbed'
  BY Disturbs DEF Tick!Start
<1>3. /\ UNCHANGED <<timer_handle, callback_function, callback_function_with_arg, arg>>
      /\ attached' = change.r /\ timers' = [timers EXCEPT ![timer_handle] = change.kind]
  BY DEF Tick!Start, Tick!fields
<1>4. change.r \in Tick!Request /\ change.kind \in {"once", "cycle"}
  BY <1>1 DEF Attaching
<1>5. Matches(change.r)
  BY <1>1 DEF TickerInv, Storing, Matches
<1>6. attached' \in Tick!Request /\ Matches(attached)'
  BY <1>3, <1>4, <1>5 DEF Matches, Plain, WithArg
<1>7. TimersTyped' /\ NoStrayTimer'
  BY <1>3, <1>4 DEF TickerInv, TimersTyped, NoStrayTimer, Tick!NoStrayTimer
<1> QED
  BY <1>2, <1>6, <1>7, NoChangeIs DEF TickerInv, ChangeTyped, GoneFirst, Storing, Settled

LEMMA StopStep ==
  ASSUME TickerInv, Tick!StopTimer \/ Tick!DeleteTimer
  PROVE  TickerInv'
<1>1. change \in Detaching /\ change.op = "detach"
  BY ChangeShapes DEF TickerInv, Tick!StopTimer, Tick!DeleteTimer, Tick!StepAt
<1>2. UNCHANGED timer_handle
  BY DEF Tick!StopTimer, Tick!DeleteTimer
<1>3. CASE Tick!StopTimer
  <2>1. change' = [change EXCEPT !.at = 2] /\ Undisturbed'
        /\ timers' = [timers EXCEPT ![timer_handle] = "stopped"]
    BY <1>3, Disturbs DEF Tick!StopTimer
  <2>2. change' \in Detaching /\ change'.at = 2 /\ change'.op = "detach"
    BY <1>1, <2>1 DEF Detaching
  <2>3. TimersTyped' /\ NoStrayTimer'
    BY <1>2, <2>1 DEF TickerInv, TimersTyped, NoStrayTimer, Tick!NoStrayTimer
  <2> QED BY <2>1, <2>2, <2>3 DEF TickerInv, ChangeTyped, GoneFirst, Storing, Settled
<1>4. CASE Tick!DeleteTimer
  <2>1. change' = [change EXCEPT !.at = 3] /\ Undisturbed'
        /\ timers' = [timers EXCEPT ![timer_handle] = "free"]
    BY <1>4, Disturbs DEF Tick!DeleteTimer
  <2>2. change' \in Detaching /\ change'.at = 3 /\ change'.op = "detach"
    BY <1>1, <2>1 DEF Detaching
  <2>3. TimersTyped' /\ AllFree'
    BY <1>2, <2>1 DEF TickerInv, TimersTyped, AllFree, NoStrayTimer, Tick!NoStrayTimer
  <2>4. NoStrayTimer'
    BY <2>3 DEF AllFree, NoStrayTimer, Tick!NoStrayTimer
  <2> QED
    BY <2>1, <2>2, <2>3, <2>4 DEF TickerInv, ChangeTyped, GoneFirst, Storing, Settled
<1> QED BY <1>3, <1>4

LEMMA ForgetStep ==
  ASSUME TickerInv, Tick!Forget
  PROVE  TickerInv'
<1>1. change \in Detaching /\ change.op = "detach" /\ change.at \in 3 .. 6
  BY ChangeShapes DEF TickerInv, Tick!Forget
<1>2. AllFree
  BY <1>1 DEF TickerInv, GoneFirst
<1>3. timers' = timers /\ timer_handle' \in {timer_handle, Null}
  <2>1. CASE change.at = 3
    BY <2>1 DEF Tick!Forget
  <2>2. CASE change.at = 4
    BY <2>2 DEF Tick!Forget
  <2>3. CASE change.at = 5
    BY <2>3 DEF Tick!Forget
  <2>4. CASE change.at = 6
    BY <2>4 DEF Tick!Forget
  <2> QED BY <1>1, <2>1, <2>2, <2>3, <2>4
<1>4. AllFree' /\ ~ SomeRuns'
  BY <1>2, <1>3 DEF AllFree, SomeRuns
<1>5. TimersTyped' /\ NoStrayTimer'
  BY <1>3, <1>4 DEF TickerInv, TimersTyped, AllFree, NoStrayTimer, Tick!NoStrayTimer
<1> DEFINE n == change.at + 1
<1>6. /\ change' = (IF change.at = 6 THEN Tick!NoChange ELSE [change EXCEPT !.at = n])
      /\ Undisturbed'
  BY Disturbs DEF Tick!Forget
<1>7. change.at # 6 => n \in 1 .. 6
  BY <1>1
<1> HIDE DEF n
<1>8. ChangeTyped' /\ change'.op \in {"none", "detach"}
  <2>1. CASE change.at = 6
    BY <1>6, <2>1, NoChangeIs DEF ChangeTyped
  <2>2. CASE change.at # 6
    <3>1. change' \in Detaching /\ change'.op = "detach"
      BY <1>1, <1>6, <1>7, <2>2 DEF Detaching
    <3> QED BY <3>1 DEF ChangeTyped
  <2> QED BY <2>1, <2>2
<1> QED BY <1>4, <1>5, <1>6, <1>8 DEF TickerInv, GoneFirst, Storing, Settled

-----------------------------------------------------------------------------
(* The timer thread leaves the object and its change alone. *)
LEMMA ThreadStep ==
  ASSUME TickerInv, Tick!Still, timers' = timers, Undisturbed'
  PROVE  TickerInv'
<1> QED
  BY DEF Tick!Still, Tick!fields, TickerInv, TimersTyped, ChangeTyped, NoStrayTimer,
         Tick!NoStrayTimer, GoneFirst, AllFree, Storing, Settled, SomeRuns, Matches, Plain,
         WithArg

LEMMA FireStep ==
  ASSUME TickerInv, NEW t \in Timer, Tick!Fire(t)
  PROVE  TickerInv'
<1>1. /\ timers[t] \in {"once", "cycle"} /\ firing' = "plain" /\ calls' = <<>>
      /\ timers' = [timers EXCEPT ![t] = IF @ = "once" THEN "stopped" ELSE @]
      /\ disturbed' = (change # Tick!NoChange)
  BY DEF Tick!Fire
<1>2. UNCHANGED <<timer_handle, callback_function, callback_function_with_arg, arg, change,
                  attached>>
  BY DEF Tick!Fire, Tick!Still, Tick!fields
<1>3. SomeRuns /\ ~ AllFree
  BY <1>1 DEF SomeRuns, AllFree
<1>4. change = Tick!NoChange => attached \in Tick!Request /\ Matches(attached)
  BY <1>3, NoChangeIs DEF TickerInv, Settled
<1>5. Undisturbed'
  BY <1>1, <1>2, <1>4 DEF Undisturbed, Matches, Plain, WithArg, Made
<1>6. TimersTyped' /\ NoStrayTimer'
  BY <1>1, <1>2 DEF TickerInv, TimersTyped, NoStrayTimer, Tick!NoStrayTimer
<1>7. ChangeTyped' /\ GoneFirst' /\ Storing'
  BY <1>2, <1>3 DEF TickerInv, ChangeTyped, GoneFirst, Storing, Plain, WithArg
<1>8. Settled'
  BY <1>2, <1>3 DEF TickerInv, Settled, Matches, Plain, WithArg
<1> QED BY <1>5, <1>6, <1>7, <1>8 DEF TickerInv

(* A request is told by its fields which of the two callbacks it is. *)
LEMMA RequestShows ==
  ASSUME NEW r \in Tick!Request, Matches(r)
  PROVE  /\ r.plain \in BOOLEAN
         /\ callback_function # Null <=> r.plain
         /\ callback_function_with_arg # Null <=> ~ r.plain
         /\ r.plain => [cb |-> callback_function, plain |-> TRUE, arg |-> Null] = r
         /\ ~ r.plain =>
              [cb |-> callback_function_with_arg, plain |-> FALSE, arg |-> arg] = r
<1> USE PeripheralsAssumption
<1>1. CASE r \in [cb : Callback, plain : {TRUE}, arg : {Null}]
  <2>1. r.plain = TRUE /\ r.cb \in Callback /\ r.cb # Null
        /\ r = [cb |-> r.cb, plain |-> TRUE, arg |-> Null]
    BY <1>1
  <2> QED BY <2>1 DEF Matches, Plain, WithArg
<1>2. CASE r \in [cb : Callback, plain : {FALSE}, arg : Arg]
  <2>1. r.plain = FALSE /\ r.cb \in Callback /\ r.cb # Null
        /\ r = [cb |-> r.cb, plain |-> FALSE, arg |-> r.arg]
    BY <1>2
  <2> QED BY <2>1 DEF Matches, Plain, WithArg
<1> QED BY <1>1, <1>2 DEF Tick!Request

LEMMA FiringStep ==
  ASSUME TickerInv,
         \/ Tick!TestPlain \/ Tick!TestWithArg \/ Tick!CallPlain \/ Tick!CallWithArg
         \/ Tick!Return \/ Tick!Finish
  PROVE  TickerInv'
<1>1. Tick!Still /\ timers' = timers
  BY DEF Tick!TestPlain, Tick!TestWithArg, Tick!CallPlain, Tick!CallWithArg, Tick!Return,
         Tick!Finish
<1>2. UNCHANGED <<callback_function, callback_function_with_arg, arg, change, attached>>
  BY <1>1 DEF Tick!Still, Tick!fields
<1>3. Undisturbed'
  <2>1. CASE Tick!Finish
    BY <2>1 DEF Tick!Finish, Undisturbed
  <2>2. SUFFICES ASSUME ~ Tick!Finish, ~ disturbed' PROVE Undisturbed'
    BY <2>1 DEF Undisturbed
  <2>3. firing # "no" /\ ~ disturbed
    BY <2>2 DEF Tick!TestPlain, Tick!TestWithArg, Tick!CallPlain, Tick!CallWithArg,
                Tick!Return, Tick!Inside
  <2>4. /\ change = Tick!NoChange
        /\ attached \in Tick!Request /\ Matches(attached)
        /\ calls = Made
        /\ firing \in {"call_plain", "in_plain"} => attached.plain
        /\ firing \in {"call_with_arg", "in_with_arg"} => ~ attached.plain
    BY <2>3 DEF TickerInv, Undisturbed
  <2>5. attached' \in Tick!Request /\ Matches(attached)' /\ change' = Tick!NoChange
    BY <1>2, <2>4 DEF Matches, Plain, WithArg
  <2>6. /\ attached.plain \in BOOLEAN
        /\ callback_function # Null <=> attached.plain
        /\ callback_function_with_arg # Null <=> ~ attached.plain
        /\ attached.plain =>
             [cb |-> callback_function, plain |-> TRUE, arg |-> Null] = attached
        /\ ~ attached.plain =>
             [cb |-> callback_function_with_arg, plain |-> FALSE, arg |-> arg] = attached
    BY <2>4, RequestShows
  <2>7. CASE Tick!TestPlain
    BY <1>2, <2>4, <2>5, <2>6, <2>7 DEF Tick!TestPlain, Undisturbed, Made
  <2>8. CASE Tick!TestWithArg
    BY <1>2, <2>4, <2>5, <2>6, <2>8 DEF Tick!TestWithArg, Undisturbed, Made
  <2>9. CASE Tick!CallPlain
    <3>1. firing = "call_plain" /\ firing' = "in_plain" /\ attached.plain /\ calls = <<>>
      BY <2>4, <2>9 DEF Tick!CallPlain, Made
    <3>2. calls' = Append(calls, attached)
      BY <2>6, <2>9, <3>1 DEF Tick!CallPlain
    <3>3. calls' = <<attached>>
      BY <3>1, <3>2
    <3> QED BY <1>2, <2>5, <3>1, <3>3 DEF Undisturbed, Made
  <2>10. CASE Tick!CallWithArg
    <3>1. firing = "call_with_arg" /\ firing' = "in_with_arg" /\ ~ attached.plain
          /\ calls = <<>>
      BY <2>4, <2>10 DEF Tick!CallWithArg, Made
    <3>2. calls' = Append(calls, attached)
      BY <2>6, <2>10, <3>1 DEF Tick!CallWithArg
    <3>3. calls' = <<attached>>
      BY <3>1, <3>2
    <3> QED BY <1>2, <2>5, <3>1, <3>3 DEF Undisturbed, Made
  <2>11. CASE Tick!Return
    <3>1. /\ firing \in {"in_plain", "in_with_arg"} /\ calls' = calls
          /\ firing' = IF firing = "in_plain" THEN "with_arg" ELSE "done"
      BY <2>11 DEF Tick!Return, Tick!Inside
    <3>2. calls' = <<attached>>
      BY <2>4, <3>1 DEF Made
    <3> QED BY <1>2, <2>4, <2>5, <3>1, <3>2 DEF Undisturbed, Made
  <2> QED BY <2>2, <2>7, <2>8, <2>9, <2>10, <2>11
<1> QED BY <1>1, <1>3, ThreadStep

LEMMA TickerStep == TickerInv /\ (Tick!Next \/ UNCHANGED tickerVars) => TickerInv'
<1> SUFFICES ASSUME TickerInv, Tick!Next \/ UNCHANGED tickerVars PROVE TickerInv'
  OBVIOUS
<1>1. CASE UNCHANGED tickerVars
  <2>1. Undisturbed'
    BY <1>1 DEF tickerVars, TickerInv, Undisturbed, Made, Matches, Plain, WithArg
  <2>2. Tick!Still /\ timers' = timers
    BY <1>1 DEF tickerVars, Tick!Still, Tick!fields
  <2> QED BY <2>1, <2>2, ThreadStep
<1> QED
  BY <1>1, AttachStep, DetachStep, StoreStep, CreateStep, StartStep, StopStep, ForgetStep,
     FireStep, FiringStep DEF Tick!Next

LEMMA TickerAlways == Spec => []TickerInv
<1>1. Init => TickerInv
  BY NoChangeIs DEF Init, Tick!Init, TickerInv, TimersTyped, ChangeTyped, NoStrayTimer,
         Tick!NoStrayTimer, GoneFirst, Storing, Settled, SomeRuns, Undisturbed
<1>2. TickerInv /\ [Next]_vars => TickerInv'
  BY WhoseStep, TickerStep
<1> QED BY <1>1, <1>2, PTL DEF Spec

(* A firing that nothing disturbs makes exactly one call, of what the last *)
(* attach asked for and with its argument (Ticker::_static_callback()).    *)
THEOREM CallsWhatIsAttachedAlways == Spec => []CallsWhatIsAttached
<1>1. TickerInv => CallsWhatIsAttached
  BY DEF TickerInv, Undisturbed, Made, CallsWhatIsAttached, Tick!CallsWhatIsAttached
<1> QED BY <1>1, TickerAlways, PTL

(* The object knows every timer it has made, so that detach() stops the    *)
(* last one (Ticker::_attach_ms(), Ticker::detach()).                      *)
THEOREM NoStrayTimerAlways == Spec => []NoStrayTimer
<1>1. TickerInv => NoStrayTimer
  BY DEF TickerInv
<1> QED BY <1>1, TickerAlways, PTL
-----------------------------------------------------------------------------
(* SerialUART: what was read, what the buffer holds and what the hardware   *)
(* holds are one ascending run of this era's bytes.  Only between the steps *)
(* of end() that close the port and clear the buffer does that hold bytes   *)
(* of the era before, and then nothing can come to it.                      *)
Byte == [era : Nat, n : Nat]

Good(s, e, a) == \A i \in 1 .. Len(s) : s[i].era = e /\ s[i].n <= a
Asc(s) == \A i, j \in 1 .. Len(s) : i < j => s[i].n < s[j].n
Before(s, t) == \A i \in 1 .. Len(s), j \in 1 .. Len(t) : s[i].n < t[j].n

LEMMA ByteIs == \A b \in Byte : b.era \in Nat /\ b.n \in Nat
BY DEF Byte

(* A byte later than all there were is added. *)
LEMMA AddLast ==
  ASSUME NEW s \in Seq(Byte), NEW e \in Nat, NEW a \in Nat, Good(s, e, a), Asc(s),
         NEW b \in Byte, b.era = e, b.n = a + 1
  PROVE  LET s2 == Append(s, b)
         IN /\ s2 \in Seq(Byte) /\ Good(s2, e, a + 1) /\ Asc(s2)
            /\ \A t \in Seq(Byte) : Good(t, e, a) /\ Before(t, s) => Before(t, s2)
<1> DEFINE s2 == Append(s, b)
<1>1. /\ s2 \in Seq(Byte) /\ Len(s2) = Len(s) + 1 /\ Len(s) \in Nat
      /\ \A i \in 1 .. Len(s) : s2[i] = s[i] /\ s[i].n \in Nat
      /\ s2[Len(s) + 1] = b
  BY ByteIs
<1> HIDE DEF s2
<1>2. \A i \in 1 .. Len(s2) : i \in 1 .. Len(s) \/ i = Len(s) + 1
  BY <1>1
<1>3. Good(s2, e, a + 1)
  BY <1>1, <1>2 DEF Good
<1>4. Asc(s2)
  BY <1>1, <1>2, SMTT(30) DEF Good, Asc
<1>5. ASSUME NEW t \in Seq(Byte), Good(t, e, a), Before(t, s) PROVE Before(t, s2)
  <2>1. \A i \in 1 .. Len(t) : t[i].n \in Nat /\ t[i].n <= a
    BY <1>5, ByteIs DEF Good
  <2> SUFFICES ASSUME NEW i \in 1 .. Len(t), NEW j \in 1 .. Len(s2)
               PROVE  t[i].n < s2[j].n
    BY DEF Before
  <2>2. CASE j \in 1 .. Len(s)
    <3>1. t[i].n < s[j].n
      BY <1>5, <2>2 DEF Before
    <3> QED BY <1>1, <2>2, <3>1
  <2>3. CASE j = Len(s) + 1
    <3>1. s2[j].n = a + 1
      BY <1>1, <2>3
    <3> QED BY <2>1, <3>1
  <2> QED BY <1>2, <2>2, <2>3
<1> QED BY <1>1, <1>3, <1>4, <1>5 DEF s2

(* The first byte of one run goes to the end of the run before it. *)
LEMMA MoveHead ==
  ASSUME NEW s \in Seq(Byte), NEW t \in Seq(Byte), t # <<>>, Asc(s), Asc(t), Before(s, t),
         NEW e \in Nat, NEW a \in Nat, Good(s, e, a), Good(t, e, a)
  PROVE  LET s2 == Append(s, Head(t))
             t2 == Tail(t)
         IN /\ s2 \in Seq(Byte) /\ t2 \in Seq(Byte) /\ Len(t2) <= Len(t)
            /\ Good(s2, e, a) /\ Good(t2, e, a) /\ Asc(s2) /\ Asc(t2) /\ Before(s2, t2)
            /\ \A u \in Seq(Byte) : Before(s, u) /\ Before(t, u)
                                      => Before(s2, u) /\ Before(t2, u)
<1> DEFINE s2 == Append(s, Head(t))
           t2 == Tail(t)
<1>1. /\ Len(s) \in Nat /\ Len(t) \in Nat /\ Len(t) >= 1 /\ Head(t) = t[1]
      /\ \A i \in 1 .. Len(s) : s[i].n \in Nat
      /\ \A i \in 1 .. Len(t) : t[i].n \in Nat
  BY ByteIs
<1>2. /\ t2 \in Seq(Byte) /\ Len(t2) = Len(t) - 1
      /\ \A i \in 1 .. Len(t2) : i + 1 \in 1 .. Len(t) /\ t2[i] = t[i + 1]
  BY <1>1
<1>3. /\ s2 \in Seq(Byte) /\ Len(s2) = Len(s) + 1
      /\ \A i \in 1 .. Len(s) : s2[i] = s[i]
      /\ s2[Len(s) + 1] = t[1]
  BY <1>1
<1> HIDE DEF s2, t2
<1>4. \A i \in 1 .. Len(s2) : i \in 1 .. Len(s) \/ i = Len(s) + 1
  BY <1>1, <1>3
<1>5. Good(s2, e, a)
  <2> SUFFICES ASSUME NEW i \in 1 .. Len(s2) PROVE s2[i].era = e /\ s2[i].n <= a
    BY DEF Good
  <2>1. CASE i \in 1 .. Len(s)
    BY <1>3, <2>1 DEF Good
  <2>2. CASE i = Len(s) + 1
    <3>1. 1 \in 1 .. Len(t) /\ s2[i] = t[1]
      BY <1>1, <1>3, <2>2
    <3> QED BY <3>1 DEF Good
  <2> QED BY <1>4, <2>1, <2>2
<1>6. Good(t2, e, a)
  <2> SUFFICES ASSUME NEW i \in 1 .. Len(t2) PROVE t2[i].era = e /\ t2[i].n <= a
    BY DEF Good
  <2> QED BY <1>2 DEF Good
<1>7. Asc(s2)
  <2> SUFFICES ASSUME NEW i \in 1 .. Len(s2), NEW j \in 1 .. Len(s2), i < j
               PROVE  s2[i].n < s2[j].n
    BY DEF Asc
  <2>1. i \in 1 .. Len(s) /\ 1 \in 1 .. Len(t)
    BY <1>1, <1>3
  <2>2. CASE j \in 1 .. Len(s)
    BY <1>3, <2>1, <2>2 DEF Asc
  <2>3. CASE j = Len(s) + 1
    BY <1>3, <2>1, <2>3 DEF Before
  <2> QED BY <1>4, <2>2, <2>3
<1>11. Asc(t2)
  <2> SUFFICES ASSUME NEW i \in 1 .. Len(t2), NEW j \in 1 .. Len(t2), i < j
               PROVE  t2[i].n < t2[j].n
    BY DEF Asc
  <2>1. i + 1 \in 1 .. Len(t) /\ j + 1 \in 1 .. Len(t) /\ i + 1 < j + 1
    BY <1>2
  <2> QED BY <1>2, <2>1 DEF Asc
<1>8. Before(s2, t2)
  <2> SUFFICES ASSUME NEW i \in 1 .. Len(s2), NEW j \in 1 .. Len(t2)
               PROVE  s2[i].n < t2[j].n
    BY DEF Before
  <2>1. j + 1 \in 1 .. Len(t) /\ t2[j] = t[j + 1] /\ 1 \in 1 .. Len(t) /\ 1 < j + 1
    BY <1>1, <1>2
  <2>2. CASE i \in 1 .. Len(s)
    BY <1>3, <2>1, <2>2 DEF Before
  <2>3. CASE i = Len(s) + 1
    BY <1>3, <2>1, <2>3 DEF Asc
  <2> QED BY <1>4, <2>2, <2>3
<1>9. ASSUME NEW u \in Seq(Byte), Before(s, u), Before(t, u)
      PROVE  Before(s2, u) /\ Before(t2, u)
  <2>1. ASSUME NEW i \in 1 .. Len(s2), NEW j \in 1 .. Len(u) PROVE s2[i].n < u[j].n
    <3>1. CASE i \in 1 .. Len(s)
      BY <1>3, <1>9, <3>1 DEF Before
    <3>2. CASE i = Len(s) + 1
      <4>1. 1 \in 1 .. Len(t) /\ s2[i] = t[1]
        BY <1>1, <1>3, <3>2
      <4> QED BY <1>9, <4>1 DEF Before
    <3> QED BY <1>4, <3>1, <3>2
  <2>2. ASSUME NEW i \in 1 .. Len(t2), NEW j \in 1 .. Len(u) PROVE t2[i].n < u[j].n
    BY <1>2, <1>9 DEF Before
  <2> QED BY <2>1, <2>2 DEF Before
<1>10. Len(t2) <= Len(t)
  BY <1>1, <1>2
<1> QED BY <1>2, <1>3, <1>5, <1>6, <1>7, <1>8, <1>9, <1>10, <1>11 DEF s2, t2

(* Two runs, or one and the beginning of the next, are one. *)
LEMMA JoinRuns ==
  ASSUME NEW t \in Seq(Byte), NEW f \in Seq(Byte), NEW k \in 0 .. Len(f), Asc(t), Asc(f),
         Before(t, f), NEW e \in Nat, NEW a \in Nat, Good(t, e, a), Good(f, e, a)
  PROVE  LET t2 == t \o SubSeq(f, 1, k)
         IN /\ t2 \in Seq(Byte) /\ Len(t2) = Len(t) + k
            /\ Good(t2, e, a) /\ Asc(t2)
            /\ \A s \in Seq(Byte) : Before(s, t) /\ Before(s, f) => Before(s, t2)
<1> DEFINE p  == SubSeq(f, 1, k)
           t2 == t \o p
<1>1. /\ Len(t) \in Nat /\ Len(f) \in Nat /\ k \in Nat
      /\ \A i \in 1 .. Len(t) : t[i].n \in Nat
      /\ \A i \in 1 .. Len(f) : f[i].n \in Nat
  BY ByteIs
<1>2. p \in Seq(Byte) /\ Len(p) = k /\ \A i \in 1 .. k : p[i] = f[i] /\ i \in 1 .. Len(f)
  BY <1>1
<1> HIDE DEF p
<1>3. /\ t2 \in Seq(Byte) /\ Len(t2) = Len(t) + k
      /\ \A i \in 1 .. Len(t2) : t2[i] = IF i <= Len(t) THEN t[i] ELSE p[i - Len(t)]
  <2>1. t2 \in Seq(Byte)
    BY <1>2
  <2>2. Len(t2) = Len(t) + Len(p)
    BY <1>2, SMTT(30)
  <2>3. \A i \in 1 .. Len(t) + Len(p) :
          t2[i] = IF i <= Len(t) THEN t[i] ELSE p[i - Len(t)]
    BY <1>2
  <2> QED BY <1>2, <2>1, <2>2, <2>3
<1> HIDE DEF t2
<1>4. \A i \in 1 .. Len(t2) : \/ i \in 1 .. Len(t) /\ t2[i] = t[i]
                              \/ /\ i > Len(t) /\ i - Len(t) \in 1 .. Len(f)
                                 /\ t2[i] = f[i - Len(t)]
  BY <1>1, <1>2, <1>3
<1>5. Good(t2, e, a)
  BY <1>4 DEF Good
<1>6. Asc(t2)
  <2> SUFFICES ASSUME NEW i \in 1 .. Len(t2), NEW j \in 1 .. Len(t2), i < j
               PROVE  t2[i].n < t2[j].n
    BY DEF Asc
  <2>1. CASE i \in 1 .. Len(t) /\ j \in 1 .. Len(t)
    BY <1>1, <1>3, <2>1, SMTT(30) DEF Asc
  <2>2. CASE i \in 1 .. Len(t) /\ j > Len(t)
    <3>1. t2[i] = t[i]
      BY <1>1, <1>3, <2>2
    <3>2. j - Len(t) \in 1 .. Len(f) /\ t2[j] = f[j - Len(t)]
      BY <1>1, <1>4, <2>2
    <3> QED BY <2>2, <3>1, <3>2 DEF Before
  <2>3. CASE i > Len(t)
    <3>1. /\ i - Len(t) \in 1 .. Len(f) /\ t2[i] = f[i - Len(t)]
          /\ j - Len(t) \in 1 .. Len(f) /\ t2[j] = f[j - Len(t)]
          /\ i - Len(t) < j - Len(t)
      BY <1>1, <1>4, <2>3
    <3> QED BY <3>1 DEF Asc
  <2> QED BY <1>1, <1>4, <2>1, <2>2, <2>3
<1>7. ASSUME NEW s \in Seq(Byte), Before(s, t), Before(s, f) PROVE Before(s, t2)
  BY <1>4, <1>7 DEF Before
<1> QED BY <1>3, <1>5, <1>6, <1>7 DEF p, t2

Steps == {<<>>, <<"pointer", "init", "callback", "mutex">>, <<"init", "callback", "mutex">>,
          <<"callback", "mutex">>, <<"mutex">>, <<"forget", "deinit", "release", "clear">>,
          <<"deinit", "release", "clear">>, <<"release", "clear">>, <<"clear">>}

(* The pointer that the callback needs is gone; the port is closed too. *)
Deaf == step \in {<<"deinit", "release", "clear">>, <<"release", "clear">>, <<"clear">>}
Dirty == step \in {<<"release", "clear">>, <<"clear">>}

UartTyped ==
  /\ step \in Steps /\ era \in Nat /\ arrived \in Nat
  /\ got \in Seq(Byte) /\ rxBuffer \in Seq(Byte) /\ fifo \in Seq(Byte)

Closing ==
  /\ Deaf => ~ serialPtr
  /\ Dirty => ~ uart /\ fifo = <<>> /\ got = <<>>

OneRun ==
  /\ Len(rxBuffer) <= RxSize
  /\ Good(got, era, arrived) /\ Good(rxBuffer, era, arrived) /\ Good(fifo, era, arrived)
  /\ Asc(got) /\ Asc(rxBuffer) /\ Asc(fifo)
  /\ Before(got, rxBuffer) /\ Before(got, fifo) /\ Before(rxBuffer, fifo)

UartInv == UartTyped /\ Closing /\ (~ Dirty => OneRun)

(* A step begun goes on where the list says. *)
LEMMA GoesOn ==
  ASSUME step \in Steps, NEW what, Uart!Doing(what)
  PROVE  /\ step' \in Steps
         /\ what = "deinit" => Deaf' /\ Dirty' /\ Deaf
         /\ what = "release" => Deaf' /\ Dirty' /\ Dirty /\ Deaf
         /\ what = "clear" => ~ Deaf' /\ ~ Dirty'
         /\ what = "forget" => Deaf' /\ ~ Dirty' /\ ~ Dirty
         /\ what \in {"pointer", "init", "callback", "mutex"}
              => ~ Deaf' /\ ~ Dirty' /\ ~ Dirty
<1> USE DEF Uart!Doing, Steps, Deaf, Dirty
<1>1. CASE step = <<>>
  BY <1>1
<1>2. CASE step = <<"pointer", "init", "callback", "mutex">>
  <2>1. what = "pointer" /\ step' = <<"init", "callback", "mutex">>
    BY <1>2
  <2> QED BY <1>2, <2>1
<1>3. CASE step = <<"init", "callback", "mutex">>
  <2>1. what = "init" /\ step' = <<"callback", "mutex">>
    BY <1>3
  <2> QED BY <1>3, <2>1
<1>4. CASE step = <<"callback", "mutex">>
  <2>1. what = "callback" /\ step' = <<"mutex">>
    BY <1>4
  <2> QED BY <1>4, <2>1
<1>5. CASE step = <<"mutex">>
  <2>1. what = "mutex" /\ step' = <<>>
    BY <1>5
  <2> QED BY <1>5, <2>1
<1>6. CASE step = <<"forget", "deinit", "release", "clear">>
  <2>1. what = "forget" /\ step' = <<"deinit", "release", "clear">>
    BY <1>6
  <2> QED BY <1>6, <2>1
<1>7. CASE step = <<"deinit", "release", "clear">>
  <2>1. what = "deinit" /\ step' = <<"release", "clear">>
    BY <1>7
  <2> QED BY <1>7, <2>1
<1>8. CASE step = <<"release", "clear">>
  <2>1. what = "release" /\ step' = <<"clear">>
    BY <1>8
  <2> QED BY <1>8, <2>1
<1>9. CASE step = <<"clear">>
  <2>1. what = "clear" /\ step' = <<>>
    BY <1>9
  <2> QED BY <1>9, <2>1
<1> QED BY <1>1, <1>2, <1>3, <1>4, <1>5, <1>6, <1>7, <1>8, <1>9

(* No byte of the run moves. *)
Kept == UNCHANGED <<rxBuffer, fifo, era, arrived, got>>

LEMMA RunKept == UartTyped /\ step' \in Steps /\ Kept => UartTyped' /\ (OneRun => OneRun')
BY DEF UartTyped, Kept, OneRun, Good, Asc, Before

(* Three empty runs are one. *)
LEMMA NothingRuns ==
  ASSUME NEW e, NEW a
  PROVE  Good(<<>>, e, a) /\ Asc(<<>>) /\ <<>> \in Seq(Byte)
         /\ \A s : Before(<<>>, s) /\ Before(s, <<>>)
BY DEF Good, Asc, Before

(* Begin and End of the program, and the steps that touch no byte. *)
LEMMA QuietStep ==
  ASSUME UartInv, Uart!Begin \/ Uart!End \/ Uart!SetPointer \/ Uart!InitPort
                  \/ Uart!Register \/ Uart!MakeMutex \/ Uart!ForgetPointer
                  \/ Uart!ReleaseMutex
  PROVE  UartInv'
<1>1. Kept
  BY DEF Kept, Uart!Begin, Uart!End, Uart!SetPointer, Uart!InitPort, Uart!Register,
         Uart!MakeMutex, Uart!ForgetPointer, Uart!ReleaseMutex
<1>2. step' \in Steps /\ Closing' /\ (Dirty => Dirty')
  <2>0. step \in Steps
    BY DEF UartInv, UartTyped
  <2>1. CASE Uart!Begin
    BY <2>1 DEF Uart!Begin, Uart!BeginSteps, Steps, Closing, Deaf, Dirty
  <2>2. CASE Uart!End
    BY <2>2 DEF Uart!End, Uart!EndSteps, Steps, Closing, Deaf, Dirty
  <2>3. CASE Uart!SetPointer
    BY <2>0, <2>3, GoesOn DEF Uart!SetPointer, Closing
  <2>4. CASE Uart!InitPort
    BY <2>0, <2>4, GoesOn DEF Uart!InitPort, Closing
  <2>5. CASE Uart!Register
    BY <2>0, <2>5, GoesOn DEF Uart!Register, Closing
  <2>6. CASE Uart!MakeMutex
    BY <2>0, <2>6, GoesOn DEF Uart!MakeMutex, Closing
  <2>7. CASE Uart!ForgetPointer
    BY <2>0, <2>7, GoesOn DEF Uart!ForgetPointer, Closing
  <2>8. CASE Uart!ReleaseMutex
    BY <2>0, <2>8, GoesOn DEF Uart!ReleaseMutex, Closing, UartInv
  <2> QED BY <2>1, <2>2, <2>3, <2>4, <2>5, <2>6, <2>7, <2>8
<1> QED BY <1>1, <1>2, RunKept DEF UartInv

(* Closing the port empties the hardware; clearing, the buffer. *)
LEMMA CloseStep == UartInv /\ (Uart!DeinitPort \/ Uart!ClearBuffer) => UartInv'
<1> SUFFICES ASSUME UartInv, Uart!DeinitPort \/ Uart!ClearBuffer PROVE UartInv'
  OBVIOUS
<1>0. step \in Steps
  BY DEF UartInv, UartTyped
<1>1. CASE Uart!DeinitPort
  <2>1. step' \in Steps /\ Deaf' /\ Dirty' /\ Deaf
    BY <1>0, <1>1, GoesOn DEF Uart!DeinitPort
  <2>2. UartTyped'
    BY <1>1, <2>1, NothingRuns DEF Uart!DeinitPort, UartInv, UartTyped
  <2> QED BY <1>1, <2>1, <2>2 DEF Uart!DeinitPort, UartInv, Closing
<1>2. CASE Uart!ClearBuffer
  <2>1. step' \in Steps /\ ~ Deaf' /\ ~ Dirty' /\ Dirty
    BY <1>0, <1>2, GoesOn DEF Uart!ClearBuffer, Uart!Doing, Steps, Dirty
  <2>2. rxBuffer' = <<>> /\ fifo' = <<>> /\ got' = <<>>
    BY <1>2, <2>1 DEF Uart!ClearBuffer, UartInv, Closing
  <2>3. UartTyped'
    BY <1>2, <2>1, <2>2 DEF Uart!ClearBuffer, UartInv, UartTyped
  <2>4. OneRun'
    BY <2>2, NothingRuns, PeripheralsAssumption DEF OneRun
  <2> QED BY <2>1, <2>3, <2>4 DEF UartInv, Closing
<1> QED BY <1>1, <1>2

LEMMA ReadStep == UartInv /\ Uart!Read => UartInv'
<1> SUFFICES ASSUME UartInv, Uart!Read PROVE UartInv'
  OBVIOUS
<1>1. step = <<>> /\ step' = step /\ ~ Dirty /\ ~ Dirty' /\ ~ Deaf'
  BY DEF Uart!Read, Dirty, Deaf
<1>2. /\ UartTyped /\ OneRun /\ rxBuffer # <<>>
      /\ got' = Append(got, Head(rxBuffer)) /\ rxBuffer' = Tail(rxBuffer)
      /\ UNCHANGED <<fifo, era, arrived>>
  BY <1>1 DEF UartInv, Uart!Read
<1>3. /\ got' \in Seq(Byte) /\ rxBuffer' \in Seq(Byte)
      /\ Good(got', era, arrived) /\ Good(rxBuffer', era, arrived)
      /\ Asc(got') /\ Asc(rxBuffer') /\ Before(got', rxBuffer')
      /\ Before(got', fifo) /\ Before(rxBuffer', fifo)
      /\ Len(rxBuffer') <= Len(rxBuffer) /\ Len(rxBuffer') \in Nat /\ Len(rxBuffer) \in Nat
  BY <1>2, MoveHead DEF UartTyped, OneRun
<1>4. UartTyped'
  BY <1>1, <1>2, <1>3 DEF UartTyped
<1>5. OneRun'
  BY <1>2, <1>3, PeripheralsAssumption DEF OneRun
<1> QED BY <1>1, <1>4, <1>5 DEF UartInv, Closing

LEMMA ArriveStep == UartInv /\ Uart!Arrive => UartInv'
<1> SUFFICES ASSUME UartInv, Uart!Arrive PROVE UartInv'
  OBVIOUS
<1> DEFINE b == [era |-> era, n |-> arrived + 1]
<1>1. /\ UartTyped /\ OneRun /\ ~ Dirty /\ step' = step /\ serialPtr' = serialPtr
      /\ arrived' = arrived + 1 /\ fifo' = Append(fifo, b)
      /\ UNCHANGED <<rxBuffer, era, got>>
  BY DEF UartInv, Closing, Uart!Arrive
<1>2. b \in Byte /\ b.era = era /\ b.n = arrived + 1 /\ arrived + 1 \in Nat
  BY <1>1 DEF UartTyped, Byte
<1> HIDE DEF b
<1>3. /\ Append(fifo, b) \in Seq(Byte) /\ Good(Append(fifo, b), era, arrived + 1)
      /\ Asc(Append(fifo, b)) /\ Before(got, Append(fifo, b))
      /\ Before(rxBuffer, Append(fifo, b))
  BY <1>1, <1>2, AddLast DEF UartTyped, OneRun
<1>4. Good(got, era, arrived + 1) /\ Good(rxBuffer, era, arrived + 1)
  <2>1. ASSUME NEW s \in Seq(Byte), Good(s, era, arrived) PROVE Good(s, era, arrived + 1)
    <3> SUFFICES ASSUME NEW i \in 1 .. Len(s)
                 PROVE  s[i].era = era /\ s[i].n <= arrived + 1
      BY DEF Good
    <3>1. s[i].n \in Nat /\ arrived \in Nat
      BY <1>1, ByteIs DEF UartTyped
    <3> QED BY <2>1, <3>1 DEF Good
  <2> QED BY <1>1, <2>1 DEF UartTyped, OneRun
<1>5. UartTyped'
  BY <1>1, <1>2, <1>3 DEF UartTyped
<1>6. OneRun'
  BY <1>1, <1>3, <1>4 DEF OneRun, Asc, Before
<1>7. Closing'
  BY <1>1 DEF UartInv, Closing, Dirty, Deaf
<1> QED BY <1>5, <1>6, <1>7 DEF UartInv

LEMMA RxStep == UartInv /\ Uart!RxCallback => UartInv'
<1> SUFFICES ASSUME UartInv, Uart!RxCallback PROVE UartInv'
  OBVIOUS
<1>1. /\ UartTyped /\ OneRun /\ ~ Dirty /\ ~ Deaf /\ step' = step
      /\ rxBuffer' = Uart!Stored(fifo) /\ fifo' = <<>>
      /\ UNCHANGED <<era, arrived, got>>
  BY DEF UartInv, Closing, Uart!RxCallback, Deaf, Dirty
<1>2. PICK k \in 0 .. Len(fifo) :
        rxBuffer' = rxBuffer \o SubSeq(fifo, 1, k) /\ Len(rxBuffer) + k <= RxSize
  <2> DEFINE room == RxSize - Len(rxBuffer)
             n == IF room < Len(fifo) THEN room ELSE Len(fifo)
  <2>1. rxBuffer' = rxBuffer \o SubSeq(fifo, 1, n)
    BY <1>1 DEF Uart!Stored
  <2>2. fifo \in Seq(Byte) /\ Len(fifo) \in Nat /\ Len(rxBuffer) \in Nat /\ RxSize \in Nat
    BY <1>1, PeripheralsAssumption DEF UartTyped
  <2>3. n \in 0 .. Len(fifo) /\ Len(rxBuffer) + n <= RxSize
    BY <1>1, <2>2 DEF OneRun
  <2> HIDE DEF n
  <2> QED BY <2>1, <2>3
<1>3. /\ rxBuffer' \in Seq(Byte) /\ Good(rxBuffer', era, arrived) /\ Asc(rxBuffer')
      /\ Before(got, rxBuffer') /\ Len(rxBuffer') <= RxSize
  BY <1>1, <1>2, JoinRuns DEF UartTyped, OneRun
<1>4. UartTyped'
  BY <1>1, <1>3 DEF UartTyped
<1>5. OneRun'
  BY <1>1, <1>3, NothingRuns DEF OneRun
<1>6. Closing'
  BY <1>1 DEF Closing, Dirty, Deaf
<1> QED BY <1>4, <1>5, <1>6 DEF UartInv

LEMMA UartStep == UartInv /\ (Uart!Next \/ UNCHANGED serialVars) => UartInv'
<1> SUFFICES ASSUME UartInv, Uart!Next \/ UNCHANGED serialVars PROVE UartInv'
  OBVIOUS
<1>1. CASE UNCHANGED serialVars
  <2>1. Kept /\ step' = step /\ serialPtr' = serialPtr /\ uart' = uart
    BY <1>1 DEF serialVars, Kept
  <2>2. Closing' /\ (Dirty' <=> Dirty)
    BY <2>1 DEF UartInv, Closing, Deaf, Dirty, Kept
  <2> QED BY <2>1, <2>2, RunKept DEF UartInv, UartTyped
<1> QED
  BY <1>1, QuietStep, CloseStep, ReadStep, ArriveStep, RxStep DEF Uart!Next

LEMMA UartAlways == Spec => []UartInv
<1>1. Init => UartInv
  <2> SUFFICES ASSUME Uart!Init PROVE UartInv
    BY DEF Init
  <2>1. UartTyped /\ Closing
    BY NothingRuns DEF Uart!Init, UartTyped, Closing, Steps, Deaf, Dirty
  <2>2. OneRun
    BY NothingRuns, PeripheralsAssumption DEF Uart!Init, OneRun
  <2> QED BY <2>1, <2>2 DEF UartInv
<1>2. UartInv /\ [Next]_vars => UartInv'
  BY WhoseStep, UartStep
<1> QED BY <1>1, <1>2, PTL DEF Spec

(* Between begin() and end() a program reads this era's bytes in the order  *)
(* in which they came (SerialUART, __uartRxCallback()).                     *)
THEOREM ReadsThisEraAlways == Spec => []ReadsThisEra
<1>1. UartInv => ReadsThisEra
  <2> SUFFICES ASSUME UartInv, step = <<>> PROVE
        LET bytes == got \o rxBuffer IN
          /\ \A i \in 1 .. Len(bytes) : bytes[i].era = era
          /\ \A i, j \in 1 .. Len(bytes) : i < j => bytes[i].n < bytes[j].n
    BY DEF ReadsThisEra, Uart!ReadsThisEra
  <2>1. UartTyped /\ OneRun
    BY DEF UartInv, Dirty
  <2>2. Len(rxBuffer) \in 0 .. Len(rxBuffer) /\ SubSeq(rxBuffer, 1, Len(rxBuffer)) = rxBuffer
    BY <2>1 DEF UartTyped
  <2>3. Good(got \o rxBuffer, era, arrived) /\ Asc(got \o rxBuffer)
    BY <2>1, <2>2, JoinRuns, ZenonT(30) DEF UartTyped, OneRun
  <2> QED BY <2>3 DEF Good, Asc
<1> QED BY <1>1, UartAlways, PTL
=============================================================================
