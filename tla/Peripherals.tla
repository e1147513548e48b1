----------------------------- MODULE Peripherals -----------------------------
(***************************************************************************)
(* The drivers that share nothing, side by side.  No step of one depends   *)
(* on or changes the state of another, so each property of one of them is  *)
(* decided by the runs in which that one alone moves: `focus' says which,  *)
(* and the runs are added up instead of multiplied.                        *)
(***************************************************************************)
EXTENDS Naturals, Sequences

CONSTANTS
  Callback, Arg, Null, Timer,          (* of Ticker                         *)
  RxSize, MaxBytes, MaxEnds,           (* of SerialUART                     *)
  WireSize, MaxSize,                   (* of Wire                           *)
  MaxTransfers                         (* of SPI                            *)

ASSUME PeripheralsAssumption ==
  /\ Null \notin Callback \cup Arg \cup Timer
  /\ RxSize \in Nat \ {0} /\ MaxBytes \in Nat /\ MaxEnds \in Nat
  /\ MaxSize \in Nat /\ WireSize \in 1 .. MaxSize
  /\ MaxTransfers \in Nat

VARIABLES
  focus,
  timer_handle, timers, callback_function, callback_function_with_arg, arg,
  change, firing, attached, calls, disturbed,
  serialPtr, uart, registered, mutex, rxBuffer, fifo, step, era, arrived, got,
  isBegin, bufferSize, wireRxBuffer, txBuffer, rxIndex, rxLength, txLength,
  received, written,
  isBeginTransaction, transferComplete, driver, selected, running, at, sends

Tick == INSTANCE Ticker
Uart == INSTANCE SerialUART
I2c == INSTANCE Wire WITH rxBuffer <- wireRxBuffer
Spi == INSTANCE SPI

tickerVars == <<timer_handle, timers, callback_function, callback_function_with_arg,
                arg, change, firing, attached, calls, disturbed>>
serialVars == <<serialPtr, uart, registered, mutex, rxBuffer, fifo, step, era,
                arrived, got>>
wireVars == <<isBegin, bufferSize, wireRxBuffer, txBuffer, rxIndex, rxLength,
              txLength, received, written>>
spiVars == <<isBeginTransaction, transferComplete, driver, selected, running, at,
             sends>>
vars == <<focus, tickerVars, serialVars, wireVars, spiVars>>

Init ==
  /\ focus \in {"ticker", "serial", "wire", "spi"}
  /\ Tick!Init /\ Uart!Init /\ I2c!Init /\ Spi!Init

Next ==
  /\ UNCHANGED focus
  /\ \/ /\ focus = "ticker" /\ Tick!Next
        /\ UNCHANGED <<serialVars, wireVars, spiVars>>
     \/ /\ focus = "serial" /\ Uart!Next
        /\ UNCHANGED <<tickerVars, wireVars, spiVars>>
     \/ /\ focus = "wire" /\ I2c!Next
        /\ UNCHANGED <<tickerVars, serialVars, spiVars>>
     \/ /\ focus = "spi" /\ Spi!Next
        /\ UNCHANGED <<tickerVars, serialVars, wireVars>>

Spec == Init /\ [][Next]_vars

-----------------------------------------------------------------------------
(* Each driver keeps its types. *)
TypeOK == Tick!TypeOK /\ Uart!TypeOK /\ I2c!TypeOK /\ Spi!TypeOK

(* A firing of a ticker that nothing disturbs calls what was attached, once *)
(* and with its argument (Ticker).                                         *)
CallsWhatIsAttached == Tick!CallsWhatIsAttached

(* A ticker knows every timer it has made (Ticker).                        *)
NoStrayTimer == Tick!NoStrayTimer

(* A serial port gives what arrived since the last end(), in order, once   *)
(* (SerialUART).                                                           *)
ReadsThisEra == Uart!ReadsThisEra

(* The I2C indices never outlive or exceed the buffers (Wire).             *)
IndicesMatchBuffers == I2c!IndicesMatchBuffers

(* An SPI transaction with one buffer is not cut short (SPI).              *)
OneBufferIsWhole == Spi!OneBufferIsWhole

=============================================================================
