----------------------------- MODULE SerialUART -----------------------------
(***************************************************************************)
(* A serial port (cores/tuya_open/SerialUART.cpp): begin() and end() step  *)
(* by step, read(), and the callback that the receive interrupt runs.      *)
(*                                                                         *)
(* The interrupt stops the program's thread between any two steps and runs *)
(* to its end.  The ring buffer of the Arduino API, which is not part of   *)
(* this repository, is taken to be a queue.  write() and flush() change    *)
(* nothing here.  A program calls read() and end() only after begin().     *)
(***************************************************************************)
EXTENDS Naturals, Sequences

CONSTANTS
  RxSize,      (* the 256 bytes of _rxBuffer                                *)
  MaxBytes,    (* bound: bytes that arrive between two end()                *)
  MaxEnds      (* bound: calls of end()                                     *)

VARIABLES
  serialPtr,   (* is __serialPtr[port] set?                                 *)
  uart,        (* is the port initialised?                                  *)
  registered,  (* is the callback registered?                               *)
  mutex,       (* is there a mutex?                                         *)
  rxBuffer,
  fifo,        (* what the hardware has received                            *)
  step,        (* what is left of a begin() or end()                        *)
  era,         (* history: how many end() there were                        *)
  arrived,     (* history: bytes received since                             *)
  got          (* history: bytes read since                                 *)

serialVars == <<serialPtr, uart, registered, mutex, rxBuffer, fifo, step, era,
                arrived, got>>

Received == [era : 0 .. MaxEnds, n : 1 .. MaxBytes]

BeginSteps == <<"pointer", "init", "callback", "mutex">>

(* Mutant of EndSteps: the buffer is cleared before the port is closed.    *)
EndStepsClearFirst == <<"clear", "forget", "deinit", "release">>

EndSteps == <<"forget", "deinit", "release", "clear">>

Init ==
  /\ serialPtr = FALSE /\ uart = FALSE /\ registered = FALSE /\ mutex = FALSE
  /\ rxBuffer = <<>> /\ fifo = <<>>
  /\ step = <<>>
  /\ era = 0 /\ arrived = 0 /\ got = <<>>

Begin ==
  /\ step = <<>>
  /\ step' = BeginSteps
  /\ UNCHANGED <<serialPtr, uart, registered, mutex, rxBuffer, fifo, era, arrived, got>>

End ==
  /\ step = <<>> /\ mutex
  /\ era < MaxEnds
  /\ step' = EndSteps
  /\ UNCHANGED <<serialPtr, uart, registered, mutex, rxBuffer, fifo, era, arrived, got>>

Doing(what) == step # <<>> /\ Head(step) = what /\ step' = Tail(step)

(* The steps of begin(); whether the port could be initialised is not      *)
(* looked at.                                                              *)
SetPointer ==
  /\ Doing("pointer")
  /\ serialPtr' = TRUE
  /\ UNCHANGED <<uart, registered, mutex, rxBuffer, fifo, era, arrived, got>>

InitPort ==
  /\ Doing("init")
  /\ uart' \in {uart, TRUE}
  /\ UNCHANGED <<serialPtr, registered, mutex, rxBuffer, fifo, era, arrived, got>>

Register ==
  /\ Doing("callback")
  /\ registered' = TRUE
  /\ UNCHANGED <<serialPtr, uart, mutex, rxBuffer, fifo, era, arrived, got>>

MakeMutex ==
  /\ Doing("mutex")
  /\ mutex' = TRUE
  /\ UNCHANGED <<serialPtr, uart, registered, rxBuffer, fifo, era, arrived, got>>

(* The steps of end(). *)
ForgetPointer ==
  /\ Doing("forget")
  /\ serialPtr' = FALSE
  /\ UNCHANGED <<uart, registered, mutex, rxBuffer, fifo, era, arrived, got>>

DeinitPort ==
  /\ Doing("deinit")
  /\ uart' = FALSE /\ fifo' = <<>>
  /\ era' = era + 1 /\ arrived' = 0 /\ got' = <<>>
  /\ UNCHANGED <<serialPtr, registered, mutex, rxBuffer>>

ReleaseMutex ==
  /\ Doing("release")
  /\ mutex' = FALSE
  /\ UNCHANGED <<serialPtr, uart, registered, rxBuffer, fifo, era, arrived, got>>

ClearBuffer ==
  /\ Doing("clear")
  /\ rxBuffer' = <<>>
  /\ UNCHANGED <<serialPtr, uart, registered, mutex, fifo, era, arrived, got>>

Read ==
  /\ step = <<>> /\ mutex /\ rxBuffer # <<>>
  /\ got' = Append(got, Head(rxBuffer))
  /\ rxBuffer' = Tail(rxBuffer)
  /\ UNCHANGED <<serialPtr, uart, registered, mutex, fifo, step, era, arrived>>

-----------------------------------------------------------------------------
(* Bytes arrive whenever the port is initialised.                          *)
Arrive ==
  /\ uart /\ arrived < MaxBytes
  /\ arrived' = arrived + 1
  /\ fifo' = Append(fifo, [era |-> era, n |-> arrived + 1])
  /\ UNCHANGED <<serialPtr, uart, registered, mutex, rxBuffer, step, era, got>>

(* __uartRxCallback(): all there is, of which __rxBufWrite() drops what    *)
(* does not fit.                                                           *)
Stored(bytes) ==
  LET room == RxSize - Len(rxBuffer) IN
    rxBuffer \o SubSeq(bytes, 1, IF room < Len(bytes) THEN room ELSE Len(bytes))

RxCallback ==
  /\ uart /\ registered /\ fifo # <<>> /\ serialPtr
  /\ rxBuffer' = Stored(fifo)
  /\ fifo' = <<>>
  /\ UNCHANGED <<serialPtr, uart, registered, mutex, step, era, arrived, got>>

Next ==
  \/ Begin \/ End \/ Read
  \/ SetPointer \/ InitPort \/ Register \/ MakeMutex
  \/ ForgetPointer \/ DeinitPort \/ ReleaseMutex \/ ClearBuffer
  \/ Arrive \/ RxCallback

-----------------------------------------------------------------------------
TypeOK ==
  /\ serialPtr \in BOOLEAN /\ uart \in BOOLEAN
  /\ registered \in BOOLEAN /\ mutex \in BOOLEAN
  /\ rxBuffer \in Seq(Received) /\ Len(rxBuffer) <= RxSize
  /\ fifo \in Seq(Received)
  /\ Len(step) <= 4
  /\ era \in 0 .. MaxEnds /\ arrived \in 0 .. MaxBytes
  /\ got \in Seq(Received)

(* Between begin() and end(), interrupts at any point of either, a program *)
(* reads bytes in the order in which they arrived, none twice, and none    *)
(* that arrived before the last end().                                     *)
ReadsThisEra ==
  LET bytes == got \o rxBuffer IN
    step = <<>> =>
      /\ \A i \in 1 .. Len(bytes) : bytes[i].era = era
      /\ \A i, j \in 1 .. Len(bytes) : i < j => bytes[i].n < bytes[j].n

=============================================================================
