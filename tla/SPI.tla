-------------------------------- MODULE SPI ---------------------------------
(***************************************************************************)
(* The SPI master (libraries/SPI/src/SPI.cpp) as built for T3, where       *)
(* transfer(buf, count) starts a transfer and an interrupt reports its     *)
(* end, for which endTransaction() waits.  On other boards the two do not  *)
(* meet: there EndWait passes at once.                                     *)
(*                                                                         *)
(* The interrupt comes between any two steps of the program's thread.      *)
(* Clock, mode and pin settings are left out; transfer() of one or two     *)
(* bytes blocks and changes nothing here.                                  *)
(***************************************************************************)
EXTENDS Naturals

CONSTANT MaxTransfers  (* bound: transfers that the driver queues           *)

VARIABLES
  isBeginTransaction,
  transferComplete,  (* _spi_transfer_complete                              *)
  driver,            (* has tkl_spi_init() worked, and no deinit since?     *)
  selected,          (* is the chip select low?                             *)
  running,           (* transfers the driver has not finished               *)
  at,                (* where the program's thread is                       *)
  sends              (* history: transfers begun in this transaction        *)

spiVars == <<isBeginTransaction, transferComplete, driver, selected, running,
             at, sends>>

Init ==
  /\ isBeginTransaction = FALSE
  /\ transferComplete = FALSE
  /\ driver = FALSE /\ selected = FALSE
  /\ running = 0
  /\ at = "out"
  /\ sends = 0

Goto(from, to) == at = from /\ at' = to

(* beginTransaction(): the result of tkl_spi_init() is only logged.        *)
BeginTransaction ==
  /\ at = "out" /\ ~ isBeginTransaction
  /\ isBeginTransaction' = TRUE
  /\ driver' \in BOOLEAN
  /\ selected' = TRUE
  /\ sends' = 0
  /\ UNCHANGED <<transferComplete, running, at>>

(* Mutant of TransferStarts: an earlier transfer's end is not forgotten.   *)
TransferStartsStale ==
  /\ isBeginTransaction
  /\ Goto("out", "send")
  /\ sends < MaxTransfers
  /\ sends' = sends + 1
  /\ UNCHANGED <<isBeginTransaction, transferComplete, driver, selected, running>>

(* transfer(buf, count), first half: the flag goes before the transfer is  *)
(* handed over.                                                            *)
TransferStarts ==
  /\ isBeginTransaction
  /\ Goto("out", "send")
  /\ sends < MaxTransfers
  /\ sends' = sends + 1
  /\ transferComplete' = FALSE
  /\ UNCHANGED <<isBeginTransaction, driver, selected, running>>

(* Second half; whether the driver took it is not looked at.               *)
TransferSends ==
  /\ Goto("send", "out")
  /\ \/ driver /\ running' = running + 1
     \/ UNCHANGED running
  /\ UNCHANGED <<isBeginTransaction, transferComplete, driver, selected, sends>>

(* _arduino_spi_irq_cb() *)
TransferDone ==
  /\ running > 0
  /\ running' = running - 1
  /\ transferComplete' = TRUE
  /\ UNCHANGED <<isBeginTransaction, driver, selected, at, sends>>

(* endTransaction(), and end(), which is the same.                         *)
EndTransaction ==
  /\ isBeginTransaction
  /\ Goto("out", "wait")
  /\ isBeginTransaction' = FALSE
  /\ UNCHANGED <<transferComplete, driver, selected, running, sends>>

(* The loop at line 142 ends.                                              *)
EndWait ==
  /\ Goto("wait", "deinit") /\ transferComplete
  /\ UNCHANGED <<isBeginTransaction, transferComplete, driver, selected, running, sends>>

Deinit ==
  /\ Goto("deinit", "out")
  /\ driver' = FALSE /\ selected' = FALSE
  /\ running' = 0
  /\ UNCHANGED <<isBeginTransaction, transferComplete, sends>>

Next ==
  \/ BeginTransaction \/ TransferStarts \/ TransferSends \/ TransferDone
  \/ EndTransaction \/ EndWait \/ Deinit

-----------------------------------------------------------------------------
TypeOK ==
  /\ isBeginTransaction \in BOOLEAN /\ transferComplete \in BOOLEAN
  /\ driver \in BOOLEAN /\ selected \in BOOLEAN
  /\ running \in 0 .. MaxTransfers /\ sends \in 0 .. MaxTransfers
  /\ at \in {"out", "send", "wait", "deinit"}

(* A transaction with one buffer ends only when the buffer has been        *)
(* transferred, whenever its interrupt comes and whatever earlier ones     *)
(* left in the flag.  With two buffers it may end during the second: the   *)
(* first one's interrupt can come after the second cleared the flag.       *)
OneBufferIsWhole == at = "deinit" /\ sends = 1 => running = 0

=============================================================================
