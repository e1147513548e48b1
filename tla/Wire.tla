-------------------------------- MODULE Wire --------------------------------
(***************************************************************************)
(* The I2C master (libraries/Wire/src/Wire.cpp): its two buffers, which    *)
(* begin(), end() and setBufferSize() make and free, and the indices into  *)
(* them.  Bytes are counted, not kept; pins, clock and address are left    *)
(* out, and onReceive() and onRequest() do nothing.                        *)
(***************************************************************************)
EXTENDS Naturals

CONSTANTS
  WireSize,    (* WIRE_BUFFER_SIZE                                          *)
  MaxSize      (* bound: the largest buffer or request asked for            *)

VARIABLES
  isBegin,
  bufferSize,        (* meaningless until a buffer is made                  *)
  rxBuffer, txBuffer,   (* the bytes allocated, 0 for a null pointer        *)
  rxIndex, rxLength, txLength,
  received, written  (* history: the bytes of each buffer that the last     *)
                     (* request, or write() since it was made, has filled   *)

buffers == <<bufferSize, rxBuffer, txBuffer>>
indices == <<rxIndex, rxLength, txLength, received, written>>
wireVars == <<isBegin, buffers, indices>>

-----------------------------------------------------------------------------
Init ==
  /\ isBegin = FALSE
  /\ bufferSize = 0
  /\ rxBuffer = 0 /\ txBuffer = 0
  /\ rxIndex = 0 /\ rxLength = 0 /\ txLength = 0
  /\ received = 0 /\ written = 0

(* Mutant of Freed: the length of what was to be sent is kept.             *)
FreedKeepsTx(rx, tx) ==
  /\ rxIndex' = IF tx # 0 THEN 0 ELSE rxIndex
  /\ rxLength' = IF tx # 0 THEN 0 ELSE rxLength
  /\ txLength' = txLength
  /\ received' = 0 /\ written' = 0

(* freeWireBuffer() of these two: each resets the indices of the other.    *)
Freed(rx, tx) ==
  /\ rxIndex' = IF tx # 0 THEN 0 ELSE rxIndex
  /\ rxLength' = IF tx # 0 THEN 0 ELSE rxLength
  /\ txLength' = IF rx # 0 THEN 0 ELSE txLength
  /\ received' = 0 /\ written' = 0

NoBuffers == rxBuffer' = 0 /\ txBuffer' = 0

(* setBufferSize(n), n not 0: the buffers are there already, or new ones   *)
(* are made, or, if either is refused, none.                               *)
SizeKept(n) ==
  /\ rxBuffer # 0 /\ txBuffer # 0 /\ bufferSize = n
  /\ UNCHANGED <<buffers, indices>>

Resized(n) ==
  /\ ~ (rxBuffer # 0 /\ txBuffer # 0 /\ bufferSize = n)
  /\ Freed(rxBuffer, txBuffer)
  /\ \/ rxBuffer' = n /\ txBuffer' = n /\ bufferSize' = n
     \/ NoBuffers /\ UNCHANGED bufferSize

SetBufferSize(n) ==
  /\ IF n = 0
     THEN Freed(rxBuffer, txBuffer) /\ NoBuffers /\ UNCHANGED bufferSize
     ELSE SizeKept(n) \/ Resized(n)
  /\ UNCHANGED isBegin

(* begin(): missing buffers do not keep the bus from being initialised;    *)
(* if that fails the buffers, old or just made, are freed again.           *)
Begin ==
  /\ ~ isBegin
  /\ \/ isBegin' = TRUE /\ (SizeKept(WireSize) \/ Resized(WireSize))
     \/ /\ isBegin' = FALSE
        /\ NoBuffers
        /\ \/ Freed(rxBuffer, txBuffer) /\ UNCHANGED bufferSize
           \/ Freed(WireSize, WireSize) /\ bufferSize' = WireSize

End ==
  /\ isBegin
  /\ isBegin' = FALSE
  /\ Freed(rxBuffer, txBuffer) /\ NoBuffers
  /\ UNCHANGED bufferSize

BeginTransmission ==
  /\ txLength' = 0
  /\ UNCHANGED <<isBegin, buffers, rxIndex, rxLength, received, written>>

(* write() of a byte; write(data, n) is n of them, up to the first that    *)
(* finds no room.                                                          *)
Write ==
  /\ txBuffer # 0 /\ txLength < bufferSize
  /\ txLength' = txLength + 1
  /\ written' = IF written < txLength' THEN txLength' ELSE written
  /\ UNCHANGED <<isBegin, buffers, rxIndex, rxLength, received>>

(* endTransmission() sends the first txLength bytes, and keeps them.       *)
EndTransmission == UNCHANGED wireVars

(* Mutant of RequestFrom: the last request's length is kept on failure.    *)
RequestFromKeeps(n) ==
  /\ rxBuffer # 0 /\ txBuffer # 0
  /\ rxIndex' = 0
  /\ LET len == IF n > bufferSize THEN bufferSize ELSE n IN
       \/ rxLength' = len /\ received' = len
       \/ rxLength' = rxLength /\ received' = 0
  /\ UNCHANGED <<isBegin, buffers, txLength, written>>

RequestFrom(n) ==
  /\ rxBuffer # 0 /\ txBuffer # 0
  /\ rxIndex' = 0
  /\ LET len == IF n > bufferSize THEN bufferSize ELSE n IN
       \/ rxLength' = len /\ received' = len
       \/ rxLength' = 0 /\ received' = 0
  /\ UNCHANGED <<isBegin, buffers, txLength, written>>

Read ==
  /\ rxBuffer # 0 /\ rxIndex < rxLength
  /\ rxIndex' = rxIndex + 1
  /\ UNCHANGED <<isBegin, buffers, rxLength, txLength, received, written>>

Flush ==
  /\ rxIndex' = 0 /\ rxLength' = 0 /\ txLength' = 0
  /\ UNCHANGED <<isBegin, buffers, received, written>>

Next ==
  \/ Begin \/ End
  \/ \E n \in 0 .. MaxSize : SetBufferSize(n)
  \/ BeginTransmission \/ Write \/ EndTransmission
  \/ \E n \in 0 .. MaxSize : RequestFrom(n)
  \/ Read \/ Flush

-----------------------------------------------------------------------------
TypeOK ==
  /\ isBegin \in BOOLEAN
  /\ bufferSize \in 0 .. MaxSize
  /\ rxBuffer \in 0 .. MaxSize /\ txBuffer \in 0 .. MaxSize
  /\ rxIndex \in Nat /\ rxLength \in Nat /\ txLength \in Nat
  /\ received \in Nat /\ written \in Nat

(* Whatever is allocated, refused, freed and made again in between, what   *)
(* endTransmission() sends was written to the buffer that is there now,    *)
(* and what read() gives was received into it by the last request: neither *)
(* index outlives its buffer, a failed request leaves nothing to read, and *)
(* nothing is written past what was allocated.                             *)
IndicesMatchBuffers ==
  /\ txLength <= written /\ written <= txBuffer
  /\ rxIndex <= rxLength /\ rxLength <= received /\ received <= rxBuffer

=============================================================================
