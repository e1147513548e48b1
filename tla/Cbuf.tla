-------------------------------- MODULE Cbuf --------------------------------
(***************************************************************************)
(* The circular character buffer of cores/tuya_open/cbuf.cpp and cbuf.h.   *)
(*                                                                         *)
(* The pointers _begin and _end are kept as offsets from _buf, so _bufend  *)
(* is the offset `size'.  One slot is never used, so that a full buffer    *)
(* can be told from an empty one.                                          *)
(***************************************************************************)
EXTENDS Integers, Sequences

CONSTANTS
  Byte,           (* the values a character can take                        *)
  Zero,           (* the one memset() fills with                            *)
  Garbage,        (* what new char[] leaves in a slot                       *)
  MaxCapacity,    (* bound: the largest capacity resize() reaches           *)
  MaxChunk,       (* bound: the longest bulk transfer of one call           *)
  SizeT,          (* the number of values of a size_t                       *)
  ExactShrink     (* TRUE when callers may also ask resize() for one byte   *)
                  (* less than the buffer holds                             *)

ASSUME CbufAssumption ==
  /\ Zero \in Byte
  /\ Garbage \notin Byte
  /\ MaxCapacity \in Nat
  /\ MaxChunk \in Nat
  /\ SizeT \in Nat
  /\ SizeT > MaxCapacity + MaxChunk
  /\ ExactShrink \in BOOLEAN

VARIABLES
  size,   (* _size: the slots of the array, one more than the capacity *)
  buf,    (* the array                                                *)
  begin,  (* _begin - _buf                                            *)
  end,    (* _end - _buf                                              *)
  ret     (* what the last call returned                              *)

vars == <<size, buf, begin, end, ret>>

Chunk == UNION {[1 .. k -> Byte] : k \in 0 .. MaxChunk}

Answer(n, s) == [count |-> n, data |-> s]

-----------------------------------------------------------------------------

(* Mutant of Wrap: a cursor on _bufend is taken to be in the array. *)
WrapLate(p) == IF p > size THEN 0 ELSE p

(* wrap_if_bufend() *)
Wrap(p) == IF p = size THEN 0 ELSE p

Empty == begin = end

Full == Wrap(end + 1) = begin

Available == IF end >= begin THEN end - begin ELSE size - (begin - end)

(* Mutant of Room: the slot that is never used is counted in. *)
RoomCountsAll ==
  (IF end >= begin THEN size - (end - begin) ELSE begin - end - 1) % SizeT

(* room() counts in size_t, where one less than zero is the largest count. *)
Room ==
  (IF end >= begin THEN size - (end - begin) - 1 ELSE begin - end - 1) % SizeT

Least(a, b) == IF a < b THEN a ELSE b

(* A slot past the array is heap that belongs to somebody else. *)
At(i) == IF i < size THEN buf[i] ELSE Garbage

(* Mutant of SplitRead: one byte past the end counts as still inside. *)
SplitReadLate(n) == end < begin /\ n > size - begin + 1

(* Does a transfer of n bytes from _begin run over the end of the array? *)
SplitRead(n) == end < begin /\ n > size - begin

(* The n bytes that the two memcpy() of peek and read put into dst. *)
Copied(n) ==
  [i \in 1 .. n |-> IF SplitRead(n) /\ i > size - begin
                    THEN At(i - (size - begin) - 1)
                    ELSE At(begin + i - 1)]

(* Where _begin is after n bytes were taken. *)
BeginAfter(n) ==
  IF SplitRead(n) THEN Wrap(n - (size - begin)) ELSE Wrap(begin + n)

-----------------------------------------------------------------------------
(* The constructor. *)
Init ==
  \E capacity \in 0 .. MaxCapacity :
    /\ size = capacity + 1
    /\ buf = [i \in 0 .. capacity |-> Garbage]
    /\ begin = 0
    /\ end = 0
    /\ ret = Answer(0, <<>>)

WriteChar(c) ==
  /\ IF Full
     THEN ret' = Answer(0, <<>>) /\ UNCHANGED <<buf, end>>
     ELSE /\ buf' = [buf EXCEPT ![end] = c]
          /\ end' = Wrap(end + 1)
          /\ ret' = Answer(1, <<>>)
  /\ UNCHANGED <<size, begin>>

Write(src) ==
  LET n     == Least(Len(src), Room)
      split == end >= begin /\ n > size - end
      top   == IF split THEN size - end ELSE 0
      at    == IF split THEN 0 ELSE end
  IN /\ buf' = [i \in 0 .. size - 1 |->
                  IF split /\ i >= end THEN src[i - end + 1]
                  ELSE IF i \in at .. at + (n - top) - 1
                       THEN src[top + (i - at) + 1]
                       ELSE buf[i]]
     /\ end' = Wrap(at + (n - top))
     /\ ret' = Answer(n, <<>>)
     /\ UNCHANGED <<size, begin>>

ReadChar ==
  /\ IF Empty
     THEN ret' = Answer(-1, <<>>) /\ UNCHANGED begin
     ELSE /\ ret' = Answer(1, <<At(begin)>>)
          /\ begin' = Wrap(begin + 1)
  /\ UNCHANGED <<size, buf, end>>

Read(max) ==
  LET n == Least(max, Available) IN
    /\ ret' = Answer(n, Copied(n))
    /\ begin' = BeginAfter(n)
    /\ UNCHANGED <<size, buf, end>>

PeekChar ==
  /\ ret' = IF Empty THEN Answer(-1, <<>>) ELSE Answer(1, <<At(begin)>>)
  /\ UNCHANGED <<size, buf, begin, end>>

Peek(max) ==
  LET n == Least(max, Available) IN
    /\ ret' = Answer(n, Copied(n))
    /\ UNCHANGED <<size, buf, begin, end>>

Flush ==
  /\ begin' = 0
  /\ end' = 0
  /\ UNCHANGED <<size, buf, ret>>

(* Mutant of Remove: removing everything does not rewind _end. *)
RemoveKeepsEnd(n) ==
  /\ UNCHANGED <<size, buf, end>>
  /\ begin' = IF n >= Available THEN 0 ELSE BeginAfter(n)
  /\ ret' = Answer(IF n >= Available THEN 0 ELSE Available', <<>>)

(* remove(): dropping everything there is rewinds the buffer. *)
Remove(n) ==
  /\ UNCHANGED <<size, buf>>
  /\ IF n >= Available
     THEN begin' = 0 /\ end' = 0 /\ ret' = Answer(0, <<>>)
     ELSE /\ begin' = BeginAfter(n)
          /\ UNCHANGED end
          /\ ret' = Answer(Available', <<>>)

(* resize(n) to n + 1 slots; a failed allocation changes nothing. *)
ResizeRefused(slots) == slots < Available \/ slots = size

Resize(n) ==
  LET slots == n + 1 IN
    /\ slots <= MaxCapacity + 1
    /\ ExactShrink \/ slots # Available
    /\ \/ UNCHANGED <<size, buf, begin, end>>
       \/ /\ ~ ResizeRefused(slots)
          /\ buf' = [i \in 0 .. slots - 1 |->
                       IF i < Available THEN Copied(Available)[i + 1] ELSE Zero]
          /\ begin' = 0
          /\ end' = Available
          /\ size' = slots
    /\ ret' = Answer(size', <<>>)

(* resizeAdd(k) resizes to _size + k, which is one slot more than k extra. *)
ResizeAdd(k) == Resize(size + k)

(* available(), room() and size(). *)
Query ==
  /\ \E n \in {Available, Room, size} : ret' = Answer(n, <<>>)
  /\ UNCHANGED <<size, buf, begin, end>>

Next ==
  \/ \E c \in Byte : WriteChar(c)
  \/ \E src \in Chunk : Write(src)
  \/ \E n \in 0 .. MaxChunk : Read(n) \/ Peek(n) \/ Remove(n)
  \/ \E n \in 0 .. MaxCapacity : Resize(n) \/ ResizeAdd(n)
  \/ ReadChar \/ PeekChar \/ Flush \/ Query

Spec == Init /\ [][Next]_vars

-----------------------------------------------------------------------------
(* Properties. *)

(* Both cursors point into the array (cbuf.h:262 brings them back from     *)
(* _bufend), which has _size slots.                                        *)
TypeOK ==
  /\ size \in 1 .. MaxCapacity + 1
  /\ buf \in [0 .. size - 1 -> Byte \cup {Garbage}]
  /\ begin \in 0 .. size - 1
  /\ end \in 0 .. size - 1
  /\ ret.count \in -1 .. MaxCapacity + 1
  /\ ret.data \in Seq(Byte \cup {Garbage})

(* No call hands out a slot that no write() filled: not after a wrap, not  *)
(* after remove() rewound the cursors, not after resize() moved the bytes. *)
NoGarbageRead == ret.data \in Seq(Byte)

(* available() and room() share out the capacity between them: neither     *)
(* runs below zero, which as a size_t would be a count of about 2^32.      *)
CountsShareCapacity ==
  /\ Available >= 0
  /\ Available + Room = size - 1

(* The queue the buffer stands for: oldest byte first. *)
SlotOf(i) == IF begin + i < size THEN begin + i ELSE begin + i - size

Contents == [i \in 1 .. Available |-> At(SlotOf(i - 1))]

(* cbuf.cpp:43 says of resize() that it does "not lose any data": whatever *)
(* capacity was asked for, what is stored stays readable, so a later write *)
(* can only add to it.                                                     *)
WritesOnlyAppend ==
  [][(\E src \in Chunk : Write(src)) =>
       /\ Len(Contents) <= Len(Contents')
       /\ \A i \in 1 .. Len(Contents) : Contents'[i] = Contents[i]]_vars

Fifo == INSTANCE CbufFifo WITH q <- Contents, cap <- size - 1

(* Every call of the index arithmetic above is a call on a bounded         *)
(* first-in first-out queue, with the same answer.                         *)
ImplementsFifo == Fifo!Spec

=============================================================================
