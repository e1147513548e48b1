----------------------------- MODULE CbufProofs -----------------------------
(***************************************************************************)
(* Proofs about Cbuf, for every capacity and every set of characters.      *)
(*                                                                         *)
(* That reads return only written bytes is not inductive by itself: it     *)
(* needs to be known of every slot between the cursors (StoredWritten),    *)
(* and that needs the cursors to stay in the array (TypeOK).               *)
(*                                                                         *)
(* With the same invariant each call is a call on the queue of CbufFifo    *)
(* that has what lies between the cursors, in their order (ImplementsQueue). *)
(***************************************************************************)
EXTENDS Cbuf, SequenceTheorems, TLAPS

(* The slots between _begin and _end, seen round the end of the array. *)
InUse(i) ==
  IF begin <= end THEN begin <= i /\ i < end ELSE begin <= i \/ i < end

StoredWritten == \A i \in 0 .. size - 1 : InUse(i) => buf[i] \in Byte

CursorsOK ==
  /\ size \in Nat \ {0}
  /\ size <= MaxCapacity + 1
  /\ begin \in 0 .. size - 1
  /\ end \in 0 .. size - 1
  /\ buf \in [0 .. size - 1 -> Byte \cup {Garbage}]

AnswerOK ==
  /\ ret.count \in -1 .. MaxCapacity + 1
  /\ ret.data \in Seq(Byte)

IInv == CursorsOK /\ AnswerOK /\ StoredWritten

-----------------------------------------------------------------------------
(* A number below the modulus is its own remainder. *)
LEMMA SmallMod ==
  ASSUME NEW a \in Nat, NEW m \in Nat, a < m
  PROVE  a % m = a
  OBVIOUS

(* The distance between two cursors, seen round the end of s slots.        *)
LEMMA Distance ==
  ASSUME NEW s \in Nat \ {0}, NEW b \in 0 .. s - 1, NEW e \in 0 .. s - 1
  PROVE  (IF e >= b THEN e - b ELSE s - (b - e)) \in 0 .. s - 1
  OBVIOUS

(* What the two counting functions answer while the cursors are in the     *)
(* array.                                                                  *)
LEMMA Counts ==
  ASSUME CursorsOK
  PROVE  /\ Available \in 0 .. size - 1
         /\ Room = size - 1 - Available
  <1>1. Available \in 0 .. size - 1
    BY DEF CursorsOK, Available
  <1>2. size - 1 - Available \in Nat /\ size - 1 - Available < SizeT
    BY <1>1, CbufAssumption DEF CursorsOK
  <1>3. Room = (size - 1 - Available) % SizeT
    BY DEF CursorsOK, Available, Room
  <1> QED
    BY <1>1, <1>2, <1>3, SmallMod, CbufAssumption

(* Taking n of the stored bytes yields written bytes, and leaves the       *)
(* cursor in the array with only stored slots behind it.                   *)
LEMMA TakeBytes ==
  ASSUME CursorsOK, StoredWritten, NEW n \in Nat, n <= Available
  PROVE  /\ Copied(n) \in Seq(Byte)
         /\ BeginAfter(n) \in 0 .. size - 1
         /\ \A i \in 0 .. size - 1 :
              (IF BeginAfter(n) <= end THEN BeginAfter(n) <= i /\ i < end
                                       ELSE BeginAfter(n) <= i \/ i < end)
              => InUse(i)
  <1>1. \A i \in 1 .. n : (IF SplitRead(n) /\ i > size - begin
                           THEN At(i - (size - begin) - 1)
                           ELSE At(begin + i - 1)) \in Byte
    <2> TAKE i \in 1 .. n
    <2>1. CASE SplitRead(n) /\ i > size - begin
      <3> DEFINE j == i - (size - begin) - 1
      <3>1. j \in 0 .. size - 1 /\ InUse(j)
        BY <2>1 DEF CursorsOK, InUse, SplitRead, Available
      <3> QED
        BY <2>1, <3>1 DEF At, StoredWritten, CursorsOK
    <2>2. CASE ~ (SplitRead(n) /\ i > size - begin)
      <3> DEFINE j == begin + i - 1
      <3>1. j \in 0 .. size - 1 /\ InUse(j)
        BY <2>2 DEF CursorsOK, InUse, SplitRead, Available
      <3> QED
        BY <2>2, <3>1 DEF At, StoredWritten, CursorsOK
    <2> QED
      BY <2>1, <2>2
  <1>2. Copied(n) \in [1 .. n -> Byte]
    BY <1>1 DEF Copied
  <1>3. BeginAfter(n) \in 0 .. size - 1
    BY DEF BeginAfter, SplitRead, Wrap, CursorsOK, Available
  <1>4. \A i \in 0 .. size - 1 :
          (IF BeginAfter(n) <= end THEN BeginAfter(n) <= i /\ i < end
                                   ELSE BeginAfter(n) <= i \/ i < end)
          => InUse(i)
    BY DEF BeginAfter, SplitRead, Wrap, CursorsOK, Available, InUse
  <1>5. Copied(n) \in Seq(Byte)
    BY <1>2
  <1> QED
    BY <1>3, <1>4, <1>5

(* Init, and every call while resize() is not asked for exactly one byte   *)
(* less than is stored, keeps the strengthened invariant.                  *)
LEMMA InitIInv == Init => IInv
  <1> SUFFICES ASSUME NEW capacity \in 0 .. MaxCapacity,
                      size = capacity + 1,
                      buf = [i \in 0 .. capacity |-> Garbage],
                      begin = 0, end = 0, ret = Answer(0, <<>>)
               PROVE  IInv
    BY DEF Init
  <1>1. CursorsOK
    BY CbufAssumption DEF CursorsOK
  <1>2. AnswerOK
    BY CbufAssumption DEF AnswerOK, Answer
  <1> QED
    BY <1>1, <1>2 DEF IInv, StoredWritten, InUse

(* An answer without data is well formed if its count is in range.         *)
LEMMA CountAnswer ==
  ASSUME NEW k \in -1 .. MaxCapacity + 1, ret' = Answer(k, <<>>)
  PROVE  AnswerOK'
  BY DEF AnswerOK, Answer

LEMMA WriteCharIInv ==
  ASSUME IInv, NEW c \in Byte, WriteChar(c) PROVE IInv'
  <1> USE CbufAssumption DEF IInv, WriteChar
  <1>1. CursorsOK'
    BY DEF CursorsOK, Wrap
  <1>2. AnswerOK'
    <2>1. PICK k \in {0, 1} : ret' = Answer(k, <<>>)
      OBVIOUS
    <2> QED
      BY <2>1, CountAnswer
  <1>3. StoredWritten'
    BY DEF CursorsOK, StoredWritten, InUse, Wrap, Full
  <1> QED
    BY <1>1, <1>2, <1>3

LEMMA WriteIInv ==
  ASSUME IInv, NEW src \in Chunk, Write(src) PROVE IInv'
  <1> DEFINE n     == Least(Len(src), Room)
             split == end >= begin /\ n > size - end
             top   == IF split THEN size - end ELSE 0
             at    == IF split THEN 0 ELSE end
  <1>1. /\ src \in Seq(Byte)
        /\ \A i \in 1 .. Len(src) : src[i] \in Byte
    BY CbufAssumption DEF Chunk
  <1>2. /\ CursorsOK
        /\ n \in Nat /\ n <= Len(src)
        /\ n <= size - 1 - Available
        /\ Available \in 0 .. size - 1
    BY <1>1, Counts DEF IInv, Least, CursorsOK
  <1>3. /\ buf' = [i \in 0 .. size - 1 |->
                     IF split /\ i >= end THEN src[i - end + 1]
                     ELSE IF i \in at .. at + (n - top) - 1
                          THEN src[top + (i - at) + 1]
                          ELSE buf[i]]
        /\ end' = Wrap(at + (n - top))
        /\ ret' = Answer(n, <<>>)
        /\ UNCHANGED <<size, begin>>
    BY DEF Write
  <1> HIDE DEF n
  <1>4. \A i \in 0 .. size - 1 :
          /\ split /\ i >= end => i - end + 1 \in 1 .. Len(src)
          /\ i \in at .. at + (n - top) - 1
               => top + (i - at) + 1 \in 1 .. Len(src)
    BY <1>2, <1>1 DEF CursorsOK, Available
  <1>5. end' \in 0 .. size - 1
    BY <1>2, <1>3 DEF CursorsOK, Available, Wrap
  <1>6. CursorsOK'
    <2>1. \A i \in 0 .. size - 1 : buf'[i] \in Byte \cup {Garbage}
      BY <1>1, <1>2, <1>3, <1>4 DEF CursorsOK
    <2> QED
      BY <2>1, <1>2, <1>3, <1>5 DEF CursorsOK
  <1>7. AnswerOK'
    BY <1>2, <1>3, CbufAssumption DEF AnswerOK, Answer, CursorsOK
  <1>8. StoredWritten'
    <2> SUFFICES ASSUME NEW i \in 0 .. size - 1, InUse(i)'
                 PROVE  buf'[i] \in Byte
      BY <1>3 DEF StoredWritten
    <2>1. CASE split /\ i >= end
      BY <2>1, <1>1, <1>3, <1>4
    <2>2. CASE ~ (split /\ i >= end) /\ i \in at .. at + (n - top) - 1
      BY <2>2, <1>1, <1>3, <1>4
    <2>3. CASE ~ (split /\ i >= end) /\ i \notin at .. at + (n - top) - 1
      <3>1. InUse(i)
        BY <2>3, <1>2, <1>3 DEF InUse, Wrap, CursorsOK, Available
      <3> QED
        BY <2>3, <3>1, <1>3 DEF IInv, StoredWritten
    <2> QED
      BY <2>1, <2>2, <2>3
  <1> QED
    BY <1>6, <1>7, <1>8 DEF IInv

LEMMA ReadersIInv ==
  ASSUME IInv, NEW max \in Nat,
         ReadChar \/ Read(max) \/ PeekChar \/ Peek(max)
  PROVE  IInv'
  <1>1. ASSUME NEW n \in Nat, n <= Available,
               begin' = BeginAfter(n) \/ UNCHANGED begin,
               UNCHANGED <<size, buf, end>>, ret' = Answer(n, Copied(n))
        PROVE  IInv'
    <2>1. /\ Copied(n) \in Seq(Byte)
          /\ begin' \in 0 .. size - 1
          /\ \A i \in 0 .. size - 1 : InUse(i)' => InUse(i)
      BY <1>1, TakeBytes DEF IInv, InUse, CursorsOK
    <2>2. n \in -1 .. MaxCapacity + 1
      BY <1>1, Counts, CbufAssumption DEF IInv, CursorsOK
    <2> QED
      BY <1>1, <2>1, <2>2
      DEF IInv, CursorsOK, AnswerOK, StoredWritten, Answer
  <1>2. ASSUME NEW m \in Nat
        PROVE  /\ Least(m, Available) \in Nat
               /\ Least(m, Available) <= Available
    BY Counts DEF IInv, CursorsOK, Least
  <1>3. CASE Empty /\ (ReadChar \/ PeekChar)
    <2>1. UNCHANGED <<size, buf, begin, end>> /\ ret' = Answer(-1, <<>>)
      BY <1>3 DEF ReadChar, PeekChar
    <2>2. AnswerOK'
      BY <2>1, CbufAssumption DEF AnswerOK, Answer
    <2> QED
      BY <2>1, <2>2 DEF IInv, CursorsOK, StoredWritten, InUse
  <1>4. CASE ~ Empty /\ (ReadChar \/ PeekChar)
    <2>1. 1 <= Available
      BY <1>4 DEF Empty, Available, IInv, CursorsOK
    <2>2. Copied(1) = <<At(begin)>>
      BY DEF Copied, SplitRead, IInv, CursorsOK
    <2>3. BeginAfter(1) = Wrap(begin + 1)
      BY DEF BeginAfter, SplitRead, IInv, CursorsOK
    <2> QED
      BY <1>4, <1>1, <2>1, <2>2, <2>3 DEF ReadChar, PeekChar
  <1>5. CASE Read(max) \/ Peek(max)
    <2> DEFINE n == Least(max, Available)
    <2>1. /\ ret' = Answer(n, Copied(n))
          /\ begin' = BeginAfter(n) \/ UNCHANGED begin
          /\ UNCHANGED <<size, buf, end>>
      BY <1>5 DEF Read, Peek
    <2> QED
      BY <1>1, <1>2, <2>1
  <1> QED
    BY <1>3, <1>4, <1>5

LEMMA RemoveIInv ==
  ASSUME IInv, NEW n \in Nat, Remove(n) PROVE IInv'
  <1>1. CASE n >= Available
    <2>1. /\ UNCHANGED <<size, buf>> /\ begin' = 0 /\ end' = 0
          /\ ret' = Answer(0, <<>>)
      BY <1>1 DEF Remove
    <2>2. CursorsOK' /\ StoredWritten'
      BY <2>1 DEF IInv, CursorsOK, StoredWritten, InUse
    <2>3. AnswerOK'
      BY <2>1, CbufAssumption DEF AnswerOK, Answer
    <2> QED
      BY <2>2, <2>3 DEF IInv
  <1>2. CASE ~ (n >= Available)
    <2>1. n <= Available
      BY <1>2, Counts DEF IInv, CursorsOK
    <2>2. /\ begin' \in 0 .. size - 1
          /\ \A i \in 0 .. size - 1 : InUse(i)' => InUse(i)
      BY <1>2, <2>1, TakeBytes DEF Remove, IInv, InUse
    <2>3. CursorsOK' /\ StoredWritten'
      BY <1>2, <2>2 DEF Remove, IInv, CursorsOK, StoredWritten
    <2>4. Available' \in 0 .. size' - 1
      <3>1. /\ size' \in Nat \ {0}
            /\ begin' \in 0 .. size' - 1
            /\ end' \in 0 .. size' - 1
        BY <2>3 DEF CursorsOK
      <3> QED
        BY <3>1, Distance DEF Available
    <2> QED
      BY <1>2, <2>3, <2>4, CbufAssumption, SMTT(30)
      DEF Remove, IInv, AnswerOK, Answer, CursorsOK
  <1> QED
    BY <1>1, <1>2

LEMMA ResizeIInv ==
  ASSUME IInv, ~ ExactShrink, NEW n \in Nat, Resize(n) PROVE IInv'
  <1>1. CASE UNCHANGED <<size, buf, begin, end>>
    BY <1>1, CbufAssumption DEF Resize, IInv, CursorsOK, AnswerOK,
       StoredWritten, InUse, Answer
  <1>2. CASE ~ UNCHANGED <<size, buf, begin, end>>
    <2> DEFINE slots == n + 1
    <2>1. /\ slots <= MaxCapacity + 1
          /\ slots > Available
          /\ buf' = [i \in 0 .. slots - 1 |->
                       IF i < Available THEN Copied(Available)[i + 1]
                                        ELSE Zero]
          /\ begin' = 0 /\ end' = Available /\ size' = slots
          /\ ret' = Answer(size', <<>>)
      BY <1>2, Counts DEF Resize, ResizeRefused, IInv, CursorsOK
    <2>2. /\ Available \in Nat
          /\ \A i \in 1 .. Available : Copied(Available)[i] \in Byte
      <3>1. Available \in Nat
        BY Counts DEF IInv, CursorsOK
      <3>2. Copied(Available) \in Seq(Byte) /\ Len(Copied(Available)) = Available
        BY <3>1, TakeBytes DEF IInv, Copied
      <3> QED
        BY <3>1, <3>2
    <2>3. \A i \in 0 .. slots - 1 : buf'[i] \in Byte
      BY <2>1, <2>2, CbufAssumption
    <2>4. CursorsOK' /\ StoredWritten'
      BY <2>1, <2>2, <2>3 DEF CursorsOK, StoredWritten
    <2> QED
      BY <2>1, <2>4, CbufAssumption DEF IInv, AnswerOK, Answer
  <1> QED
    BY <1>1, <1>2

LEMMA NextIInv == ASSUME ~ ExactShrink PROVE IInv /\ [Next]_vars => IInv'
  <1> SUFFICES ASSUME IInv, [Next]_vars PROVE IInv'
    OBVIOUS
  <1>1. ASSUME NEW c \in Byte, WriteChar(c) PROVE IInv'
    BY <1>1, WriteCharIInv
  <1>2. ASSUME NEW src \in Chunk, Write(src) PROVE IInv'
    BY <1>2, WriteIInv
  <1>3. ASSUME NEW n \in 0 .. MaxChunk, Read(n) \/ Peek(n) PROVE IInv'
    BY <1>3, ReadersIInv
  <1>4. ASSUME NEW n \in 0 .. MaxChunk, Remove(n) PROVE IInv'
    BY <1>4, RemoveIInv
  <1>5. ASSUME NEW n \in 0 .. MaxCapacity, Resize(n) PROVE IInv'
    BY <1>5, ResizeIInv
  <1>6. ASSUME NEW n \in 0 .. MaxCapacity, ResizeAdd(n) PROVE IInv'
    <2>1. size + n \in Nat
      BY DEF IInv, CursorsOK
    <2> QED
      BY <1>6, <2>1, ResizeIInv DEF ResizeAdd
  <1>7. CASE ReadChar \/ PeekChar
    BY <1>7, ReadersIInv
  <1>8. CASE Flush
    BY <1>8 DEF Flush, IInv, CursorsOK, AnswerOK, StoredWritten, InUse
  <1>9. CASE Query
    <2>1. {Available, Room, size} \subseteq -1 .. MaxCapacity + 1
      BY Counts, CbufAssumption DEF IInv, CursorsOK
    <2> QED
      BY <1>9, <2>1
      DEF Query, IInv, CursorsOK, AnswerOK, StoredWritten, InUse, Answer
  <1>10. CASE UNCHANGED vars
    BY <1>10 DEF vars, IInv, CursorsOK, AnswerOK, StoredWritten, InUse
  <1> QED
    BY <1>1, <1>2, <1>3, <1>4, <1>5, <1>6, <1>7, <1>8, <1>9, <1>10 DEF Next

-----------------------------------------------------------------------------
(* The cursors stay in the array: whatever the calls and their order,      *)
(* unless resize() is asked for exactly one byte less than is stored.      *)
THEOREM CursorsStayInside == ASSUME ~ ExactShrink PROVE Spec => []TypeOK
  <1>1. IInv => TypeOK
    BY DEF IInv, CursorsOK, AnswerOK, TypeOK
  <1> QED
    BY InitIInv, NextIInv, <1>1, PTL DEF Spec

(* read() and peek() hand out only bytes that some write() stored.         *)
THEOREM ReadsOnlyWritten == ASSUME ~ ExactShrink PROVE Spec => []NoGarbageRead
  <1>1. IInv => NoGarbageRead
    BY DEF IInv, AnswerOK, NoGarbageRead
  <1> QED
    BY InitIInv, NextIInv, <1>1, PTL DEF Spec

(* available() and room() add up to the capacity, so room() never wraps.   *)
THEOREM RoomNeverWraps ==
  ASSUME ~ ExactShrink PROVE Spec => []CountsShareCapacity
  <1>1. IInv => CountsShareCapacity
    BY Counts DEF IInv, CursorsOK, CountsShareCapacity
  <1> QED
    BY InitIInv, NextIInv, <1>1, PTL DEF Spec

-----------------------------------------------------------------------------
(* The refinement.  The queue of f from cursor b to cursor e, in s slots,  *)
(* of which Contents is the one of the state.                              *)
Between(s, b, e) == IF e >= b THEN e - b ELSE s - (b - e)
Slot(s, b, i) == IF b + i < s THEN b + i ELSE b + i - s
Queue(s, f, b, e) == [i \in 1 .. Between(s, b, e) |-> f[Slot(s, b, i - 1)]]

(* The places of the queue, and those that n more bytes take, apart and in *)
(* the array, whether or not the n bytes run over its end.                 *)
LEMMA OldSlots ==
  ASSUME NEW s \in Nat \ {0}, NEW b \in 0 .. s - 1, NEW e \in 0 .. s - 1, NEW n \in Nat,
         n <= s - 1 - Between(s, b, e), NEW i \in 1 .. Between(s, b, e)
  PROVE  /\ Slot(s, b, i - 1) \in 0 .. s - 1
         /\ e >= b /\ n > s - e => Slot(s, b, i - 1) < e /\ Slot(s, b, i - 1) >= n - (s - e)
         /\ ~ (e >= b /\ n > s - e) => Slot(s, b, i - 1) < e \/ Slot(s, b, i - 1) >= e + n
  <1>1. CASE e >= b
    BY <1>1 DEF Between, Slot
  <1>2. CASE e < b
    BY <1>2 DEF Between, Slot
  <1> QED
    BY <1>1, <1>2

LEMMA SlotInside ==
  ASSUME NEW s \in Nat \ {0}, NEW b \in 0 .. s - 1, NEW e \in 0 .. s - 1,
         NEW i \in 1 .. Between(s, b, e)
  PROVE  Slot(s, b, i - 1) < s
  BY DEF Between, Slot

LEMMA NewSlots ==
  ASSUME NEW s \in Nat \ {0}, NEW b \in 0 .. s - 1, NEW e \in 0 .. s - 1, NEW n \in Nat,
         n <= s - 1 - Between(s, b, e), NEW j \in 1 .. n
  PROVE  LET k == Slot(s, b, Between(s, b, e) + j - 1)
         IN /\ k \in 0 .. s - 1
            /\ k = IF e + j - 1 < s THEN e + j - 1 ELSE e + j - 1 - s
            /\ ~ (e >= b /\ n > s - e) => e + j - 1 < s
  <1>1. CASE e >= b
    BY <1>1 DEF Between, Slot
  <1>2. CASE e < b
    BY <1>2 DEF Between, Slot
  <1> QED
    BY <1>1, <1>2

LEMMA ContentsIs ==
  ASSUME CursorsOK
  PROVE  Contents = Queue(size, buf, begin, end) /\ Available = Between(size, begin, end)
  <1>1. Available = Between(size, begin, end) /\ Available \in 0 .. size - 1
    BY Counts DEF Available, Between
  <1>2. \A i \in 1 .. Available : At(SlotOf(i - 1)) = buf[Slot(size, begin, i - 1)]
    BY <1>1 DEF At, SlotOf, Slot, CursorsOK
  <1> QED
    BY <1>1, <1>2 DEF Contents, Queue

(* Of a queue whose bytes were written all that the steps ask. *)
LEMMA QueueIs ==
  ASSUME IInv
  PROVE  /\ Contents \in Seq(Byte) /\ Len(Contents) = Available
         /\ Available \in 0 .. size - 1
         /\ \A i \in 1 .. Available : /\ Slot(size, begin, i - 1) \in 0 .. size - 1
                                      /\ InUse(Slot(size, begin, i - 1))
                                      /\ Contents[i] = buf[Slot(size, begin, i - 1)]
  <1>1. /\ Contents = Queue(size, buf, begin, end)
        /\ Available = Between(size, begin, end) /\ Available \in 0 .. size - 1
    BY ContentsIs, Counts DEF IInv
  <1>2. \A i \in 1 .. Available : /\ Slot(size, begin, i - 1) \in 0 .. size - 1
                                  /\ InUse(Slot(size, begin, i - 1))
    BY <1>1 DEF Between, Slot, InUse, IInv, CursorsOK
  <1>3. \A i \in 1 .. Available : buf[Slot(size, begin, i - 1)] \in Byte
    BY <1>2 DEF IInv, StoredWritten
  <1>4. Contents \in [1 .. Available -> Byte]
    BY <1>1, <1>3 DEF Queue
  <1>5. Contents \in Seq(Byte) /\ Len(Contents) = Available
    BY <1>1, <1>4
  <1>6. \A i \in 1 .. Available : Contents[i] = buf[Slot(size, begin, i - 1)]
    BY <1>1 DEF Queue
  <1> QED
    BY <1>1, <1>2, <1>5, <1>6

(* What n bytes from the beginning are, and what is left of the queue when *)
(* they were taken.                                                        *)
LEMMA TakeIs ==
  ASSUME IInv, NEW n \in Nat, n <= Available
  PROVE  /\ Copied(n) = SubSeq(Contents, 1, n)
         /\ Queue(size, buf, BeginAfter(n), end) = SubSeq(Contents, n + 1, Len(Contents))
  <1> DEFINE b == BeginAfter(n)
             rest == Queue(size, buf, b, end)
  <1>1. /\ Contents \in Seq(Byte) /\ Len(Contents) = Available
        /\ Available \in 0 .. size - 1
        /\ \A i \in 1 .. Available : Contents[i] = buf[Slot(size, begin, i - 1)]
    BY QueueIs
  <1>2. Copied(n) = SubSeq(Contents, 1, n)
    <2>1. \A i \in 1 .. n : Copied(n)[i] = Contents[i]
      <3> TAKE i \in 1 .. n
      <3>1. i \in 1 .. Available
        BY <1>1
      <3>2. (IF SplitRead(n) /\ i > size - begin THEN i - (size - begin) - 1
                                                 ELSE begin + i - 1)
              = Slot(size, begin, i - 1)
        BY <3>1 DEF SplitRead, Slot, IInv, CursorsOK, Available
      <3>3. Slot(size, begin, i - 1) < size
        BY <3>1, QueueIs DEF IInv, CursorsOK
      <3> QED
        BY <1>1, <3>1, <3>2, <3>3 DEF Copied, At
    <2>2. Copied(n) \in Seq(Byte) /\ Len(Copied(n)) = n
      BY TakeBytes DEF IInv, Copied
    <2>3. /\ SubSeq(Contents, 1, n) \in Seq(Byte) /\ Len(SubSeq(Contents, 1, n)) = n
          /\ \A i \in 1 .. n : SubSeq(Contents, 1, n)[i] = Contents[i]
      BY <1>1
    <2> QED
      BY <2>1, <2>2, <2>3, SeqEqual
  <1>3. Between(size, b, end) = Available - n
    BY <1>1 DEF Between, BeginAfter, SplitRead, Wrap, IInv, CursorsOK, Available
  <1>4. \A j \in 1 .. Available - n : Slot(size, b, j - 1) = Slot(size, begin, n + j - 1)
    BY <1>1 DEF Slot, BeginAfter, SplitRead, Wrap, IInv, CursorsOK, Available
  <1> HIDE DEF b
  <1>5. rest = SubSeq(Contents, n + 1, Len(Contents))
    <2>1. /\ SubSeq(Contents, n + 1, Len(Contents)) \in Seq(Byte)
          /\ Len(SubSeq(Contents, n + 1, Len(Contents))) = Available - n
          /\ \A j \in 1 .. Available - n :
               SubSeq(Contents, n + 1, Len(Contents))[j] = Contents[n + j]
      BY <1>1
    <2>2. \A j \in 1 .. Available - n : rest[j] = Contents[n + j]
      <3> TAKE j \in 1 .. Available - n
      <3>1. n + j \in 1 .. Available
        BY <1>1
      <3>2. rest[j] = buf[Slot(size, b, j - 1)]
        BY <1>3 DEF Queue
      <3> QED
        BY <1>1, <1>4, <3>1, <3>2
    <2>3. rest \in Seq(Byte) /\ Len(rest) = Available - n
      <3>1. \A j \in 1 .. Available - n : n + j \in 1 .. Len(Contents) /\ Contents[n + j] \in Byte
        BY <1>1
      <3>2. rest \in [1 .. Available - n -> Byte]
        BY <1>3, <2>2, <3>1 DEF Queue
      <3>3. Available - n \in Nat
        BY <1>1
      <3> QED
        BY <3>2, <3>3
    <2> QED
      BY <2>1, <2>2, <2>3, SeqEqual
  <1> QED
    BY <1>2, <1>5 DEF b

(* The queue of no slots is empty. *)
LEMMA NoQueue ==
  ASSUME NEW s, NEW f, NEW b \in Nat
  PROVE  Queue(s, f, b, b) = <<>>
  BY DEF Queue, Between

(* The contents after a step that keeps the invariant. *)
LEMMA ContentsAfter ==
  IInv' => Contents' = Queue(size', buf', begin', end')
  <1> SUFFICES ASSUME CursorsOK' PROVE Contents' = Queue(size', buf', begin', end')
    BY DEF IInv
  <1>1. Available' = Between(size', begin', end') /\ Available' \in 0 .. size' - 1
    BY Distance DEF Available, Between, CursorsOK
  <1>2. \A i \in 1 .. Available' : At(SlotOf(i - 1))' = buf'[Slot(size', begin', i - 1)]
    <2> TAKE i \in 1 .. Available'
    <2>1. SlotOf(i - 1)' = Slot(size', begin', i - 1)
      BY DEF SlotOf, Slot
    <2>2. Slot(size', begin', i - 1) < size'
      <3>1. size' \in Nat \ {0} /\ begin' \in 0 .. size' - 1 /\ end' \in 0 .. size' - 1
        BY DEF CursorsOK
      <3>2. i \in 1 .. Between(size', begin', end')
        BY <1>1
      <3> QED
        BY <3>1, <3>2, SlotInside
    <2> QED
      BY <2>1, <2>2 DEF At
  <1> QED
    BY <1>1, <1>2 DEF Contents, Queue

(* Bytes written after the end. *)
LEMMA WriteIs ==
  ASSUME NEW src \in Chunk, IInv, IInv', Write(src)
  PROVE  Fifo!Put(src)
  <1> DEFINE n     == Least(Len(src), Room)
             split == end >= begin /\ n > size - end
             top   == IF split THEN size - end ELSE 0
             at    == IF split THEN 0 ELSE end
             q2    == Contents \o SubSeq(src, 1, n)
  <1>1. src \in Seq(Byte) /\ Len(src) \in Nat
    BY CbufAssumption DEF Chunk
  <1>2. /\ Contents \in Seq(Byte) /\ Len(Contents) = Available
        /\ Available \in 0 .. size - 1 /\ Room = size - 1 - Available
        /\ \A i \in 1 .. Available : Contents[i] = buf[Slot(size, begin, i - 1)]
    BY QueueIs, Counts DEF IInv
  <1>3. /\ n \in Nat /\ n <= Len(src) /\ n <= size - 1 - Available
        /\ n = Fifo!MinOf(Len(src), size - 1 - Len(Contents))
    BY <1>1, <1>2 DEF Least, Fifo!MinOf, IInv, CursorsOK
  <1>4. /\ buf' = [i \in 0 .. size - 1 |->
                     IF split /\ i >= end THEN src[i - end + 1]
                     ELSE IF i \in at .. at + (n - top) - 1
                          THEN src[top + (i - at) + 1]
                          ELSE buf[i]]
        /\ end' = Wrap(at + (n - top))
        /\ ret' = Answer(n, <<>>)
        /\ UNCHANGED <<size, begin>>
    BY DEF Write
  <1> HIDE DEF n
  <1>12. /\ size \in Nat \ {0} /\ begin \in 0 .. size - 1 /\ end \in 0 .. size - 1
         /\ Available = IF end >= begin THEN end - begin ELSE size - (begin - end)
    BY DEF Available, IInv, CursorsOK
  <1>5. Between(size, begin, Wrap(at + (n - top))) = Available + n
    <2>1. CASE split
      BY <1>12, <1>3, <2>1 DEF Between, Wrap
    <2>2. CASE ~ split
      BY <1>12, <1>3, <2>2, SMTT(30) DEF Between, Wrap
    <2> QED
      BY <2>1, <2>2
  <1>6. ASSUME NEW i \in 1 .. Available, NEW k, k = Slot(size, begin, i - 1)
        PROVE  k \in 0 .. size - 1 /\ ~ (split /\ k >= end) /\ k \notin at .. at + (n - top) - 1
    <2>1. /\ k \in 0 .. size - 1
          /\ end >= begin /\ n > size - end => k < end /\ k >= n - (size - end)
          /\ ~ (end >= begin /\ n > size - end) => k < end \/ k >= end + n
      BY <1>3, <1>6, <1>12, OldSlots DEF Between
    <2> QED
      BY <1>3, <1>12, <2>1
  <1>7. ASSUME NEW j \in 1 .. n, NEW k, k = Slot(size, begin, Available + j - 1)
        PROVE  /\ k \in 0 .. size - 1
               /\ split /\ k >= end => k - end + 1 = j
               /\ ~ (split /\ k >= end) => /\ k \in at .. at + (n - top) - 1
                                           /\ top + (k - at) + 1 = j
    <2>1. /\ k \in 0 .. size - 1
          /\ k = IF end + j - 1 < size THEN end + j - 1 ELSE end + j - 1 - size
          /\ ~ (end >= begin /\ n > size - end) => end + j - 1 < size
      <3>1. Available = Between(size, begin, end)
        BY <1>12 DEF Between
      <3>2. /\ n <= size - 1 - Between(size, begin, end)
            /\ k = Slot(size, begin, Between(size, begin, end) + j - 1)
        BY <1>3, <1>7, <3>1
      <3> QED
        BY <1>3, <1>12, <3>2, NewSlots
    <2> QED
      BY <1>3, <1>12, <2>1
  <1>8. /\ SubSeq(src, 1, n) \in Seq(Byte) /\ Len(SubSeq(src, 1, n)) = n
        /\ \A i \in 1 .. n : SubSeq(src, 1, n)[i] = src[i]
    BY <1>1, <1>3
  <1>9. /\ q2 \in Seq(Byte) /\ Len(q2) = Available + n
        /\ \A i \in 1 .. Available : q2[i] = Contents[i]
        /\ \A i \in Available + 1 .. Available + n : q2[i] = src[i - Available]
    BY <1>2, <1>3, <1>8, ConcatProperties, SMTT(30)
  <1> HIDE DEF q2
  <1>10. \A i \in 1 .. Available + n : buf'[Slot(size, begin, i - 1)] = q2[i]
    <2> TAKE i \in 1 .. Available + n
    <2>1. CASE i \in 1 .. Available
      BY <1>2, <1>4, <1>6, <1>9, <2>1
    <2>2. CASE i \in Available + 1 .. Available + n
      <3> DEFINE k == Slot(size, begin, i - 1)
                 j == i - Available
      <3>1. j \in 1 .. n /\ k = Slot(size, begin, Available + j - 1) /\ q2[i] = src[j]
            /\ k = Slot(size, begin, i - 1)
        BY <1>2, <1>3, <1>9, <2>2
      <3> HIDE DEF k, j
      <3>2. CASE split /\ k >= end
        BY <1>4, <1>7, <3>1, <3>2
      <3>3. CASE ~ (split /\ k >= end)
        BY <1>4, <1>7, <3>1, <3>3
      <3> QED
        BY <3>1, <3>2, <3>3 DEF k
    <2> QED
      BY <1>2, <1>3, <2>1, <2>2
  <1>11. Contents' = q2
    <2>1. Contents' = [i \in 1 .. Available + n |-> buf'[Slot(size, begin, i - 1)]]
      BY <1>4, <1>5, ContentsAfter DEF Queue
    <2>2. q2 = [i \in 1 .. Available + n |-> q2[i]]
      BY <1>9
    <2> QED
      BY <1>10, <2>1, <2>2
  <1> QED
    BY <1>3, <1>4, <1>11 DEF Fifo!Put, Fifo!Prefix, Fifo!Answer, Answer, q2

LEMMA WriteCharIs ==
  ASSUME NEW c \in Byte, IInv, IInv', WriteChar(c)
  PROVE  Fifo!Put(<<c>>)
  <1>1. /\ Contents \in Seq(Byte) /\ Len(Contents) = Available
        /\ Available \in 0 .. size - 1
        /\ \A i \in 1 .. Available : /\ Slot(size, begin, i - 1) \in 0 .. size - 1
                                     /\ InUse(Slot(size, begin, i - 1))
                                     /\ Contents[i] = buf[Slot(size, begin, i - 1)]
    BY QueueIs
  <1>2. /\ size \in Nat \ {0} /\ begin \in 0 .. size - 1 /\ end \in 0 .. size - 1
        /\ Available = Between(size, begin, end) /\ UNCHANGED <<size, begin>>
        /\ buf \in [0 .. size - 1 -> Byte \cup {Garbage}]
    BY DEF IInv, CursorsOK, Available, Between, WriteChar
  <1>3. Full <=> Available = size - 1
    BY <1>2 DEF Full, Wrap, Between
  <1>4. CASE Full
    <2>1. UNCHANGED <<buf, end>> /\ ret' = Answer(0, <<>>)
      BY <1>4 DEF WriteChar
    <2>2. Contents' = Contents
      BY <1>2, <2>1, ContentsIs, ContentsAfter DEF IInv
    <2>3. Fifo!MinOf(Len(<<c>>), size - 1 - Len(Contents)) = 0
      BY <1>1, <1>2, <1>3, <1>4 DEF Fifo!MinOf
    <2>4. Contents \o SubSeq(<<c>>, 1, 0) = Contents
      BY <1>1, SubSeqEmpty, ConcatEmptySeq
    <2> QED
      BY <1>2, <2>1, <2>2, <2>3, <2>4 DEF Fifo!Put, Fifo!Prefix, Fifo!Answer, Answer
  <1>5. CASE ~ Full
    <2>1. /\ buf' = [buf EXCEPT ![end] = c] /\ end' = Wrap(end + 1)
          /\ ret' = Answer(1, <<>>)
      BY <1>5 DEF WriteChar
    <2>2. Between(size, begin, Wrap(end + 1)) = Available + 1
      BY <1>2, <1>3, <1>5 DEF Between, Wrap, Full
    <2>3. \A i \in 1 .. Available : buf'[Slot(size, begin, i - 1)] = Contents[i]
      <3> TAKE i \in 1 .. Available
      <3>1. Slot(size, begin, i - 1) # end
        BY <1>1, <1>2 DEF InUse
      <3> QED
        BY <1>1, <1>2, <2>1, <3>1
    <2>4. buf'[Slot(size, begin, Available)] = c
      <3>1. Slot(size, begin, Available) = end
        BY <1>2 DEF Between, Slot
      <3> QED
        BY <1>2, <2>1, <3>1
    <2> DEFINE q2 == Append(Contents, c)
    <2>5. /\ q2 \in Seq(Byte) /\ Len(q2) = Available + 1 /\ q2[Available + 1] = c
          /\ \A i \in 1 .. Available : q2[i] = Contents[i]
      BY <1>1, AppendProperties
    <2>6. q2 = Contents \o <<c>>
      BY <1>1, AppendIsConcat
    <2> HIDE DEF q2
    <2>7. \A i \in 1 .. Available + 1 : buf'[Slot(size, begin, i - 1)] = q2[i]
      <3> TAKE i \in 1 .. Available + 1
      <3>1. CASE i \in 1 .. Available
        BY <2>3, <2>5, <3>1
      <3>2. CASE i = Available + 1
        <4>1. i - 1 = Available
          BY <1>1, <3>2
        <4> QED
          BY <2>4, <2>5, <3>2, <4>1
      <3> QED
        BY <1>1, <3>1, <3>2
    <2>8. Contents' = q2
      <3>1. Contents' = [i \in 1 .. Available + 1 |-> buf'[Slot(size, begin, i - 1)]]
        BY <1>2, <2>1, <2>2, ContentsAfter DEF Queue
      <3>2. q2 = [i \in 1 .. Available + 1 |-> q2[i]]
        BY <2>5
      <3> QED
        BY <2>7, <3>1, <3>2
    <2>9. Fifo!MinOf(Len(<<c>>), size - 1 - Len(Contents)) = 1
      <3>1. Len(<<c>>) = 1
        OBVIOUS
      <3>2. size - 1 - Len(Contents) \in Nat /\ size - 1 - Len(Contents) >= 1
        BY <1>1, <1>2, <1>3, <1>5
      <3> QED
        BY <3>1, <3>2 DEF Fifo!MinOf
    <2>10. SubSeq(<<c>>, 1, 1) = <<c>>
      <3>1. <<c>> \in Seq(Byte) /\ Len(<<c>>) = 1 /\ <<c>>[1] = c
        OBVIOUS
      <3>2. /\ SubSeq(<<c>>, 1, 1) \in Seq(Byte) /\ Len(SubSeq(<<c>>, 1, 1)) = 1
            /\ SubSeq(<<c>>, 1, 1)[1] = <<c>>[1]
        BY <3>1, SubSeqProperties
      <3> DEFINE t == SubSeq(<<c>>, 1, 1)
      <3>3. \A i \in 1 .. Len(t) : t[i] = <<c>>[i]
        BY <3>1, <3>2
      <3> HIDE DEF t
      <3>4. t \in Seq(Byte) /\ Len(t) = Len(<<c>>)
        BY <3>1, <3>2 DEF t
      <3>5. t = <<c>>
        BY <3>1, <3>3, <3>4, SeqEqual
      <3> QED
        BY <3>5 DEF t
    <2> QED
      BY <1>2, <2>1, <2>6, <2>8, <2>9, <2>10 DEF Fifo!Put, Fifo!Prefix, Fifo!Answer, Answer
  <1> QED
    BY <1>4, <1>5

(* The calls that take or look at bytes. *)
LEMMA TakersAre ==
  ASSUME IInv, IInv', NEW max \in Nat
  PROVE  /\ Read(max) => Fifo!Get(max)
         /\ Peek(max) => Fifo!Look(max)
         /\ Remove(max) => Fifo!Discard(max)
  <1> DEFINE n == Least(max, Available)
  <1>1. /\ Contents \in Seq(Byte) /\ Len(Contents) = Available /\ Available \in Nat
    BY QueueIs
  <1>2. n \in Nat /\ n <= Available /\ n = Fifo!MinOf(max, Len(Contents))
    BY <1>1 DEF Least, Fifo!MinOf
  <1> HIDE DEF n
  <1>3. /\ Copied(n) = SubSeq(Contents, 1, n)
        /\ Queue(size, buf, BeginAfter(n), end) = SubSeq(Contents, n + 1, Len(Contents))
    BY <1>2, TakeIs
  <1>4. Contents' = Queue(size', buf', begin', end')
    BY ContentsAfter
  <1>5. ASSUME Read(max) PROVE Fifo!Get(max)
    <2>1. /\ ret' = Answer(n, Copied(n)) /\ begin' = BeginAfter(n)
          /\ UNCHANGED <<size, buf, end>>
      BY <1>5 DEF Read, n
    <2> QED
      BY <1>2, <1>3, <1>4, <2>1 DEF Fifo!Get, Fifo!Prefix, Fifo!Drop, Fifo!Answer, Answer
  <1>6. ASSUME Peek(max) PROVE Fifo!Look(max)
    <2>1. ret' = Answer(n, Copied(n)) /\ UNCHANGED <<size, buf, begin, end>>
      BY <1>6 DEF Peek, n
    <2>2. Contents' = Contents
      BY <1>4, <2>1, ContentsIs DEF IInv
    <2> QED
      BY <1>2, <1>3, <2>1, <2>2 DEF Fifo!Look, Fifo!Prefix, Fifo!Answer, Answer
  <1>7. ASSUME Remove(max) PROVE Fifo!Discard(max)
    <2>1. Contents' = SubSeq(Contents, n + 1, Len(Contents)) /\ UNCHANGED size
      <3>1. CASE max >= Available
        <4>1. UNCHANGED <<size, buf>> /\ begin' = 0 /\ end' = 0
          BY <1>7, <3>1 DEF Remove
        <4>2. Contents' = <<>>
          BY <1>4, <4>1, NoQueue
        <4>3. n = Available
          BY <1>1, <3>1 DEF n, Least
        <4>4. SubSeq(Contents, Available + 1, Available) = <<>>
          BY <1>1, SubSeqEmpty
        <4> QED
          BY <1>1, <4>1, <4>2, <4>3, <4>4
      <3>2. CASE ~ (max >= Available)
        <4>1. UNCHANGED <<size, buf, end>> /\ begin' = BeginAfter(max)
          BY <1>7, <3>2 DEF Remove
        <4>2. n = max
          BY <1>1, <3>2 DEF n, Least
        <4> QED
          BY <1>3, <1>4, <4>1, <4>2
      <3> QED
        BY <3>1, <3>2
    <2>2. ret' = Answer(Len(Contents'), <<>>)
      <3>1. CASE max >= Available
        <4>1. ret' = Answer(0, <<>>) /\ begin' = 0 /\ end' = 0
          BY <1>7, <3>1 DEF Remove
        <4>2. Contents' = <<>>
          BY <1>4, <4>1, NoQueue
        <4> QED
          BY <4>1, <4>2
      <3>2. CASE ~ (max >= Available)
        <4>1. ret' = Answer(Available', <<>>)
          BY <1>7, <3>2 DEF Remove
        <4>2. Len(Contents)' = Available'
          <5>1. Available' \in 0 .. size' - 1
            BY Distance DEF IInv, CursorsOK, Available
          <5> QED
            BY <5>1 DEF Contents
        <4> QED
          BY <4>1, <4>2
      <3> QED
        BY <3>1, <3>2
    <2> QED
      BY <1>2, <2>1, <2>2 DEF Fifo!Discard, Fifo!Drop, Fifo!Answer, Answer
  <1> QED
    BY <1>5, <1>6, <1>7

(* One character is a bulk transfer of one, or none is there. *)
LEMMA CharsAre ==
  ASSUME IInv, IInv'
  PROVE  /\ ReadChar => Fifo!GetOne
         /\ PeekChar => Fifo!LookOne
  <1>1. Contents \in Seq(Byte) /\ Len(Contents) = Available /\ Available \in 0 .. size - 1
    BY QueueIs
  <1>2. Empty <=> Available = 0
    BY DEF Empty, Available, IInv, CursorsOK
  <1>3. CASE Empty
    <2>1. Contents = <<>>
      BY <1>1, <1>2, <1>3
    <2>2. ReadChar \/ PeekChar => /\ ret' = Answer(-1, <<>>)
                                  /\ UNCHANGED <<size, buf, begin, end>>
      BY <1>3 DEF ReadChar, PeekChar
    <2>3. ReadChar \/ PeekChar => Contents' = Contents
      BY <2>2, ContentsIs, ContentsAfter DEF IInv
    <2> QED
      BY <2>1, <2>2, <2>3 DEF Fifo!GetOne, Fifo!LookOne, Fifo!Answer, Answer
  <1>4. CASE ~ Empty
    <2>1. Contents # <<>> /\ Least(1, Available) = 1
      BY <1>1, <1>2, <1>4 DEF Least
    <2>2. Copied(1) = <<At(begin)>> /\ BeginAfter(1) = Wrap(begin + 1)
      BY DEF Copied, BeginAfter, SplitRead, IInv, CursorsOK
    <2>3. (ReadChar => Read(1)) /\ (PeekChar => Peek(1))
      BY <1>4, <2>1, <2>2 DEF ReadChar, PeekChar, Read, Peek
    <2> QED
      BY <2>1, <2>3, TakersAre DEF Fifo!GetOne, Fifo!LookOne
  <1> QED
    BY <1>3, <1>4

LEMMA ResizeIs ==
  ASSUME ~ ExactShrink, IInv, IInv', NEW m \in Nat, Resize(m)
  PROVE  Fifo!Resize
  <1>1. /\ Contents \in Seq(Byte) /\ Len(Contents) = Available
        /\ Available \in 0 .. size - 1
    BY QueueIs
  <1>2. size \in Nat \ {0} /\ size <= MaxCapacity + 1 /\ MaxCapacity \in Nat
    BY CbufAssumption DEF IInv, CursorsOK
  <1>3. CASE UNCHANGED <<size, buf, begin, end>>
    <2>1. Contents' = Contents
      BY <1>3, ContentsIs, ContentsAfter DEF IInv
    <2>2. size - 1 \in 0 .. MaxCapacity /\ Len(Contents) <= size - 1 /\ (size - 1) + 1 = size
      BY <1>1, <1>2
    <2>3. ret' = Answer(size, <<>>)
      BY <1>3 DEF Resize
    <2> QED
      BY <1>3, <2>1, <2>2, <2>3 DEF Fifo!Resize, Fifo!Answer, Answer
  <1>4. CASE ~ UNCHANGED <<size, buf, begin, end>>
    <2> DEFINE slots == m + 1
    <2>1. /\ slots <= MaxCapacity + 1 /\ slots > Available
          /\ buf' = [i \in 0 .. slots - 1 |->
                       IF i < Available THEN Copied(Available)[i + 1] ELSE Zero]
          /\ begin' = 0 /\ end' = Available /\ size' = slots
          /\ ret' = Answer(slots, <<>>)
      BY <1>1, <1>4 DEF Resize, ResizeRefused
    <2>2. Copied(Available) = SubSeq(Contents, 1, Available)
      <3>1. Available \in Nat /\ Available <= Available
        BY <1>1
      <3> QED
        BY <3>1, TakeIs
    <2>3. \A i \in 1 .. Available : Copied(Available)[i] = Contents[i]
      BY <1>1, <2>2
    <2>4. Contents' = [i \in 1 .. Available |-> Contents[i]]
      <3>1. Between(slots, 0, Available) = Available
        BY <1>1 DEF Between
      <3>2. \A i \in 1 .. Available : buf'[Slot(slots, 0, i - 1)] = Contents[i]
        <4> TAKE i \in 1 .. Available
        <4>1. Slot(slots, 0, i - 1) = i - 1 /\ i - 1 \in 0 .. slots - 1 /\ i - 1 < Available
              /\ (i - 1) + 1 = i
          BY <1>1, <2>1 DEF Slot
        <4> QED
          BY <2>1, <2>3, <4>1
      <3>3. Contents' = [i \in 1 .. Available |-> buf'[Slot(slots, 0, i - 1)]]
        BY <2>1, <3>1, ContentsAfter DEF Queue
      <3> QED
        BY <3>2, <3>3
    <2>5. Contents = [i \in 1 .. Available |-> Contents[i]]
      BY <1>1
    <2>6. m \in 0 .. MaxCapacity /\ Len(Contents) <= m /\ slots - 1 = m
      BY <1>1, <1>2, <2>1
    <2> QED
      BY <2>1, <2>4, <2>5, <2>6 DEF Fifo!Resize, Fifo!Answer, Answer
  <1> QED
    BY <1>3, <1>4

LEMMA QueryIs == ASSUME IInv, IInv', Query PROVE Fifo!Ask
  <1>1. /\ Len(Contents) = Available /\ Room = size - 1 - Available
        /\ Available \in 0 .. size - 1 /\ size \in Nat
    BY QueueIs, Counts DEF IInv, CursorsOK
  <1>2. /\ UNCHANGED <<size, buf, begin, end>>
        /\ ret' \in {Answer(Available, <<>>), Answer(Room, <<>>), Answer(size, <<>>)}
    BY DEF Query
  <1>3. Contents' = Contents
    BY <1>2, ContentsIs, ContentsAfter DEF IInv
  <1>4. size - 1 - Available = size - 1 - Len(Contents) /\ (size - 1) + 1 = size
    BY <1>1
  <1> QED
    BY <1>1, <1>2, <1>3, <1>4 DEF Fifo!Ask, Fifo!Answer, Answer

LEMMA FlushIs == ASSUME IInv, IInv', Flush PROVE Fifo!Clear
  <1>1. begin' = 0 /\ end' = 0 /\ UNCHANGED <<size, buf, ret>>
    BY DEF Flush
  <1>2. Contents' = <<>>
    BY <1>1, ContentsAfter, NoQueue
  <1> QED
    BY <1>1, <1>2 DEF Fifo!Clear

(* A step of the buffer is a step of the queue, or none. *)
LEMMA StepIs ==
  ASSUME ~ ExactShrink, MaxChunk # 0, IInv, IInv', [Next]_vars
  PROVE  [Fifo!Next]_(Fifo!fifoVars)
  <1> USE DEF Fifo!Next
  <1>1. ASSUME NEW c \in Byte, WriteChar(c) PROVE Fifo!Next
    <2>1. <<c>> \in UNION {[1 .. k -> Byte] : k \in 0 .. MaxChunk}
      <3>1. 1 \in 0 .. MaxChunk /\ <<c>> \in [1 .. 1 -> Byte]
        BY CbufAssumption
      <3> QED
        BY <3>1
    <2> QED
      BY <1>1, <2>1, WriteCharIs
  <1>2. ASSUME NEW src \in Chunk, Write(src) PROVE Fifo!Next
    BY <1>2, WriteIs DEF Chunk
  <1>3. ASSUME NEW n \in 0 .. MaxChunk, Read(n) \/ Peek(n) \/ Remove(n) PROVE Fifo!Next
    <2>1. n \in Nat
      BY CbufAssumption
    <2> QED
      BY <1>3, <2>1, TakersAre
  <1>4. ASSUME NEW n \in 0 .. MaxCapacity, Resize(n) \/ ResizeAdd(n) PROVE Fifo!Next
    <2>1. n \in Nat /\ size + n \in Nat
      BY CbufAssumption DEF IInv, CursorsOK
    <2> QED
      BY <1>4, <2>1, ResizeIs DEF ResizeAdd
  <1>5. CASE ReadChar \/ PeekChar
    BY <1>5, CharsAre
  <1>6. CASE Flush
    BY <1>6, FlushIs
  <1>7. CASE Query
    BY <1>7, QueryIs
  <1>8. CASE UNCHANGED vars
    <2>1. UNCHANGED <<size, buf, begin, end, ret>>
      BY <1>8 DEF vars
    <2>2. Contents' = Contents
      BY <2>1, ContentsIs, ContentsAfter DEF IInv
    <2> QED
      BY <2>1, <2>2 DEF Fifo!fifoVars
  <1> QED
    BY <1>1, <1>2, <1>3, <1>4, <1>5, <1>6, <1>7, <1>8 DEF Next

(* The buffer behaves as the queue that cbuf.h promises, whatever the      *)
(* capacity and wherever a call wraps; a character on its own is a bulk    *)
(* transfer of one, so MaxChunk must allow for one.                        *)
THEOREM ImplementsQueue ==
  ASSUME ~ ExactShrink, MaxChunk # 0 PROVE Spec => ImplementsFifo
  <1>1. Init => Fifo!Init
    <2> SUFFICES ASSUME NEW capacity \in 0 .. MaxCapacity,
                        size = capacity + 1,
                        buf = [i \in 0 .. capacity |-> Garbage],
                        begin = 0, end = 0, ret = Answer(0, <<>>)
                 PROVE  Fifo!Init
      BY DEF Init
    <2>1. CursorsOK
      BY CbufAssumption DEF CursorsOK
    <2>2. Contents = <<>> /\ size - 1 = capacity
      BY <2>1, ContentsIs, NoQueue, CbufAssumption
    <2> QED
      BY <2>2 DEF Fifo!Init, Fifo!Answer, Answer
  <1>2. IInv /\ IInv' /\ [Next]_vars => [Fifo!Next]_(Fifo!fifoVars)
    BY StepIs
  <1> QED
    BY <1>1, <1>2, InitIInv, NextIInv, PTL DEF Spec, ImplementsFifo, Fifo!Spec
=============================================================================
