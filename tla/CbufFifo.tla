------------------------------ MODULE CbufFifo ------------------------------
(***************************************************************************)
(* What cores/tuya_open/cbuf.h promises its callers: a first-in first-out  *)
(* queue of at most `cap' bytes.  Writing past the capacity is cut short   *)
(* and the accepted count returned, reading past the contents likewise,    *)
(* and resizing never touches the contents.                                *)
(*                                                                         *)
(* `ret' is what the last call handed back to its caller: a count (or the  *)
(* character read, in `data') as the code returns it.                      *)
(***************************************************************************)
EXTENDS Integers, Sequences

CONSTANTS
  Byte,         (* the values a stored character can take        *)
  MaxCapacity,  (* bound: the largest capacity the model reaches  *)
  MaxChunk      (* bound: the longest bulk transfer of one call   *)

VARIABLES q, cap, ret

fifoVars == <<q, cap, ret>>

MinOf(a, b) == IF a < b THEN a ELSE b

Prefix(s, n) == SubSeq(s, 1, n)
Drop(s, n)   == SubSeq(s, n + 1, Len(s))

Answer(n, s) == [count |-> n, data |-> s]

Init ==
  /\ q = <<>>
  /\ cap \in 0 .. MaxCapacity
  /\ ret = Answer(0, <<>>)

(* write(): the longest prefix that fits is queued, its length returned. *)
Put(s) ==
  LET n == MinOf(Len(s), cap - Len(q)) IN
    /\ q' = q \o Prefix(s, n)
    /\ ret' = Answer(n, <<>>)
    /\ UNCHANGED cap

(* read(dst, n): the oldest bytes leave the queue in order. *)
Get(n) ==
  LET k == MinOf(n, Len(q)) IN
    /\ q' = Drop(q, k)
    /\ ret' = Answer(k, Prefix(q, k))
    /\ UNCHANGED cap

(* read() and peek() of one character say -1 when nothing is stored. *)
GetOne ==
  IF q = <<>>
  THEN ret' = Answer(-1, <<>>) /\ UNCHANGED <<q, cap>>
  ELSE Get(1)

(* peek: the answer of a read, and the queue as it was. *)
Look(n) ==
  LET k == MinOf(n, Len(q)) IN
    /\ ret' = Answer(k, Prefix(q, k))
    /\ UNCHANGED <<q, cap>>

LookOne ==
  IF q = <<>>
  THEN ret' = Answer(-1, <<>>) /\ UNCHANGED <<q, cap>>
  ELSE Look(1)

(* remove(n): at most n of the oldest bytes go, what is left is counted. *)
Discard(n) ==
  /\ q' = Drop(q, MinOf(n, Len(q)))
  /\ ret' = Answer(Len(q'), <<>>)
  /\ UNCHANGED cap

Clear ==
  /\ q' = <<>>
  /\ UNCHANGED <<cap, ret>>

(* resize(): the new capacity must hold the contents; or nothing changes. *)
Resize ==
  \E c \in 0 .. MaxCapacity :
    /\ Len(q) <= c
    /\ cap' = c
    /\ ret' = Answer(c + 1, <<>>)
    /\ UNCHANGED q

(* available(), room() and size(). *)
Ask ==
  /\ ret' \in {Answer(Len(q), <<>>), Answer(cap - Len(q), <<>>),
               Answer(cap + 1, <<>>)}
  /\ UNCHANGED <<q, cap>>

Next ==
  \/ \E s \in UNION {[1 .. k -> Byte] : k \in 0 .. MaxChunk} : Put(s)
  \/ \E n \in 0 .. MaxChunk : Get(n) \/ Look(n) \/ Discard(n)
  \/ GetOne \/ LookOne \/ Clear \/ Resize \/ Ask

Spec == Init /\ [][Next]_fifoVars

=============================================================================
