-------------------------------- MODULE Fifo --------------------------------
(***************************************************************************)
(* lib/fifo/fifo.c: the lock-free ring of element pointers between one     *)
(* producer thread and one consumer thread.  The cursors "in" and "out"    *)
(* are uint32_t counters that are never reduced to the size of the ring:   *)
(* they run through all W = 2^32 values and wrap, and the slot they stand  *)
(* for is taken with a mask.                                               *)
(*                                                                         *)
(* FifoPut and FifoGet are three steps each, split at the two barriers     *)
(* __sync_synchronize() of the code: compute len from the cursors, copy    *)
(* the pointer, advance the own cursor.                                    *)
(***************************************************************************)
EXTENDS Integers, Sequences

CONSTANTS
  Elements,   \* the pointers that can be queued
  Size,       \* fifo->size
  W,          \* number of values of a uint32_t
  NULL        \* contents of a slot and of the consumer's variable at first

(***************************************************************************)
(* FifoCreate accepts only a power of two (IS_POWER_OF_TWO), so Size is at *)
(* most 2^31 and divides 2^32 at least twice; nothing else about it is     *)
(* used.                                                                   *)
(***************************************************************************)
ASSUME FifoAssumption ==
  /\ Size \in Nat \ {0}
  /\ W \in Nat
  /\ \E laps \in 2..W : W = laps * Size
  /\ NULL \notin Elements

VARIABLES
  in, out,    \* the cursors, uint32_t
  buffer,     \* the ring
  pPc,        \* producer: "idle", or the part of FifoPut it executes next
  pElement,   \* producer: argument of FifoPut
  pLen,       \* producer: local variable len
  cPc,        \* consumer: "idle", or the part of FifoGet it executes next
  cElement,   \* consumer: *elements
  cLen        \* consumer: local variable len

pVars == <<pPc, pElement, pLen>>
cVars == <<cPc, cElement, cLen>>
vars == <<in, out, buffer, pVars, cVars>>

\* fifo->in & (fifo->size - 1), Size being a power of two.
SlotOf(cursor) == cursor % Size

FifoMin(x1, x2) == IF x1 < x2 THEN x1 ELSE x2

\* fifo->in - fifo->out in 32-bit arithmetic.
Used == (in - out) % W

\* Mutant of Free: one slot too many.
Free_OffByOne == (Size - in + out + 1) % W

\* fifo->size - fifo->in + fifo->out in 32-bit arithmetic.
Free == (Size - in + out) % W

Init ==
  /\ in = 0 /\ out = 0
  /\ buffer = [s \in 0..Size - 1 |-> NULL]
  /\ pPc = "idle" /\ pElement = NULL /\ pLen = 0
  /\ cPc = "idle" /\ cElement = NULL /\ cLen = 0

(***************************************************************************)
(* FifoPut.                                                                *)
(***************************************************************************)
\* Mutant of PutCheck: the room in the ring is not looked at.
PutCheck_NoRoomTest(e) ==
  /\ pPc = "idle"
  /\ pPc' = "copy"
  /\ pElement' = e
  /\ pLen' = 1
  /\ UNCHANGED <<in, out, buffer, cVars>>

PutCheck(e) ==
  /\ pPc = "idle"
  /\ pPc' = "copy"
  /\ pElement' = e
  /\ pLen' = FifoMin(1, Free)
  /\ UNCHANGED <<in, out, buffer, cVars>>

\* The slot is below Size, so len2 = len and the second memcpy is empty.
PutCopy ==
  /\ pPc = "copy"
  /\ pPc' = "advance"
  /\ buffer' = IF pLen = 1 THEN [buffer EXCEPT ![SlotOf(in)] = pElement] ELSE buffer
  /\ UNCHANGED <<in, out, pElement, pLen, cVars>>

\* Mutant of PutAdvance: the cursor is wider than 32 bits.
PutAdvance_NoWrap ==
  /\ pPc = "advance"
  /\ pPc' = "idle"
  /\ in' = in + pLen
  /\ UNCHANGED <<out, buffer, pElement, pLen, cVars>>

PutAdvance ==
  /\ pPc = "advance"
  /\ pPc' = "idle"
  /\ in' = (in + pLen) % W
  /\ UNCHANGED <<out, buffer, pElement, pLen, cVars>>

(***************************************************************************)
(* FifoGet.                                                                *)
(***************************************************************************)
GetCheck ==
  /\ cPc = "idle"
  /\ cPc' = "copy"
  /\ cLen' = FifoMin(1, Used)
  /\ UNCHANGED <<in, out, buffer, cElement, pVars>>

GetCopy ==
  /\ cPc = "copy"
  /\ cPc' = "advance"
  /\ cElement' = IF cLen = 1 THEN buffer[SlotOf(out)] ELSE cElement
  /\ UNCHANGED <<in, out, buffer, cLen, pVars>>

\* Mutant of GetAdvance: the consumer skips to the producer's cursor.
GetAdvance_SkipAll ==
  /\ cPc = "advance"
  /\ cPc' = "idle"
  /\ out' = in
  /\ UNCHANGED <<in, buffer, cElement, cLen, pVars>>

GetAdvance ==
  /\ cPc = "advance"
  /\ cPc' = "idle"
  /\ out' = (out + cLen) % W
  /\ UNCHANGED <<in, buffer, cElement, cLen, pVars>>

Next ==
  \/ \E e \in Elements : PutCheck(e)
  \/ PutCopy
  \/ PutAdvance
  \/ GetCheck
  \/ GetCopy
  \/ GetAdvance

Spec == Init /\ [][Next]_vars
-----------------------------------------------------------------------------
(***************************************************************************)
(* Properties.                                                             *)
(***************************************************************************)
\* Types: the cursors stay uint32_t values, in += len and out += len wrap.
TypeOK ==
  /\ in \in 0..W - 1 /\ out \in 0..W - 1
  /\ buffer \in [0..Size - 1 -> Elements \union {NULL}]
  /\ pPc \in {"idle", "copy", "advance"}
  /\ pElement \in Elements \union {NULL}
  /\ pLen \in 0..1
  /\ cPc \in {"idle", "copy", "advance"}
  /\ cElement \in Elements \union {NULL}
  /\ cLen \in 0..1

\* The slot of the i-th unread element, counted from 0, across the wrap of out.
UnreadSlot(i) == SlotOf((out + i) % W)

(***************************************************************************)
(* The unsigned difference in - out never exceeds the size of the ring:    *)
(* the test "len = min(1, size - in + out)" of FifoPut and the test        *)
(* "len = min(1, in - out)" of FifoGet are each made by one thread while   *)
(* the other one moves its cursor, and stay sound until the own cursor     *)
(* moves, also when in has wrapped past 2^32 and out has not.              *)
(***************************************************************************)
CursorsInRange ==
  /\ Used <= Size
  /\ (pPc # "idle" /\ pLen = 1) => Used < Size
  /\ (cPc # "idle" /\ cLen = 1) => Used > 0

(***************************************************************************)
(* The slot the producer copies into is none of the unread ones: a pointer *)
(* that FifoPut accepted is never overwritten before FifoGet returned it,  *)
(* and the two memcpy never meet in one slot.                              *)
(***************************************************************************)
NoOverwrite ==
  (pPc \in {"copy", "advance"} /\ pLen = 1) =>
    \A i \in 0..Used - 1 : UnreadSlot(i) # SlotOf(in)

(***************************************************************************)
(* Every unread slot holds a pointer some FifoPut stored: FifoGet never    *)
(* returns the zeroes FifoCreate filled the ring with.  Needs the order    *)
(* of memcpy and "in += len" in FifoPut.                                   *)
(***************************************************************************)
UnreadAreElements ==
  \A i \in 0..Used - 1 : buffer[UnreadSlot(i)] \in Elements

\* What the producer has done of its FifoPut when it is about to advance "in".
CopiedBeforeAdvance ==
  /\ pPc # "idle" => pElement \in Elements
  /\ (pPc = "advance" /\ pLen = 1) => buffer[SlotOf(in)] = pElement

\* The inductive invariant of the proofs.
Inv ==
  /\ TypeOK
  /\ CursorsInRange
  /\ UnreadAreElements
  /\ CopiedBeforeAdvance

(***************************************************************************)
(* Refinement: the elements the consumer has not copied yet are a bounded  *)
(* queue.  An element is put when "in" advances, and got when it is copied *)
(* out (its slot stays reserved until "out" advances).                     *)
(***************************************************************************)
Taken == IF cPc = "advance" THEN cLen ELSE 0

Unread == [i \in 1..Used - Taken |-> buffer[UnreadSlot(Taken + i - 1)]]

Queue == INSTANCE BoundedQueue WITH queue <- Unread, returned <- cElement

\* fifo.c is a first-in first-out queue: nothing lost, duplicated or reordered.
ImplementsQueue == Queue!Spec
=============================================================================
