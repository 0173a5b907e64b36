----------------------------- MODULE Fifo_proofs -----------------------------
(***************************************************************************)
(* Proofs about module Fifo, for every size of the ring and every width of *)
(* the cursors it divides: the invariant Inv, what follows from it, and    *)
(* that the ring implements the queue of module BoundedQueue.              *)
(***************************************************************************)
EXTENDS Fifo, SequenceTheorems, TLAPS

\* Division with remainder is unique.
LEMMA ModUnique ==
  ASSUME NEW m \in Nat \ {0}, NEW q \in Int, NEW r \in 0..m - 1
  PROVE  (m * q + r) % m = r
<1> DEFINE x == m * q + r
<1>1. x \in Int OBVIOUS
<1>2. x = m * (x \div m) + (x % m) /\ x % m \in 0..m - 1 /\ x \div m \in Int
  BY <1>1, Z3
<1> QED BY <1>2, Z3

\* A number below the modulus is its own remainder.
LEMMA ModSmall ==
  ASSUME NEW m \in Nat \ {0}, NEW x \in 0..m - 1
  PROVE  x % m = x
BY ModUnique

\* A sum that wraps once loses the modulus.
LEMMA ModWrap ==
  ASSUME NEW m \in Nat \ {0}, NEW x \in m..2 * m - 1
  PROVE  x % m = x - m
OBVIOUS

\* A difference that borrows once gains the modulus.
LEMMA ModNeg ==
  ASSUME NEW m \in Nat \ {0}, NEW x \in -m..-1
  PROVE  x % m = x + m
OBVIOUS

\* Quotient and remainder as named values, for the steps that multiply.
LEMMA ModDecompose ==
  ASSUME NEW m \in Nat \ {0}, NEW x \in Int
  PROVE  \E q \in Int : \E r \in 0..m - 1 : x = m * q + r /\ x % m = r
<1>1. x = m * (x \div m) + (x % m) /\ x % m \in 0..m - 1 /\ x \div m \in Int
  BY Z3
<1> QED BY <1>1

\* A remainder lies below the modulus.
LEMMA ModRange ==
  ASSUME NEW m \in Nat \ {0}, NEW x \in Int
  PROVE  x % m \in 0..m - 1
OBVIOUS

\* Numbers less than a modulus apart have different remainders.
LEMMA ModDiffer ==
  ASSUME NEW m \in Nat \ {0}, NEW a \in Int, NEW b \in Int,
         a - b \in 1..m - 1
  PROVE  a % m # b % m
<1>1. PICK qa \in Int, ra \in 0..m - 1 : a = m * qa + ra /\ a % m = ra
  BY ModDecompose
<1>2. PICK qb \in Int, rb \in 0..m - 1 : b = m * qb + rb /\ b % m = rb
  BY ModDecompose
<1> SUFFICES ASSUME ra = rb PROVE FALSE
  BY <1>1, <1>2
<1>3. a - b = m * (qa - qb)
  BY <1>1, <1>2
<1>4. CASE qa - qb <= 0
  BY <1>3, <1>4
<1>5. CASE qa - qb >= 1
  BY <1>3, <1>5
<1> QED BY <1>4, <1>5

\* Adding a multiple of the modulus does not change the remainder.
LEMMA ModPeriod ==
  ASSUME NEW m \in Nat \ {0}, NEW a \in Int, NEW l \in Int
  PROVE  (a + l * m) % m = a % m
<1>1. PICK q \in Int, r \in 0..m - 1 : a = m * q + r /\ a % m = r
  BY ModDecompose
<1>2. a + l * m = m * (q + l) + r /\ q + l \in Int
  BY <1>1
<1>3. (m * (q + l) + r) % m = r
  BY <1>2, ModUnique
<1> QED BY <1>1, <1>2, <1>3

-----------------------------------------------------------------------------
(***************************************************************************)
(* Cursor arithmetic: the 32-bit expressions of fifo.c without the modulus *)
(***************************************************************************)
\* The powers of two of the code: the ring fits twice into the counter.
LEMMA Constants ==
  Size \in Nat \ {0} /\ W \in Nat \ {0} /\ 2 * Size <= W
<1>1. PICK laps \in 2..W : W = laps * Size
  BY FifoAssumption
<1>2. laps * Size >= 2 * Size
  BY <1>1, FifoAssumption
<1> QED BY <1>1, <1>2, FifoAssumption

\* The 32-bit difference of two cursors, with or without a borrow.
LEMMA DifferenceValue ==
  ASSUME NEW a \in 0..W - 1, NEW b \in 0..W - 1
  PROVE  (a - b) % W = IF a >= b THEN a - b ELSE a - b + W
<1>1. CASE a >= b
  <2>1. a - b \in 0..W - 1 BY <1>1, Constants
  <2> QED BY <1>1, <2>1, Constants, ModSmall
<1>2. CASE a < b
  <2>1. a - b \in -W..-1 BY <1>2, Constants
  <2> QED BY <1>2, <2>1, Constants, ModNeg
<1> QED BY <1>1, <1>2

\* The 32-bit successor of a cursor.
LEMMA NextValue ==
  ASSUME NEW a \in 0..W - 1
  PROVE  (a + 1) % W = IF a = W - 1 THEN 0 ELSE a + 1
<1>1. CASE a = W - 1
  BY <1>1, Constants, ModWrap
<1>2. CASE a # W - 1
  BY <1>2, Constants, ModSmall
<1> QED BY <1>1, <1>2

\* "size - in + out" is the number of slots that hold nothing unread.
LEMMA FreeValue ==
  ASSUME in \in 0..W - 1, out \in 0..W - 1, Used <= Size
  PROVE  Free = Size - Used /\ Used \in 0..Size
<1>0. Used = IF in >= out THEN in - out ELSE in - out + W
  BY DifferenceValue DEF Used
<1>1. CASE in >= out
  <2>1. Size - in + out = Size - Used /\ Size - Used \in 0..W - 1
    BY <1>0, <1>1, Constants
  <2> QED BY <2>1, <1>0, <1>1, Constants, ModSmall DEF Free
<1>2. CASE in < out
  <2>1. Size - in + out = W + (Size - Used) /\ W + (Size - Used) \in W..2 * W - 1
    BY <1>0, <1>2, Constants
  <2>2. (Size - in + out) % W = Size - in + out - W
    <3> DEFINE f == Size - in + out
    <3>1. f \in W..2 * W - 1 BY <2>1
    <3> HIDE DEF f
    <3>2. f % W = f - W BY <3>1, Constants, ModWrap
    <3> QED BY <3>2, Constants DEF f
  <2>3. Used \in 0..Size BY <1>0, <1>2, Constants
  <2> QED BY <2>1, <2>2, <2>3, Constants DEF Free
<1> QED BY <1>1, <1>2

\* The mask sees no wrap: W is a multiple of Size.
LEMMA SlotAcrossWrap ==
  ASSUME NEW x \in 0..2 * W - 1
  PROVE  SlotOf(x % W) = x % Size
<1>1. CASE x < W
  BY <1>1, Constants, ModSmall DEF SlotOf
<1>2. CASE x >= W
  <2>1. x % W = x - W
    <3>1. x \in W..2 * W - 1 BY <1>2, Constants
    <3> QED BY <3>1, Constants, ModWrap
  <2>2. PICK laps \in Int : W = laps * Size
    BY FifoAssumption
  <2>3. x - W \in Int /\ x = (x - W) + laps * Size
    BY <2>2, Constants
  <2>4. ((x - W) + laps * Size) % Size = (x - W) % Size
    BY <2>3, Constants, ModPeriod
  <2> QED BY <2>1, <2>3, <2>4 DEF SlotOf
<1> QED BY <1>1, <1>2, Constants

\* The i-th unread slot is the one i places after the slot of out.
LEMMA UnreadSlotValue ==
  ASSUME out \in 0..W - 1, NEW i \in 0..Size
  PROVE  UnreadSlot(i) = (out + i) % Size /\ UnreadSlot(i) \in 0..Size - 1
<1>1. out + i \in 0..2 * W - 1
  BY Constants
<1>2. UnreadSlot(i) = (out + i) % Size
  BY <1>1, SlotAcrossWrap DEF UnreadSlot
<1>3. (out + i) % Size \in 0..Size - 1
  <2>1. out + i \in Int BY <1>1
  <2> QED BY <2>1, Constants, ModRange
<1> QED BY <1>2, <1>3

\* The producer's slot is the one just after the unread ones.
LEMMA InSlotValue ==
  ASSUME in \in 0..W - 1, out \in 0..W - 1, Used <= Size
  PROVE  SlotOf(in) = UnreadSlot(Used)
<1>0. Used = IF in >= out THEN in - out ELSE in - out + W
  BY DifferenceValue DEF Used
<1>1. in = (out + Used) % W
  <2>1. CASE in >= out
    BY <2>1, <1>0, Constants, ModSmall
  <2>2. CASE in < out
    <3>1. out + Used = in + W /\ in + W \in W..2 * W - 1 BY <2>2, <1>0, Constants
    <3> QED BY <3>1, Constants, ModWrap
  <2> QED BY <2>1, <2>2
<1> QED BY <1>1 DEF UnreadSlot

\* Places less than a ring apart are different slots.
LEMMA UnreadSlotsDiffer ==
  ASSUME out \in 0..W - 1, NEW i \in 0..Size, NEW j \in 0..Size,
         i < j, j - i < Size
  PROVE  UnreadSlot(i) # UnreadSlot(j)
<1>1. UnreadSlot(i) = (out + i) % Size /\ UnreadSlot(j) = (out + j) % Size
  BY UnreadSlotValue
<1>2. (out + j) - (out + i) \in 1..Size - 1 /\ out + j \in Int /\ out + i \in Int
  BY Constants
<1>3. (out + j) % Size # (out + i) % Size
  BY <1>2, Constants, ModDiffer
<1> QED BY <1>1, <1>3

-----------------------------------------------------------------------------
(***************************************************************************)
(* How the two cursor movements change what is unread.                     *)
(***************************************************************************)
\* "in += 1" makes one more element unread.
LEMMA InAdvances ==
  ASSUME in \in 0..W - 1, out \in 0..W - 1, Used < Size,
         in' = (in + 1) % W, out' = out
  PROVE  Used' = Used + 1 /\ in' \in 0..W - 1
<1>1. in' = IF in = W - 1 THEN 0 ELSE in + 1
  BY NextValue
<1>2. in' \in 0..W - 1
  BY <1>1, Constants
<1>3. Used = IF in >= out THEN in - out ELSE in - out + W
  BY DifferenceValue DEF Used
<1>4. Used' = IF in' >= out THEN in' - out ELSE in' - out + W
  BY <1>2, DifferenceValue DEF Used
<1> QED BY <1>1, <1>2, <1>3, <1>4, Constants

\* "out += 1" makes one element less unread.
LEMMA OutAdvances ==
  ASSUME in \in 0..W - 1, out \in 0..W - 1, Used > 0,
         out' = (out + 1) % W, in' = in
  PROVE  Used' = Used - 1 /\ out' \in 0..W - 1
<1>1. out' = IF out = W - 1 THEN 0 ELSE out + 1
  BY NextValue
<1>2. out' \in 0..W - 1
  BY <1>1, Constants
<1>3. Used = IF in >= out THEN in - out ELSE in - out + W
  BY DifferenceValue DEF Used
<1>4. Used' = IF in >= out' THEN in - out' ELSE in - out' + W
  BY <1>2, DifferenceValue DEF Used
<1> QED BY <1>1, <1>2, <1>3, <1>4, Constants

\* After "out += 1" the i-th unread slot is the one that was (i+1)-th.
LEMMA UnreadSlotShifts ==
  ASSUME out \in 0..W - 1, out' = (out + 1) % W, NEW i \in 0..Size - 1
  PROVE  UnreadSlot(i)' = UnreadSlot(i + 1)
<1>1. out' = IF out = W - 1 THEN 0 ELSE out + 1
  BY NextValue
<1>2. (out' + i) % W = (out + (i + 1)) % W
  <2>1. CASE out # W - 1
    BY <1>1, <2>1
  <2>2. CASE out = W - 1
    <3> DEFINE x == out + (i + 1)
    <3>1. x \in W..2 * W - 1 /\ x - W = i /\ i \in 0..W - 1
      BY <2>2, Constants
    <3> HIDE DEF x
    <3>2. x % W = x - W
      BY <3>1, Constants, ModWrap
    <3>3. i % W = i
      BY <3>1, Constants, ModSmall
    <3> QED BY <1>1, <2>2, <3>1, <3>2, <3>3 DEF x
  <2> QED BY <2>1, <2>2
<1> QED BY <1>2 DEF UnreadSlot

-----------------------------------------------------------------------------
\* FifoCreate establishes the invariant.
LEMMA InitInv == Init => Inv
<1> SUFFICES ASSUME Init PROVE Inv
  OBVIOUS
<1>1. Used = 0
  <2>1. in = 0 /\ out = 0 /\ 0 \in 0..W - 1 BY Constants DEF Init
  <2> QED BY <2>1, DifferenceValue DEF Used
<1>2. TypeOK
  BY Constants DEF Init, TypeOK
<1> QED
  BY <1>1, <1>2, Constants
  DEF Inv, Init, CursorsInRange, UnreadAreElements, CopiedBeforeAdvance

\* Every step of FifoPut and FifoGet keeps the invariant.
LEMMA NextInv == Inv /\ [Next]_vars => Inv'
<1> SUFFICES ASSUME Inv, [Next]_vars PROVE Inv'
  OBVIOUS
<1> USE DEF Inv
<1>t. /\ in \in 0..W - 1 /\ out \in 0..W - 1 /\ Used <= Size
      /\ Free = Size - Used /\ Used \in 0..Size
  BY FreeValue DEF TypeOK, CursorsInRange
<1>1. ASSUME NEW e \in Elements, PutCheck(e) PROVE Inv'
  <2>0. UNCHANGED <<in, out, buffer, cVars>>
    BY <1>1 DEF PutCheck
  <2>1. pLen' = (IF Used < Size THEN 1 ELSE 0)
    BY <1>1, <1>t, Constants DEF PutCheck, FifoMin
  <2>2. TypeOK'
    BY <1>1, <2>1 DEF PutCheck, TypeOK, cVars
  <2>3. CursorsInRange'
    BY <1>1, <1>t, <2>0, <2>1 DEF PutCheck, CursorsInRange, Used, cVars
  <2>4. UnreadAreElements' /\ CopiedBeforeAdvance'
    BY <1>1, <2>0
    DEF PutCheck, UnreadAreElements, CopiedBeforeAdvance, Used, UnreadSlot, SlotOf
  <2> QED BY <2>2, <2>3, <2>4
<1>2. ASSUME PutCopy PROVE Inv'
  <2>0. UNCHANGED <<in, out, pElement, pLen, cVars>> /\ pPc = "copy" /\ pPc' = "advance"
    BY <1>2 DEF PutCopy
  <2>a. SlotOf(in) = UnreadSlot(Used) /\ UnreadSlot(Used) \in 0..Size - 1
    BY <1>t, InSlotValue, UnreadSlotValue
  <2>2. TypeOK'
    BY <1>2, <2>0 DEF PutCopy, TypeOK, cVars
  <2>3. CursorsInRange'
    BY <2>0 DEF CursorsInRange, Used, cVars
  <2>4. UnreadAreElements'
    <3> SUFFICES ASSUME NEW i \in 0..Used - 1
                 PROVE  buffer'[UnreadSlot(i)] \in Elements
      BY <2>0 DEF UnreadAreElements, Used, UnreadSlot, SlotOf
    <3>1. buffer[UnreadSlot(i)] \in Elements
      BY DEF UnreadAreElements
    <3>2. CASE pLen = 1
      <4>1. Used < Size BY <2>0, <3>2 DEF CursorsInRange
      <4>2. UnreadSlot(i) # UnreadSlot(Used)
        <5>1. i \in 0..Size /\ Used \in 0..Size /\ i < Used /\ Used - i < Size
          BY <1>t, <4>1, Constants
        <5> QED BY <1>t, <5>1, UnreadSlotsDiffer
      <4> QED BY <1>2, <2>a, <3>1, <4>2 DEF PutCopy, TypeOK
    <3>3. CASE pLen # 1
      BY <1>2, <3>1, <3>3 DEF PutCopy
    <3> QED BY <3>2, <3>3
  <2>5. CopiedBeforeAdvance'
    BY <1>2, <2>0, <2>a DEF PutCopy, CopiedBeforeAdvance, TypeOK, SlotOf
  <2> QED BY <2>2, <2>3, <2>4, <2>5
<1>3. ASSUME PutAdvance PROVE Inv'
  <2>0. UNCHANGED <<out, buffer, pElement, pLen, cVars>> /\ pPc = "advance" /\ pPc' = "idle"
    BY <1>3 DEF PutAdvance
  <2>1. CASE pLen = 1
    <3>1. Used < Size BY <2>0, <2>1 DEF CursorsInRange
    <3>2. in' = (in + 1) % W BY <1>3, <2>1 DEF PutAdvance
    <3>3. Used' = Used + 1 /\ in' \in 0..W - 1
      BY <1>t, <2>0, <3>1, <3>2, InAdvances
    <3>4. TypeOK'
      BY <2>0, <3>3 DEF TypeOK, cVars
    <3>5. CursorsInRange'
      BY <1>t, <2>0, <3>1, <3>3, Constants DEF CursorsInRange, cVars
    <3>6. UnreadAreElements'
      <4>1. buffer[UnreadSlot(Used)] \in Elements
        BY <1>t, <2>0, <2>1, InSlotValue DEF CopiedBeforeAdvance
      <4>2. \A i \in 0..Used : buffer[UnreadSlot(i)] \in Elements
        BY <1>t, <4>1 DEF UnreadAreElements
      <4> QED BY <1>t, <2>0, <3>3, <4>2 DEF UnreadAreElements, UnreadSlot, SlotOf
    <3>7. CopiedBeforeAdvance'
      BY <2>0 DEF CopiedBeforeAdvance
    <3> QED BY <3>4, <3>5, <3>6, <3>7
  <2>2. CASE pLen = 0
    <3>1. in' = in BY <1>3, <1>t, <2>2, Constants, ModSmall DEF PutAdvance
    <3> QED
      BY <2>0, <3>1, <2>2
      DEF TypeOK, CursorsInRange, UnreadAreElements, CopiedBeforeAdvance, Used,
          UnreadSlot, SlotOf, cVars
  <2> QED BY <2>1, <2>2 DEF TypeOK
<1>4. ASSUME GetCheck PROVE Inv'
  <2>0. UNCHANGED <<in, out, buffer, cElement, pVars>>
    BY <1>4 DEF GetCheck
  <2>1. cLen' = (IF Used > 0 THEN 1 ELSE 0)
    BY <1>4, <1>t DEF GetCheck, FifoMin
  <2> QED
    BY <1>4, <1>t, <2>0, <2>1
    DEF GetCheck, TypeOK, CursorsInRange, UnreadAreElements, CopiedBeforeAdvance,
        Used, UnreadSlot, SlotOf, pVars
<1>5. ASSUME GetCopy PROVE Inv'
  <2>0. /\ UNCHANGED <<in, out, buffer, cLen, pVars>>
        /\ cPc = "copy" /\ cPc' = "advance"
        /\ cElement' \in {cElement, buffer[SlotOf(out)]}
    BY <1>5 DEF GetCopy
  <2>1. SlotOf(out) \in 0..Size - 1
    BY <1>t, Constants, ModRange DEF SlotOf
  <2> QED
    BY <1>t, <2>0, <2>1
    DEF TypeOK, CursorsInRange, UnreadAreElements, CopiedBeforeAdvance,
        Used, UnreadSlot, SlotOf, pVars
<1>6. ASSUME GetAdvance PROVE Inv'
  <2>0. UNCHANGED <<in, buffer, cElement, cLen, pVars>> /\ cPc = "advance" /\ cPc' = "idle"
    BY <1>6 DEF GetAdvance
  <2>1. CASE cLen = 1
    <3>1. Used > 0 BY <2>0, <2>1 DEF CursorsInRange
    <3>2. out' = (out + 1) % W BY <1>6, <2>1 DEF GetAdvance
    <3>3. Used' = Used - 1 /\ out' \in 0..W - 1
      BY <1>t, <2>0, <3>1, <3>2, OutAdvances
    <3>4. TypeOK'
      BY <2>0, <3>3 DEF TypeOK, pVars
    <3>5. CursorsInRange'
      BY <1>t, <2>0, <3>1, <3>3, Constants DEF CursorsInRange, pVars
    <3>6. UnreadAreElements'
      <4> SUFFICES ASSUME NEW i \in 0..Used - 2
                   PROVE  buffer[UnreadSlot(i)'] \in Elements
        BY <1>t, <2>0, <3>3 DEF UnreadAreElements
      <4>1. UnreadSlot(i)' = UnreadSlot(i + 1)
        <5>1. i \in 0..Size - 1 BY <1>t, Constants
        <5> QED BY <1>t, <3>2, <5>1, UnreadSlotShifts
      <4>2. i + 1 \in 0..Used - 1 BY <1>t
      <4> QED BY <4>1, <4>2 DEF UnreadAreElements
    <3>7. CopiedBeforeAdvance'
      BY <2>0 DEF CopiedBeforeAdvance, SlotOf, pVars
    <3> QED BY <3>4, <3>5, <3>6, <3>7
  <2>2. CASE cLen = 0
    <3>1. out' = out BY <1>6, <1>t, <2>2, Constants, ModSmall DEF GetAdvance
    <3> QED
      BY <2>0, <3>1, <2>2
      DEF TypeOK, CursorsInRange, UnreadAreElements, CopiedBeforeAdvance, Used,
          UnreadSlot, SlotOf, pVars
  <2> QED BY <2>1, <2>2 DEF TypeOK
<1>7. ASSUME UNCHANGED vars PROVE Inv'
  BY <1>7
  DEF vars, pVars, cVars, TypeOK, CursorsInRange, UnreadAreElements,
      CopiedBeforeAdvance, Used, UnreadSlot, SlotOf
<1> QED BY <1>1, <1>2, <1>3, <1>4, <1>5, <1>6, <1>7 DEF Next

(***************************************************************************)
(* The cursors of fifo.c stay in range, for every power-of-two size.       *)
(***************************************************************************)
THEOREM Invariance == Spec => []Inv
BY InitInv, NextInv, PTL DEF Spec

\* The cursors stay unsigned numbers of W values, and every slot that FifoPut and
\* FifoGet compute is a slot of the ring.
THEOREM FifoTypes == Spec => []TypeOK
<1>1. Inv => TypeOK
  BY DEF Inv
<1> QED BY <1>1, Invariance, PTL

\* in - out, in 32 bits, never exceeds fifo->size, whichever of the two
\* threads moves its cursor after the other one has computed len.
THEOREM CursorsStayInRange == Spec => []CursorsInRange
<1>1. Inv => CursorsInRange
  BY DEF Inv
<1> QED BY <1>1, Invariance, PTL

\* FifoGet only returns pointers that some FifoPut has stored.
THEOREM UnreadStayElements == Spec => []UnreadAreElements
<1>1. Inv => UnreadAreElements
  BY DEF Inv
<1> QED BY <1>1, Invariance, PTL

(***************************************************************************)
(* FifoPut never overwrites an element that FifoGet has yet to return.     *)
(***************************************************************************)
THEOREM NeverOverwrites == Spec => []NoOverwrite
<1>1. Inv => NoOverwrite
  <2> SUFFICES ASSUME Inv, pPc \in {"copy", "advance"}, pLen = 1, NEW i \in 0..Used - 1
               PROVE  UnreadSlot(i) # SlotOf(in)
    BY DEF NoOverwrite
  <2>1. /\ in \in 0..W - 1 /\ out \in 0..W - 1 /\ Used <= Size /\ Used < Size
    BY DEF Inv, TypeOK, CursorsInRange
  <2>2. Used \in 0..Size
    BY <2>1, FreeValue
  <2>3. SlotOf(in) = UnreadSlot(Used)
    BY <2>1, InSlotValue
  <2>4. i \in 0..Size /\ i < Used /\ Used - i < Size
    BY <2>1, <2>2, Constants
  <2> QED BY <2>1, <2>2, <2>3, <2>4, UnreadSlotsDiffer
<1> QED BY <1>1, Invariance, PTL

-----------------------------------------------------------------------------
\* The refinement mapping yields a queue of at most Size elements.
LEMMA UnreadIsSequence ==
  ASSUME Inv
  PROVE  /\ Taken \in 0..1 /\ Used \in 0..Size /\ Used - Taken \in 0..Size
         /\ Unread \in Seq(Elements) /\ Len(Unread) = Used - Taken
<1>1. Used \in 0..Size
  BY FreeValue DEF Inv, TypeOK, CursorsInRange
<1>2. Taken \in 0..1 /\ Used - Taken \in 0..Size
  BY <1>1, Constants DEF Inv, TypeOK, CursorsInRange, Taken
<1>3. \A i \in 1..Used - Taken : buffer[UnreadSlot(Taken + i - 1)] \in Elements
  <2> SUFFICES ASSUME NEW i \in 1..Used - Taken
               PROVE  buffer[UnreadSlot(Taken + i - 1)] \in Elements
    OBVIOUS
  <2>1. Taken + i - 1 \in 0..Used - 1 BY <1>1, <1>2, Constants
  <2> QED BY <2>1 DEF Inv, UnreadAreElements
<1> QED BY <1>1, <1>2, <1>3, Constants DEF Unread

\* "in += len" is the step that puts: it appends the copied element.
LEMMA PutAdvanceAppends ==
  ASSUME Inv, PutAdvance, pLen = 1
  PROVE  Unread' = Append(Unread, pElement)
<1>0. /\ out' = out /\ buffer' = buffer /\ Taken' = Taken
      /\ in' = (in + 1) % W /\ pPc = "advance"
  BY DEF PutAdvance, Taken, cVars
<1>1. Used' = Used + 1
  BY <1>0, InAdvances DEF Inv, TypeOK, CursorsInRange
<1>2. \A i \in Int : UnreadSlot(i)' = UnreadSlot(i)
  BY <1>0 DEF UnreadSlot, SlotOf
<1>3. buffer[UnreadSlot(Used)] = pElement
  BY <1>0, InSlotValue DEF Inv, TypeOK, CursorsInRange, CopiedBeforeAdvance
<1>4. Used \in Nat /\ Taken \in 0..1 /\ Used - Taken \in Nat /\ Unread \in Seq(Elements)
      /\ Len(Unread) = Used - Taken
  BY UnreadIsSequence, Constants
<1>5. Unread' = [i \in 1..(Used - Taken) + 1 |-> buffer[UnreadSlot(Taken + i - 1)]]
  BY <1>0, <1>1, <1>2, <1>4 DEF Unread
<1>6. Taken + ((Used - Taken) + 1) - 1 = Used
  BY <1>4
<1>7. pElement \in Elements
  BY <1>0 DEF Inv, CopiedBeforeAdvance
<1>8. /\ Append(Unread, pElement) \in Seq(Elements)
      /\ Len(Append(Unread, pElement)) = (Used - Taken) + 1
      /\ \A i \in 1..Used - Taken : Append(Unread, pElement)[i] = Unread[i]
      /\ Append(Unread, pElement)[(Used - Taken) + 1] = pElement
  BY <1>4, <1>7, AppendProperties
<1>9. \A i \in 1..(Used - Taken) + 1 : Unread'[i] = Append(Unread, pElement)[i]
  <2> TAKE i \in 1..(Used - Taken) + 1
  <2>1. CASE i <= Used - Taken
    <3>1. i \in 1..Used - Taken BY <1>4, <2>1
    <3>2. Unread[i] = buffer[UnreadSlot(Taken + i - 1)] BY <3>1 DEF Unread
    <3>3. Unread'[i] = buffer[UnreadSlot(Taken + i - 1)] BY <1>5
    <3> QED BY <1>8, <3>1, <3>2, <3>3
  <2>2. CASE i = (Used - Taken) + 1
    BY <1>3, <1>4, <1>5, <1>6, <1>8, <2>2
  <2> QED BY <1>4, <2>1, <2>2
<1>10. Unread' \in Seq(Elements) /\ Len(Unread') = (Used - Taken) + 1
  <2>1. \A i \in 1..(Used - Taken) + 1 : buffer[UnreadSlot(Taken + i - 1)] \in Elements
    <3> TAKE i \in 1..(Used - Taken) + 1
    <3>1. Taken + i - 1 \in 0..Used - 1 \/ Taken + i - 1 = Used
      BY <1>4
    <3> QED BY <1>3, <1>7, <3>1 DEF Inv, UnreadAreElements
  <2> QED BY <1>4, <1>5, <2>1
<1> QED BY <1>4, <1>8, <1>9, <1>10, SeqEqual

\* The memcpy of FifoGet is the step that gets: it takes the oldest element.
LEMMA GetCopyTakesHead ==
  ASSUME Inv, GetCopy, cLen = 1
  PROVE  Unread # <<>> /\ cElement' = Head(Unread) /\ Unread' = Tail(Unread)
<1>0. /\ in' = in /\ out' = out /\ buffer' = buffer
      /\ Taken = 0 /\ Taken' = 1 /\ cElement' = buffer[SlotOf(out)] /\ cPc = "copy"
  BY DEF GetCopy, Taken
<1>1. Used' = Used /\ \A i \in Int : UnreadSlot(i)' = UnreadSlot(i)
  BY <1>0 DEF Used, UnreadSlot, SlotOf
<1>2. Used \in Nat /\ Used > 0 /\ Len(Unread) = Used /\ Unread \in Seq(Elements)
  BY <1>0, UnreadIsSequence, Constants DEF Inv, CursorsInRange
<1>3. UnreadSlot(0) = SlotOf(out)
  BY Constants, ModSmall DEF Inv, TypeOK, UnreadSlot
<1>4. Unread = [i \in 1..Used |-> buffer[UnreadSlot(i - 1)]]
  BY <1>0, <1>2 DEF Unread
<1>5. Unread' = [i \in 1..Used - 1 |-> buffer[UnreadSlot(i)]]
  BY <1>0, <1>1, <1>2 DEF Unread
<1>6. Head(Unread) = buffer[UnreadSlot(0)]
  BY <1>2, <1>4
<1>7. Tail(Unread) = [i \in 1..Used - 1 |-> buffer[UnreadSlot(i)]]
  BY <1>2, <1>4
<1> QED BY <1>0, <1>2, <1>3, <1>5, <1>6, <1>7

\* The memcpy of FifoPut touches no unread slot.
LEMMA PutCopyKeepsUnread ==
  ASSUME Inv, PutCopy
  PROVE  Unread' = Unread
<1>0. /\ in' = in /\ out' = out /\ Taken' = Taken /\ pPc = "copy"
      /\ Used' = Used /\ \A i \in Int : UnreadSlot(i)' = UnreadSlot(i)
  BY DEF PutCopy, Taken, cVars, Used, UnreadSlot, SlotOf
<1>1. /\ Used \in 0..Size /\ Taken \in 0..1 /\ Used - Taken \in 0..Size
      /\ in \in 0..W - 1 /\ out \in 0..W - 1
  BY UnreadIsSequence DEF Inv, TypeOK
<1>2. \A i \in 1..Used - Taken :
        buffer'[UnreadSlot(Taken + i - 1)] = buffer[UnreadSlot(Taken + i - 1)]
  <2> TAKE i \in 1..Used - Taken
  <2>1. CASE pLen = 1
    <3>1. Used < Size BY <1>0, <2>1 DEF Inv, CursorsInRange
    <3>2. SlotOf(in) = UnreadSlot(Used) BY <1>1, InSlotValue, Constants
    <3> DEFINE j == Taken + i - 1
    <3>3. j \in 0..Size /\ j < Used /\ Used - j < Size
      BY <1>1, <3>1, Constants
    <3>4. UnreadSlot(j) # UnreadSlot(Used)
      BY <1>1, <3>3, UnreadSlotsDiffer
    <3>5. UnreadSlot(j) \in 0..Size - 1
      BY <1>1, <3>3, UnreadSlotValue
    <3> HIDE DEF j
    <3>6. buffer'[UnreadSlot(j)] = buffer[UnreadSlot(j)]
      BY <2>1, <3>2, <3>4, <3>5 DEF PutCopy, Inv, TypeOK
    <3> QED BY <3>6 DEF j
  <2>2. CASE pLen # 1
    BY <2>2 DEF PutCopy
  <2> QED BY <2>1, <2>2
<1> QED BY <1>0, <1>1, <1>2 DEF Unread

\* "out += len" gives the slot back and changes nothing else.
LEMMA GetAdvanceKeepsUnread ==
  ASSUME Inv, GetAdvance
  PROVE  Unread' = Unread
<1>0. in' = in /\ buffer' = buffer /\ Taken' = 0 /\ Taken = cLen /\ cPc = "advance"
  BY DEF GetAdvance, Taken
<1>1. /\ Used \in 0..Size /\ cLen \in 0..1 /\ Used - Taken \in 0..Size
      /\ in \in 0..W - 1 /\ out \in 0..W - 1
  BY UnreadIsSequence DEF Inv, TypeOK
<1>2. CASE cLen = 1
  <2>1. out' = (out + 1) % W BY <1>2 DEF GetAdvance
  <2>2. Used' = Used - 1
    BY <1>0, <1>1, <1>2, <2>1, OutAdvances DEF Inv, CursorsInRange
  <2>3. \A i \in 1..Used - 1 : UnreadSlot(0 + i - 1)' = UnreadSlot(1 + i - 1)
    <3> TAKE i \in 1..Used - 1
    <3>1. i - 1 \in 0..Size - 1 BY <1>1, Constants
    <3>2. UnreadSlot(i - 1)' = UnreadSlot((i - 1) + 1)
      BY <1>1, <2>1, <3>1, UnreadSlotShifts
    <3> QED BY <1>1, <3>2
  <2> QED BY <1>0, <1>1, <1>2, <2>2, <2>3 DEF Unread
<1>3. CASE cLen = 0
  <2>1. out' = out BY <1>1, <1>3, Constants, ModSmall DEF GetAdvance
  <2>2. Used' = Used /\ \A i \in Int : UnreadSlot(i)' = UnreadSlot(i)
    BY <1>0, <2>1 DEF Used, UnreadSlot, SlotOf
  <2> QED BY <1>0, <1>1, <1>3, <2>2 DEF Unread
<1> QED BY <1>1, <1>2, <1>3

\* The queue depends on the cursors, the ring and Taken only.
LEMMA UnreadDepends ==
  ASSUME in' = in, out' = out, buffer' = buffer, Taken' = Taken
  PROVE  Unread' = Unread
BY DEF Unread, Used, UnreadSlot, SlotOf

(***************************************************************************)
(* fifo.c implements a bounded first-in first-out queue.                   *)
(***************************************************************************)
THEOREM RefinesQueue == Spec => ImplementsQueue
<1> USE DEF Queue!vars
<1>1. Init => Queue!Init
  <2> SUFFICES ASSUME Init PROVE Queue!Init
    OBVIOUS
  <2>1. Inv BY InitInv
  <2>2. Len(Unread) = 0 /\ Unread \in Seq(Elements)
    <3>1. Used = 0 /\ Taken = 0
      <4>1. in = 0 /\ out = 0 /\ 0 \in 0..W - 1 BY Constants DEF Init
      <4> QED BY <4>1, DifferenceValue DEF Used, Taken, Init
    <3> QED BY <2>1, <3>1, UnreadIsSequence
  <2> QED BY <2>2 DEF Init, Queue!Init
<1>2. Inv /\ Inv' /\ [Next]_vars => [Queue!Next]_Queue!vars
  <2> SUFFICES ASSUME Inv, Inv', [Next]_vars PROVE [Queue!Next]_Queue!vars
    OBVIOUS
  <2>1. ASSUME NEW e \in Elements, PutCheck(e) PROVE UNCHANGED <<Unread, cElement>>
    BY <2>1, UnreadDepends DEF PutCheck, Taken, cVars
  <2>2. ASSUME PutCopy PROVE UNCHANGED <<Unread, cElement>>
    BY <2>2, PutCopyKeepsUnread DEF PutCopy, cVars
  <2>3. ASSUME PutAdvance PROVE [Queue!Next]_Queue!vars
    <3>1. CASE pLen = 1
      <4>1. Unread' = Append(Unread, pElement)
        BY <2>3, <3>1, PutAdvanceAppends
      <4>2. Len(Unread) < Size
        BY <2>3, <3>1, UnreadIsSequence, Constants DEF PutAdvance, Inv, CursorsInRange
      <4>3. pElement \in Elements /\ cElement' = cElement
        BY <2>3 DEF PutAdvance, Inv, CopiedBeforeAdvance, cVars
      <4> QED BY <4>1, <4>2, <4>3 DEF Queue!Next, Queue!Put
    <3>2. CASE pLen = 0
      <4>1. in' = in
        BY SMTT(30), <2>3, <3>2, Constants, ModSmall DEF PutAdvance, Inv, TypeOK
      <4> QED BY <2>3, <4>1, UnreadDepends DEF PutAdvance, Taken, cVars
    <3> QED BY <3>1, <3>2 DEF Inv, TypeOK
  <2>4. ASSUME GetCheck PROVE UNCHANGED <<Unread, cElement>>
    BY <2>4, UnreadDepends DEF GetCheck, Taken
  <2>5. ASSUME GetCopy PROVE [Queue!Next]_Queue!vars
    <3>1. CASE cLen = 1
      BY <2>5, <3>1, GetCopyTakesHead DEF Queue!Next, Queue!Get
    <3>2. CASE cLen = 0
      BY <2>5, <3>2, UnreadDepends DEF GetCopy, Taken
    <3> QED BY <3>1, <3>2 DEF Inv, TypeOK
  <2>6. ASSUME GetAdvance PROVE UNCHANGED <<Unread, cElement>>
    BY <2>6, GetAdvanceKeepsUnread DEF GetAdvance
  <2>7. ASSUME UNCHANGED vars PROVE UNCHANGED <<Unread, cElement>>
    BY <2>7, UnreadDepends DEF vars, cVars, Taken
  <2> QED BY <2>1, <2>2, <2>3, <2>4, <2>5, <2>6, <2>7 DEF Next
<1> QED BY <1>1, <1>2, Invariance, PTL DEF Spec, ImplementsQueue, Queue!Spec
=============================================================================
