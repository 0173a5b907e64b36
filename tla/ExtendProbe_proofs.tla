-------------------------- MODULE ExtendProbe_proofs --------------------------
(***************************************************************************)
(* Proofs about module ExtendProbe: for any size of the buffer and of the  *)
(* fifo, and any lines.                                                    *)
(***************************************************************************)
EXTENDS ExtendProbe, SequenceTheorems, WellFoundedInduction, TLAPS

Pieces  == [line : Nat, fields : FieldSeqs \union {NULL}, whole : BOOLEAN]
Buffers == [len : Int, from : Seq(Pieces)]

Types ==
  /\ line \in Nat /\ rest \in Nat /\ fields \in FieldSeqs \union {NULL}
  /\ cut \in BOOLEAN /\ begun \in BOOLEAN /\ eof \in BOOLEAN /\ clean \in BOOLEAN
  /\ pc \in {"read", "put", "trigger"}
  /\ data \in Buffers \union {NULL}
  /\ pc # "read" => data \in Buffers
  /\ fifo \in Seq(Buffers)

(***************************************************************************)
(* While nothing has gone wrong: dataStr is left over from an earlier      *)
(* chunk only if the child was killed and has nothing more to say, a line  *)
(* that is still in the pipe is younger than everything in the fifo, and   *)
(* so is the line that is about to be put.                                 *)
(***************************************************************************)
Leftover ==
  clean => /\ rest > 0 => ~begun
           /\ rest > 0 /\ cut => eof
           /\ pc = "read" /\ data # NULL => rest = 0 /\ eof

InPipe ==
  clean => \A i \in DOMAIN fifo :
             fifo[i].from[1].line <= line /\ (rest > 0 => fifo[i].from[1].line < line)

AboutToPut ==
  clean /\ pc = "put" =>
    /\ WholeLine(data)
    /\ data.from[1].line <= line /\ (rest > 0 => data.from[1].line < line)
    /\ \A i \in DOMAIN fifo : fifo[i].from[1].line < data.from[1].line

IInv == Types /\ Leftover /\ InPipe /\ AboutToPut /\ CleanLines /\ CleanBuffer

-----------------------------------------------------------------------------
\* fgets returns something, and less than the buffer holds.
LEMMA ChunkBounds ==
  ASSUME Types, rest > 0
  PROVE  Chunk \in Nat /\ Chunk > 0 /\ Chunk <= rest /\ Chunk < BufMax
<1> DEFINE S == {rest, BufMax - 1}
<1>1. \E x \in S : \A y \in S : x <= y
  BY ExtendProbeAssumption DEF Types
<1>2. Chunk \in S /\ \A y \in S : Chunk <= y
  BY <1>1 DEF Chunk, Min
<1> QED
  BY <1>2, ExtendProbeAssumption DEF Types

\* What is in the buffer after a chunk was copied into it.
LEMMA CopiedType ==
  ASSUME Types, NEW n \in Int
  PROVE  Copied(n) \in Buffers
<1>1. Piece \in Pieces
  BY DEF Types, Piece, Pieces
<1>2. CASE data = NULL
  BY <1>1, <1>2 DEF Copied, Buffers
<1>3. CASE data # NULL
  <2>1. data \in Buffers
    BY <1>3 DEF Types
  <2>2. Append(data.from, Piece) \in Seq(Pieces) /\ data.len + n \in Int
    BY <1>1, <2>1 DEF Buffers
  <2> QED
    BY <1>3, <2>2 DEF Copied, Buffers
<1> QED
  BY <1>2, <1>3

\* Into an empty buffer exactly the chunk is copied.
LEMMA CopiedFresh ==
  ASSUME Types, data = NULL, NEW n \in Int
  PROVE  Copied(n).len = n /\ Copied(n).from = <<Piece>>
BY DEF Copied

\* A line of data has a length.
LEMMA LineLength == \A f \in FieldSeqs : Len(f) + 2 \in Nat \ {0}
<1> SUFFICES ASSUME NEW f \in FieldSeqs PROVE Len(f) + 2 \in Nat \ {0}
  OBVIOUS
<1>1. f \in Seq(Values \union {EMPTY})
  BY ExtendProbeAssumption
<1>2. Len(f) \in Nat
  BY <1>1, LenProperties
<1> QED
  BY <1>2

\* A whole line has a number.
LEMMA WholeHasNumber ==
  ASSUME NEW d \in Buffers, WholeLine(d)
  PROVE  d.from[1].line \in Nat
<1>1. d.from \in Seq(Pieces) /\ Len(d.from) = 1
  BY DEF Buffers, WholeLine
<1>2. d.from[1] \in Pieces
  BY <1>1
<1> QED
  BY <1>2 DEF Pieces

\* The child keeps the types.
LEMMA ChildTypes ==
  ASSUME Types, NEW n \in Nat \ {0}, NEW f \in FieldSeqs \union {NULL}, NEW killed \in BOOLEAN,
         ChildPrints(n, f, killed)
  PROVE  Types'
<1>1. line' \in Nat /\ rest' \in Nat
  BY DEF Types, ChildPrints
<1>2. cut' \in BOOLEAN /\ begun' \in BOOLEAN /\ eof' \in BOOLEAN /\ fields' \in FieldSeqs \union {NULL}
  BY Zenon DEF ChildPrints
<1>3. UNCHANGED <<pc, data, fifo, clean>>
  BY DEF ChildPrints
<1> QED
  BY <1>1, <1>2, <1>3 DEF Types

\* Every step keeps the types.
LEMMA NextTypes == Types /\ [Next]_vars => Types'
<1> SUFFICES ASSUME Types, [Next]_vars PROVE Types'
  OBVIOUS
<1> USE ExtendProbeAssumption DEF pipeVars
<1>1. ASSUME NEW f \in FieldSeqs, NEW killed \in BOOLEAN, ChildPrintsData(f, killed) PROVE Types'
  BY <1>1, LineLength, ChildTypes DEF ChildPrintsData
<1>2. ASSUME NEW n \in LogLens, NEW killed \in BOOLEAN, ChildPrintsLog(n, killed) PROVE Types'
  BY <1>2, ChildTypes DEF ChildPrintsLog
<1>3. CASE ChildEnds
  BY <1>3 DEF Types, ChildEnds
<1>4. CASE IngressGets
  <2>1. Tail(fifo) \in Seq(Buffers)
    BY <1>4 DEF Types, IngressGets
  <2> QED
    BY <1>4, <2>1 DEF Types, IngressGets
<1>5. ASSUME Consume, rest > 0
      PROVE  /\ line' \in Nat /\ rest' \in Nat /\ fields' \in FieldSeqs \union {NULL}
             /\ cut' \in BOOLEAN /\ begun' \in BOOLEAN /\ eof' \in BOOLEAN /\ clean' \in BOOLEAN
             /\ fifo' \in Seq(Buffers)
  BY <1>5, ChunkBounds DEF Types, Consume
<1>6. CASE ReadSkip
  BY <1>5, <1>6 DEF Types, ReadSkip
<1>7. CASE ReadLine
  <2>1. Copied(Chunk - 1) \in Buffers
    BY <1>7, ChunkBounds, CopiedType DEF ReadLine
  <2> QED
    BY <1>5, <1>7, <2>1 DEF Types, ReadLine
<1>8. CASE ReadPart
  <2>1. Copied(Chunk) \in Buffers
    BY <1>8, ChunkBounds, CopiedType DEF ReadPart
  <2> QED
    BY <1>5, <1>8, <2>1 DEF Types, ReadPart
<1>9. CASE Put
  <2>1. Append(fifo, data) \in Seq(Buffers)
    BY <1>9 DEF Types, Put
  <2> QED
    BY <1>9, <2>1 DEF Types, Put
<1>10. CASE PutFull \/ Trigger \/ TriggerFails
  BY <1>10 DEF Types, PutFull, Trigger, TriggerFails
<1>11. CASE RunAgain
  BY <1>11 DEF Types, RunAgain
<1>12. CASE UNCHANGED vars
  BY <1>12 DEF Types, vars
<1> QED
  BY <1>1, <1>2, <1>3, <1>4, <1>6, <1>7, <1>8, <1>9, <1>10, <1>11, <1>12
     DEF Next, RunExtendProbe

-----------------------------------------------------------------------------
\* What is in the fifo has numbers.
LEMMA FifoNumbers ==
  ASSUME IInv, clean
  PROVE  \A i \in DOMAIN fifo : fifo[i] \in Buffers /\ fifo[i].from[1].line \in Nat
<1> SUFFICES ASSUME NEW i \in DOMAIN fifo
             PROVE  fifo[i] \in Buffers /\ fifo[i].from[1].line \in Nat
  OBVIOUS
<1>1. fifo[i] \in Buffers
  BY DEF IInv, Types
<1>2. WholeLine(fifo[i])
  BY DEF IInv, CleanLines, Lines
<1> QED
  BY <1>1, <1>2, WholeHasNumber

\* The other parts of the invariant, for a step of the child.
LEMMA ChildStep ==
  ASSUME IInv, NEW n \in Nat \ {0}, NEW f, NEW killed \in BOOLEAN, ChildPrints(n, f, killed)
  PROVE  (Leftover /\ InPipe /\ AboutToPut /\ CleanLines /\ CleanBuffer)'
<1>1. line \in Nat /\ rest = 0 /\ ~eof /\ line' = line + 1 /\ rest' = n
  BY DEF IInv, Types, ChildPrints
<1>2. UNCHANGED <<pc, data, fifo, clean>> /\ begun' = FALSE /\ cut' = eof'
  BY DEF ChildPrints
<1>3. Leftover'
  BY <1>1, <1>2 DEF IInv, Leftover
<1>4. InPipe'
  <2>1. clean => \A i \in DOMAIN fifo : fifo[i].from[1].line \in Nat
    BY FifoNumbers
  <2> QED
    BY <1>1, <1>2, <2>1 DEF IInv, InPipe
<1>5. AboutToPut'
  <2>1. clean /\ pc = "put" => data.from[1].line \in Nat /\ WholeLine(data)
    BY WholeHasNumber DEF IInv, Types, AboutToPut
  <2>2. clean /\ pc = "put" => WholeLine(data)'
    BY <1>2, <2>1 DEF WholeLine
  <2> QED
    BY <1>1, <1>2, <2>1, <2>2 DEF IInv, AboutToPut
<1>6. CleanLines' /\ CleanBuffer'
  BY <1>2 DEF IInv, CleanLines, Lines, WholeLine, CleanBuffer, InBuffer
<1> QED
  BY <1>3, <1>4, <1>5, <1>6

\* The other parts of the invariant, for a chunk that is read without an error.
LEMMA ReadStep ==
  ASSUME IInv, Types', ReadSkip \/ ReadLine \/ ReadPart
  PROVE  (Leftover /\ InPipe /\ AboutToPut /\ CleanLines /\ CleanBuffer)'
<1>1. CASE ~clean'
  BY <1>1 DEF Leftover, InPipe, AboutToPut, CleanLines, CleanBuffer
<1>2. CASE clean'
  <2>1. clean /\ rest > 0 /\ pc = "read" /\ Chunk = rest /\ Consume /\ Types
    BY <1>2 DEF IInv, Types, ReadSkip, ReadLine, ReadPart, Consume
  <2>2. rest' = 0 /\ Chunk \in Nat /\ Chunk < BufMax /\ ~begun /\ data = NULL
    BY <2>1, ChunkBounds DEF IInv, Types, Leftover, Consume
  <2>3. UNCHANGED <<line, cut, eof, fifo>> /\ line \in Nat
    BY <2>1 DEF Consume, Types
  <2>4. InPipe'
    BY <2>1, <2>2, <2>3, FifoNumbers DEF IInv, InPipe
  <2>5. CleanLines'
    BY <2>1, <2>3 DEF IInv, CleanLines, Lines, WholeLine
  <2>6. CASE ReadSkip
    BY <2>1, <2>2, <2>3, <2>4, <2>5, <2>6
       DEF IInv, Leftover, AboutToPut, CleanBuffer, InBuffer, ReadSkip
  <2>7. CASE ReadLine
    <3>1. data'.len = Chunk - 1 /\ data'.from = <<Piece>> /\ pc' = "put" /\ ~cut
      BY <2>1, <2>2, <2>7, CopiedFresh DEF ReadLine
    <3>2. Piece.line = line /\ Piece.whole
      BY <2>1, <2>2, <3>1 DEF Piece
    <3>3. WholeLine(data)' /\ data'.from[1].line = line
      BY <3>1, <3>2 DEF WholeLine
    <3>4. AboutToPut'
      BY <2>1, <2>2, <2>3, <3>3 DEF IInv, AboutToPut, InPipe
    <3>5. Leftover' /\ CleanBuffer'
      BY <2>1, <2>2, <2>3, <3>1, ExtendProbeAssumption DEF IInv, Leftover, CleanBuffer, InBuffer
    <3> QED
      BY <2>4, <2>5, <3>4, <3>5
  <2>8. CASE ReadPart
    <3>1. data'.len = Chunk /\ cut /\ pc' = "read"
      BY <2>1, <2>2, <2>8, CopiedFresh DEF ReadPart
    <3>2. Leftover' /\ AboutToPut' /\ CleanBuffer'
      BY <2>1, <2>2, <2>3, <3>1 DEF IInv, Leftover, AboutToPut, CleanBuffer, InBuffer
    <3> QED
      BY <2>4, <2>5, <3>2
  <2> QED
    BY <2>6, <2>7, <2>8
<1> QED
  BY <1>1, <1>2

\* The other parts of the invariant, for the hand-over to the fifo.
LEMMA PutStep ==
  ASSUME IInv, Put
  PROVE  (Leftover /\ InPipe /\ AboutToPut /\ CleanLines /\ CleanBuffer)'
<1>1. fifo' = Append(fifo, data) /\ pc' = "trigger" /\ pc = "put"
  BY DEF Put
<1>2. UNCHANGED <<line, rest, cut, begun, eof, data, clean>>
  BY DEF Put, pipeVars
<1>3. fifo \in Seq(Buffers) /\ data \in Buffers
  BY <1>1 DEF IInv, Types
<1>4. /\ DOMAIN fifo' = 1..(Len(fifo) + 1) /\ DOMAIN fifo = 1..Len(fifo) /\ Len(fifo) \in Nat
      /\ \A i \in 1..Len(fifo) : fifo'[i] = fifo[i]
      /\ fifo'[Len(fifo) + 1] = data
  BY <1>1, <1>3
<1>5. Leftover' /\ AboutToPut' /\ CleanBuffer'
  BY <1>1, <1>2 DEF IInv, Leftover, AboutToPut, CleanBuffer, InBuffer
<1>6. InPipe'
  BY <1>1, <1>2, <1>4 DEF IInv, InPipe, AboutToPut
<1>7. CleanLines'
  <2> SUFFICES ASSUME clean PROVE Lines'
    BY <1>2 DEF CleanLines
  <2>1. \A i \in DOMAIN fifo' : WholeLine(fifo'[i])
    BY <1>1, <1>4 DEF IInv, CleanLines, Lines, AboutToPut
  <2>2. \A i, j \in DOMAIN fifo' : i < j => fifo'[i].from[1].line < fifo'[j].from[1].line
    <3> SUFFICES ASSUME NEW i \in DOMAIN fifo', NEW j \in DOMAIN fifo', i < j
                 PROVE  fifo'[i].from[1].line < fifo'[j].from[1].line
      OBVIOUS
    <3>1. CASE j = Len(fifo) + 1
      BY <1>1, <1>4, <3>1 DEF IInv, AboutToPut
    <3>2. CASE j # Len(fifo) + 1
      BY <1>4, <3>2 DEF IInv, CleanLines, Lines
    <3> QED
      BY <3>1, <3>2
  <2>3. \A i \in DOMAIN fifo' : WholeLine(fifo[i])'
    BY <2>1 DEF WholeLine
  <2> QED
    BY <2>2, <2>3 DEF Lines
<1> QED
  BY <1>5, <1>6, <1>7

\* The other parts of the invariant, for the ingress thread.
LEMMA GetStep ==
  ASSUME IInv, IngressGets
  PROVE  (Leftover /\ InPipe /\ AboutToPut /\ CleanLines /\ CleanBuffer)'
<1>1. fifo \in Seq(Buffers) /\ fifo # <<>> /\ fifo' = Tail(fifo)
  BY DEF IInv, Types, IngressGets
<1>2. UNCHANGED <<line, rest, cut, begun, eof, pc, data, clean>>
  BY DEF IngressGets, pipeVars
<1>3. /\ DOMAIN fifo' = 1..(Len(fifo) - 1) /\ DOMAIN fifo = 1..Len(fifo) /\ Len(fifo) \in Nat
      /\ \A i \in 1..(Len(fifo) - 1) : fifo'[i] = fifo[i + 1]
  BY <1>1
<1>4. Leftover' /\ CleanBuffer'
  BY <1>2 DEF IInv, Leftover, CleanBuffer, InBuffer
<1>5. InPipe' /\ AboutToPut'
  <2>1. \A i \in DOMAIN fifo' : i + 1 \in DOMAIN fifo /\ fifo'[i] = fifo[i + 1]
    BY <1>3
  <2>2. InPipe'
    BY <1>2, <2>1 DEF IInv, InPipe
  <2>3. WholeLine(data)' = WholeLine(data)
    BY <1>2 DEF WholeLine
  <2> QED
    BY <1>2, <2>1, <2>2, <2>3 DEF IInv, AboutToPut
<1>6. CleanLines'
  <2> SUFFICES ASSUME clean PROVE Lines'
    BY <1>2 DEF CleanLines
  <2>0. \A i \in DOMAIN fifo' : i + 1 \in DOMAIN fifo /\ fifo'[i] = fifo[i + 1] /\ i \in Nat
    BY <1>3
  <2>1. \A i \in DOMAIN fifo' : WholeLine(fifo'[i])
    BY <2>0 DEF IInv, CleanLines, Lines
  <2>2. \A i, j \in DOMAIN fifo' : i < j => fifo'[i].from[1].line < fifo'[j].from[1].line
    BY <2>0 DEF IInv, CleanLines, Lines
  <2>3. \A i \in DOMAIN fifo' : WholeLine(fifo[i])'
    BY <2>1 DEF WholeLine
  <2> QED
    BY <2>2, <2>3 DEF Lines
<1> QED
  BY <1>4, <1>5, <1>6

\* The other parts of the invariant, for the steps that leave the fifo alone.
LEMMA OtherStep ==
  ASSUME IInv, ChildEnds \/ PutFull \/ Trigger \/ TriggerFails \/ RunAgain \/ UNCHANGED vars
  PROVE  (Leftover /\ InPipe /\ AboutToPut /\ CleanLines /\ CleanBuffer)'
<1>1. UNCHANGED <<line, rest, begun, cut, fifo>> /\ (clean' => clean)
  BY DEF ChildEnds, PutFull, Trigger, TriggerFails, RunAgain, vars, pipeVars
<1>2. InPipe' /\ CleanLines'
  BY <1>1 DEF IInv, InPipe, CleanLines, Lines, WholeLine
<1>3. CASE ChildEnds
  BY <1>2, <1>3 DEF IInv, Leftover, AboutToPut, CleanBuffer, InBuffer, WholeLine, ChildEnds
<1>4. CASE PutFull \/ Trigger
  BY <1>1, <1>2, <1>4, ExtendProbeAssumption
     DEF IInv, Leftover, AboutToPut, CleanBuffer, InBuffer, PutFull, Trigger, pipeVars
<1>5. CASE TriggerFails
  BY <1>2, <1>5 DEF Leftover, AboutToPut, CleanBuffer, TriggerFails
<1>6. CASE RunAgain
  BY <1>1, <1>2, <1>6 DEF IInv, Leftover, AboutToPut, CleanBuffer, InBuffer, RunAgain
<1>7. CASE UNCHANGED vars
  BY <1>2, <1>7 DEF IInv, Leftover, AboutToPut, CleanBuffer, InBuffer, WholeLine, vars, pipeVars
<1> QED
  BY <1>3, <1>4, <1>5, <1>6, <1>7

-----------------------------------------------------------------------------
\* The invariant is inductive.
LEMMA InductiveInvariant == Spec => []IInv
<1>1. Init => IInv
  <2> SUFFICES ASSUME Init PROVE IInv
    OBVIOUS
  <2>1. fifo = <<>> /\ DOMAIN fifo = {} /\ fifo \in Seq(Buffers)
    BY DEF Init
  <2>2. Types
    BY <2>1 DEF Init, Types
  <2>3. Leftover /\ InPipe /\ AboutToPut /\ CleanLines /\ CleanBuffer
    BY <2>1 DEF Init, Leftover, InPipe, AboutToPut, CleanLines, Lines, CleanBuffer, InBuffer
  <2> QED
    BY <2>2, <2>3 DEF IInv
<1>2. IInv /\ [Next]_vars => IInv'
  <2> SUFFICES ASSUME IInv, [Next]_vars PROVE IInv'
    OBVIOUS
  <2>1. Types'
    BY NextTypes DEF IInv
  <2> DEFINE Rest == Leftover /\ InPipe /\ AboutToPut /\ CleanLines /\ CleanBuffer
  <2>2. ASSUME NEW f \in FieldSeqs, NEW killed \in BOOLEAN, ChildPrintsData(f, killed) PROVE Rest'
    BY <2>2, LineLength, ChildStep DEF ChildPrintsData
  <2>3. ASSUME NEW n \in LogLens, NEW killed \in BOOLEAN, ChildPrintsLog(n, killed) PROVE Rest'
    BY <2>3, ExtendProbeAssumption, ChildStep DEF ChildPrintsLog
  <2>4. ASSUME ReadSkip \/ ReadLine \/ ReadPart PROVE Rest'
    BY <2>1, <2>4, ReadStep
  <2>5. ASSUME Put PROVE Rest'
    BY <2>5, PutStep
  <2>6. ASSUME IngressGets PROVE Rest'
    BY <2>6, GetStep
  <2>7. ASSUME ChildEnds \/ PutFull \/ Trigger \/ TriggerFails \/ RunAgain \/ UNCHANGED vars PROVE Rest'
    BY <2>7, OtherStep
  <2> QED
    BY <2>1, <2>2, <2>3, <2>4, <2>5, <2>6, <2>7 DEF IInv, Next, RunExtendProbe
<1> QED
  BY <1>1, <1>2, PTL DEF Spec

(***************************************************************************)
(* Until a line is longer than the buffer or a write() fails, whatever is  *)
(* in the fifo is a whole line of one child and in the order printed: for  *)
(* any sizes, and whatever was dropped or cut off before.                  *)
(***************************************************************************)
THEOREM WholeLinesInOrder == Spec => []CleanLines
<1>1. IInv => CleanLines
  BY DEF IInv
<1> QED
  BY <1>1, InductiveInvariant, PTL

(***************************************************************************)
(* Under the same condition the index into dataStr stays inside of it.     *)
(***************************************************************************)
THEOREM IndexInBuffer == Spec => []CleanBuffer
<1>1. IInv => CleanBuffer
  BY DEF IInv
<1> QED
  BY <1>1, InductiveInvariant, PTL

-----------------------------------------------------------------------------
(***************************************************************************)
(* The record that is made of a line.  Induction over the natural numbers, *)
(* as a fact about sets, shows what the loop over its tokens computes.     *)
(***************************************************************************)
\* A set of natural numbers has a least element.
LEMMA LeastNat ==
  ASSUME NEW T, T \subseteq Nat, T # {}
  PROVE  \E x \in T : \A y \in T : x <= y
<1> DEFINE R == {ss \in Nat \X Nat : ss[1] < ss[2]}
<1>1. IsWellFoundedOn(R, Nat)
  BY NatLessThanWellFounded DEF OpToRel
<1> HIDE DEF R
<1>2. PICK x \in T : \A y \in T : ~ (<<y, x>> \in R)
  BY <1>1, WFMin
<1>3. ASSUME NEW y \in T PROVE x <= y
  <2>1. <<y, x>> \in Nat \X Nat /\ <<y, x>>[1] = y /\ <<y, x>>[2] = x
    OBVIOUS
  <2>2. y < x => <<y, x>> \in R
    BY <2>1 DEF R
  <2> QED
    BY <1>2, <2>2
<1> QED
  BY <1>3

\* A set with 0 and the successors of its elements has every natural number.
LEMMA Induction ==
  ASSUME NEW S, 0 \in S, \A n \in Nat : n \in S => n + 1 \in S
  PROVE  \A n \in Nat : n \in S
<1> SUFFICES ASSUME NEW n \in Nat, n \notin S PROVE FALSE
  OBVIOUS
<1> DEFINE T == {k \in Nat : k \notin S}
<1>1. PICK x \in T : \A y \in T : x <= y
  BY LeastNat
<1>2. x # 0 /\ x - 1 \in Nat /\ x - 1 \notin T
  BY <1>1
<1> QED
  BY <1>2

\* How many metrics there are after n tokens.
Filled(n) == IF n = 0 THEN 0 ELSE IF n - 1 <= MetricsNum THEN n - 1 ELSE MetricsNum

\* The metrics after n tokens of t, when only the first token of t is skipped.
Prefix(t, n) == [i \in 1..Filled(n) |-> Metric(t[i + 1])]

\* The recursion that defines Columns.
IsColumns(c, t) ==
  c = [n \in 0..Len(t) |-> IF n = 0 THEN <<>> ELSE AddToken(c[n - 1], t[n])]

LEMMA FilledNat ==
  ASSUME NEW n \in Nat
  PROVE  Filled(n) \in Nat
BY ExtendProbeAssumption DEF Filled

\* The tokens of a line: its fields are the second to the last but one.
LEMMA TokensOf ==
  ASSUME NEW f \in Seq(Values \union {EMPTY})
  PROVE  /\ Len(f) \in Nat /\ Len(Tokens(f)) = Len(f) + 2
         /\ Tokens(f)[1] = EMPTY /\ Tokens(f)[Len(f) + 2] = EMPTY
         /\ \A i \in 1..Len(f) : Tokens(f)[i + 1] = f[i]
<1> DEFINE E == Values \union {EMPTY}
           a == <<EMPTY>>
           b == <<EMPTY>> \o f
<1>1. a \in Seq(E) /\ Len(a) = 1 /\ a[1] = EMPTY /\ Len(f) \in Nat
  OBVIOUS
<1>2. b \in Seq(E) /\ Len(b) = Len(f) + 1 /\ b[1] = EMPTY
      /\ \A i \in 2..(Len(f) + 1) : b[i] = f[i - 1]
  BY <1>1
<1>3. \A i \in 1..Len(f) : b[i + 1] = f[i]
  <2> HIDE DEF b
  <2> TAKE i \in 1..Len(f)
  <2>1. i + 1 \in 2..(Len(f) + 1) /\ (i + 1) - 1 = i
    BY <1>1
  <2> QED
    BY <1>2, <2>1
<1>4. Tokens(f) = b \o a
  BY DEF Tokens
<1> HIDE DEF a, b
<1>5. Len(b \o a) = Len(b) + 1 /\ (b \o a)[Len(b) + 1] = a[1]
      /\ \A i \in 1..Len(b) : (b \o a)[i] = b[i]
  <2>1. Len(b) \in Nat /\ Len(b) + 1 \in 1..(Len(b) + Len(a)) /\ ~(Len(b) + 1 <= Len(b))
        /\ (Len(b) + 1) - Len(b) = 1
    BY <1>1, <1>2
  <2> HIDE DEF E
  <2>2. Len(b \o a) = Len(b) + Len(a)
        /\ \A i \in 1..(Len(b) + Len(a)) :
             (b \o a)[i] = IF i <= Len(b) THEN b[i] ELSE a[i - Len(b)]
    BY <1>1, <1>2, ConcatProperties, Zenon
  <2>3. \A i \in 1..Len(b) : i \in 1..(Len(b) + Len(a)) /\ i <= Len(b)
    BY <1>1, <2>1
  <2> QED
    BY <1>1, <2>1, <2>2, <2>3
<1>6. \A i \in 1..Len(f) : i + 1 \in 1..Len(b)
  BY <1>1, <1>2
<1>7. 1 \in 1..Len(b) /\ Len(b) + 1 = Len(f) + 2
  BY <1>1, <1>2
<1> QED
  BY <1>1, <1>2, <1>3, <1>4, <1>5, <1>6, <1>7

\* One turn of the loop.
LEMMA PrefixStep ==
  ASSUME NEW t, NEW n \in Nat, n # 0, t[1] = EMPTY, t[2] # EMPTY
  PROVE  Prefix(t, n) = AddToken(Prefix(t, n - 1), t[n])
<1> USE ExtendProbeAssumption
<1>1. ASSUME NEW m \in Nat
      PROVE  /\ Filled(m) \in Nat /\ Len(Prefix(t, m)) = Filled(m)
             /\ DOMAIN Prefix(t, m) = 1..Filled(m)
             /\ \A i \in 1..Filled(m) : Prefix(t, m)[i] = Metric(t[i + 1])
             /\ Prefix(t, m) \in Seq({Metric(t[i + 1]) : i \in 1..Filled(m)})
  <2>1. Filled(m) \in Nat
    BY FilledNat
  <2>2. PICK V : V = {Metric(t[i + 1]) : i \in 1..Filled(m)}
    OBVIOUS
  <2>3. Prefix(t, m) \in Seq({Metric(t[i + 1]) : i \in 1..Filled(m)})
        /\ DOMAIN Prefix(t, m) = 1..Filled(m)
    <3>0. PICK k \in Nat : k = Filled(m)
      BY <2>1
    <3>1. PICK p : p = Prefix(t, m) /\ k = Filled(m)
      BY <3>0
    <3>2. p \in [1..k -> V]
      BY <2>2, <3>1 DEF Prefix
    <3>3. p \in Seq(V) /\ DOMAIN p = 1..k
      BY <3>2
    <3> QED
      BY <2>2, <3>1, <3>3
  <2>4. Len(Prefix(t, m)) = Filled(m)
    BY <2>1, <2>3
  <2>5. \A i \in 1..Filled(m) : Prefix(t, m)[i] = Metric(t[i + 1])
    BY DEF Prefix
  <2> QED
    BY <2>1, <2>3, <2>4, <2>5
<1>2. CASE n = 1
  <2>1. Filled(n) = 0 /\ Filled(n - 1) = 0
    BY <1>2 DEF Filled
  <2>2. Prefix(t, n) = <<>> /\ Prefix(t, n - 1) = <<>>
    BY <2>1 DEF Prefix
  <2> QED
    BY <1>2, <2>2 DEF AddToken
<1>3. CASE n # 1
  <2> DEFINE p == Prefix(t, n - 1)
             q == Prefix(t, n)
             k == Filled(n - 1)
  <2>1. n - 1 \in Nat /\ n - 1 # 0
    BY <1>3
  <2>2. /\ k \in Nat /\ Len(p) = k /\ DOMAIN p = 1..k
        /\ \A i \in 1..k : p[i] = Metric(t[i + 1])
        /\ p \in Seq({Metric(t[i + 1]) : i \in 1..k})
    BY <1>1, <2>1
  <2>3. /\ Filled(n) \in Nat /\ DOMAIN q = 1..Filled(n)
        /\ \A i \in 1..Filled(n) : q[i] = Metric(t[i + 1])
    BY <1>1
  <2>4. k = IF n - 2 <= MetricsNum THEN n - 2 ELSE MetricsNum
    BY <2>1 DEF Filled
  <2>5. Filled(n) = IF n - 1 <= MetricsNum THEN n - 1 ELSE MetricsNum
    BY DEF Filled
  <2>6. CASE k >= MetricsNum
    <3>1. Filled(n) = k
      BY <2>1, <2>4, <2>5, <2>6
    <3>2. q = p
      BY <3>1 DEF Prefix
    <3>3. AddToken(p, t[n]) = p
      BY <2>2, <2>6 DEF AddToken
    <3> QED
      BY <3>2, <3>3
  <2>7. CASE ~(k >= MetricsNum)
    <3>1. k = n - 2 /\ Filled(n) = k + 1 /\ n = (k + 1) + 1
      BY <2>1, <2>4, <2>5, <2>7
    <3>2. ~(t[n] = EMPTY /\ p = <<>>)
      <4>1. p = <<>> => k = 0
        BY <2>2
      <4>2. k = 0 => n = 2
        BY <3>1
      <4> QED
        BY <4>1, <4>2
    <3>3. AddToken(p, t[n]) = Append(p, Metric(t[n]))
      BY <2>2, <2>7, <3>2 DEF AddToken
    <3> HIDE DEF p, q, k
    <3>4. Append(p, Metric(t[n])) = [i \in 1..(k + 1) |-> IF i = k + 1 THEN Metric(t[n]) ELSE p[i]]
      BY <2>2
    <3>5. q = [i \in 1..(k + 1) |-> Metric(t[i + 1])]
      BY <3>1 DEF q, Prefix
    <3>6. \A i \in 1..(k + 1) : Metric(t[i + 1]) = IF i = k + 1 THEN Metric(t[n]) ELSE p[i]
      <4> TAKE i \in 1..(k + 1)
      <4>1. i = k + 1 \/ i \in 1..k
        BY <2>2
      <4> QED
        BY <2>2, <3>1, <4>1
    <3>7. q = Append(p, Metric(t[n]))
      BY <3>4, <3>5, <3>6
    <3> QED
      BY <3>3, <3>7 DEF p, q
  <2> QED
    BY <2>6, <2>7
<1> QED
  BY <1>2, <1>3

\* Only one function satisfies the recursion.
LEMMA ColumnsUnique ==
  ASSUME NEW t, Len(t) \in Nat, NEW c, NEW d, IsColumns(c, t), IsColumns(d, t)
  PROVE  c = d
<1> DEFINE S == {n \in Nat : n <= Len(t) => c[n] = d[n]}
<1>1. 0 \in S
  BY DEF IsColumns
<1>2. ASSUME NEW n \in Nat, n \in S PROVE n + 1 \in S
  <2> SUFFICES ASSUME n + 1 <= Len(t) PROVE c[n + 1] = d[n + 1]
    OBVIOUS
  <2>1. n + 1 \in 0..Len(t) /\ n + 1 # 0 /\ (n + 1) - 1 = n
    OBVIOUS
  <2>2. c[n + 1] = AddToken(c[n], t[n + 1]) /\ d[n + 1] = AddToken(d[n], t[n + 1])
    BY <2>1 DEF IsColumns
  <2> QED
    BY <1>2, <2>2
<1> HIDE DEF S
<1>3. \A n \in Nat : n \in S
  BY <1>1, <1>2, Induction
<1>4. \A n \in 0..Len(t) : c[n] = d[n]
  BY <1>3 DEF S
<1> QED
  BY <1>4 DEF IsColumns

\* What the loop computes of a line whose first field is not empty.
LEMMA ParsedLine ==
  ASSUME NEW f \in Seq(Values \union {EMPTY}), f # <<>>, Head(f) # EMPTY
  PROVE  ParseContent(f) = Prefix(Tokens(f), Len(f) + 2)
<1> DEFINE t == Tokens(f)
           c == [n \in 0..Len(t) |-> Prefix(t, n)]
<1>1. /\ Len(f) \in Nat /\ Len(t) = Len(f) + 2 /\ t[1] = EMPTY
      /\ \A i \in 1..Len(f) : t[i + 1] = f[i]
  BY TokensOf
<1>2. Len(f) >= 1 /\ Head(f) = f[1]
  OBVIOUS
<1>3. t[2] # EMPTY
  <2>1. 1 \in 1..Len(f) /\ 1 + 1 = 2
    BY <1>1, <1>2
  <2> QED
    BY <1>1, <1>2, <2>1
<1> HIDE DEF t
<1>4. Prefix(t, 0) = <<>>
  <2>1. Filled(0) = 0
    BY DEF Filled
  <2> QED
    BY <2>1 DEF Prefix
<1>5. IsColumns(c, t)
  <2>1. ASSUME NEW n \in 0..Len(t) PROVE c[n] = IF n = 0 THEN <<>> ELSE AddToken(c[n - 1], t[n])
    <3>1. CASE n = 0
      BY <1>4, <3>1
    <3>2. CASE n # 0
      <4>1. n \in Nat /\ n - 1 \in 0..Len(t)
        BY <1>1, <3>2
      <4>2. Prefix(t, n) = AddToken(Prefix(t, n - 1), t[n])
        BY <1>1, <1>3, <3>2, <4>1, PrefixStep
      <4> QED
        BY <3>2, <4>1, <4>2
    <3> QED
      BY <3>1, <3>2
  <2>2. c = [n \in 0..Len(t) |-> c[n]]
    OBVIOUS
  <2> HIDE DEF c
  <2> QED
    BY <2>1, <2>2 DEF IsColumns
<1>6. Columns(t) = CHOOSE x : x = [n \in 0..Len(t) |-> IF n = 0 THEN <<>>
                                                      ELSE AddToken(x[n - 1], t[n])]
  BY DEF Columns
<1>7. IsColumns(Columns(t), t)
  BY <1>5, <1>6 DEF IsColumns
<1>8. Columns(t) = c
  <2> HIDE DEF c
  <2> QED
    BY <1>1, <1>5, <1>7, ColumnsUnique
<1>9. Len(t) \in 0..Len(t)
  BY <1>1
<1> QED
  BY <1>1, <1>8, <1>9 DEF ParseContent, t

\* So every value is the metric of its field.
LEMMA ParsedFields ==
  ASSUME NEW f \in Seq(Values \union {EMPTY}), f # <<>>, Head(f) # EMPTY
  PROVE  /\ \A i \in DOMAIN f : f[i] # EMPTY /\ i <= MetricsNum =>
              /\ i \in DOMAIN ParseContent(f)
              /\ ParseContent(f)[i] = IF f[i] \in Odd THEN GARBLED ELSE f[i]
         /\ \A i \in DOMAIN ParseContent(f) :
              \/ ParseContent(f)[i] \in {INVALID, GARBLED}
              \/ i \in DOMAIN f /\ ParseContent(f)[i] = f[i]
<1> DEFINE t == Tokens(f)
           p == Prefix(t, Len(f) + 2)
           k == Filled(Len(f) + 2)
<1>1. /\ Len(f) \in Nat /\ t[Len(f) + 2] = EMPTY /\ DOMAIN f = 1..Len(f)
      /\ \A i \in 1..Len(f) : t[i + 1] = f[i]
  BY TokensOf
<1>2. ParseContent(f) = p
  BY ParsedLine
<1>3. k \in Nat /\ k = IF Len(f) + 1 <= MetricsNum THEN Len(f) + 1 ELSE MetricsNum
  BY <1>1, ExtendProbeAssumption DEF Filled
<1> HIDE DEF t
<1>4. DOMAIN p = 1..k /\ \A i \in 1..k : p[i] = Metric(t[i + 1])
  BY DEF Prefix
<1> HIDE DEF p, k
<1>5. ASSUME NEW i \in 1..Len(f), f[i] # EMPTY, i <= MetricsNum 
      PROVE  i \in 1..k /\ p[i] = IF f[i] \in Odd THEN GARBLED ELSE f[i]
  <2>1. i \in 1..k
    BY <1>1, <1>3, <1>5, ExtendProbeAssumption
  <2> QED
    BY <1>1, <1>4, <1>5, <2>1 DEF Metric, SetValue
<1>6. ASSUME NEW i \in 1..k PROVE p[i] \in {INVALID, GARBLED} \/ (i \in 1..Len(f) /\ p[i] = f[i])
  <2>1. i \in 1..Len(f) \/ i = Len(f) + 1
    BY <1>1, <1>3, ExtendProbeAssumption
  <2>2. i = Len(f) + 1 => i + 1 = Len(f) + 2
    BY <1>1
  <2> QED
    BY <1>1, <1>4, <2>1, <2>2 DEF Metric, SetValue
<1> QED
  BY <1>1, <1>2, <1>4, <1>5, <1>6

\* A buffer with a whole line has one that begins with a bar.
Barred(d) == WholeLine(d) => d.from[1].fields # NULL

(***************************************************************************)
(* The invariant: what is a whole line began with a bar, and the record    *)
(* that the ingress thread made last is that of such a line.               *)
(***************************************************************************)
Parsed ==
  /\ data # NULL \/ pc # "read" => Barred(data)
  /\ \A i \in DOMAIN fifo : Barred(fifo[i])
  /\ clean /\ rec # NULL => \E f \in FieldSeqs : rec.fields = f /\ rec.metrics = ParseContent(f)

\* What is copied from a line that begins with a bar.
LEMMA CopiedBarred ==
  ASSUME Types, TRUE \in FirstIsBar, NEW n \in Int
  PROVE  Barred(Copied(n))
<1>1. Piece.whole => Piece.fields # NULL
  <2>1. ~begun => fields # NULL
    BY DEF FirstIsBar
  <2> QED
    BY <2>1 DEF Piece
<1>2. CASE data = NULL
  <2>1. Copied(n).from = <<Piece>>
    BY <1>2, CopiedFresh
  <2> QED
    BY <1>1, <2>1 DEF Barred, WholeLine
<1>3. CASE data # NULL
  <2>1. data.from \in Seq(Pieces)
    BY <1>3 DEF Types, Buffers
  <2>2. Copied(n).from = Append(data.from, Piece)
    BY <1>3 DEF Copied
  <2>3. PICK p \in Seq(Pieces) : p = data.from
    BY <2>1
  <2>4. Len(Append(p, Piece)) = Len(p) + 1 /\ Append(p, Piece)[Len(p) + 1] = Piece /\ Len(p) \in Nat
    OBVIOUS
  <2>5. Len(Append(p, Piece)) = 1 => Append(p, Piece)[1] = Piece
    BY <2>4
  <2> QED
    BY <1>1, <2>2, <2>3, <2>5 DEF Barred, WholeLine
<1> QED
  BY <1>2, <1>3

\* Every step keeps that.
LEMMA NextParsed == IInv /\ Parsed /\ [Next]_vars => Parsed'
<1> SUFFICES ASSUME IInv, Parsed, [Next]_vars PROVE Parsed'
  OBVIOUS
<1>a. Types
  BY DEF IInv
<1>1. CASE /\ UNCHANGED <<fifo, rec>> /\ (clean' => clean)
           /\ (data' = data /\ pc' \in {pc, "read"}) \/ (data' = NULL /\ pc' = "read")
  BY <1>1 DEF Parsed
<1>2. ASSUME ReadLine \/ ReadPart PROVE Parsed'
  <2>1. UNCHANGED <<fifo, rec>> /\ (clean' => clean) /\ rest > 0 /\ TRUE \in FirstIsBar
    BY <1>2 DEF ReadLine, ReadPart, Consume
  <2>2. Chunk \in Int /\ Chunk - 1 \in Int
    BY <1>a, <2>1, ChunkBounds
  <2>3. PICK n \in Int : data' = Copied(n)
    BY <1>2, <2>2 DEF ReadLine, ReadPart
  <2>4. Barred(data')
    BY <1>a, <2>1, <2>3, CopiedBarred
  <2> QED
    BY <2>1, <2>4 DEF Parsed
<1>3. ASSUME Put PROVE Parsed'
  <2>1. fifo' = Append(fifo, data) /\ UNCHANGED <<data, rec, clean>> /\ pc = "put"
    BY <1>3 DEF Put
  <2>2. data \in Buffers /\ fifo \in Seq(Buffers)
    BY <1>a, <2>1 DEF Types
  <2>3. Barred(data) /\ \A i \in DOMAIN fifo : Barred(fifo[i])
    BY <2>1 DEF Parsed
  <2>4. /\ Len(fifo) \in Nat /\ DOMAIN Append(fifo, data) = 1..(Len(fifo) + 1)
        /\ DOMAIN fifo = 1..Len(fifo)
        /\ \A i \in 1..Len(fifo) : Append(fifo, data)[i] = fifo[i]
        /\ Append(fifo, data)[Len(fifo) + 1] = data
    BY <2>2
  <2>5. \A i \in 1..(Len(fifo) + 1) : i \in 1..Len(fifo) \/ i = Len(fifo) + 1
    BY <2>4
  <2>6. \A i \in DOMAIN fifo' : Barred(fifo'[i])
    BY <2>1, <2>3, <2>4, <2>5
  <2> QED
    BY <2>1, <2>6 DEF Parsed
<1>4. ASSUME IngressGets PROVE Parsed'
  <2>1. fifo' = Tail(fifo) /\ fifo # <<>> /\ UNCHANGED <<data, pc, clean>>
        /\ (clean => rec' = Taken(Head(fifo), Head(fifo).from[1].fields))
    BY <1>4 DEF IngressGets
  <2>2. fifo \in Seq(Buffers) /\ Head(fifo) = fifo[1] /\ 1 \in DOMAIN fifo /\ fifo[1] \in Buffers
    BY <1>a, <2>1 DEF Types
  <2>3. \A i \in DOMAIN Tail(fifo) : i + 1 \in DOMAIN fifo /\ Tail(fifo)[i] = fifo[i + 1]
    BY <2>1, <2>2
  <2>4. \A i \in DOMAIN fifo' : Barred(fifo'[i])
    BY <2>1, <2>3 DEF Parsed
  <2>5. ASSUME clean, rec' # NULL
        PROVE  \E f \in FieldSeqs : rec'.fields = f /\ rec'.metrics = ParseContent(f)
    <3>1. WholeLine(fifo[1]) /\ Barred(fifo[1])
      BY <2>1, <2>2, <2>5 DEF Parsed, Taken
    <3>2. PICK f : f = fifo[1].from[1].fields
      OBVIOUS
    <3>3. f \in FieldSeqs
      <4>1. fifo[1].from \in Seq(Pieces) /\ Len(fifo[1].from) = 1
        BY <2>2, <3>1 DEF Buffers, WholeLine
      <4>2. fifo[1].from[1] \in Pieces
        BY <4>1
      <4>3. f \in FieldSeqs \union {NULL}
        BY <3>2, <4>2 DEF Pieces
      <4> QED
        BY <3>1, <3>2, <4>3 DEF Barred
    <3>4. rec' = [fields |-> f, metrics |-> ParseContent(f)]
      BY <2>1, <2>2, <2>5, <3>1, <3>2 DEF Taken
    <3> QED
      BY <3>3, <3>4
  <2> QED
    BY <2>1, <2>4, <2>5 DEF Parsed
<1>5. ASSUME \/ \E f \in FieldSeqs, killed \in BOOLEAN : ChildPrintsData(f, killed)
             \/ \E n \in LogLens, killed \in BOOLEAN : ChildPrintsLog(n, killed)
             \/ ChildEnds
      PROVE  Parsed'
  <2>1. UNCHANGED <<data, pc, fifo, rec, clean>>
    BY <1>5 DEF ChildPrintsData, ChildPrintsLog, ChildPrints, ChildEnds
  <2> QED
    BY <1>1, <2>1
<1>6. ASSUME ReadSkip \/ PutFull \/ Trigger \/ TriggerFails \/ RunAgain \/ UNCHANGED vars
      PROVE  Parsed'
  <2>1. CASE ReadSkip
    BY <1>1, <2>1 DEF ReadSkip, Consume
  <2>2. CASE TriggerFails
    <3>1. ~clean' /\ UNCHANGED <<fifo, rec, data>> /\ pc' = "read"
      BY <2>2 DEF TriggerFails
    <3> QED
      BY <1>1, <3>1
  <2> QED
    BY <1>1, <1>6, <2>1, <2>2 DEF PutFull, Trigger, RunAgain, vars
<1> QED
  BY <1>2, <1>3, <1>4, <1>5, <1>6 DEF Next, RunExtendProbe

(***************************************************************************)
(* Until a line is longer than the buffer or a write() fails, for any      *)
(* lines and any number of metrics of a table: a value that the child      *)
(* printed is the value of the metric with the number of its field, if     *)
(* snprintf leaves it as it is, and no metric has another value, unless    *)
(* the first field is empty.                                               *)
(***************************************************************************)
THEOREM MetricsAreFields == Spec => []MetricIsField
<1>1. Init => Parsed
  <2> SUFFICES ASSUME Init PROVE Parsed
    OBVIOUS
  <2>1. data = NULL /\ pc = "read" /\ rec = NULL /\ fifo = <<>> /\ DOMAIN fifo = {}
    BY DEF Init
  <2> QED
    BY <2>1 DEF Parsed
<1>2. IInv /\ Parsed /\ [Next]_vars => Parsed'
  BY NextParsed
<1>3. Parsed => MetricIsField
  <2> SUFFICES ASSUME Parsed, clean, rec # NULL, rec.fields # <<>>, Head(rec.fields) # EMPTY
               PROVE  MetricIsField
    BY DEF MetricIsField
  <2>1. PICK f \in FieldSeqs : rec.fields = f /\ rec.metrics = ParseContent(f)
    BY DEF Parsed
  <2>2. f \in Seq(Values \union {EMPTY}) /\ f # <<>> /\ Head(f) # EMPTY
    BY <2>1, ExtendProbeAssumption
  <2>3. /\ \A i \in DOMAIN f : f[i] # EMPTY /\ i <= MetricsNum =>
             /\ i \in DOMAIN ParseContent(f)
             /\ ParseContent(f)[i] = IF f[i] \in Odd THEN GARBLED ELSE f[i]
        /\ \A i \in DOMAIN ParseContent(f) :
             \/ ParseContent(f)[i] \in {INVALID, GARBLED}
             \/ i \in DOMAIN f /\ ParseContent(f)[i] = f[i]
    BY <2>2, ParsedFields
  <2> QED
    BY <2>1, <2>3 DEF MetricIsField
<1> QED
  BY <1>1, <1>2, <1>3, InductiveInvariant, PTL DEF Spec
=============================================================================
