--------------------------- MODULE RedisSli_proofs ---------------------------
(***************************************************************************)
(* Proofs about module RedisSli: for any sizes and any period.             *)
(***************************************************************************)
EXTENDS RedisSli, TLAPS, WellFoundedInduction, SequenceTheorems

\* The parts of an entry of conn_map that the proof looks at.
Shape(c) ==
  /\ DOMAIN c = {"n", "smp", "rdBuf", "rdList", "curBuf", "curList", "cmd"}
  /\ c.n \in 0..1
  /\ DOMAIN c.cmd = {"start", "store", "wr", "finished"}

Shapes ==
  /\ conn = NULL \/ Shape(conn)
  /\ pending \in Nat

(***************************************************************************)
(* The time of the last read is that of the commands which still wait, if  *)
(* the next of them will be sampled: a sample ends in writeToClient, which *)
(* runs when no command waits.                                             *)
(***************************************************************************)
TimeIsFresh ==
  /\ pc = "write" => pending = 0
  /\ conn # NULL /\ conn.n = 0 /\ pending > 0 => last = TRUE

Started == conn # NULL /\ conn.n = 1 => conn.cmd.start = TRUE

\* The return of processCommand finds the entry that its call has seen.
Stashed == stash => pc = "process" /\ Shape(conn) /\ conn.n = 1 /\ conn.cmd.start = TRUE

IInv == Shapes /\ TimeIsFresh /\ Started /\ Stashed

-----------------------------------------------------------------------------
\* A new entry of conn_map has this shape.
LEMMA NewConnShape == Shape(NewConn) /\ NewConn.n = 0
BY DEF NewConn, NoCmd, Shape

\* Counting what was written keeps the shape.
LEMMA CountedShape ==
  ASSUME Shape(conn)
  PROVE  Shape(Counted) /\ Counted.n = conn.n /\ Counted.cmd = conn.cmd
BY DEF Shape, Counted

\* Renewing a sample keeps the shape, and the sample if it is not over.
LEMMA RenewedShape ==
  ASSUME NEW c, Shape(c)
  PROVE  /\ Shape(Renewed(c))
         /\ Renewed(c).n = 1 => c.n = 1 /\ Renewed(c).cmd = c.cmd
BY DEF Shape, Renewed, NoCmd

\* With no command left over in the query buffer every step keeps the invariant.
LEMMA NextIInv ==
  ASSUME ~Unblocks
  PROVE  IInv /\ [Next]_vars => IInv'
<1> SUFFICES ASSUME IInv, [Next]_vars PROVE IInv'
  OBVIOUS
<1> USE RedisSliAssumption DEF IInv
<1>1. CASE ReadQuery
  <2> DEFINE c == IF conn = NULL THEN NewConn ELSE conn
  <2>1. Shape(c) /\ (c.n = 1 => c.cmd.start = TRUE)
    BY NewConnShape DEF Shapes, Started, Stashed, Shape
  <2>2. \/ c.n = 1 /\ conn' = c
        \/ c.n = 0 /\ conn' = [c EXCEPT !.rdBuf = 0, !.rdList = 0] /\ last' = TRUE
    BY <1>1, <2>1 DEF ReadQuery, Shape
  <2>3. pc = "idle" /\ pc' = pc /\ pending' \in Nat /\ ~stash'
    BY <1>1 DEF ReadQuery, Stashed
  <2> HIDE DEF c
  <2>4. CASE c.n = 1 /\ conn' = c
    BY <1>1, <2>1, <2>3, <2>4 DEF ReadQuery, Shapes, TimeIsFresh, Started, Stashed
  <2>5. CASE c.n = 0 /\ conn' = [c EXCEPT !.rdBuf = 0, !.rdList = 0] /\ last' = TRUE
    <3>1. Shape(conn') /\ conn'.n = 0
      BY <2>1, <2>5 DEF Shape
    <3>2. Shapes'
      BY <2>3, <3>1 DEF Shapes
    <3> QED
      BY <2>3, <2>5, <3>1, <3>2 DEF TimeIsFresh, Started, Stashed
  <2> QED
    BY <2>2, <2>4, <2>5
<1>2. CASE ReadQueryUnknown
  BY <1>2 DEF Shapes, TimeIsFresh, Started, Stashed, ReadQueryUnknown, Shape
<1>3. CASE ProcessCommand
  <2>1. pc = "idle" /\ pending > 0 /\ pending' = pending - 1 /\ pc' = "process" /\ last' = last
    BY <1>3 DEF ProcessCommand
  <2>2. CASE conn = NULL \/ Busy
    BY <1>3, <2>1, <2>2 DEF Shapes, TimeIsFresh, Started, Stashed, ProcessCommand, Shape
  <2>3. CASE conn # NULL /\ ~Busy
    <3>1. Shape(conn) /\ conn.n = 0 /\ last = TRUE
      BY <2>1, <2>3 DEF Shapes, Shape, TimeIsFresh, Busy
    <3>2. conn' = [conn EXCEPT !.n = 1, !.curBuf = bufpos, !.curList = reply_bytes,
                               !.cmd.start = last, !.cmd.finished = FALSE]
      BY <1>3, <2>3 DEF ProcessCommand
    <3>3. Shape(conn') /\ conn'.n = 1 /\ conn'.cmd.start = TRUE
      <4>1. DOMAIN conn' = DOMAIN conn /\ conn'.n = 1
        BY <3>1, <3>2 DEF Shape
      <4>2. conn'.cmd = [conn.cmd EXCEPT !.start = last, !.finished = FALSE]
        BY <3>1, <3>2 DEF Shape
      <4>3. DOMAIN conn'.cmd = DOMAIN conn.cmd /\ conn'.cmd.start = last
        BY <3>1, <4>2 DEF Shape
      <4> QED
        BY <3>1, <4>1, <4>3 DEF Shape
    <3> QED
      BY <2>1, <3>3 DEF Shapes, TimeIsFresh, Started, Stashed
  <2> QED
    BY <2>2, <2>3
<1>4. ASSUME NEW k \in 1..MaxPart, ReplyToBuffer(k) \/ ReplyToList(k) \/ ReplyLater(k) PROVE IInv'
  <2>1. UNCHANGED <<pc, pending, conn, stash, last>>
    BY <1>4 DEF ReplyToBuffer, ReplyToList, ReplyLater
  <2> QED
    BY <2>1 DEF Shapes, TimeIsFresh, Started, Stashed, Shape
<1>5. CASE ProcessReturn
  <2>1. UNCHANGED <<pending, last>> /\ pc' = "idle"
    BY <1>5 DEF ProcessReturn
  <2>2. CASE ~stash
    BY <1>5, <2>1, <2>2 DEF Shapes, TimeIsFresh, Started, Stashed, ProcessReturn, Shape
  <2>3. CASE stash
    <3>1. Shape(conn) /\ conn.n = 1 /\ conn.cmd.start = TRUE /\ stash' = FALSE
      BY <1>5, <2>3 DEF Stashed, Shapes, ProcessReturn
    <3>2. \/ conn' = [conn EXCEPT !.cmd.store = "STATIC_BUFFER", !.cmd.wr = bufpos]
          \/ conn' = [conn EXCEPT !.cmd.store = "DYNAMIC_LIST", !.cmd.wr = reply_bytes]
          \/ conn' = [conn EXCEPT !.cmd.store = "NO_STORAGE", !.cmd.finished = TRUE]
      BY <1>5, <2>3 DEF ProcessReturn
    <3>3. /\ DOMAIN conn' = DOMAIN conn /\ conn'.n = conn.n
          /\ DOMAIN conn'.cmd = DOMAIN conn.cmd /\ conn'.cmd.start = conn.cmd.start
      BY ZenonT(40), <3>1, <3>2 DEF Shape
    <3> QED
      BY <2>1, <3>1, <3>3 DEF Shapes, Shape, TimeIsFresh, Started, Stashed, Stashed
  <2> QED
    BY <2>2, <2>3
<1>6. CASE WriteToClient
  <2>1. UNCHANGED <<pending, last>> /\ pending = 0 /\ ~stash'
    BY <1>6 DEF WriteToClient, Stashed
  <2>2. conn' = conn \/ (Shape(conn') /\ conn'.n = conn.n /\ conn'.cmd = conn.cmd /\ conn # NULL)
    BY <1>6 DEF WriteToClient, Shapes, Shape
  <2> QED
    BY <2>1, <2>2 DEF Shapes, TimeIsFresh, Started, Stashed
<1>7. CASE Send
  BY <1>7 DEF Shapes, TimeIsFresh, Started, Stashed, Send, Shape
<1>8. CASE WriteReturn
  <2>1. UNCHANGED <<pending, last>> /\ pending = 0 /\ pc' = "idle" /\ ~stash'
    BY <1>8 DEF WriteReturn, TimeIsFresh, Stashed
  <2>2. CASE conn = NULL
    BY <1>8, <2>1, <2>2 DEF Shapes, TimeIsFresh, Started, Stashed, WriteReturn
  <2>3. CASE conn # NULL
    <3> DEFINE d == [Counted EXCEPT !.cmd.finished = @ \/ Written(Counted)]
    <3>1. Shape(Counted) /\ Counted.n = conn.n /\ Counted.cmd = conn.cmd
      BY <2>3, CountedShape DEF Shapes
    <3>2. Shape(d) /\ d.n = conn.n /\ d.cmd.start = conn.cmd.start
      BY <3>1 DEF Shape
    <3>3. conn' = Counted \/ conn' = Renewed(d)
      BY <1>8, <2>3 DEF WriteReturn
    <3> HIDE DEF d
    <3>4. Shape(Renewed(d)) /\ (Renewed(d).n = 1 => d.n = 1 /\ Renewed(d).cmd = d.cmd)
      BY <3>2, RenewedShape
    <3>5. Shape(conn') /\ (conn'.n = 1 => conn'.cmd.start = TRUE)
      BY <2>3, <3>1, <3>2, <3>3, <3>4 DEF Started
    <3> QED
      BY <2>1, <3>5 DEF Shapes, TimeIsFresh, Started, Stashed
  <2> QED
    BY <2>2, <2>3
<1>9. CASE FreeClient
  BY <1>9 DEF Shapes, TimeIsFresh, Started, Stashed, FreeClient, Shape
<1>10. CASE Tick
  <2>1. conn # NULL /\ Shape(conn) /\ conn' = [conn EXCEPT !.smp = @ + 1]
    BY <1>10 DEF Tick, Shapes
  <2>2. Shape(conn') /\ conn'.n = conn.n /\ conn'.cmd = conn.cmd
    BY <2>1 DEF Shape
  <2> QED
    BY <1>10, <2>1, <2>2 DEF Shapes, TimeIsFresh, Started, Stashed, Tick, redis
<1>11. CASE UNCHANGED vars
  BY <1>11 DEF Shapes, TimeIsFresh, Started, Stashed, vars, Shape
<1> QED
  BY <1>1, <1>2, <1>3, <1>4, <1>5, <1>6, <1>7, <1>8, <1>9, <1>10, <1>11 DEF Next

(***************************************************************************)
(* For any sizes of the stores and any period: the latency of a sample     *)
(* starts at the read that brought the command, as long as no command is   *)
(* left over in the query buffer while the client is written to.           *)
(***************************************************************************)
THEOREM LatencyStartsAtRead ==
  ASSUME ~Unblocks
  PROVE  Spec => []StartIsRead
<1>1. Init => IInv
  BY DEF Init, IInv, Shapes, TimeIsFresh, Started, Stashed
<1>2. IInv /\ [Next]_vars => IInv'
  BY NextIInv
<1>3. IInv => StartIsRead
  BY DEF IInv, Shapes, Shape, Started, Stashed, StartIsRead, Busy
<1> QED
  BY <1>1, <1>2, <1>3, PTL DEF Spec
-----------------------------------------------------------------------------
(***************************************************************************)
(* Induction over the natural numbers, as a fact about sets, and the sums  *)
(* that c->reply_bytes and the units waiting are.                          *)
(***************************************************************************)
\* A set of natural numbers has a least element.
LEMMA LeastNat ==
  ASSUME NEW T, T \subseteq Nat, T # {}
  PROVE  \E x \in T : \A y \in T : x <= y
<1> DEFINE R == {ss \in Nat \X Nat : ss[1] < ss[2]}
<1>1. IsWellFoundedOn(R, Nat)
  BY NatLessThanWellFounded DEF OpToRel
<1> HIDE DEF R
<1>2. PICK x \in T : \A y \in T : ~ (<<y, x>> \in R)
  BY <1>1, WFMin
<1>3. ASSUME NEW y \in T PROVE x <= y
  <2>1. <<y, x>> \in Nat \X Nat /\ <<y, x>>[1] = y /\ <<y, x>>[2] = x
    OBVIOUS
  <2>2. y < x => <<y, x>> \in R
    BY <2>1 DEF R
  <2> QED
    BY <1>2, <2>2
<1> QED
  BY <1>3

\* A set with 0 and the successors of its elements has every natural number.
LEMMA Induction ==
  ASSUME NEW S, 0 \in S, \A n \in Nat : n \in S => n + 1 \in S
  PROVE  \A n \in Nat : n \in S
<1> SUFFICES ASSUME NEW n \in Nat, n \notin S PROVE FALSE
  OBVIOUS
<1> DEFINE T == {k \in Nat : k \notin S}
<1>1. PICK x \in T : \A y \in T : x <= y
  BY LeastNat
<1>2. x # 0 /\ x - 1 \in Nat /\ x - 1 \notin T
  BY <1>1
<1> QED
  BY <1>2

\* The recursion that defines Sums, up to m.
IsSum(s, d, m) == s = [n \in 0..m |-> IF n = 0 THEN 0 ELSE s[n - 1] + d[n]]

\* There is a function that satisfies the recursion, and its values are numbers.
LEMMA SumExists ==
  ASSUME NEW d \in Seq(Nat)
  PROVE  \E s \in [0..Len(d) -> Nat] : IsSum(s, d, Len(d))
<1> DEFINE S == {m \in Nat : m <= Len(d) => \E s \in [0..m -> Nat] : IsSum(s, d, m)}
<1>0. Len(d) \in Nat
  OBVIOUS
<1>1. 0 \in S
  <2> DEFINE s == [n \in 0..0 |-> 0]
  <2>1. s \in [0..0 -> Nat]
    OBVIOUS
  <2>2. IsSum(s, d, 0)
    BY DEF IsSum
  <2> HIDE DEF s
  <2> QED
    BY <2>1, <2>2
<1>2. ASSUME NEW m \in Nat, m \in S PROVE m + 1 \in S
  <2> SUFFICES ASSUME m + 1 <= Len(d)
               PROVE  \E s \in [0..(m + 1) -> Nat] : IsSum(s, d, m + 1)
    OBVIOUS
  <2>1. PICK s \in [0..m -> Nat] : IsSum(s, d, m)
    BY <1>0, <1>2
  <2> DEFINE t == [n \in 0..(m + 1) |-> IF n = m + 1 THEN s[m] + d[m + 1] ELSE s[n]]
  <2>2. d[m + 1] \in Nat
    BY <1>0
  <2>3. t \in [0..(m + 1) -> Nat]
    BY <2>1, <2>2
  <2>4. ASSUME NEW n \in 0..(m + 1)
        PROVE  t[n] = IF n = 0 THEN 0 ELSE t[n - 1] + d[n]
    <3>1. CASE n = m + 1
      BY <3>1, <2>1
    <3>2. CASE n # m + 1
      <4>1. n \in 0..m
        BY <3>2
      <4>2. s[n] = IF n = 0 THEN 0 ELSE s[n - 1] + d[n]
        BY <2>1, <4>1 DEF IsSum
      <4>3. n # 0 => n - 1 \in 0..m
        BY <4>1
      <4> QED
        BY <4>1, <4>2, <4>3
    <3> QED
      BY <3>1, <3>2
  <2>5. IsSum(t, d, m + 1)
    <3>1. t = [n \in 0..(m + 1) |-> t[n]]
      OBVIOUS
    <3> HIDE DEF t
    <3> QED
      BY <2>4, <3>1 DEF IsSum
  <2> HIDE DEF t
  <2> QED
    BY <2>3, <2>5
<1> HIDE DEF S
<1>3. Len(d) \in S
  BY <1>0, <1>1, <1>2, Induction
<1> QED
  BY <1>0, <1>3 DEF S

\* No other function does.
LEMMA SumUnique ==
  ASSUME NEW d, NEW m \in Nat, NEW s, NEW t, IsSum(s, d, m), IsSum(t, d, m)
  PROVE  s = t
<1> DEFINE S == {n \in Nat : n <= m => s[n] = t[n]}
<1>1. 0 \in S
  BY DEF IsSum
<1>2. ASSUME NEW n \in Nat, n \in S PROVE n + 1 \in S
  <2> SUFFICES ASSUME n + 1 <= m PROVE s[n + 1] = t[n + 1]
    OBVIOUS
  <2>1. n + 1 \in 0..m /\ n + 1 # 0 /\ (n + 1) - 1 = n
    OBVIOUS
  <2>2. s[n + 1] = s[n] + d[n + 1] /\ t[n + 1] = t[n] + d[n + 1]
    BY <2>1 DEF IsSum
  <2> QED
    BY <1>2, <2>2
<1> HIDE DEF S
<1>3. \A n \in Nat : n \in S
  BY <1>1, <1>2, Induction
<1>4. \A n \in 0..m : s[n] = t[n]
  BY <1>3 DEF S
<1> QED
  BY <1>4 DEF IsSum

\* The sums are natural numbers that obey the recursion.
LEMMA SumsDef ==
  ASSUME NEW d \in Seq(Nat)
  PROVE  /\ Sums(d) \in [0..Len(d) -> Nat]
         /\ Sums(d)[0] = 0
         /\ \A n \in 1..Len(d) : Sums(d)[n] = Sums(d)[n - 1] + d[n]
<1>1. PICK t \in [0..Len(d) -> Nat] : IsSum(t, d, Len(d))
  BY SumExists
<1>2. Sums(d) = CHOOSE s : s = [n \in 0..Len(d) |-> IF n = 0 THEN 0 ELSE s[n - 1] + d[n]]
  BY DEF Sums
<1>3. IsSum(Sums(d), d, Len(d))
  BY <1>1, <1>2 DEF IsSum
<1>4. Sums(d) = t
  BY <1>1, <1>3, SumUnique
<1>5. t[0] = 0 /\ \A n \in 1..Len(d) : t[n] = t[n - 1] + d[n]
  BY SMTT(30), <1>1 DEF IsSum
<1> QED
  BY <1>1, <1>4, <1>5

\* What obeys the recursion is the sums.
LEMMA SumsIs ==
  ASSUME NEW d \in Seq(Nat), NEW t \in [0..Len(d) -> Nat], t[0] = 0,
         \A n \in 1..Len(d) : t[n] = t[n - 1] + d[n]
  PROVE  Sums(d) = t
<1> DEFINE s == Sums(d)
<1>1. s \in [0..Len(d) -> Nat] /\ s[0] = 0 /\ \A n \in 1..Len(d) : s[n] = s[n - 1] + d[n]
  BY SumsDef
<1> HIDE DEF s
<1>2. IsSum(s, d, Len(d))
  <2>1. s = [n \in 0..Len(d) |-> s[n]]
    BY <1>1
  <2>2. \A n \in 0..Len(d) : s[n] = IF n = 0 THEN 0 ELSE s[n - 1] + d[n]
    BY <1>1
  <2> QED
    BY <2>1, <2>2 DEF IsSum
<1>3. IsSum(t, d, Len(d))
  <2>1. t = [n \in 0..Len(d) |-> t[n]]
    OBVIOUS
  <2>2. \A n \in 0..Len(d) : t[n] = IF n = 0 THEN 0 ELSE t[n - 1] + d[n]
    OBVIOUS
  <2> QED
    BY <2>1, <2>2 DEF IsSum
<1> QED
  BY <1>2, <1>3, SumUnique DEF s

\* No sum is less than the first element.
LEMMA SumsGrow ==
  ASSUME NEW d \in Seq(Nat), d # <<>>
  PROVE  \A n \in 1..Len(d) : Sums(d)[n] >= d[1]
<1> DEFINE s == Sums(d)
           S == {n \in Nat : n + 1 <= Len(d) => s[n + 1] >= d[1]}
<1>1. s \in [0..Len(d) -> Nat] /\ s[0] = 0 /\ \A n \in 1..Len(d) : s[n] = s[n - 1] + d[n]
  BY SumsDef
<1> HIDE DEF s
<1>2. Len(d) \in Nat /\ Len(d) >= 1 /\ d[1] \in Nat
  OBVIOUS
<1>3. 0 \in S
  BY <1>1, <1>2
<1>4. ASSUME NEW n \in Nat, n \in S PROVE n + 1 \in S
  <2> SUFFICES ASSUME n + 1 + 1 <= Len(d) PROVE s[n + 1 + 1] >= d[1]
    OBVIOUS
  <2>1. n + 1 + 1 \in 1..Len(d) /\ n + 1 + 1 - 1 = n + 1 /\ d[n + 1 + 1] \in Nat
    BY <1>2
  <2>2. s[n + 1 + 1] = s[n + 1] + d[n + 1 + 1]
    BY <1>1, <2>1
  <2>3. n + 1 <= Len(d) /\ n + 1 \in 0..Len(d)
    BY <1>2
  <2>4. s[n + 1] >= d[1] /\ s[n + 1] \in Nat
    BY <1>1, <1>4, <2>3
  <2> QED
    BY <1>2, <2>1, <2>2, <2>4
<1> HIDE DEF S
<1>5. \A n \in Nat : n \in S
  BY <1>3, <1>4, Induction
<1>6. ASSUME NEW n \in 1..Len(d) PROVE s[n] >= d[1]
  <2>1. n - 1 \in S /\ n - 1 + 1 = n
    BY <1>5
  <2> QED
    BY <2>1 DEF S
<1> QED
  BY <1>6 DEF s

Blocks == Seq([size : Nat, used : Nat])
SizesOf(l) == Sums([i \in DOMAIN l |-> l[i].size])
UsedOf(l)  == Sums([i \in DOMAIN l |-> l[i].used])

\* The blocks and their two columns.
LEMMA Columns ==
  ASSUME NEW l \in Blocks
  PROVE  /\ Len(l) \in Nat /\ DOMAIN l = 1..Len(l)
         /\ \A n \in 1..Len(l) : /\ l[n] \in [size : Nat, used : Nat]
                                 /\ l[n].size \in Nat /\ l[n].used \in Nat
         /\ \A d \in {[i \in DOMAIN l |-> l[i].size], [i \in DOMAIN l |-> l[i].used]} :
              d \in Seq(Nat) /\ Len(d) = Len(l)
<1>1. Len(l) \in Nat /\ DOMAIN l = 1..Len(l)
  BY LenProperties DEF Blocks
<1>2. \A n \in 1..Len(l) : l[n] \in [size : Nat, used : Nat]
  BY ElementOfSeq DEF Blocks
<1>3. \A n \in 1..Len(l) : l[n].size \in Nat /\ l[n].used \in Nat
  BY <1>2
<1>4. ASSUME NEW d \in {[i \in DOMAIN l |-> l[i].size], [i \in DOMAIN l |-> l[i].used]}
      PROVE  d \in Seq(Nat) /\ Len(d) = Len(l)
  <2>1. d \in [1..Len(l) -> Nat]
    BY <1>1, <1>3
  <2>2. d \in Seq(Nat)
    BY <1>1, <2>1, SeqDef
  <2>3. DOMAIN d = 1..Len(d) /\ Len(d) \in Nat
    BY <2>2, LenProperties
  <2> QED
    BY <1>1, <2>1, <2>2, <2>3
<1> QED
  BY <1>1, <1>2, <1>3, <1>4

\* What the sums over the blocks are.
LEMMA BlockSums ==
  ASSUME NEW l \in Blocks
  PROVE  /\ SizesOf(l) \in [0..Len(l) -> Nat] /\ UsedOf(l) \in [0..Len(l) -> Nat]
         /\ SizesOf(l)[0] = 0 /\ UsedOf(l)[0] = 0
         /\ \A n \in 1..Len(l) : /\ SizesOf(l)[n] = SizesOf(l)[n - 1] + l[n].size
                                 /\ UsedOf(l)[n] = UsedOf(l)[n - 1] + l[n].used
         /\ \A n \in 1..Len(l) : SizesOf(l)[n] >= l[1].size /\ UsedOf(l)[n] >= l[1].used
<1> DEFINE d == [i \in DOMAIN l |-> l[i].size]
           e == [i \in DOMAIN l |-> l[i].used]
<1>1. /\ d \in Seq(Nat) /\ Len(d) = Len(l) /\ \A n \in 1..Len(l) : d[n] = l[n].size
      /\ e \in Seq(Nat) /\ Len(e) = Len(l) /\ \A n \in 1..Len(l) : e[n] = l[n].used
  BY Columns
<1>2. SizesOf(l) = Sums(d) /\ UsedOf(l) = Sums(e)
  BY DEF SizesOf, UsedOf
<1> HIDE DEF d, e
<1>3. /\ Sums(d) \in [0..Len(d) -> Nat] /\ Sums(d)[0] = 0
      /\ \A n \in 1..Len(d) : Sums(d)[n] = Sums(d)[n - 1] + d[n]
  BY <1>1, SumsDef
<1>4. /\ Sums(e) \in [0..Len(e) -> Nat] /\ Sums(e)[0] = 0
      /\ \A n \in 1..Len(e) : Sums(e)[n] = Sums(e)[n - 1] + e[n]
  BY <1>1, SumsDef
<1>5. ASSUME NEW n \in 1..Len(l) PROVE Sums(d)[n] >= l[1].size /\ Sums(e)[n] >= l[1].used
  <2>1. Len(l) \in Nat /\ Len(l) >= 1 /\ 1 \in 1..Len(l)
    BY DEF Blocks
  <2>2. d # <<>> /\ e # <<>>
    BY <1>1, <2>1
  <2>3. Sums(d)[n] >= d[1] /\ Sums(e)[n] >= e[1]
    BY <1>1, <2>2, SumsGrow
  <2> QED
    BY <1>1, <2>1, <2>3
<1> QED
  BY <1>1, <1>2, <1>3, <1>4, <1>5

\* What obeys the recursions is these sums.
LEMMA BlockSumsAre ==
  ASSUME NEW l \in Blocks, NEW s \in [0..Len(l) -> Nat], NEW t \in [0..Len(l) -> Nat],
         s[0] = 0, t[0] = 0,
         \A n \in 1..Len(l) : s[n] = s[n - 1] + l[n].size /\ t[n] = t[n - 1] + l[n].used
  PROVE  SizesOf(l) = s /\ UsedOf(l) = t
<1> DEFINE d == [i \in DOMAIN l |-> l[i].size]
           e == [i \in DOMAIN l |-> l[i].used]
<1>1. /\ d \in Seq(Nat) /\ Len(d) = Len(l) /\ \A n \in 1..Len(l) : d[n] = l[n].size
      /\ e \in Seq(Nat) /\ Len(e) = Len(l) /\ \A n \in 1..Len(l) : e[n] = l[n].used
  BY Columns
<1>2. SizesOf(l) = Sums(d) /\ UsedOf(l) = Sums(e)
  BY DEF SizesOf, UsedOf
<1> HIDE DEF d, e
<1>3. Sums(d) = s
  <2>1. \A n \in 1..Len(d) : s[n] = s[n - 1] + d[n]
    BY <1>1
  <2> QED
    BY <1>1, <2>1, SumsIs
<1>4. Sums(e) = t
  <2>1. \A n \in 1..Len(e) : t[n] = t[n - 1] + e[n]
    BY <1>1
  <2> QED
    BY <1>1, <2>1, SumsIs
<1> QED
  BY <1>2, <1>3, <1>4

\* A block is added at the end.
LEMMA BlockAdded ==
  ASSUME NEW l \in Blocks, NEW b \in [size : Nat, used : Nat]
  PROVE  /\ Append(l, b) \in Blocks /\ Len(Append(l, b)) = Len(l) + 1
         /\ \A n \in 0..Len(l) : /\ SizesOf(Append(l, b))[n] = SizesOf(l)[n]
                                 /\ UsedOf(Append(l, b))[n] = UsedOf(l)[n]
         /\ SizesOf(Append(l, b))[Len(l) + 1] = SizesOf(l)[Len(l)] + b.size
         /\ UsedOf(Append(l, b))[Len(l) + 1] = UsedOf(l)[Len(l)] + b.used
<1> DEFINE m == Append(l, b)
           s == [n \in 0..(Len(l) + 1) |-> IF n <= Len(l) THEN SizesOf(l)[n]
                                           ELSE SizesOf(l)[Len(l)] + b.size]
           t == [n \in 0..(Len(l) + 1) |-> IF n <= Len(l) THEN UsedOf(l)[n]
                                           ELSE UsedOf(l)[Len(l)] + b.used]
<1>1. /\ m \in Blocks /\ Len(m) = Len(l) + 1 /\ Len(l) \in Nat
      /\ \A n \in 1..Len(l) : m[n] = l[n]
      /\ m[Len(l) + 1] = b
  BY DEF Blocks
<1>2. /\ SizesOf(l) \in [0..Len(l) -> Nat] /\ UsedOf(l) \in [0..Len(l) -> Nat]
      /\ SizesOf(l)[0] = 0 /\ UsedOf(l)[0] = 0
      /\ \A n \in 1..Len(l) : /\ SizesOf(l)[n] = SizesOf(l)[n - 1] + l[n].size
                              /\ UsedOf(l)[n] = UsedOf(l)[n - 1] + l[n].used
  BY BlockSums
<1> HIDE DEF m
<1>3. s \in [0..Len(m) -> Nat] /\ t \in [0..Len(m) -> Nat] /\ s[0] = 0 /\ t[0] = 0
  <2>1. b.size \in Nat /\ b.used \in Nat
    OBVIOUS
  <2>2. \A n \in 0..(Len(l) + 1) : s[n] \in Nat /\ t[n] \in Nat
    BY SMTT(30), <1>1, <1>2, <2>1
  <2>3. s[0] = 0 /\ t[0] = 0
    BY <1>1, <1>2
  <2>4. s = [n \in 0..Len(m) |-> s[n]] /\ t = [n \in 0..Len(m) |-> t[n]]
    BY <1>1
  <2> HIDE DEF s, t
  <2> QED
    BY <1>1, <2>2, <2>3, <2>4
<1>4. ASSUME NEW n \in 1..Len(m)
      PROVE  s[n] = s[n - 1] + m[n].size /\ t[n] = t[n - 1] + m[n].used
  <2>1. CASE n = Len(l) + 1
    BY <1>1, <1>2, <2>1
  <2>2. CASE n # Len(l) + 1
    <3>1. n \in 1..Len(l) /\ n - 1 \in 0..(Len(l) + 1) /\ n \in 0..(Len(l) + 1)
      BY <1>1, <2>2
    <3>2. s[n] = SizesOf(l)[n] /\ s[n - 1] = SizesOf(l)[n - 1]
      BY <1>1, <3>1
    <3>3. t[n] = UsedOf(l)[n] /\ t[n - 1] = UsedOf(l)[n - 1]
      BY <1>1, <3>1
    <3> HIDE DEF s, t
    <3> QED
      BY <1>1, <1>2, <3>1, <3>2, <3>3
  <2> QED
    BY <2>1, <2>2
<1>5. /\ \A n \in 0..Len(l) : s[n] = SizesOf(l)[n] /\ t[n] = UsedOf(l)[n]
      /\ s[Len(l) + 1] = SizesOf(l)[Len(l)] + b.size
      /\ t[Len(l) + 1] = UsedOf(l)[Len(l)] + b.used
  BY <1>1
<1> HIDE DEF s, t
<1>6. SizesOf(m) = s /\ UsedOf(m) = t
  BY <1>1, <1>3, <1>4, BlockSumsAre
<1> QED
  BY <1>1, <1>5, <1>6 DEF m

\* The blocks themselves, when one is added at the end.
LEMMA BlocksThen ==
  ASSUME NEW l \in Blocks, NEW b \in [size : Nat, used : Nat], NEW m, m = Append(l, b)
  PROVE  m # <<>> /\ m[Len(l) + 1] = b /\ \A n \in 1..Len(l) : m[n] = l[n]
<1>1. Append(l, b)[Len(l) + 1] = b /\ \A n \in 1..Len(l) : Append(l, b)[n] = l[n]
  BY DEF Blocks
<1>2. Len(Append(l, b)) = Len(l) + 1 /\ Len(l) \in Nat
  BY DEF Blocks
<1>3. Append(l, b) # <<>>
  BY <1>2
<1> QED
  BY <1>1, <1>3

\* The first block is freed.
LEMMA BlockFreed ==
  ASSUME NEW l \in Blocks, l # <<>>
  PROVE  /\ Tail(l) \in Blocks /\ Len(Tail(l)) = Len(l) - 1
         /\ \A n \in 1..(Len(l) - 1) : Tail(l)[n] = l[n + 1]
         /\ \A n \in 1..Len(l) : /\ SizesOf(Tail(l))[n - 1] = SizesOf(l)[n] - l[1].size
                                 /\ UsedOf(Tail(l))[n - 1] = UsedOf(l)[n] - l[1].used
<1> DEFINE m == Tail(l)
           s == [n \in 0..(Len(l) - 1) |-> SizesOf(l)[n + 1] - l[1].size]
           t == [n \in 0..(Len(l) - 1) |-> UsedOf(l)[n + 1] - l[1].used]
<1>1. /\ m \in Blocks /\ Len(m) = Len(l) - 1 /\ Len(l) \in Nat /\ Len(l) >= 1
      /\ \A n \in 1..(Len(l) - 1) : m[n] = l[n + 1]
      /\ l[1].size \in Nat /\ l[1].used \in Nat
      /\ \A n \in 1..Len(l) : l[n].size \in Nat /\ l[n].used \in Nat
  <2>1. Len(l) \in Nat /\ Len(l) >= 1
    BY DEF Blocks
  <2>2. m \in Blocks /\ Len(m) = Len(l) - 1 /\ \A n \in 1..(Len(l) - 1) : m[n] = l[n + 1]
    BY HeadTailProperties DEF Blocks
  <2>3. \A n \in 1..Len(l) : l[n].size \in Nat /\ l[n].used \in Nat
    BY Columns
  <2>4. 1 \in 1..Len(l)
    BY <2>1
  <2> HIDE DEF m
  <2> QED
    BY <2>1, <2>2, <2>3, <2>4
<1>2. /\ SizesOf(l) \in [0..Len(l) -> Nat] /\ UsedOf(l) \in [0..Len(l) -> Nat]
      /\ SizesOf(l)[0] = 0 /\ UsedOf(l)[0] = 0
      /\ \A n \in 1..Len(l) : /\ SizesOf(l)[n] = SizesOf(l)[n - 1] + l[n].size
                              /\ UsedOf(l)[n] = UsedOf(l)[n - 1] + l[n].used
      /\ \A n \in 1..Len(l) : SizesOf(l)[n] >= l[1].size /\ UsedOf(l)[n] >= l[1].used
  BY BlockSums
<1> HIDE DEF m
<1>3. s \in [0..Len(m) -> Nat] /\ t \in [0..Len(m) -> Nat]
  <2>1. ASSUME NEW n \in 0..(Len(l) - 1)
        PROVE  SizesOf(l)[n + 1] - l[1].size \in Nat /\ UsedOf(l)[n + 1] - l[1].used \in Nat
    BY SMTT(30), <1>1, <1>2
  <2> QED
    BY <1>1, <2>1
<1>4. s[0] = 0 /\ t[0] = 0
  <2>1. 1 \in 1..Len(l) /\ 0 \in 0..(Len(l) - 1) /\ 1 - 1 = 0
    BY <1>1
  <2>2. SizesOf(l)[1] = l[1].size /\ UsedOf(l)[1] = l[1].used
    BY <1>1, <1>2, <2>1
  <2> QED
    BY <1>1, <2>1, <2>2
<1>5. ASSUME NEW n \in 1..Len(m)
      PROVE  s[n] = s[n - 1] + m[n].size /\ t[n] = t[n - 1] + m[n].used
  <2>1. /\ n + 1 \in 1..Len(l) /\ n \in 0..(Len(l) - 1) /\ n - 1 \in 0..(Len(l) - 1)
        /\ n - 1 + 1 = n /\ n + 1 - 1 = n /\ m[n] = l[n + 1] /\ n \in 0..Len(l)
    BY <1>1
  <2>2. s[n] = SizesOf(l)[n + 1] - l[1].size /\ s[n - 1] = SizesOf(l)[n] - l[1].size
    BY <2>1
  <2>3. t[n] = UsedOf(l)[n + 1] - l[1].used /\ t[n - 1] = UsedOf(l)[n] - l[1].used
    BY <2>1
  <2> HIDE DEF s, t
  <2>4. SizesOf(l)[n + 1] = SizesOf(l)[n] + l[n + 1].size
    BY <1>2, <2>1
  <2>5. UsedOf(l)[n + 1] = UsedOf(l)[n] + l[n + 1].used
    BY <1>2, <2>1
  <2>6. SizesOf(l)[n] \in Nat /\ UsedOf(l)[n] \in Nat
    BY <1>2, <2>1
  <2>7. l[n + 1].size \in Nat /\ l[n + 1].used \in Nat
    BY <1>1, <2>1
  <2>8. l[1].size \in Nat /\ l[1].used \in Nat /\ m[n] = l[n + 1]
    BY <1>1, <2>1
  <2>9. s[n] = s[n - 1] + m[n].size
    BY <2>2, <2>4, <2>6, <2>7, <2>8
  <2>10. t[n] = t[n - 1] + m[n].used
    BY <2>3, <2>5, <2>6, <2>7, <2>8
  <2> QED
    BY <2>9, <2>10
<1>6. ASSUME NEW n \in 1..Len(l)
      PROVE  s[n - 1] = SizesOf(l)[n] - l[1].size /\ t[n - 1] = UsedOf(l)[n] - l[1].used
  <2>1. n - 1 \in 0..(Len(l) - 1) /\ n - 1 + 1 = n
    BY <1>1
  <2> QED
    BY <2>1
<1> HIDE DEF s, t
<1>7. SizesOf(m) = s /\ UsedOf(m) = t
  BY <1>1, <1>3, <1>4, <1>5, BlockSumsAre
<1> QED
  BY <1>1, <1>6, <1>7 DEF m

\* The last block gets k more units.
Grown(l, k) == [l EXCEPT ![Len(l)].used = @ + k]

LEMMA BlockGrown ==
  ASSUME NEW l \in Blocks, l # <<>>, NEW k \in Nat, NEW m, m = Grown(l, k)
  PROVE  /\ m \in Blocks /\ Len(m) = Len(l)
         /\ \A n \in 1..Len(l) : /\ m[n].size = l[n].size
                                 /\ m[n].used = IF n = Len(l) THEN l[n].used + k ELSE l[n].used
         /\ SizesOf(m) = SizesOf(l)
         /\ \A n \in 0..Len(l) : UsedOf(m)[n] = IF n = Len(l) THEN UsedOf(l)[n] + k
                                                 ELSE UsedOf(l)[n]
<1> DEFINE t == [n \in 0..Len(l) |-> IF n = Len(l) THEN UsedOf(l)[n] + k ELSE UsedOf(l)[n]]
<1>1. /\ m \in Blocks /\ Len(m) = Len(l) /\ Len(l) \in Nat /\ Len(l) >= 1
      /\ \A n \in 1..Len(l) : /\ m[n].size = l[n].size
                              /\ m[n].used = IF n = Len(l) THEN l[n].used + k ELSE l[n].used
      /\ \A n \in 1..Len(l) : l[n].size \in Nat /\ l[n].used \in Nat
  <2> DEFINE b == [l[Len(l)] EXCEPT !.used = @ + k]
  <2>1. Len(l) \in Nat /\ Len(l) >= 1 /\ Len(l) \in 1..Len(l)
    BY DEF Blocks
  <2>2. /\ \A n \in 1..Len(l) : l[n].size \in Nat /\ l[n].used \in Nat
        /\ l[Len(l)] \in [size : Nat, used : Nat]
    BY <2>1, Columns
  <2>3. b \in [size : Nat, used : Nat] /\ b.size = l[Len(l)].size /\ b.used = l[Len(l)].used + k
    BY <2>2
  <2>4. m = [l EXCEPT ![Len(l)] = b]
    BY DEF Grown
  <2> HIDE DEF b
  <2>5. m \in Blocks /\ Len(m) = Len(l) /\ \A n \in 1..Len(l) : m[n] = IF n = Len(l) THEN b ELSE l[n]
    BY <2>1, <2>3, <2>4, ExceptSeq DEF Blocks
  <2> QED
    BY <2>1, <2>2, <2>3, <2>5
<1>2. /\ SizesOf(l) \in [0..Len(l) -> Nat] /\ UsedOf(l) \in [0..Len(l) -> Nat]
      /\ SizesOf(l)[0] = 0 /\ UsedOf(l)[0] = 0
      /\ \A n \in 1..Len(l) : /\ SizesOf(l)[n] = SizesOf(l)[n - 1] + l[n].size
                              /\ UsedOf(l)[n] = UsedOf(l)[n - 1] + l[n].used
  BY BlockSums
<1>3. t \in [0..Len(m) -> Nat] /\ t[0] = 0
  BY <1>1, <1>2
<1>4. ASSUME NEW n \in 1..Len(m)
      PROVE  /\ SizesOf(l)[n] = SizesOf(l)[n - 1] + m[n].size
             /\ t[n] = t[n - 1] + m[n].used
  <2>1. n \in 1..Len(l) /\ n - 1 \in 0..Len(l) /\ n - 1 # Len(l) /\ n \in 0..Len(l)
    BY <1>1
  <2>2. t[n - 1] = UsedOf(l)[n - 1]
    BY <2>1
  <2>3. t[n] = IF n = Len(l) THEN UsedOf(l)[n] + k ELSE UsedOf(l)[n]
    BY <2>1
  <2> HIDE DEF t
  <2>4. UsedOf(l)[n] = UsedOf(l)[n - 1] + l[n].used /\ UsedOf(l)[n - 1] \in Nat
    BY <1>2, <2>1
  <2>5. SizesOf(l)[n] = SizesOf(l)[n - 1] + m[n].size
    BY <1>1, <1>2, <2>1
  <2>6. l[n].used \in Nat /\ m[n].used = IF n = Len(l) THEN l[n].used + k ELSE l[n].used
    BY <1>1, <2>1
  <2> QED
    BY <2>2, <2>3, <2>4, <2>5, <2>6
<1>5. \A n \in 0..Len(l) : t[n] = IF n = Len(l) THEN UsedOf(l)[n] + k ELSE UsedOf(l)[n]
  OBVIOUS
<1> HIDE DEF t
<1>6. SizesOf(m) = SizesOf(l) /\ UsedOf(m) = t
  BY ZenonT(40), <1>1, <1>2, <1>3, <1>4, BlockSumsAre
<1> QED
  BY <1>1, <1>5, <1>6

-----------------------------------------------------------------------------
(***************************************************************************)
(* The stores of Redis, whatever the probe does.                           *)
(***************************************************************************)
Stores == bufpos \in 0..BufSize /\ list \in Blocks /\ sentlen \in Nat

\* Blocks are filled one after the other, and sent from the first one on.
Filled ==
  /\ \A i \in 1..Len(list) :
       /\ 0 < list[i].used /\ list[i].used <= list[i].size
       /\ list[i].size <= Chunk + MaxPart
       /\ list[i].size - list[i].used <= Chunk
       /\ i < Len(list) => list[i].used = list[i].size
  /\ sentlen < bufpos \/ bufpos = 0
  /\ bufpos = 0 => sentlen = 0 \/ (list # <<>> /\ sentlen < list[1].used)

\* Only the last block has room, and the bound on what waits is kept.
Totals == reply_bytes = Used[Len(list)] + Spare /\ Waiting <= MaxOut

RInv == Stores /\ Filled /\ Totals

\* What the sums of the state are.
LEMMA StateSums ==
  ASSUME Stores
  PROVE  /\ Len(list) \in Nat /\ (list = <<>> <=> Len(list) = 0)
         /\ \A n \in 1..Len(list) : list[n].size \in Nat /\ list[n].used \in Nat
         /\ Sizes = SizesOf(list) /\ Used = UsedOf(list)
         /\ Sizes \in [0..Len(list) -> Nat] /\ Used \in [0..Len(list) -> Nat]
         /\ Sizes[0] = 0 /\ Used[0] = 0
         /\ reply_bytes \in Nat /\ Used[Len(list)] \in Nat
         /\ \A n \in 1..Len(list) : Sizes[n] >= list[1].size /\ Used[n] >= list[1].used
<1>1. Sizes = SizesOf(list) /\ Used = UsedOf(list)
  BY DEF Sizes, Used, SizesOf, UsedOf
<1>2. Len(list) \in Nat /\ (list = <<>> <=> Len(list) = 0) /\ Len(list) \in 0..Len(list)
  <2>1. list \in Seq([size : Nat, used : Nat])
    BY DEF Stores, Blocks
  <2> QED
    BY <2>1
<1>3. /\ SizesOf(list) \in [0..Len(list) -> Nat] /\ UsedOf(list) \in [0..Len(list) -> Nat]
      /\ SizesOf(list)[0] = 0 /\ UsedOf(list)[0] = 0
      /\ \A n \in 1..Len(list) : SizesOf(list)[n] >= list[1].size /\ UsedOf(list)[n] >= list[1].used
  BY BlockSums DEF Stores
<1>4. \A n \in 1..Len(list) : list[n].size \in Nat /\ list[n].used \in Nat
  BY Columns DEF Stores
<1>5. SizesOf(list)[Len(list)] \in Nat /\ UsedOf(list)[Len(list)] \in Nat
  BY <1>2, <1>3
<1> QED
  BY <1>1, <1>2, <1>3, <1>4, <1>5 DEF reply_bytes

\* The room in the last block.
LEMMA SpareRoom ==
  ASSUME Stores, Filled
  PROVE  /\ Spare \in 0..Chunk
         /\ list = <<>> => Spare = 0
         /\ list # <<>> => Spare = list[Len(list)].size - list[Len(list)].used
<1>1. CASE list = <<>>
  BY <1>1, RedisSliAssumption DEF Spare
<1>2. CASE list # <<>>
  <2>1. Len(list) \in 1..Len(list)
    BY <1>2, StateSums
  <2>2. list[Len(list)].size \in Nat /\ list[Len(list)].used \in Nat
    BY <2>1, StateSums
  <2>3. /\ list[Len(list)].used <= list[Len(list)].size
        /\ list[Len(list)].size - list[Len(list)].used <= Chunk
    BY <2>1 DEF Filled
  <2> QED
    BY <1>2, <2>2, <2>3, RedisSliAssumption DEF Spare
<1> QED
  BY <1>1, <1>2

(***************************************************************************)
(* What a part of a reply does to the list: either it fits into the last   *)
(* block, or that block is filled and the rest starts a new one.           *)
(***************************************************************************)
LEMMA ListGrows ==
  ASSUME RInv, NEW k \in 1..MaxPart, AddToList(k)
  PROVE  /\ list' \in Blocks /\ Len(list') >= Len(list) /\ list' # <<>>
         /\ \A i \in 1..Len(list') :
              /\ 0 < list'[i].used /\ list'[i].used <= list'[i].size
              /\ list'[i].size <= Chunk + MaxPart
              /\ list'[i].size - list'[i].used <= Chunk
              /\ i < Len(list') => list'[i].used = list'[i].size
         /\ list # <<>> => list'[1].used >= list[1].used
         /\ \A n \in 0..Len(list) : Sizes'[n] = Sizes[n] /\ Used'[n] >= Used[n]
         /\ Used'[Len(list')] = Used[Len(list)] + k
         /\ reply_bytes' = Used'[Len(list')] + Spare'
         /\ InList(k) \in SUBSET {"spare", "list"}
         /\ \/ list # <<>> /\ reply_bytes' = reply_bytes /\ InList(k) = {"spare"}
            \/ reply_bytes' > reply_bytes /\ "list" \in InList(k)
<1> DEFINE n == Len(list)
           inTail == IF k <= Spare THEN k ELSE Spare
           rest == k - inTail
           tail == [list EXCEPT ![Len(list)].used = @ + inTail]
           blk == [size |-> IF rest < Chunk THEN Chunk ELSE rest, used |-> rest]
<1>1. /\ list' = IF rest = 0 THEN tail ELSE Append(IF inTail = 0 THEN list ELSE tail, blk)
      /\ InList(k) = (IF inTail > 0 THEN {"spare"} ELSE {}) \union (IF k > inTail THEN {"list"} ELSE {})
      /\ InList(k) \in SUBSET {"spare", "list"}
  BY DEF AddToList, InTail, InList
<1>2. /\ Chunk \in Nat \ {0} /\ MaxPart \in Nat \ {0} /\ k \in Nat /\ k > 0 /\ k <= MaxPart
  BY RedisSliAssumption
<1>3. /\ Spare \in 0..Chunk /\ (list = <<>> => Spare = 0)
      /\ (list # <<>> => Spare = list[n].size - list[n].used)
  BY SpareRoom DEF RInv
<1>4. /\ n \in Nat /\ (list = <<>> <=> n = 0) /\ list \in Blocks
      /\ \A i \in 1..n : list[i].size \in Nat /\ list[i].used \in Nat
      /\ Sizes = SizesOf(list) /\ Used = UsedOf(list)
      /\ Sizes \in [0..n -> Nat] /\ Used \in [0..n -> Nat]
      /\ reply_bytes = Sizes[n] /\ Sizes[n] \in Nat /\ Used[n] \in Nat
      /\ reply_bytes = Used[n] + Spare
  BY StateSums DEF RInv, Stores, Totals, reply_bytes
<1>5. \A i \in 1..n :
       /\ 0 < list[i].used /\ list[i].used <= list[i].size
       /\ list[i].size <= Chunk + MaxPart
       /\ list[i].size - list[i].used <= Chunk
       /\ i < n => list[i].used = list[i].size
  BY DEF RInv, Filled
<1>6. Sizes' = SizesOf(list') /\ Used' = UsedOf(list') /\ reply_bytes' = Sizes'[Len(list')]
  BY DEF Sizes, Used, SizesOf, UsedOf, reply_bytes
<1>7. inTail \in 0..Chunk /\ inTail <= k /\ inTail <= Spare /\ rest \in 0..MaxPart
  BY <1>2, <1>3
\* What filling up the last block gives.
<1>8. ASSUME list # <<>>
      PROVE  /\ tail \in Blocks /\ Len(tail) = n
             /\ \A i \in 1..n : /\ tail[i].size = list[i].size
                                /\ tail[i].used = IF i = n THEN list[i].used + inTail ELSE list[i].used
             /\ SizesOf(tail) = Sizes
             /\ \A i \in 0..n : UsedOf(tail)[i] = IF i = n THEN Used[i] + inTail ELSE Used[i]
  <2>1. inTail \in Nat
    BY <1>2, <1>7
  <2>2. tail = Grown(list, inTail) /\ list \in Blocks
    BY <1>4 DEF Grown
  <2> HIDE DEF inTail, tail
  <2>3. /\ tail \in Blocks /\ Len(tail) = Len(list)
        /\ \A i \in 1..Len(list) :
             /\ tail[i].size = list[i].size
             /\ tail[i].used = IF i = Len(list) THEN list[i].used + inTail ELSE list[i].used
        /\ SizesOf(tail) = SizesOf(list)
        /\ \A i \in 0..Len(list) : UsedOf(tail)[i] = IF i = Len(list) THEN UsedOf(list)[i] + inTail
                                                     ELSE UsedOf(list)[i]
    BY <1>8, <2>1, <2>2, BlockGrown
  <2> QED
    BY <1>4, <2>3
<1>9. CASE k <= Spare
  <2>1. inTail = k /\ rest = 0 /\ list # <<>> /\ list' = tail /\ n \in 1..n /\ 1 \in 1..n
    BY <1>1, <1>2, <1>3, <1>4, <1>9
  <2>2. InList(k) = {"spare"}
    BY <1>1, <1>2, <2>1
  <2> HIDE DEF inTail, tail, rest, blk, n
  <2>3. /\ list' \in Blocks /\ Len(list') = n /\ list' # <<>>
        /\ \A i \in 1..n : /\ list'[i].size = list[i].size
                           /\ list'[i].used = IF i = n THEN list[i].used + k ELSE list[i].used
        /\ Sizes' = Sizes
        /\ \A i \in 0..n : Used'[i] = IF i = n THEN Used[i] + k ELSE Used[i]
    <3>1. /\ list' \in Blocks /\ Len(list') = n
          /\ \A i \in 1..n : /\ list'[i].size = list[i].size
                             /\ list'[i].used = IF i = n THEN list[i].used + k ELSE list[i].used
          /\ Sizes' = Sizes
          /\ \A i \in 0..n : Used'[i] = IF i = n THEN Used[i] + k ELSE Used[i]
      BY <1>6, <1>8, <2>1
    <3>2. list' # <<>>
      BY <1>4, <2>1, <3>1 DEF Blocks, n
    <3> QED
      BY <3>1, <3>2
  <2>4. ASSUME NEW i \in 1..n
        PROVE  /\ 0 < list'[i].used /\ list'[i].used <= list'[i].size
               /\ list'[i].size <= Chunk + MaxPart
               /\ list'[i].size - list'[i].used <= Chunk
               /\ i < n => list'[i].used = list'[i].size
    <3>1. list[i].size \in Nat /\ list[i].used \in Nat
      BY <1>4
    <3>2. /\ 0 < list[i].used /\ list[i].used <= list[i].size
          /\ list[i].size <= Chunk + MaxPart
          /\ list[i].size - list[i].used <= Chunk
          /\ i < n => list[i].used = list[i].size
      BY <1>5
    <3>3. /\ list'[i].size = list[i].size
          /\ list'[i].used = IF i = n THEN list[i].used + k ELSE list[i].used
      BY <2>3
    <3>4. i = n => k <= list[i].size - list[i].used
      BY <1>3, <1>9, <2>1
    <3> QED
      BY <1>2, <3>1, <3>2, <3>3, <3>4
  <2>5. Spare' = Spare - k
    <3>1. Spare' = list'[n].size - list'[n].used
      BY <2>3 DEF Spare
    <3>2. Spare = list[n].size - list[n].used
      BY <1>3, <2>1
    <3>3. list[n].size \in Nat /\ list[n].used \in Nat
      BY <1>4, <2>1
    <3>4. list'[n].size = list[n].size /\ list'[n].used = list[n].used + k
      BY <2>1, <2>3
    <3> QED
      BY <1>2, <3>1, <3>2, <3>3, <3>4
  <2>6. list'[1].used >= list[1].used
    <3>1. list'[1].used = (IF 1 = n THEN list[1].used + k ELSE list[1].used) /\ list[1].used \in Nat
      BY <1>4, <2>1, <2>3
    <3> QED
      BY <1>2, <3>1
  <2>7. ASSUME NEW i \in 0..n PROVE Sizes'[i] = Sizes[i] /\ Used'[i] >= Used[i]
    <3>1. Used'[i] = (IF i = n THEN Used[i] + k ELSE Used[i]) /\ Used[i] \in Nat
      BY <1>4, <2>3
    <3> QED
      BY <1>2, <2>3, <3>1
  <2>8. Used'[n] = Used[n] + k /\ reply_bytes' = reply_bytes /\ n \in 0..n
    <3>1. n \in 0..n
      BY <1>4
    <3>2. Used'[n] = Used[n] + k
      BY <2>3, <3>1
    <3>3. reply_bytes' = Sizes[n]
      BY <1>6, <2>3
    <3> QED
      BY <1>4, <3>1, <3>2, <3>3
  <2>9. reply_bytes' = Used'[n] + Spare'
    BY <1>2, <1>3, <1>4, <2>5, <2>8
  <2> QED
    BY <1>1, <1>4, <2>1, <2>2, <2>3, <2>4, <2>6, <2>7, <2>8, <2>9 DEF n
<1>10. CASE ~(k <= Spare)
  <2> DEFINE mid == IF inTail = 0 THEN list ELSE tail
  <2>1. inTail = Spare /\ rest = k - Spare /\ rest > 0 /\ list' = Append(mid, blk)
    BY <1>1, <1>2, <1>3, <1>10
  <2>2. "list" \in InList(k)
    <3>1. k > inTail
      BY <1>2, <1>3, <2>1
    <3> QED
      BY <1>1, <3>1
  <2>3. /\ blk \in [size : Nat, used : Nat] /\ blk.used = rest /\ blk.size \in Nat
        /\ blk.size >= rest /\ blk.size <= Chunk + MaxPart /\ blk.size - rest <= Chunk /\ blk.size > 0
    <3>1. rest \in Nat /\ rest <= MaxPart
      BY <1>2, <1>7
    <3> HIDE DEF rest
    <3> QED
      BY <1>2, <2>1, <3>1
  <2>4. /\ mid \in Blocks /\ Len(mid) = n
        /\ \A i \in 1..n : mid[i].size = list[i].size /\ mid[i].used = list[i].size
                           /\ mid[i].used >= list[i].used
        /\ SizesOf(mid) = Sizes
        /\ \A i \in 0..n : UsedOf(mid)[i] >= Used[i]
        /\ UsedOf(mid)[n] = Used[n] + Spare
    <3>1. CASE inTail = 0
      <4>1. mid = list /\ Spare = 0
        BY <2>1, <3>1
      <4>2. \A i \in 1..n : list[i].used = list[i].size
        BY <1>3, <1>4, <1>5, <4>1
      <4> HIDE DEF mid
      <4> QED
        BY <1>4, <4>1, <4>2
    <3>2. CASE inTail # 0
      <4>1. mid = tail /\ inTail = Spare /\ list # <<>> /\ Spare \in Nat
        BY <1>3, <2>1, <3>2
      <4>2. Spare = list[n].size - list[n].used
        BY <1>3, <4>1
      <4> HIDE DEF mid, inTail, tail
      <4>3. /\ mid \in Blocks /\ Len(mid) = n
            /\ \A i \in 1..n : /\ mid[i].size = list[i].size
                               /\ mid[i].used = IF i = n THEN list[i].used + Spare ELSE list[i].used
            /\ SizesOf(mid) = Sizes
            /\ \A i \in 0..n : UsedOf(mid)[i] = IF i = n THEN Used[i] + Spare ELSE Used[i]
        BY <1>8, <4>1
      <4>4. ASSUME NEW i \in 1..n
            PROVE  mid[i].used = list[i].size /\ mid[i].used >= list[i].used
        <5>1. list[i].size \in Nat /\ list[i].used \in Nat /\ (i < n => list[i].used = list[i].size)
          BY <1>4, <1>5
        <5>2. i < n \/ i = n
          BY <1>4
        <5> QED
          BY <4>1, <4>2, <4>3, <5>1, <5>2
      <4>5. ASSUME NEW i \in 0..n PROVE UsedOf(mid)[i] >= Used[i]
        <5>1. UsedOf(mid)[i] = (IF i = n THEN Used[i] + Spare ELSE Used[i]) /\ Used[i] \in Nat
          BY <1>4, <4>3
        <5> QED
          BY <4>1, <5>1
      <4>6. UsedOf(mid)[n] = Used[n] + Spare
        BY <1>4, <4>3
      <4> QED
        BY <4>3, <4>4, <4>5, <4>6
    <3> QED
      BY <3>1, <3>2
  <2> HIDE DEF inTail, tail, rest, blk, mid, n
  <2>5. /\ list' \in Blocks /\ Len(list') = n + 1
        /\ \A i \in 0..n : Sizes'[i] = Sizes[i] /\ Used'[i] = UsedOf(mid)[i]
        /\ Sizes'[n + 1] = Sizes[n] + blk.size
        /\ Used'[n + 1] = UsedOf(mid)[n] + rest
    <3>1. mid \in Blocks /\ blk \in [size : Nat, used : Nat] /\ Len(mid) = n
      BY <2>3, <2>4
    <3>2. /\ Append(mid, blk) \in Blocks /\ Len(Append(mid, blk)) = n + 1
          /\ \A i \in 0..n : /\ SizesOf(Append(mid, blk))[i] = SizesOf(mid)[i]
                              /\ UsedOf(Append(mid, blk))[i] = UsedOf(mid)[i]
          /\ SizesOf(Append(mid, blk))[n + 1] = SizesOf(mid)[n] + blk.size
          /\ UsedOf(Append(mid, blk))[n + 1] = UsedOf(mid)[n] + blk.used
      BY <3>1, BlockAdded
    <3>3. list' = Append(mid, blk) /\ blk.used = rest /\ SizesOf(mid) = Sizes
      BY <2>1, <2>3, <2>4
    <3>4. Sizes' = SizesOf(Append(mid, blk)) /\ Used' = UsedOf(Append(mid, blk))
      BY <1>6, <3>3
    <3> QED
      BY <3>2, <3>3, <3>4
  <2>6. /\ list' # <<>> /\ (\A i \in 1..n : list'[i] = mid[i]) /\ list'[n + 1] = blk
    <3>1. mid \in Blocks /\ blk \in [size : Nat, used : Nat] /\ Len(mid) = n
      BY <2>3, <2>4
    <3>2. list' = Append(mid, blk)
      BY <2>1
    <3>3. list' # <<>> /\ list'[Len(mid) + 1] = blk /\ \A i \in 1..Len(mid) : list'[i] = mid[i]
      BY <3>1, <3>2, BlocksThen
    <3> QED
      BY <3>1, <3>3
  <2>7. ASSUME NEW i \in 1..(n + 1)
        PROVE  /\ 0 < list'[i].used /\ list'[i].used <= list'[i].size
               /\ list'[i].size <= Chunk + MaxPart
               /\ list'[i].size - list'[i].used <= Chunk
               /\ i < n + 1 => list'[i].used = list'[i].size
    <3>1. CASE i = n + 1
      <4>1. list'[i] = blk
        BY <2>6, <3>1
      <4> QED
        BY <1>2, <1>4, <2>1, <2>3, <3>1, <4>1
    <3>2. CASE i # n + 1
      <4>1. i \in 1..n
        BY <1>4, <3>2
      <4>2. list'[i].used = list[i].size /\ list'[i].size = list[i].size
        BY <2>4, <2>6, <4>1
      <4>3. /\ list[i].size \in Nat /\ list[i].used \in Nat
            /\ 0 < list[i].used /\ list[i].used <= list[i].size /\ list[i].size <= Chunk + MaxPart
        BY <1>4, <1>5, <4>1
      <4> QED
        BY <1>2, <4>2, <4>3
    <3> QED
      BY <3>1, <3>2
  <2>8. Spare' = blk.size - rest
    BY <2>3, <2>5, <2>6 DEF Spare
  <2>9. list # <<>> => list'[1].used >= list[1].used
    <3>1. list # <<>> => 1 \in 1..n
      BY <1>4
    <3> QED
      BY <2>4, <2>6, <3>1
  <2>10. Used'[n + 1] = Used[n] + k
    <3>1. UsedOf(mid)[n] = Used[n] + Spare
      BY <2>4
    <3> QED
      BY <1>2, <1>3, <1>4, <2>1, <2>5, <3>1
  <2>11. reply_bytes' = reply_bytes + blk.size /\ reply_bytes' = Used'[n + 1] + Spare'
    <3>1. reply_bytes' = Sizes[n] + blk.size
      BY <1>6, <2>5
    <3>2. reply_bytes = Sizes[n] /\ reply_bytes = Used[n] + Spare /\ Used[n] \in Nat
      BY <1>4
    <3>3. Spare \in Nat
      BY <1>2, <1>3
    <3>4. rest = k - Spare /\ blk.size \in Nat
      BY <2>1, <2>3
    <3>5. reply_bytes' = Used[n] + Spare + blk.size
      BY <3>1, <3>2
    <3>6. Used'[n + 1] + Spare' = Used[n] + k + (blk.size - (k - Spare))
      BY <2>8, <2>10, <3>4
    <3> QED
      BY <1>2, <3>1, <3>2, <3>3, <3>4, <3>5, <3>6
  <2>12. \A i \in 0..n : Sizes'[i] = Sizes[i] /\ Used'[i] >= Used[i]
    BY <2>4, <2>5
  <2>13. reply_bytes' > reply_bytes
    BY <1>4, <2>3, <2>11
  <2> QED
    BY <1>1, <1>4, <2>2, <2>5, <2>6, <2>7, <2>9, <2>10, <2>11, <2>12, <2>13 DEF n
<1> QED
  BY <1>9, <1>10

\* What the socket takes: a unit, the last of the buffer, or the last of a block.
LEMMA SendTakes ==
  ASSUME RInv, Send
  PROVE  \/ /\ sentlen' = sentlen + 1 /\ UNCHANGED <<bufpos, list>>
            /\ bufpos > 0 => sentlen + 1 < bufpos
            /\ bufpos = 0 => list # <<>> /\ sentlen + 1 < list[1].used
         \/ /\ bufpos > 0 /\ sentlen + 1 = bufpos
            /\ bufpos' = 0 /\ sentlen' = 0 /\ list' = list
         \/ /\ bufpos = 0 /\ list # <<>> /\ sentlen + 1 = list[1].used
            /\ bufpos' = 0 /\ sentlen' = 0 /\ list' = Tail(list)
<1> DEFINE whole == sentlen + 1 = IF bufpos > 0 THEN bufpos ELSE Head(list).used
<1>1. /\ Waiting > 0
      /\ sentlen' = IF whole THEN 0 ELSE sentlen + 1
      /\ bufpos' = IF whole THEN 0 ELSE bufpos
      /\ list' = IF whole /\ bufpos = 0 THEN Tail(list) ELSE list
  BY DEF Send
<1>2. bufpos \in Nat /\ sentlen \in Nat
  BY RedisSliAssumption DEF RInv, Stores
<1>3. sentlen < bufpos \/ bufpos = 0
  BY DEF RInv, Filled
<1>4. bufpos = 0 => list # <<>> /\ Head(list) = list[1] /\ list[1].used \in Nat /\ sentlen < list[1].used
  <2> SUFFICES ASSUME bufpos = 0
               PROVE  list # <<>> /\ Head(list) = list[1] /\ list[1].used \in Nat
                      /\ sentlen < list[1].used
    OBVIOUS
  <2>1. /\ Len(list) \in Nat /\ (list = <<>> <=> Len(list) = 0) /\ Used[0] = 0
        /\ Used[Len(list)] \in Nat /\ \A n \in 1..Len(list) : list[n].used \in Nat
    BY StateSums DEF RInv
  <2>2. list # <<>>
    BY <1>1, <1>2, <2>1 DEF Waiting
  <2>3. 1 \in 1..Len(list)
    BY <2>1, <2>2
  <2>4. 0 < list[1].used /\ (sentlen = 0 \/ sentlen < list[1].used)
    BY <2>3 DEF RInv, Filled
  <2>5. Head(list) = list[1]
    BY <2>2 DEF RInv, Stores, Blocks
  <2> QED
    BY <1>2, <2>1, <2>2, <2>3, <2>4, <2>5
<1>5. CASE bufpos > 0
  <2>1. bufpos # 0 /\ sentlen < bufpos /\ (whole <=> sentlen + 1 = bufpos)
    BY <1>2, <1>3, <1>5
  <2> HIDE DEF whole
  <2> QED
    BY <1>1, <1>2, <1>5, <2>1
<1>6. CASE bufpos = 0
  <2>1. whole <=> sentlen + 1 = list[1].used
    BY <1>4, <1>6
  <2> HIDE DEF whole
  <2> QED
    BY <1>1, <1>2, <1>4, <1>6, <2>1
<1> QED
  BY <1>2, <1>5, <1>6

\* What sending a unit does to the stores.
LEMMA SendShrinks ==
  ASSUME RInv, Send
  PROVE  /\ RInv' /\ Waiting' = Waiting - 1
         /\ bufpos' <= bufpos /\ reply_bytes' <= reply_bytes
         /\ list' # list =>
              /\ reply_bytes' = reply_bytes - list[1].size /\ Len(list') = Len(list) - 1
              /\ \A n \in 1..Len(list) : /\ Sizes'[n - 1] = Sizes[n] - list[1].size
                                         /\ Used'[n - 1] = Used[n] - list[1].used
<1>1. /\ bufpos \in 0..BufSize /\ list \in Blocks /\ sentlen \in Nat /\ BufSize \in Nat
      /\ Stores /\ Filled /\ Totals
  BY RedisSliAssumption DEF RInv, Stores
<1>2. /\ Len(list) \in Nat /\ (list = <<>> <=> Len(list) = 0)
      /\ \A n \in 1..Len(list) : list[n].size \in Nat /\ list[n].used \in Nat
      /\ Sizes = SizesOf(list) /\ Used = UsedOf(list)
      /\ reply_bytes \in Nat /\ Used[Len(list)] \in Nat
      /\ Sizes \in [0..Len(list) -> Nat] /\ Used \in [0..Len(list) -> Nat]
      /\ Sizes[0] = 0 /\ Used[0] = 0
  BY <1>1, StateSums
<1>3. /\ reply_bytes = Used[Len(list)] + Spare /\ reply_bytes = Sizes[Len(list)]
      /\ Waiting <= MaxOut /\ Waiting = bufpos + Used[Len(list)] - sentlen
  BY <1>1 DEF Totals, reply_bytes, Waiting
<1>4. Sizes' = SizesOf(list') /\ Used' = UsedOf(list') /\ reply_bytes' = Sizes'[Len(list')]
      /\ Waiting' = bufpos' + Used'[Len(list')] - sentlen'
  BY DEF Sizes, Used, SizesOf, UsedOf, reply_bytes, Waiting
<1>5. MaxOut \in Nat
  BY RedisSliAssumption
<1>6. ASSUME list' = list, bufpos' + sentlen + 1 = bufpos + sentlen', bufpos' <= bufpos,
             bufpos' \in Nat, sentlen' \in Nat, sentlen' < bufpos' \/ bufpos' = 0,
             bufpos' = 0 => sentlen' = 0 \/ (list # <<>> /\ sentlen' < list[1].used)
      PROVE  RInv' /\ Waiting' = Waiting - 1 /\ bufpos' <= bufpos /\ reply_bytes' <= reply_bytes
  <2>1. Sizes' = Sizes /\ Used' = Used /\ reply_bytes' = reply_bytes /\ Spare' = Spare
    BY <1>2, <1>3, <1>4, <1>6 DEF Spare
  <2>2. Waiting' = Waiting - 1
    <3> DEFINE u == Used[Len(list)]
               w == Waiting
    <3>1. Waiting' = bufpos' + u - sentlen' /\ w = bufpos + u - sentlen
      BY <1>3, <1>4, <1>6, <2>1
    <3>2. u \in Nat /\ bufpos \in Nat /\ sentlen \in Nat
      BY <1>1, <1>2
    <3> HIDE DEF u, w
    <3>3. bufpos' + sentlen + 1 = bufpos + sentlen'
      BY <1>6
    <3>4. PICK b \in Nat, s \in Nat : b = bufpos' /\ s = sentlen'
      BY <1>6
    <3>5. b + sentlen + 1 = bufpos + s
      BY <3>3, <3>4
    <3>6. b + u - s = (bufpos + u - sentlen) - 1
      BY <3>2, <3>5
    <3> QED
      BY <3>1, <3>4, <3>6 DEF w
  <2>3. Waiting' <= MaxOut
    BY <1>1, <1>2, <1>3, <1>5, <2>2
  <2>4. Stores'
    BY <1>1, <1>6 DEF Stores
  <2>5. Filled'
    BY <1>1, <1>6 DEF Filled
  <2>6. Totals'
    BY <1>3, <1>6, <2>1, <2>3 DEF Totals
  <2> QED
    BY <1>2, <1>6, <2>1, <2>2, <2>4, <2>5, <2>6 DEF RInv
<1>7. CASE /\ sentlen' = sentlen + 1 /\ UNCHANGED <<bufpos, list>>
           /\ bufpos > 0 => sentlen + 1 < bufpos
           /\ bufpos = 0 => list # <<>> /\ sentlen + 1 < list[1].used
  <2>1. /\ list' = list /\ bufpos' + sentlen + 1 = bufpos + sentlen' /\ bufpos' <= bufpos
        /\ bufpos' \in Nat /\ sentlen' \in Nat
    BY <1>1, <1>7
  <2>2. sentlen' < bufpos' \/ bufpos' = 0
    BY <1>1, <1>7
  <2>3. bufpos' = 0 => sentlen' = 0 \/ (list # <<>> /\ sentlen' < list[1].used)
    BY <1>7
  <2> QED
    BY <1>6, <2>1, <2>2, <2>3
<1>8. CASE bufpos > 0 /\ sentlen + 1 = bufpos /\ bufpos' = 0 /\ sentlen' = 0 /\ list' = list
  <2>1. /\ list' = list /\ bufpos' + sentlen + 1 = bufpos + sentlen' /\ bufpos' <= bufpos
        /\ bufpos' \in Nat /\ sentlen' \in Nat
    BY <1>1, <1>8
  <2> QED
    BY <1>6, <1>8, <2>1
<1>9. CASE /\ bufpos = 0 /\ list # <<>> /\ sentlen + 1 = list[1].used
           /\ bufpos' = 0 /\ sentlen' = 0 /\ list' = Tail(list)
  <2> DEFINE n == Len(list)
  <2>1. n \in Nat /\ n >= 1 /\ 1 \in 1..n /\ n \in 1..n /\ n - 1 \in Nat
    BY <1>2, <1>9
  <2>2. /\ list' \in Blocks /\ Len(list') = n - 1
        /\ \A i \in 1..(n - 1) : list'[i] = list[i + 1]
        /\ \A i \in 1..n : /\ Sizes'[i - 1] = Sizes[i] - list[1].size
                           /\ Used'[i - 1] = Used[i] - list[1].used
    BY <1>1, <1>2, <1>4, <1>9, BlockFreed
  <2> HIDE DEF n
  <2>3. /\ Sizes'[n - 1] = Sizes[n] - list[1].size /\ Used'[n - 1] = Used[n] - list[1].used
        /\ list[1].size \in Nat /\ list[1].used \in Nat
    BY <1>2, <2>1, <2>2 DEF n
  <2>4. reply_bytes' = reply_bytes - list[1].size
    BY <1>3, <1>4, <2>2, <2>3 DEF n
  <2>5. Waiting' = Waiting - 1
    <3>1. Waiting = 0 + Used[n] - sentlen /\ Waiting' = 0 + (Used[n] - list[1].used) - 0
      BY <1>3, <1>4, <1>9, <2>2, <2>3 DEF n
    <3>2. Used[n] \in Nat
      BY <1>2 DEF n
    <3> QED
      BY <1>1, <1>9, <2>3, <3>1, <3>2
  <2>6. Filled'
    <3>1. ASSUME NEW i \in 1..(n - 1)
          PROVE  /\ 0 < list'[i].used /\ list'[i].used <= list'[i].size
                 /\ list'[i].size <= Chunk + MaxPart
                 /\ list'[i].size - list'[i].used <= Chunk
                 /\ i < n - 1 => list'[i].used = list'[i].size
      <4>1. i + 1 \in 1..n /\ list'[i] = list[i + 1] /\ (i < n - 1 => i + 1 < n)
        BY <2>1, <2>2
      <4>2. /\ 0 < list[i + 1].used /\ list[i + 1].used <= list[i + 1].size
            /\ list[i + 1].size <= Chunk + MaxPart
            /\ list[i + 1].size - list[i + 1].used <= Chunk
            /\ i + 1 < n => list[i + 1].used = list[i + 1].size
        BY <1>1, <4>1 DEF Filled, n
      <4> QED
        BY <4>1, <4>2
    <3> QED
      BY <1>9, <2>2, <3>1 DEF Filled
  <2>7. reply_bytes' = Used'[n - 1] + Spare'
    <3>1. CASE n = 1
      <4>1. Used[1] = list[1].used /\ Sizes[1] = list[1].size
        <5>1. UsedOf(list)[1] = UsedOf(list)[1 - 1] + list[1].used
              /\ SizesOf(list)[1] = SizesOf(list)[1 - 1] + list[1].size
          BY <1>1, <2>1, BlockSums DEF n
        <5> QED
          BY <1>2, <2>3, <5>1
      <4>2. list' = <<>>
        BY <2>2, <3>1 DEF Blocks
      <4>3. Spare' = 0
        BY <4>2 DEF Spare
      <4>4. Used'[n - 1] = 0 /\ reply_bytes' = 0
        BY <1>3, <2>3, <2>4, <3>1, <4>1 DEF n
      <4> QED
        BY <4>3, <4>4
    <3>2. CASE n # 1
      <4>1. list[1].used = list[1].size
        <5>1. 1 < n
          BY <2>1, <3>2
        <5> QED
          BY <1>1, <2>1, <5>1 DEF Filled, n
      <4>2. n - 1 \in 1..(n - 1) /\ (n - 1) + 1 = n
        BY <2>1, <3>2
      <4>3. list' # <<>>
        BY <2>1, <2>2, <3>2 DEF Blocks
      <4>4. Spare' = list'[n - 1].size - list'[n - 1].used /\ list'[n - 1] = list[n]
        BY <2>2, <4>2, <4>3 DEF Spare
      <4>5. Spare' = Spare
        BY <1>9, <4>4 DEF Spare, n
      <4>6. Used[n] \in Nat /\ reply_bytes = Used[n] + Spare
        BY <1>2, <1>3 DEF n
      <4>7. Spare \in Int
        BY <1>1, SpareRoom
      <4> QED
        BY <2>3, <2>4, <4>1, <4>5, <4>6, <4>7
    <3> QED
      BY <3>1, <3>2
  <2>8. Waiting' <= MaxOut
    <3>1. Used[n] \in Nat
      BY <1>2 DEF n
    <3> QED
      BY <1>1, <1>3, <1>5, <2>5, <3>1 DEF n
  <2>9. RInv'
    <3>1. Stores'
      BY <1>1, <1>9, <2>2 DEF Stores
    <3>2. Totals'
      BY <2>2, <2>7, <2>8 DEF Totals
    <3> QED
      BY <2>6, <3>1, <3>2 DEF RInv
  <2>10. reply_bytes' <= reply_bytes
    BY <1>2, <2>3, <2>4
  <2>11. bufpos' <= bufpos
    BY <1>9
  <2>12. /\ Len(list') = Len(list) - 1
         /\ \A i \in 1..Len(list) : /\ Sizes'[i - 1] = Sizes[i] - list[1].size
                                    /\ Used'[i - 1] = Used[i] - list[1].used
    BY <2>2 DEF n
  <2> QED
    BY <2>4, <2>5, <2>9, <2>10, <2>11, <2>12
<1>10. list' # list => /\ bufpos = 0 /\ list # <<>> /\ sentlen + 1 = list[1].used
                       /\ bufpos' = 0 /\ sentlen' = 0 /\ list' = Tail(list)
  BY SendTakes
<1> QED
  BY <1>7, <1>8, <1>9, <1>10, SendTakes

\* The stores keep their invariant.
LEMMA NextRInv == RInv /\ [Next]_vars => RInv'
<1> SUFFICES ASSUME RInv, [Next]_vars PROVE RInv'
  OBVIOUS
<1>0. /\ bufpos \in 0..BufSize /\ list \in Blocks /\ sentlen \in Nat /\ BufSize \in Nat
      /\ Stores /\ Filled /\ Totals
  BY RedisSliAssumption DEF RInv, Stores
<1>1. ASSUME UNCHANGED <<bufpos, list, sentlen>> PROVE RInv'
  BY <1>1 DEF RInv, Stores, Filled, Totals, reply_bytes, Waiting, Spare, Sizes, Used
<1>2. ASSUME NEW k \in 1..MaxPart, AddToBuffer(k) PROVE RInv'
  <2>1. /\ bufpos' = bufpos + k /\ bufpos + k <= BufSize /\ list = <<>> /\ Waiting + k <= MaxOut
        /\ UNCHANGED <<list, sentlen>> /\ k \in Nat /\ k > 0
    BY <1>2, RedisSliAssumption DEF AddToBuffer
  <2>2. Used' = Used /\ reply_bytes' = reply_bytes /\ Spare' = Spare
    BY <2>1 DEF Used, Sizes, reply_bytes, Spare
  <2>3. Used[Len(list)] \in Nat
    BY <1>0, StateSums
  <2>4. Waiting' <= MaxOut
    <3>1. Waiting' = bufpos + k + Used[Len(list)] - sentlen
      BY <2>1, <2>2 DEF Waiting
    <3>2. Waiting = bufpos + Used[Len(list)] - sentlen
      BY DEF Waiting
    <3> QED
      BY <1>0, <2>1, <2>3, <3>1, <3>2
  <2>5. Filled'
    <3>1. sentlen' < bufpos'
      BY <1>0, <2>1 DEF Filled
    <3>2. bufpos' # 0
      BY <1>0, <2>1
    <3> QED
      BY <1>0, <2>1, <3>1, <3>2 DEF Filled
  <2>6. Stores'
    BY <1>0, <2>1 DEF Stores
  <2>7. Totals'
    BY <1>0, <2>1, <2>2, <2>4 DEF Totals
  <2> QED
    BY <2>5, <2>6, <2>7 DEF RInv
<1>3. ASSUME NEW k \in 1..MaxPart, AddToList(k) PROVE RInv'
  <2>1. UNCHANGED <<bufpos, sentlen>> /\ Waiting + k <= MaxOut
    BY <1>3 DEF AddToList
  <2>2. /\ list' \in Blocks /\ list' # <<>>
        /\ \A i \in 1..Len(list') :
             /\ 0 < list'[i].used /\ list'[i].used <= list'[i].size
             /\ list'[i].size <= Chunk + MaxPart
             /\ list'[i].size - list'[i].used <= Chunk
             /\ i < Len(list') => list'[i].used = list'[i].size
        /\ list # <<>> => list'[1].used >= list[1].used
        /\ Used'[Len(list')] = Used[Len(list)] + k
        /\ reply_bytes' = Used'[Len(list')] + Spare'
    BY <1>3, ListGrows
  <2>3. Stores'
    BY <1>0, <2>1, <2>2 DEF Stores
  <2>4. Filled'
    <3>1. sentlen < bufpos \/ bufpos = 0
      BY <1>0 DEF Filled
    <3>2. bufpos = 0 => sentlen = 0 \/ (list' # <<>> /\ sentlen < list'[1].used)
      <4>1. list # <<>> => 1 \in 1..Len(list) /\ list[1].used \in Nat
        <5>1. /\ Len(list) \in Nat /\ (list = <<>> <=> Len(list) = 0)
              /\ \A n \in 1..Len(list) : list[n].used \in Nat
          BY <1>0, StateSums
        <5> QED
          BY <5>1
      <4>2. 1 \in 1..Len(list') /\ list'[1].used \in Nat
        <5>1. /\ Len(list') \in Nat /\ Len(list') >= 1
          BY <2>2 DEF Blocks
        <5>2. \A n \in 1..Len(list') : list'[n].used \in Nat
          BY <2>2, Columns
        <5> QED
          BY <5>1, <5>2
      <4> QED
        BY <1>0, <2>2, <4>1, <4>2 DEF Filled
    <3> QED
      BY <2>1, <2>2, <3>1, <3>2 DEF Filled
  <2>5. Totals'
    <3>1. Used[Len(list)] \in Nat
      BY <1>0, StateSums
    <3>2. Waiting = bufpos + Used[Len(list)] - sentlen
      BY DEF Waiting
    <3>3. Waiting' = bufpos + (Used[Len(list)] + k) - sentlen
      BY <2>1, <2>2 DEF Waiting
    <3>4. Waiting' <= MaxOut
      BY <1>0, <2>1, <3>1, <3>2, <3>3
    <3> QED
      BY <2>2, <3>4 DEF Totals
  <2> QED
    BY <2>3, <2>4, <2>5 DEF RInv
<1>4. CASE Send
  BY <1>4, SendShrinks
<1>5. CASE FreeClient
  <2>1. bufpos' = 0 /\ list' = <<>> /\ sentlen' = 0
    BY <1>5 DEF FreeClient
  <2>2. Stores'
    BY <1>0, <2>1 DEF Stores, Blocks
  <2>3. Filled'
    BY <2>1 DEF Filled
  <2>4. Sizes' = SizesOf(list') /\ Used' = UsedOf(list')
    BY DEF Sizes, Used, SizesOf, UsedOf
  <2>5. Sizes'[0] = 0 /\ Used'[0] = 0 /\ Len(list') = 0
    BY <2>1, <2>2, <2>4, BlockSums DEF Stores
  <2>6. Totals'
    BY <2>1, <2>5, RedisSliAssumption DEF Totals, reply_bytes, Waiting, Spare
  <2> QED
    BY <2>2, <2>3, <2>6 DEF RInv
<1>6. CASE ReadQuery
  BY <1>1, <1>6 DEF ReadQuery
<1>7. CASE ReadQueryUnknown
  BY <1>1, <1>7 DEF ReadQueryUnknown
<1>8. CASE ProcessCommand
  BY <1>1, <1>8 DEF ProcessCommand
<1>9. CASE ProcessReturn
  BY <1>1, <1>9 DEF ProcessReturn
<1>10. CASE WriteToClient
  BY <1>1, <1>10 DEF WriteToClient
<1>11. CASE WriteReturn
  BY <1>1, <1>11 DEF WriteReturn
<1>12. CASE Tick
  BY <1>1, <1>12 DEF Tick, redis
<1>13. CASE UNCHANGED vars
  BY <1>1, <1>13 DEF vars
<1>14. ASSUME NEW k \in 1..MaxPart, ReplyToBuffer(k) \/ ReplyToList(k) \/ ReplyLater(k) PROVE RInv'
  BY <1>2, <1>3, <1>14 DEF ReplyToBuffer, ReplyToList, ReplyLater
<1> QED
  BY <1>4, <1>5, <1>6, <1>7, <1>8, <1>9, <1>10, <1>11, <1>12, <1>13, <1>14 DEF Next

\* The stores start empty.
LEMMA InitRInv == Init => RInv
<1> SUFFICES ASSUME Init PROVE RInv
  OBVIOUS
<1>1. bufpos = 0 /\ list = <<>> /\ sentlen = 0 /\ Stores
  BY RedisSliAssumption DEF Init, Stores, Blocks
<1>2. Sizes[0] = 0 /\ Used[0] = 0 /\ Len(list) = 0
  BY <1>1, StateSums
<1>3. Totals
  BY <1>1, <1>2, RedisSliAssumption DEF Totals, reply_bytes, Waiting, Spare
<1> QED
  BY <1>1, <1>3 DEF RInv, Filled

\* What waits, and the positions that the bounds of the sums must reach.
LEMMA WaitingAndBounds ==
  ASSUME RInv
  PROVE  /\ Waiting \in Nat /\ (Waiting = 0 => bufpos = 0 /\ list = <<>>)
         /\ (list = <<>> => reply_bytes = 0)
         /\ reply_bytes \in Nat /\ reply_bytes <= MaxList /\ bufpos \in Nat /\ bufpos <= MaxBuf
<1> DEFINE u == Used[Len(list)]
           f == list[1].used
<1>1. /\ Len(list) \in Nat /\ (list = <<>> <=> Len(list) = 0) /\ Sizes[0] = 0 /\ Used[0] = 0
      /\ reply_bytes \in Nat /\ u \in Nat
      /\ \A n \in 1..Len(list) : list[n].used \in Nat /\ Used[n] >= list[1].used
  BY StateSums DEF RInv
<1>2. bufpos \in Nat /\ sentlen \in Nat /\ bufpos <= BufSize
  BY RedisSliAssumption DEF RInv, Stores
<1>3. list # <<>> => f \in Nat /\ 0 < f /\ f <= Chunk + MaxPart /\ u >= f
  <2> SUFFICES ASSUME list # <<>> PROVE f \in Nat /\ 0 < f /\ f <= Chunk + MaxPart /\ u >= f
    OBVIOUS
  <2>1. 1 \in 1..Len(list) /\ Len(list) \in 1..Len(list)
    BY <1>1
  <2>2. f \in Nat /\ u >= f
    BY <1>1, <2>1
  <2>3. 0 < f /\ f <= list[1].size /\ list[1].size <= Chunk + MaxPart /\ list[1].size \in Nat
    BY <2>1, StateSums DEF RInv, Filled
  <2> QED
    BY <2>2, <2>3, RedisSliAssumption
<1>4. list = <<>> => u = 0 /\ reply_bytes = 0
  BY <1>1 DEF reply_bytes
<1>5. Waiting = bufpos + u - sentlen /\ Waiting <= MaxOut /\ reply_bytes = u + Spare
  BY DEF Waiting, RInv, Totals
<1>6. /\ sentlen < bufpos \/ bufpos = 0
      /\ bufpos = 0 => sentlen = 0 \/ (list # <<>> /\ sentlen < f)
  BY DEF RInv, Filled
<1>7. Spare \in 0..Chunk /\ (list = <<>> => Spare = 0)
  BY SpareRoom DEF RInv
<1>8. /\ MaxOut \in Nat /\ Chunk \in Nat /\ MaxPart \in Nat /\ BufSize \in Nat
      /\ MaxList = MaxOut + 2 * Chunk + MaxPart /\ MaxBuf = BufSize
  BY RedisSliAssumption DEF MaxList, MaxBuf
<1> HIDE DEF u, f
<1>9. u \in Nat
  BY <1>1
<1>10. Waiting \in Nat /\ (Waiting = 0 => bufpos = 0 /\ list = <<>>)
  <2>1. CASE bufpos > 0
    BY <1>2, <1>5, <1>6, <1>9, <2>1
  <2>2. CASE bufpos = 0 /\ list = <<>>
    BY <1>2, <1>4, <1>5, <1>6, <2>2
  <2>3. CASE bufpos = 0 /\ list # <<>>
    BY <1>2, <1>3, <1>5, <1>6, <1>9, <2>3
  <2> QED
    BY <1>2, <2>1, <2>2, <2>3
<1>11. u <= MaxOut + Chunk + MaxPart
  <2>1. CASE bufpos > 0
    BY <1>2, <1>5, <1>6, <1>8, <1>9, <2>1
  <2>2. CASE bufpos = 0 /\ list = <<>>
    BY <1>4, <1>8, <2>2
  <2>3. CASE bufpos = 0 /\ list # <<>>
    BY <1>2, <1>3, <1>5, <1>6, <1>8, <1>9, <2>3
  <2> QED
    BY <1>2, <2>1, <2>2, <2>3
<1>12. reply_bytes <= MaxList
  BY <1>5, <1>7, <1>8, <1>9, <1>11
<1> QED
  BY <1>1, <1>2, <1>4, <1>8, <1>10, <1>12

-----------------------------------------------------------------------------
(***************************************************************************)
(* Types.                                                                  *)
(***************************************************************************)
\* processCommand's return finds the entry that its call has seen.
Kept == stash => pc = "process" /\ conn \in Conns /\ conn.n = 1

TInv == RInv /\ TypeOK /\ Kept

\* Fields of an entry of conn_map.
LEMMA Fields ==
  ASSUME NEW c \in Conns
  PROVE  /\ c.n \in {0, 1} /\ c.smp \in 0..(Period + 1)
         /\ c.rdBuf \in Nat /\ c.rdList \in Nat /\ c.curBuf \in Nat /\ c.curList \in Nat
         /\ c.cmd \in Cmds /\ c.cmd.start \in BOOLEAN /\ c.cmd.finished \in BOOLEAN
         /\ c.cmd.wr \in Nat
<1>1. /\ c.n \in 0..1 /\ c.smp \in 0..(Period + 1)
      /\ c.rdBuf \in Nat /\ c.rdList \in Nat /\ c.curBuf \in Nat /\ c.curList \in Nat
      /\ c.cmd \in Cmds
  BY DEF Conns
<1>2. c.cmd.start \in BOOLEAN /\ c.cmd.finished \in BOOLEAN /\ c.cmd.wr \in Nat
  BY <1>1 DEF Cmds
<1> QED
  BY <1>1, <1>2

LEMMA NewConnType == NewConn \in Conns /\ NewConn.n = 0 /\ NewConn.rdBuf = 0 /\ NewConn.rdList = 0
BY RedisSliAssumption DEF NewConn, NoCmd, Conns, Cmds

\* What counting the written bytes gives.
LEMMA CountedIs ==
  ASSUME RInv, conn \in Conns
  PROVE  /\ Counted \in Conns
         /\ Counted.n = conn.n /\ Counted.cmd = conn.cmd /\ Counted.smp = conn.smp
         /\ Counted.rdBuf = IF bufpos < conn.curBuf
                            THEN Capped(conn.rdBuf + conn.curBuf - bufpos, MaxBuf) ELSE conn.rdBuf
         /\ Counted.rdList = IF reply_bytes < conn.curList
                             THEN Capped(conn.rdList + conn.curList - reply_bytes, MaxList)
                             ELSE conn.rdList
<1> DEFINE x == IF bufpos < conn.curBuf
                THEN Capped(conn.rdBuf + conn.curBuf - bufpos, MaxBuf) ELSE conn.rdBuf
           y == IF reply_bytes < conn.curList
                THEN Capped(conn.rdList + conn.curList - reply_bytes, MaxList) ELSE conn.rdList
<1>1. /\ conn.rdBuf \in Nat /\ conn.rdList \in Nat /\ conn.curBuf \in Nat /\ conn.curList \in Nat
  BY Fields
<1>2. bufpos \in Nat /\ reply_bytes \in Nat
  BY WaitingAndBounds
<1>3. MaxBuf \in Nat /\ MaxList \in Nat
  BY RedisSliAssumption DEF MaxBuf, MaxList
<1>4. x \in Nat /\ y \in Nat
  BY <1>1, <1>2, <1>3 DEF Capped
<1>5. Counted = [conn EXCEPT !.curBuf = 0, !.curList = 0, !.rdBuf = x, !.rdList = y]
  BY DEF Counted
<1> HIDE DEF x, y
<1>6. /\ Counted \in Conns /\ Counted.n = conn.n /\ Counted.cmd = conn.cmd /\ Counted.smp = conn.smp
      /\ Counted.rdBuf = x /\ Counted.rdList = y
  BY <1>4, <1>5 DEF Conns
<1> QED
  BY <1>6 DEF x, y

\* Marking the sampled command as finished changes nothing else.
Marked(c, b) == [c EXCEPT !.cmd.finished = @ \/ b]

LEMMA MarkedIs ==
  ASSUME NEW c \in Conns, NEW b \in BOOLEAN, NEW d, d = Marked(c, b)
  PROVE  /\ d \in Conns /\ d.n = c.n /\ d.smp = c.smp /\ d.rdBuf = c.rdBuf /\ d.rdList = c.rdList
         /\ d.curBuf = c.curBuf /\ d.curList = c.curList
         /\ d.cmd.start = c.cmd.start /\ d.cmd.store = c.cmd.store /\ d.cmd.wr = c.cmd.wr
         /\ d.cmd.finished = (c.cmd.finished \/ b)
<1> DEFINE e == [c.cmd EXCEPT !.finished = @ \/ b]
<1>1. c.cmd \in Cmds
  BY Fields
<1>2. /\ e \in Cmds /\ e.start = c.cmd.start /\ e.store = c.cmd.store /\ e.wr = c.cmd.wr
      /\ e.finished = (c.cmd.finished \/ b)
  BY <1>1 DEF Cmds
<1>3. d = [c EXCEPT !.cmd = e]
  BY DEF Marked
<1> HIDE DEF e
<1>4. /\ d \in Conns /\ d.n = c.n /\ d.smp = c.smp /\ d.rdBuf = c.rdBuf /\ d.rdList = c.rdList
      /\ d.curBuf = c.curBuf /\ d.curList = c.curList /\ d.cmd = e
  BY <1>2, <1>3 DEF Conns
<1> QED
  BY <1>2, <1>4

\* A renewed entry: the sample is kept, or it is over.
LEMMA RenewedIs ==
  ASSUME NEW c \in Conns
  PROVE  Renewed(c) \in Conns /\ (Renewed(c) = c \/ Renewed(c).n = 0)
<1>1. NoCmd \in Cmds
  BY DEF NoCmd, Cmds
<1>2. CASE c.smp > Period
  <2>1. Renewed(c) = [c EXCEPT !.smp = 0, !.n = 0, !.cmd = NoCmd]
    BY <1>2 DEF Renewed
  <2>2. 0 \in 0..(Period + 1) /\ 0 \in 0..1
    BY RedisSliAssumption
  <2>3. Renewed(c) \in Conns
    BY <1>1, <2>1, <2>2 DEF Conns
  <2>4. Renewed(c).n = 0
    BY <2>1 DEF Conns
  <2> QED
    BY <2>3, <2>4
<1>3. CASE ~(c.smp > Period)
  BY <1>3 DEF Renewed
<1> QED
  BY <1>2, <1>3

\* The entry when writeToClient returns.
LEMMA WriteReturnIs ==
  ASSUME TInv, WriteReturn, conn # NULL
  PROVE  /\ conn' \in Conns
         /\ conn'.n = 1 =>
              /\ conn.n = 1 /\ conn'.rdBuf = Counted.rdBuf /\ conn'.rdList = Counted.rdList
              /\ conn'.cmd.start = conn.cmd.start /\ conn'.cmd.store = conn.cmd.store
              /\ conn'.cmd.wr = conn.cmd.wr
              /\ conn'.cmd.finished = (conn.cmd.finished \/ Written(Counted))
<1> DEFINE d == [Counted EXCEPT !.cmd.finished = @ \/ Written(Counted)]
<1>1. conn \in Conns
  BY DEF TInv, TypeOK
<1>2. /\ Counted \in Conns /\ Counted.n = conn.n /\ Counted.cmd = conn.cmd
  BY <1>1, CountedIs DEF TInv
<1>3. Written(Counted) \in BOOLEAN
  BY DEF Written
<1>4. d = Marked(Counted, Written(Counted))
  BY DEF Marked
<1>5. conn' = IF ~Busy THEN Counted ELSE Renewed(d)
  BY DEF WriteReturn
<1> HIDE DEF d
<1>6. /\ d \in Conns /\ d.n = Counted.n /\ d.rdBuf = Counted.rdBuf /\ d.rdList = Counted.rdList
      /\ d.cmd.start = Counted.cmd.start /\ d.cmd.store = Counted.cmd.store
      /\ d.cmd.wr = Counted.cmd.wr
      /\ d.cmd.finished = (Counted.cmd.finished \/ Written(Counted))
  BY <1>2, <1>3, <1>4, MarkedIs
<1>7. Renewed(d) \in Conns /\ (Renewed(d) = d \/ Renewed(d).n = 0)
  BY <1>6, RenewedIs
<1>8. conn.n \in {0, 1}
  BY <1>1, Fields
<1>9. CASE Busy
  BY <1>2, <1>5, <1>6, <1>7, <1>8, <1>9 DEF Busy
<1>10. CASE ~Busy
  BY <1>2, <1>5, <1>8, <1>10 DEF Busy
<1> QED
  BY <1>9, <1>10

\* The entry when readQueryFromClient was called.
LEMMA ReadQueryIs ==
  ASSUME TInv, ReadQuery
  PROVE  /\ conn' \in Conns
         /\ conn'.n = 1 => conn' = conn /\ conn # NULL
         /\ conn'.n = 0 => conn'.rdBuf = 0 /\ conn'.rdList = 0 /\ last' = TRUE
<1> DEFINE c == IF conn = NULL THEN NewConn ELSE conn
<1>1. c \in Conns /\ (c.n = 1 => c = conn /\ conn # NULL) /\ c.n \in {0, 1}
  <2>1. c \in Conns
    BY NewConnType DEF TInv, TypeOK
  <2>2. c.n \in {0, 1}
    BY <2>1, Fields
  <2>3. c.n = 1 => c = conn /\ conn # NULL
    BY NewConnType
  <2> QED
    BY <2>1, <2>2, <2>3
<1>2. IF c.n > 0 THEN conn' = c /\ last' = FALSE
      ELSE conn' = [c EXCEPT !.rdBuf = 0, !.rdList = 0] /\ last' = TRUE
  BY DEF ReadQuery
<1> HIDE DEF c
<1>3. CASE c.n = 1
  BY <1>1, <1>2, <1>3
<1>4. CASE c.n = 0
  <2>1. conn' = [c EXCEPT !.rdBuf = 0, !.rdList = 0] /\ last' = TRUE
    BY <1>2, <1>4
  <2>2. conn' \in Conns /\ conn'.n = 0 /\ conn'.rdBuf = 0 /\ conn'.rdList = 0
    BY <1>1, <1>4, <2>1 DEF Conns
  <2> QED
    BY <2>1, <2>2
<1> QED
  BY <1>1, <1>3, <1>4

\* The entry when a command was sampled.
LEMMA ProcessCommandIs ==
  ASSUME TInv, ProcessCommand, conn # NULL, ~Busy
  PROVE  /\ conn \in Conns /\ conn.n = 0
         /\ conn' \in Conns /\ conn'.n = 1
         /\ conn'.curBuf = bufpos /\ conn'.curList = reply_bytes
         /\ conn'.rdBuf = conn.rdBuf /\ conn'.rdList = conn.rdList
         /\ conn'.cmd.finished = FALSE
         /\ stash' = TRUE /\ where' = {} /\ left' = 0
<1>1. conn \in Conns
  BY DEF TInv, TypeOK
<1>2. conn.n \in {0, 1} /\ conn.cmd \in Cmds
  BY <1>1, Fields
<1>3. conn.n = 0
  BY <1>2 DEF Busy
<1>4. /\ conn' = [conn EXCEPT !.n = 1, !.curBuf = bufpos, !.curList = reply_bytes,
                              !.cmd.start = last, !.cmd.finished = FALSE]
      /\ stash' = TRUE /\ where' = {} /\ left' = 0
  BY DEF ProcessCommand
<1> DEFINE e == [conn.cmd EXCEPT !.start = last, !.finished = FALSE]
<1>5. e \in Cmds /\ e.finished = FALSE
  BY <1>2 DEF Cmds, TInv, TypeOK
<1>6. conn' = [conn EXCEPT !.n = 1, !.curBuf = bufpos, !.curList = reply_bytes, !.cmd = e]
  BY <1>1, <1>4 DEF Conns
<1> HIDE DEF e
<1>7. bufpos \in Nat /\ reply_bytes \in Nat
  BY WaitingAndBounds DEF TInv
<1>8. conn' \in Conns
  <2>1. 1 \in 0..1
    OBVIOUS
  <2> QED
    BY <1>1, <1>5, <1>6, <1>7, <2>1 DEF Conns
<1>9. /\ conn'.n = 1 /\ conn'.curBuf = bufpos /\ conn'.curList = reply_bytes
      /\ conn'.rdBuf = conn.rdBuf /\ conn'.rdList = conn.rdList /\ conn'.cmd = e
  BY <1>1, <1>6 DEF Conns
<1> QED
  BY <1>1, <1>3, <1>4, <1>5, <1>8, <1>9

\* The entry when the sampled command has returned.
LEMMA ProcessReturnIs ==
  ASSUME TInv, ProcessReturn, stash
  PROVE  /\ conn \in Conns /\ conn.n = 1 /\ conn' \in Conns /\ conn'.n = 1
         /\ conn'.rdBuf = conn.rdBuf /\ conn'.rdList = conn.rdList
         /\ left' = IF where = {} THEN 0 ELSE Waiting
         /\ IF conn.curBuf < bufpos
            THEN conn'.cmd.store = "STATIC_BUFFER" /\ conn'.cmd.wr = bufpos
                 /\ conn'.cmd.finished = conn.cmd.finished
            ELSE IF conn.curList < reply_bytes
            THEN conn'.cmd.store = "DYNAMIC_LIST" /\ conn'.cmd.wr = reply_bytes
                 /\ conn'.cmd.finished = conn.cmd.finished
            ELSE conn'.cmd.finished = TRUE
<1>1. conn \in Conns /\ conn.n = 1
  BY DEF TInv, TypeOK, Kept
<1>2. conn.cmd \in Cmds
  BY <1>1, Fields
<1>3. /\ left' = IF where = {} THEN 0 ELSE Waiting
      /\ conn' =
           IF conn.curBuf < bufpos
           THEN [conn EXCEPT !.cmd.store = "STATIC_BUFFER", !.cmd.wr = bufpos]
           ELSE IF conn.curList < reply_bytes
           THEN [conn EXCEPT !.cmd.store = "DYNAMIC_LIST", !.cmd.wr = reply_bytes]
           ELSE [conn EXCEPT !.cmd.store = "NO_STORAGE", !.cmd.finished = TRUE]
  BY DEF ProcessReturn
<1> DEFINE e == IF conn.curBuf < bufpos
                THEN [conn.cmd EXCEPT !.store = "STATIC_BUFFER", !.wr = bufpos]
                ELSE IF conn.curList < reply_bytes
                THEN [conn.cmd EXCEPT !.store = "DYNAMIC_LIST", !.wr = reply_bytes]
                ELSE [conn.cmd EXCEPT !.store = "NO_STORAGE", !.finished = TRUE]
<1>4. conn' = [conn EXCEPT !.cmd = e]
  BY <1>1, <1>3 DEF Conns
<1>5. bufpos \in Nat /\ reply_bytes \in Nat
  BY WaitingAndBounds DEF TInv
<1>6. /\ e \in Cmds
      /\ IF conn.curBuf < bufpos
         THEN e.store = "STATIC_BUFFER" /\ e.wr = bufpos /\ e.finished = conn.cmd.finished
         ELSE IF conn.curList < reply_bytes
         THEN e.store = "DYNAMIC_LIST" /\ e.wr = reply_bytes /\ e.finished = conn.cmd.finished
         ELSE e.finished = TRUE
  BY <1>2, <1>5 DEF Cmds
<1> HIDE DEF e
<1>7. /\ conn' \in Conns /\ conn'.n = conn.n /\ conn'.cmd = e
      /\ conn'.rdBuf = conn.rdBuf /\ conn'.rdList = conn.rdList
  BY <1>1, <1>4, <1>6 DEF Conns
<1> QED
  BY <1>1, <1>3, <1>6, <1>7

\* The entry when writeToClient was called.
LEMMA WriteToClientIs ==
  ASSUME TInv, WriteToClient, conn # NULL
  PROVE  /\ conn \in Conns /\ conn' \in Conns /\ conn'.n = conn.n
         /\ conn'.curBuf = bufpos /\ conn'.curList = reply_bytes
         /\ conn'.rdBuf = conn.rdBuf /\ conn'.rdList = conn.rdList /\ conn'.cmd = conn.cmd
<1>1. conn \in Conns
  BY DEF TInv, TypeOK
<1>2. conn' = [conn EXCEPT !.curBuf = bufpos, !.curList = reply_bytes]
  BY DEF WriteToClient
<1>3. bufpos \in Nat /\ reply_bytes \in Nat
  BY WaitingAndBounds DEF TInv
<1> QED
  BY <1>1, <1>2, <1>3 DEF Conns

\* The entry after a tick.
LEMMA TickIs ==
  ASSUME TInv, Tick
  PROVE  /\ conn # NULL /\ conn \in Conns /\ conn' \in Conns /\ conn'.n = conn.n
         /\ conn'.curBuf = conn.curBuf /\ conn'.curList = conn.curList
         /\ conn'.rdBuf = conn.rdBuf /\ conn'.rdList = conn.rdList /\ conn'.cmd = conn.cmd
<1>1. conn # NULL /\ conn \in Conns /\ conn.smp <= Period
  BY DEF TInv, TypeOK, Tick
<1>2. conn' = [conn EXCEPT !.smp = conn.smp + 1]
  BY DEF Tick
<1>3. conn.smp + 1 \in 0..(Period + 1)
  BY <1>1, Fields, RedisSliAssumption
<1> QED
  BY <1>1, <1>2, <1>3 DEF Conns

\* Every step keeps the types.
LEMMA NextTInv == TInv /\ [Next]_vars => TInv'
<1> SUFFICES ASSUME TInv, [Next]_vars PROVE TInv'
  OBVIOUS
<1> DEFINE Rest == /\ pc' \in {"idle", "process", "write"} /\ pending' \in 0..MaxPipe
                   /\ blocked' \in BOOLEAN
                   /\ conn' \in Conns \union {NULL} /\ stash' \in BOOLEAN /\ last' \in BOOLEAN
                   /\ where' \subseteq {"buf", "list", "spare", "later"} /\ left' \in Nat
                   /\ Kept'
<1>0. /\ pc \in {"idle", "process", "write"} /\ pending \in 0..MaxPipe /\ blocked \in BOOLEAN
      /\ conn \in Conns \union {NULL} /\ stash \in BOOLEAN /\ last \in BOOLEAN
      /\ where \subseteq {"buf", "list", "spare", "later"} /\ left \in Nat /\ Kept
  BY DEF TInv, TypeOK
<1>a. MaxPipe \in Nat \ {0}
  BY RedisSliAssumption
<1>1. RInv'
  BY NextRInv DEF TInv
<1> SUFFICES Rest
  BY <1>1 DEF TInv, TypeOK, RInv, Stores, Blocks
<1>2. CASE ReadQuery
  <2>1. conn' \in Conns /\ pc = "idle" /\ pc' = pc /\ pending' \in 1..MaxPipe
        /\ last' \in BOOLEAN /\ UNCHANGED <<blocked, stash, where, left>>
    BY <1>2, ReadQueryIs DEF ReadQuery
  <2>2. Kept'
    BY <1>0, <2>1 DEF Kept
  <2> QED
    BY <1>0, <1>a, <2>1, <2>2
<1>3. CASE ReadQueryUnknown
  BY <1>0, <1>3, <1>a DEF ReadQueryUnknown, Kept
<1>4. CASE ProcessCommand
  <2>1. pc' = "process" /\ pending' = pending - 1 /\ pending > 0 /\ UNCHANGED <<blocked, last>>
    BY <1>4 DEF ProcessCommand
  <2>2. CASE conn = NULL \/ Busy
    <3>1. stash' = FALSE /\ UNCHANGED <<conn, where, left>>
      BY <1>4, <2>2 DEF ProcessCommand
    <3>2. pending - 1 \in 0..MaxPipe
      BY <1>0, <1>a, <2>1
    <3> QED
      BY <1>0, <2>1, <3>1, <3>2 DEF Kept
  <2>3. CASE conn # NULL /\ ~Busy
    <3>1. conn' \in Conns /\ conn'.n = 1 /\ stash' = TRUE /\ where' = {} /\ left' = 0
      BY <1>4, <2>3, ProcessCommandIs
    <3> QED
      BY <1>0, <1>a, <2>1, <3>1 DEF Kept
  <2> QED
    BY <2>2, <2>3
<1>5. ASSUME NEW k \in 1..MaxPart, ReplyToBuffer(k) \/ ReplyToList(k) \/ ReplyLater(k) PROVE Rest
  <2>1. UNCHANGED <<pc, pending, conn, stash, last, left>> /\ blocked' \in BOOLEAN
    BY <1>0, <1>5 DEF ReplyToBuffer, ReplyToList, ReplyLater
  <2>2. where' \subseteq {"buf", "list", "spare", "later"}
    <3>1. CASE ReplyToBuffer(k)
      BY <1>0, <3>1 DEF ReplyToBuffer, Sampled
    <3>2. CASE ReplyToList(k)
      <4>1. InList(k) \in SUBSET {"spare", "list"}
        BY <3>2, ListGrows DEF TInv, ReplyToList
      <4> QED
        BY <1>0, <3>2, <4>1 DEF ReplyToList, Sampled
    <3>3. CASE ReplyLater(k)
      BY <1>0, <3>3 DEF ReplyLater
    <3> QED
      BY <1>5, <3>1, <3>2, <3>3
  <2> QED
    BY <1>0, <2>1, <2>2 DEF Kept
<1>6. CASE ProcessReturn
  <2>1. /\ pc' = "idle" /\ stash' = FALSE /\ UNCHANGED <<pending, last>>
        /\ blocked' \in BOOLEAN /\ where' \in {where, {"later"}}
    BY <1>6 DEF ProcessReturn, Block
  <2>2. conn' \in Conns \union {NULL} /\ left' \in Nat
    <3>1. CASE stash
      <4>1. conn' \in Conns /\ left' = IF where = {} THEN 0 ELSE Waiting
        BY <1>6, <3>1, ProcessReturnIs
      <4>2. Waiting \in Nat
        BY WaitingAndBounds DEF TInv
      <4> QED
        BY <4>1, <4>2
    <3>2. CASE ~stash
      BY <1>0, <1>6, <3>2 DEF ProcessReturn
    <3> QED
      BY <3>1, <3>2
  <2> QED
    BY <1>0, <2>1, <2>2 DEF Kept
<1>7. CASE WriteToClient
  <2>1. pc = "idle" /\ pc' = "write" /\ UNCHANGED <<pending, blocked, stash, last, where, left>>
    BY <1>7 DEF WriteToClient
  <2>2. conn' \in Conns \union {NULL}
    <3>1. CASE conn = NULL
      BY <1>7, <3>1 DEF WriteToClient
    <3>2. CASE conn # NULL
      BY <1>7, <3>2, WriteToClientIs
    <3> QED
      BY <3>1, <3>2
  <2> QED
    BY <1>0, <2>1, <2>2 DEF Kept
<1>8. CASE Send
  <2>1. UNCHANGED <<pc, pending, blocked, conn, stash, last, where>> /\ left' = IF left > 0 THEN left - 1 ELSE 0
    BY <1>8 DEF Send
  <2>2. left' \in Nat
    BY <1>0, <2>1
  <2> QED
    BY <1>0, <2>1, <2>2 DEF Kept
<1>9. CASE WriteReturn
  <2>1. /\ pc = "write" /\ pc' = "idle" /\ UNCHANGED <<pending, blocked, stash, last>>
        /\ (UNCHANGED <<where, left>> \/ (where' = {} /\ left' = 0))
    BY <1>9 DEF WriteReturn
  <2>2. conn' \in Conns \union {NULL}
    <3>1. CASE conn = NULL
      BY <1>9, <3>1 DEF WriteReturn
    <3>2. CASE conn # NULL
      BY <1>9, <3>2, WriteReturnIs
    <3> QED
      BY <3>1, <3>2
  <2>3. where' \subseteq {"buf", "list", "spare", "later"} /\ left' \in Nat
    <3>1. CASE UNCHANGED <<where, left>>
      BY <1>0, <3>1
    <3>2. CASE where' = {} /\ left' = 0
      BY <3>2
    <3> QED
      BY <2>1, <3>1, <3>2
  <2>4. ~stash'
    BY <1>0, <2>1 DEF Kept
  <2> QED
    BY <1>0, <2>1, <2>2, <2>3, <2>4 DEF Kept
<1>10. CASE FreeClient
  <2>1. /\ pc = "idle" /\ pc' = "idle" /\ pending' = 0 /\ conn' = NULL /\ last' = FALSE
        /\ where' = {} /\ left' = 0 /\ stash' = stash /\ blocked' = FALSE
    BY <1>10 DEF FreeClient
  <2>2. 0 \in 0..MaxPipe /\ ~stash
    BY <1>0, <1>a, <2>1 DEF Kept
  <2> QED
    BY <1>0, <2>1, <2>2 DEF Kept
<1>11. CASE Tick
  <2>1. conn # NULL /\ conn' \in Conns /\ conn'.n = conn.n /\ UNCHANGED <<pc, pending, blocked, stash, last, where, left>>
    BY <1>11, TickIs DEF Tick, redis
  <2>2. Kept'
    BY <1>0, <2>1 DEF Kept
  <2> QED
    BY <1>0, <2>1, <2>2
<1>12. CASE UNCHANGED vars
  BY <1>0, <1>12 DEF vars, Kept
<1> HIDE DEF Rest
<1> QED
  BY <1>2, <1>3, <1>4, <1>5, <1>6, <1>7, <1>8, <1>9, <1>10, <1>11, <1>12 DEF Next

\* They start with their types.
LEMMA InitTInv == Init => TInv
<1> SUFFICES ASSUME Init PROVE TInv
  OBVIOUS
<1>1. RInv
  BY InitRInv
<1>2. bufpos \in 0..BufSize /\ list \in Seq([size : Nat, used : Nat]) /\ sentlen \in Nat
  BY <1>1 DEF RInv, Stores, Blocks
<1>3. pending \in 0..MaxPipe
  BY RedisSliAssumption DEF Init
<1>4. TypeOK /\ Kept
  BY <1>2, <1>3 DEF Init, TypeOK, Kept
<1> QED
  BY <1>1, <1>4 DEF TInv

(***************************************************************************)
(* For any sizes: the types hold; in particular no more than one command   *)
(* is ever kept for a connection, the size of the array cmds, and no sum   *)
(* of sizes is negative.                                                   *)
(***************************************************************************)
THEOREM RedisTypes == Spec => []TypeOK
<1>1. TInv /\ [Next]_vars => TInv'
  BY NextTInv
<1>2. TInv => TypeOK
  BY DEF TInv
<1> QED
  BY <1>1, <1>2, InitTInv, PTL DEF Spec

-----------------------------------------------------------------------------
(***************************************************************************)
(* What the probe concludes.  A write begins with the sizes the probe saw  *)
(* at its call, and the stores only shrink during it.                      *)
(***************************************************************************)
Shrinks == pc = "write" /\ conn # NULL => bufpos <= conn.curBuf /\ reply_bytes <= conn.curList

\* A command is sampled with the sums at 0, if writes wait for an empty query buffer.
Fresh ==
  /\ pc = "write" => pending = 0
  /\ conn # NULL /\ conn.n = 0 /\ pending > 0 => conn.rdBuf = 0 /\ conn.rdList = 0

\* While the sampled command runs, the sizes tell where its reply goes.
Judged ==
  stash =>
    /\ conn.rdBuf = 0 /\ conn.rdList = 0
    /\ conn.curBuf <= bufpos /\ ("buf" \in where <=> conn.curBuf < bufpos)
    /\ conn.curList <= reply_bytes /\ ("list" \in where <=> conn.curList < reply_bytes)
    /\ "buf" \in where /\ "list" \notin where => list = <<>>

\* A sample in progress is not finished, and outside of a write its reply is not
\* written to the end.
Open == stash => ~conn.cmd.finished
Unwritten == Busy /\ ~stash /\ ~conn.cmd.finished /\ pc # "write" => ~Written(conn)

\* What has left the stores since the sample began, the current write included.
FlushedBuf  == conn.rdBuf + IF pc = "write" THEN conn.curBuf - bufpos ELSE 0
FlushedList == conn.rdList + IF pc = "write" THEN conn.curList - reply_bytes ELSE 0

\* The end of the reply is not further away than what is in its store.
Awaited ==
  Busy /\ ~stash /\ ~conn.cmd.finished =>
    \/ /\ conn.cmd.store = "STATIC_BUFFER" /\ conn.cmd.wr <= MaxBuf
       /\ conn.cmd.wr <= FlushedBuf + bufpos
    \/ /\ conn.cmd.store = "DYNAMIC_LIST" /\ conn.cmd.wr <= MaxList
       /\ conn.cmd.wr <= FlushedList + reply_bytes

(***************************************************************************)
(* As long as a part of the reply waits, the buffer was not emptied since  *)
(* the sample began, or block j, the last one that was there when the      *)
(* command returned, is still in the list.                                 *)
(***************************************************************************)
InBuffer == /\ conn.cmd.store = "STATIC_BUFFER" /\ conn.cmd.wr > 0
            /\ FlushedBuf = 0 /\ left <= bufpos - sentlen

InBlock(j) == FlushedList + Sizes[j] = conn.cmd.wr /\ left <= bufpos + Used[j] - sentlen

Unsent ==
  Busy /\ ~stash /\ ~Misjudged /\ left > 0 =>
    /\ ~conn.cmd.finished
    /\ \/ InBuffer
       \/ /\ conn.cmd.store = "DYNAMIC_LIST" /\ conn.cmd.wr <= MaxList
          /\ \E j \in 1..Len(list) : InBlock(j)

WInv == TInv /\ Shrinks /\ Fresh /\ Judged /\ Open /\ Unwritten /\ Awaited /\ Unsent

\* Steps that touch neither the stores nor what is known of the sample.
LEMMA Unmoved ==
  ASSUME Awaited, Unsent, UNCHANGED <<bufpos, list, sentlen, where, left>>, ~stash,
         Busy' => /\ Busy /\ conn'.cmd = conn.cmd
                  /\ FlushedBuf' = FlushedBuf /\ FlushedList' = FlushedList
  PROVE  Awaited' /\ Unsent'
<1>1. Sizes' = Sizes /\ Used' = Used /\ reply_bytes' = reply_bytes /\ (Misjudged' <=> Misjudged)
  BY DEF Sizes, Used, reply_bytes, Misjudged
<1>2. Awaited'
  BY <1>1 DEF Awaited
<1>3. Unsent'
  <2> SUFFICES ASSUME Busy', ~Misjudged', left' > 0
               PROVE  /\ ~conn'.cmd.finished
                      /\ \/ InBuffer'
                         \/ /\ conn'.cmd.store = "DYNAMIC_LIST" /\ conn'.cmd.wr <= MaxList
                            /\ \E j \in 1..Len(list') : InBlock(j)'
    BY DEF Unsent
  <2>1. /\ ~conn.cmd.finished
        /\ \/ InBuffer
           \/ /\ conn.cmd.store = "DYNAMIC_LIST" /\ conn.cmd.wr <= MaxList
              /\ \E j \in 1..Len(list) : InBlock(j)
    BY <1>1 DEF Unsent
  <2>2. InBuffer => InBuffer'
    BY DEF InBuffer
  <2>3. \A j \in 1..Len(list) : InBlock(j) => InBlock(j)'
    BY <1>1 DEF InBlock
  <2> QED
    BY <2>1, <2>2, <2>3
<1> QED
  BY <1>2, <1>3

\* The numbers of a state and of the next one.
LEMMA Numbers ==
  ASSUME TInv
  PROVE  /\ bufpos \in Nat /\ bufpos <= MaxBuf /\ reply_bytes \in Nat /\ reply_bytes <= MaxList
         /\ sentlen \in Nat /\ left \in Nat /\ Waiting \in Nat /\ MaxBuf \in Nat /\ MaxList \in Nat
         /\ Len(list) \in Nat
<1>1. sentlen \in Nat /\ left \in Nat
  BY DEF TInv, TypeOK
<1>2. /\ bufpos \in Nat /\ bufpos <= MaxBuf /\ reply_bytes \in Nat /\ reply_bytes <= MaxList
      /\ Waiting \in Nat
  BY WaitingAndBounds DEF TInv
<1>3. MaxBuf \in Nat /\ MaxList \in Nat
  BY RedisSliAssumption DEF MaxBuf, MaxList
<1>4. Len(list) \in Nat
  BY StateSums DEF TInv, RInv
<1> QED
  BY <1>1, <1>2, <1>3, <1>4

\* Outside of a write the sums are what has left the stores.
LEMMA FlushedIs ==
  ASSUME conn \in Conns, pc # "write"
  PROVE  FlushedBuf = conn.rdBuf /\ FlushedList = conn.rdList
<1>1. conn.rdBuf \in Nat /\ conn.rdList \in Nat
  BY Fields
<1> QED
  BY <1>1 DEF FlushedBuf, FlushedList

\* readQueryFromClient starts the sums again when no command is sampled.
LEMMA ReadQueryWInv ==
  ASSUME WInv, ReadQuery
  PROVE  Shrinks' /\ Fresh' /\ Judged' /\ Awaited' /\ Unsent'
<1>1. /\ pc = "idle" /\ pc' = "idle" /\ UNCHANGED <<bufpos, list, sentlen, stash, where, left>>
  BY DEF ReadQuery
<1>2. ~stash /\ ~stash'
  BY <1>1 DEF WInv, TInv, TypeOK, Kept
<1>3. /\ conn' \in Conns
      /\ conn'.n = 1 => conn' = conn /\ conn # NULL
      /\ conn'.n = 0 => conn'.rdBuf = 0 /\ conn'.rdList = 0
  BY ReadQueryIs DEF WInv
<1>4. conn'.n \in {0, 1}
  BY <1>3, Fields
<1>5. Busy' => /\ Busy /\ conn'.cmd = conn.cmd
               /\ FlushedBuf' = FlushedBuf /\ FlushedList' = FlushedList
  BY <1>1, <1>3, <1>4 DEF Busy, FlushedBuf, FlushedList
<1>6. Awaited' /\ Unsent'
  BY <1>1, <1>2, <1>5, Unmoved DEF WInv
<1>7. Shrinks' /\ Fresh' /\ Judged'
  BY <1>1, <1>2, <1>3 DEF Shrinks, Fresh, Judged
<1> QED
  BY <1>6, <1>7

\* processCommand samples the command with the sums at 0, or leaves the sample alone.
LEMMA ProcessCommandWInv ==
  ASSUME WInv, ProcessCommand
  PROVE  Shrinks' /\ Fresh' /\ Judged' /\ Awaited' /\ Unsent'
<1>1. /\ pc = "idle" /\ pc' = "process" /\ UNCHANGED <<bufpos, list, sentlen>>
      /\ pending > 0 /\ pending' = pending - 1
  BY DEF ProcessCommand
<1>2. ~stash /\ pending \in Nat
  BY <1>1, RedisSliAssumption DEF WInv, TInv, TypeOK, Kept
<1>3. CASE conn = NULL \/ Busy
  <2>1. ~stash' /\ UNCHANGED <<conn, where, left>>
    BY <1>3 DEF ProcessCommand
  <2>2. Busy' => /\ Busy /\ conn'.cmd = conn.cmd
                 /\ FlushedBuf' = FlushedBuf /\ FlushedList' = FlushedList
    BY <1>1, <2>1 DEF Busy, FlushedBuf, FlushedList
  <2>3. Awaited' /\ Unsent'
    BY <1>1, <1>2, <2>1, <2>2, Unmoved DEF WInv
  <2>4. Shrinks' /\ Fresh' /\ Judged'
    BY <1>1, <1>2, <2>1 DEF WInv, Shrinks, Fresh, Judged
  <2> QED
    BY <2>3, <2>4
<1>4. CASE conn # NULL /\ ~Busy
  <2>1. /\ conn \in Conns /\ conn.n = 0 /\ conn' \in Conns /\ conn'.n = 1
        /\ conn'.curBuf = bufpos /\ conn'.curList = reply_bytes
        /\ conn'.rdBuf = conn.rdBuf /\ conn'.rdList = conn.rdList
        /\ stash' = TRUE /\ where' = {} /\ left' = 0
    BY <1>4, ProcessCommandIs DEF WInv
  <2>2. conn.rdBuf = 0 /\ conn.rdList = 0
    BY <1>1, <1>4, <2>1 DEF WInv, Fresh
  <2>3. reply_bytes' = reply_bytes
    BY <1>1 DEF reply_bytes, Sizes
  <2>4. bufpos \in Nat /\ reply_bytes \in Nat
    BY Numbers DEF WInv
  <2>5. Judged'
    BY <1>1, <2>1, <2>2, <2>3, <2>4 DEF Judged
  <2>6. Awaited' /\ Unsent'
    BY <2>1 DEF Awaited, Unsent
  <2>7. Shrinks' /\ Fresh'
    BY <1>1, <2>1 DEF Shrinks, Fresh
  <2> QED
    BY <2>5, <2>6, <2>7
<1> QED
  BY <1>3, <1>4

\* A part of a reply in the buffer, that of the command that runs or another one.
LEMMA ToBufferWInv ==
  ASSUME WInv, NEW k \in 1..MaxPart, AddToBuffer(k), Sampled({"buf"}),
         pc # "write", UNCHANGED <<pc, pending, conn, stash, left>>
  PROVE  Shrinks' /\ Fresh' /\ Judged' /\ Awaited' /\ Unsent'
<1>1. /\ pc # "write" /\ pc' # "write" /\ list = <<>> /\ bufpos' = bufpos + k
      /\ UNCHANGED <<pending, list, sentlen, conn, stash, left>>
      /\ where' = IF stash THEN where \union {"buf"} ELSE where
      /\ k \in Nat /\ k > 0
  BY RedisSliAssumption DEF AddToBuffer, Sampled
<1>2. reply_bytes' = reply_bytes /\ Sizes' = Sizes /\ Used' = Used
  BY <1>1 DEF reply_bytes, Sizes, Used
<1>3. bufpos \in Nat /\ reply_bytes \in Nat /\ sentlen \in Nat /\ left \in Nat
  BY Numbers DEF WInv
<1>4. Shrinks' /\ Fresh'
  BY <1>1 DEF WInv, Shrinks, Fresh
<1>5. Judged'
  <2> SUFFICES ASSUME stash PROVE Judged'
    BY <1>1 DEF Judged
  <2>1. conn \in Conns
    BY DEF WInv, TInv, Kept
  <2>2. conn.curBuf \in Nat
    BY <2>1, Fields
  <2>3. /\ conn.rdBuf = 0 /\ conn.rdList = 0 /\ conn.curBuf <= bufpos
        /\ conn.curList <= reply_bytes /\ ("list" \in where <=> conn.curList < reply_bytes)
    BY DEF WInv, Judged
  <2>4. where' = where \union {"buf"}
    BY <1>1
  <2>5. conn.curBuf <= bufpos' /\ conn.curBuf < bufpos'
    BY <1>1, <1>3, <2>2, <2>3
  <2>6. "buf" \in where' /\ ("list" \in where' <=> "list" \in where)
    BY <2>4
  <2> QED
    BY <1>1, <1>2, <2>3, <2>5, <2>6 DEF Judged
<1>6. ASSUME stash PROVE Awaited' /\ Unsent'
  BY <1>1, <1>6 DEF Awaited, Unsent
<1>7. ASSUME ~stash, Busy PROVE Awaited' /\ Unsent'
  <2>1. conn \in Conns
    BY <1>7 DEF WInv, TInv, TypeOK, Busy
  <2>2. /\ FlushedBuf = conn.rdBuf /\ FlushedList = conn.rdList
        /\ FlushedBuf' = conn.rdBuf /\ FlushedList' = conn.rdList
        /\ conn.rdBuf \in Nat /\ conn.rdList \in Nat /\ conn.cmd.wr \in Nat
    <3>1. FlushedBuf = conn.rdBuf /\ FlushedList = conn.rdList
      BY <1>1, <2>1, FlushedIs
    <3>2. conn.rdBuf \in Nat /\ conn.rdList \in Nat /\ conn.cmd.wr \in Nat
      BY <2>1, Fields
    <3>3. FlushedBuf' = conn.rdBuf + 0 /\ FlushedList' = conn.rdList + 0
      BY <1>1 DEF FlushedBuf, FlushedList
    <3> QED
      BY <3>1, <3>2, <3>3
  <2>3. conn.cmd.wr <= conn.rdBuf + bufpos => conn.cmd.wr <= conn.rdBuf + (bufpos + k)
    BY <1>1, <1>3, <2>2
  <2>4. Awaited'
    BY <1>1, <1>2, <1>7, <2>2, <2>3 DEF WInv, Awaited, Busy
  <2>5. where' = where /\ (Misjudged' <=> Misjudged)
    BY <1>1, <1>7 DEF Misjudged
  <2>6. ASSUME ~Misjudged, left > 0
        PROVE  ~conn.cmd.finished /\ InBuffer
    <3>1. 1..Len(list) = {}
      BY <1>1
    <3> QED
      BY <1>7, <2>6, <3>1 DEF WInv, Unsent
  <2>7. InBuffer => InBuffer'
    <3>1. left <= bufpos - sentlen => left <= (bufpos + k) - sentlen
      BY <1>1, <1>3
    <3> QED
      BY <1>1, <2>2, <3>1 DEF InBuffer
  <2>8. Unsent'
    BY <1>1, <2>5, <2>6, <2>7 DEF Unsent
  <2> QED
    BY <2>4, <2>8
<1>8. ASSUME ~Busy PROVE Awaited' /\ Unsent'
  BY <1>1, <1>8 DEF Awaited, Unsent, Busy
<1> QED
  BY <1>4, <1>5, <1>6, <1>7, <1>8

\* A part of a reply in the list.
LEMMA ToListWInv ==
  ASSUME WInv, NEW k \in 1..MaxPart, AddToList(k), Sampled(InList(k)),
         pc # "write", UNCHANGED <<pc, pending, conn, stash, left>>
  PROVE  Shrinks' /\ Fresh' /\ Judged' /\ Awaited' /\ Unsent'
<1>1. /\ pc # "write" /\ pc' # "write"
      /\ UNCHANGED <<pending, bufpos, sentlen, conn, stash, left>>
  BY DEF AddToList
<1>2. /\ list' \in Blocks /\ Len(list') >= Len(list) /\ list' # <<>>
      /\ \A n \in 0..Len(list) : Sizes'[n] = Sizes[n] /\ Used'[n] >= Used[n]
      /\ InList(k) \in SUBSET {"spare", "list"}
      /\ \/ list # <<>> /\ reply_bytes' = reply_bytes /\ InList(k) = {"spare"}
         \/ reply_bytes' > reply_bytes /\ "list" \in InList(k)
  BY ListGrows DEF WInv, TInv
<1>3. bufpos \in Nat /\ reply_bytes \in Nat /\ sentlen \in Nat /\ left \in Nat /\ Len(list) \in Nat
  BY Numbers DEF WInv
<1>4. Sizes' = SizesOf(list') /\ Used' = UsedOf(list') /\ reply_bytes' = Sizes'[Len(list')]
  BY DEF Sizes, Used, SizesOf, UsedOf, reply_bytes
<1>5. Len(list') \in Nat /\ Sizes' \in [0..Len(list') -> Nat] /\ Used' \in [0..Len(list') -> Nat]
  BY <1>2, <1>4, BlockSums, Columns
<1>6. PICK r \in Nat : r = reply_bytes' /\ r >= reply_bytes
  <2>1. reply_bytes' \in Nat
    BY <1>4, <1>5
  <2> QED
    BY <1>2, <1>3, <2>1
<1>7. Shrinks' /\ Fresh'
  BY <1>1 DEF WInv, Shrinks, Fresh
<1>8. Judged'
  <2> SUFFICES ASSUME stash PROVE Judged'
    BY <1>1 DEF Judged
  <2>1. conn \in Conns
    BY DEF WInv, TInv, Kept
  <2>2. conn.curBuf \in Nat /\ conn.curList \in Nat
    BY <2>1, Fields
  <2>3. /\ conn.rdBuf = 0 /\ conn.rdList = 0 /\ conn.curBuf <= bufpos
        /\ conn.curList <= reply_bytes /\ ("list" \in where <=> conn.curList < reply_bytes)
        /\ ("buf" \in where <=> conn.curBuf < bufpos)
        /\ "buf" \in where /\ "list" \notin where => list = <<>>
    BY DEF WInv, Judged
  <2>4. CASE list # <<>> /\ reply_bytes' = reply_bytes /\ InList(k) = {"spare"}
    <3>1. where' = where \union {"spare"}
      BY <2>4 DEF Sampled
    <3>2. ("buf" \in where' <=> "buf" \in where) /\ ("list" \in where' <=> "list" \in where)
      BY <3>1
    <3> QED
      BY <1>1, <2>3, <2>4, <3>2 DEF Judged
  <2>5. CASE reply_bytes' > reply_bytes /\ "list" \in InList(k)
    <3>1. where' = where \union InList(k)
      BY DEF Sampled
    <3>2. "list" \in where' /\ ("buf" \in where' <=> "buf" \in where)
      BY <1>2, <2>5, <3>1
    <3>3. conn.curList <= r /\ conn.curList < r
      BY <1>3, <1>6, <2>2, <2>3, <2>5
    <3> QED
      BY <1>1, <1>6, <2>3, <3>2, <3>3 DEF Judged
  <2> QED
    BY <1>2, <2>4, <2>5
<1>9. ASSUME stash PROVE Awaited' /\ Unsent'
  BY <1>1, <1>9 DEF Awaited, Unsent
<1>10. ASSUME ~Busy PROVE Awaited' /\ Unsent'
  BY <1>1, <1>10 DEF Awaited, Unsent, Busy
<1>11. ASSUME ~stash, Busy PROVE Awaited' /\ Unsent'
  <2>1. conn \in Conns
    BY <1>11 DEF WInv, TInv, TypeOK, Busy
  <2>2. conn.rdBuf \in Nat /\ conn.rdList \in Nat /\ conn.cmd.wr \in Nat
    BY <2>1, Fields
  <2>3. FlushedBuf = conn.rdBuf /\ FlushedList = conn.rdList
    BY <1>1, <2>1, FlushedIs
  <2>4. FlushedBuf' = conn.rdBuf /\ FlushedList' = conn.rdList
    <3>1. FlushedBuf' = conn.rdBuf + 0 /\ FlushedList' = conn.rdList + 0
      BY <1>1 DEF FlushedBuf, FlushedList
    <3> QED
      BY <2>2, <3>1
  <2>5. conn.cmd.wr <= conn.rdList + reply_bytes => conn.cmd.wr <= conn.rdList + r
    BY <1>3, <1>6, <2>2
  <2>6. Awaited'
    BY <1>1, <1>6, <1>11, <2>3, <2>4, <2>5 DEF WInv, Awaited, Busy
  <2>7. where' = where /\ (Misjudged' <=> Misjudged)
    BY <1>2, <1>11 DEF Misjudged, Sampled
  <2>8. ASSUME ~Misjudged, left > 0
        PROVE  /\ ~conn.cmd.finished
               /\ \/ InBuffer
                  \/ /\ conn.cmd.store = "DYNAMIC_LIST" /\ conn.cmd.wr <= MaxList
                     /\ \E j \in 1..Len(list) : InBlock(j)
    BY <1>11, <2>8 DEF WInv, Unsent
  <2>9. InBuffer => InBuffer'
    BY <1>1, <2>3, <2>4 DEF InBuffer
  <2>10. ASSUME NEW j \in 1..Len(list), InBlock(j)
         PROVE  j \in 1..Len(list') /\ InBlock(j)'
    <3>1. j \in 1..Len(list') /\ j \in 0..Len(list) /\ j \in 0..Len(list')
      BY <1>2, <1>3, <1>5
    <3>2. Sizes'[j] = Sizes[j] /\ Used'[j] >= Used[j] /\ Used'[j] \in Nat
      BY <1>2, <1>5, <3>1
    <3>3. Used[j] \in Nat
      BY <3>1, StateSums DEF WInv, TInv, RInv
    <3>4. PICK u \in Nat : u = Used'[j]
      BY <3>2
    <3>5. left <= bufpos + Used[j] - sentlen => left <= bufpos + u - sentlen
      BY SMTT(30), <1>3, <3>2, <3>3, <3>4
    <3> QED
      BY <1>1, <2>3, <2>4, <2>10, <3>1, <3>2, <3>4, <3>5 DEF InBlock
  <2>11. Unsent'
    <3> SUFFICES ASSUME ~Misjudged', left' > 0
                 PROVE  /\ ~conn'.cmd.finished
                        /\ \/ InBuffer'
                           \/ /\ conn'.cmd.store = "DYNAMIC_LIST" /\ conn'.cmd.wr <= MaxList
                              /\ \E j \in 1..Len(list') : InBlock(j)'
      BY DEF Unsent
    <3> QED
      BY <1>1, <2>7, <2>8, <2>9, <2>10
  <2> QED
    BY <2>6, <2>11
<1> QED
  BY <1>7, <1>8, <1>9, <1>10, <1>11

\* The return of the sampled command: its reply ends where the stores end.
LEMMA ProcessReturnWInv ==
  ASSUME WInv, ProcessReturn
  PROVE  Shrinks' /\ Fresh' /\ Judged' /\ Awaited' /\ Unsent'
<1>1. /\ pc = "process" /\ pc' = "idle" /\ ~stash'
      /\ UNCHANGED <<pending, bufpos, list, sentlen, last>>
      /\ where' = IF stash /\ blocked' THEN {"later"} ELSE where
  BY DEF ProcessReturn, Block
<1>2. /\ reply_bytes' = reply_bytes /\ Sizes' = Sizes /\ Used' = Used
      /\ ~Misjudged' => where' = where /\ ~Misjudged
  BY <1>1 DEF reply_bytes, Sizes, Used, Misjudged
<1>3. /\ bufpos \in Nat /\ reply_bytes \in Nat /\ sentlen \in Nat /\ left \in Nat /\ Len(list) \in Nat
      /\ bufpos <= MaxBuf /\ reply_bytes <= MaxList
  BY Numbers DEF WInv
<1>4. Shrinks' /\ Judged'
  BY <1>1 DEF Shrinks, Judged
<1>5. ASSUME ~stash PROVE Fresh' /\ Awaited' /\ Unsent'
  <2>1. UNCHANGED <<conn, left>>
    BY <1>5 DEF ProcessReturn
  <2>2. Busy' => /\ Busy /\ conn'.cmd = conn.cmd
                 /\ FlushedBuf' = FlushedBuf /\ FlushedList' = FlushedList
    BY <1>1, <2>1 DEF Busy, FlushedBuf, FlushedList
  <2>3. Awaited' /\ Unsent'
    BY <1>1, <1>5, <2>1, <2>2, Unmoved DEF WInv
  <2>4. Fresh'
    BY <1>1, <2>1 DEF WInv, Fresh
  <2> QED
    BY <2>3, <2>4
<1>6. ASSUME stash PROVE Fresh' /\ Awaited' /\ Unsent'
  <2>1. /\ conn \in Conns /\ conn.n = 1 /\ conn' \in Conns /\ conn'.n = 1
        /\ conn'.rdBuf = conn.rdBuf /\ conn'.rdList = conn.rdList
        /\ left' = IF where = {} THEN 0 ELSE Waiting
        /\ IF conn.curBuf < bufpos
           THEN conn'.cmd.store = "STATIC_BUFFER" /\ conn'.cmd.wr = bufpos
                /\ conn'.cmd.finished = conn.cmd.finished
           ELSE IF conn.curList < reply_bytes
           THEN conn'.cmd.store = "DYNAMIC_LIST" /\ conn'.cmd.wr = reply_bytes
                /\ conn'.cmd.finished = conn.cmd.finished
           ELSE conn'.cmd.finished = TRUE
    BY <1>6, ProcessReturnIs DEF WInv
  <2>2. /\ conn.rdBuf = 0 /\ conn.rdList = 0
        /\ conn.curBuf <= bufpos /\ ("buf" \in where <=> conn.curBuf < bufpos)
        /\ conn.curList <= reply_bytes /\ ("list" \in where <=> conn.curList < reply_bytes)
        /\ "buf" \in where /\ "list" \notin where => list = <<>>
    BY <1>6 DEF WInv, Judged
  <2>3. FlushedBuf' = 0 /\ FlushedList' = 0
    <3>1. FlushedBuf' = 0 + 0 /\ FlushedList' = 0 + 0
      BY <1>1, <2>1, <2>2 DEF FlushedBuf, FlushedList
    <3> QED
      BY <3>1
  <2>4. Fresh'
    BY <1>1, <2>1 DEF Fresh
  <2>5. Awaited'
    <3>1. bufpos <= 0 + bufpos /\ reply_bytes <= 0 + reply_bytes
      BY <1>3
    <3> QED
      BY <1>1, <1>2, <1>3, <2>1, <2>3, <3>1 DEF Awaited
  <2>6. Unsent'
    <3> SUFFICES ASSUME ~Misjudged', left' > 0
                 PROVE  /\ ~conn'.cmd.finished
                        /\ \/ InBuffer'
                           \/ /\ conn'.cmd.store = "DYNAMIC_LIST" /\ conn'.cmd.wr <= MaxList
                              /\ \E j \in 1..Len(list') : InBlock(j)'
      BY DEF Unsent
    <3>1. left' = Waiting /\ where # {} /\ Waiting > 0
      BY <2>1
    <3>2. where \subseteq {"buf", "list", "spare", "later"}
      BY DEF WInv, TInv, TypeOK
    <3>3. ~conn.cmd.finished
      BY <1>6 DEF WInv, Open
    <3>4. CASE "buf" \in where
      <4>1. "list" \notin where /\ list = <<>>
        BY <1>2, <2>2, <3>4 DEF Misjudged
      <4>2. Used[Len(list)] = 0
        BY <4>1, StateSums DEF WInv, TInv, RInv
      <4>3. Waiting = bufpos - sentlen
        BY <1>3, <4>2 DEF Waiting
      <4>4. conn.curBuf \in Nat
        BY <2>1, Fields
      <4>5. bufpos > 0 /\ bufpos - sentlen <= bufpos - sentlen
        BY <1>3, <2>2, <3>4, <4>4
      <4>6. InBuffer'
        BY <1>1, <2>1, <2>2, <2>3, <3>1, <3>4, <4>3, <4>5 DEF InBuffer
      <4> QED
        BY <2>1, <2>2, <3>3, <3>4, <4>6
    <3>5. CASE "buf" \notin where
      <4>1. "list" \in where
        BY <1>2, <3>1, <3>2, <3>5 DEF Misjudged
      <4>2. /\ conn'.cmd.store = "DYNAMIC_LIST" /\ conn'.cmd.wr = reply_bytes
            /\ ~conn'.cmd.finished
        BY <2>1, <2>2, <3>3, <3>5, <4>1
      <4>3. list # <<>>
        <5>1. conn.curList \in Nat
          BY <2>1, Fields
        <5>2. reply_bytes # 0
          BY <1>3, <2>2, <4>1, <5>1
        <5> QED
          BY <5>2, WaitingAndBounds DEF WInv, TInv
      <4>4. Len(list) \in 1..Len(list)
        <5>1. Len(list) # 0
          BY <4>3, StateSums DEF WInv, TInv, RInv
        <5> QED
          BY <1>3, <5>1
      <4>5. /\ Sizes[Len(list)] = reply_bytes /\ 0 + reply_bytes = reply_bytes
            /\ Waiting = bufpos + Used[Len(list)] - sentlen
        BY <1>3 DEF reply_bytes, Waiting
      <4>6. Waiting <= Waiting
        BY Numbers DEF WInv
      <4>7. InBlock(Len(list))'
        BY <1>1, <1>2, <2>3, <3>1, <4>2, <4>5, <4>6 DEF InBlock
      <4> QED
        BY <1>1, <1>3, <4>2, <4>4, <4>7
    <3> QED
      BY <3>4, <3>5
  <2> QED
    BY <2>4, <2>5, <2>6
<1> QED
  BY <1>4, <1>5, <1>6

\* The entry of writeToClient notes the sizes.
LEMMA WriteToClientWInv ==
  ASSUME WInv, WriteToClient, ~Unblocks
  PROVE  Shrinks' /\ Fresh' /\ Judged' /\ Awaited' /\ Unsent'
<1>1. /\ pc = "idle" /\ pc' = "write" /\ pending = 0
      /\ UNCHANGED <<pending, bufpos, list, sentlen, stash, last, where, left>>
      /\ conn = NULL => conn' = NULL
  BY DEF WriteToClient
<1>2. ~stash /\ ~stash'
  BY <1>1 DEF WInv, TInv, Kept
<1>3. reply_bytes' = reply_bytes
  BY <1>1 DEF reply_bytes, Sizes
<1>4. bufpos \in Nat /\ reply_bytes \in Nat
  BY Numbers DEF WInv
<1>5. conn # NULL =>
        /\ conn \in Conns /\ conn' \in Conns /\ conn'.n = conn.n
        /\ conn'.curBuf = bufpos /\ conn'.curList = reply_bytes
        /\ conn'.rdBuf = conn.rdBuf /\ conn'.rdList = conn.rdList /\ conn'.cmd = conn.cmd
  BY WriteToClientIs DEF WInv
<1>6. Shrinks'
  <2>1. bufpos <= bufpos /\ reply_bytes <= reply_bytes
    BY <1>4
  <2> QED
    BY <1>1, <1>3, <1>5, <2>1 DEF Shrinks
<1>7. Fresh'
  BY <1>1 DEF Fresh
<1>8. Judged'
  BY <1>2 DEF Judged
<1>9. conn # NULL => FlushedBuf' = FlushedBuf /\ FlushedList' = FlushedList
  <2> SUFFICES ASSUME conn # NULL PROVE FlushedBuf' = FlushedBuf /\ FlushedList' = FlushedList
    OBVIOUS
  <2>1. conn.rdBuf \in Nat /\ conn.rdList \in Nat
    BY <1>5, Fields
  <2>2. FlushedBuf' = conn.rdBuf + (bufpos - bufpos) /\ FlushedList' = conn.rdList + (reply_bytes - reply_bytes)
    BY <1>1, <1>3, <1>5 DEF FlushedBuf, FlushedList
  <2>3. FlushedBuf = conn.rdBuf /\ FlushedList = conn.rdList
    BY <1>1, <1>5, FlushedIs
  <2> QED
    BY <1>4, <2>1, <2>2, <2>3
<1>10. Busy' => /\ Busy /\ conn'.cmd = conn.cmd
                /\ FlushedBuf' = FlushedBuf /\ FlushedList' = FlushedList
  BY <1>1, <1>5, <1>9 DEF Busy
<1>11. Awaited' /\ Unsent'
  BY <1>1, <1>2, <1>10, Unmoved DEF WInv
<1> QED
  BY <1>6, <1>7, <1>8, <1>11

\* The socket takes a unit.
LEMMA SendWInv ==
  ASSUME WInv, Send
  PROVE  Shrinks' /\ Fresh' /\ Judged' /\ Awaited' /\ Unsent'
<1>1. /\ pc = "write" /\ pc' = "write" /\ UNCHANGED <<pending, conn, stash, last, where>>
      /\ left' = IF left > 0 THEN left - 1 ELSE 0
  BY DEF Send
<1>2. ~stash /\ ~stash'
  BY <1>1 DEF WInv, TInv, Kept
<1>3. /\ bufpos \in Nat /\ reply_bytes \in Nat /\ sentlen \in Nat /\ left \in Nat /\ Len(list) \in Nat
  BY Numbers DEF WInv
<1>4. /\ RInv' /\ bufpos' <= bufpos /\ reply_bytes' <= reply_bytes
      /\ list' # list =>
           /\ reply_bytes' = reply_bytes - list[1].size /\ Len(list') = Len(list) - 1
           /\ \A n \in 1..Len(list) : /\ Sizes'[n - 1] = Sizes[n] - list[1].size
                                      /\ Used'[n - 1] = Used[n] - list[1].used
  BY SendShrinks DEF WInv, TInv
<1>5. PICK b \in Nat, r \in Nat : b = bufpos' /\ r = reply_bytes'
  <2>1. bufpos' \in 0..BufSize /\ list' \in Blocks
    BY <1>4 DEF RInv, Stores
  <2>2. reply_bytes' = SizesOf(list')[Len(list')]
    BY DEF reply_bytes, Sizes, SizesOf
  <2>3. reply_bytes' \in Nat
    BY <2>1, <2>2, BlockSums, Columns
  <2>4. bufpos' \in Nat
    BY <2>1, RedisSliAssumption
  <2> QED
    BY <2>3, <2>4
<1>6. Fresh' /\ Judged'
  BY <1>1, <1>2 DEF WInv, Fresh, Judged
<1>7. ASSUME conn = NULL PROVE Shrinks' /\ Awaited' /\ Unsent'
  BY <1>1, <1>7 DEF Shrinks, Awaited, Unsent, Busy
<1>8. ASSUME conn # NULL PROVE Shrinks' /\ Awaited' /\ Unsent'
  <2>1. conn \in Conns
    BY <1>8 DEF WInv, TInv, TypeOK
  <2>2. /\ conn.rdBuf \in Nat /\ conn.rdList \in Nat /\ conn.cmd.wr \in Nat
        /\ conn.curBuf \in Nat /\ conn.curList \in Nat
    BY <2>1, Fields
  <2>3. bufpos <= conn.curBuf /\ reply_bytes <= conn.curList
    BY <1>1, <1>8 DEF WInv, Shrinks
  <2>4. Shrinks'
    <3>1. b <= conn.curBuf /\ r <= conn.curList
      BY <1>3, <1>4, <1>5, <2>2, <2>3
    <3> QED
      BY <1>1, <1>5, <3>1 DEF Shrinks
  <2>5. /\ FlushedBuf = conn.rdBuf + (conn.curBuf - bufpos)
        /\ FlushedList = conn.rdList + (conn.curList - reply_bytes)
        /\ FlushedBuf' = conn.rdBuf + (conn.curBuf - b)
        /\ FlushedList' = conn.rdList + (conn.curList - r)
    BY <1>1, <1>5 DEF FlushedBuf, FlushedList
  <2>6. /\ FlushedBuf \in Nat /\ FlushedList \in Nat
        /\ FlushedBuf' + b = FlushedBuf + bufpos
        /\ FlushedList' + r = FlushedList + reply_bytes
    <3>1. PICK a \in Nat, c \in Nat, x \in Nat : a = conn.rdBuf /\ c = conn.curBuf /\ x = bufpos
      BY <1>3, <2>2
    <3>2. PICK d \in Nat, e \in Nat, y \in Nat :
            d = conn.rdList /\ e = conn.curList /\ y = reply_bytes
      BY <1>3, <2>2
    <3>3. x <= c /\ y <= e
      BY <2>3, <3>1, <3>2
    <3>4. /\ a + (c - x) \in Nat /\ (a + (c - b)) + b = (a + (c - x)) + x
          /\ d + (e - y) \in Nat /\ (d + (e - r)) + r = (d + (e - y)) + y
      BY <3>3
    <3> QED
      BY <2>5, <3>1, <3>2, <3>4
  <2>7. Awaited'
    BY <1>1, <1>5, <2>6 DEF WInv, Awaited, Busy
  <2>8. Unsent'
    <3>0. SUFFICES ASSUME Busy', ~Misjudged', left' > 0
                 PROVE  /\ ~conn'.cmd.finished
                        /\ \/ InBuffer'
                           \/ /\ conn'.cmd.store = "DYNAMIC_LIST" /\ conn'.cmd.wr <= MaxList
                              /\ \E j \in 1..Len(list') : InBlock(j)'
      BY DEF Unsent
    <3>1. PICK m \in Nat : m = left' /\ m > 0 /\ left = m + 1
      BY <1>1, <1>3, <3>0
    <3>6. left = m + 1 /\ m > 0
      BY <3>1
    <3>2. /\ ~conn.cmd.finished
          /\ \/ InBuffer
             \/ /\ conn.cmd.store = "DYNAMIC_LIST" /\ conn.cmd.wr <= MaxList
                /\ \E j \in 1..Len(list) : InBlock(j)
      BY <1>1, <1>2, <1>3, <3>0, <3>6 DEF WInv, Unsent, Busy, Misjudged
    <3>3. \/ /\ sentlen' = sentlen + 1 /\ UNCHANGED <<bufpos, list>>
          \/ /\ bufpos > 0 /\ sentlen + 1 = bufpos
             /\ bufpos' = 0 /\ sentlen' = 0 /\ list' = list
          \/ /\ bufpos = 0 /\ list # <<>> /\ sentlen + 1 = list[1].used
             /\ bufpos' = 0 /\ sentlen' = 0 /\ list' = Tail(list)
      BY SendTakes DEF WInv, TInv
    <3>4. ASSUME InBuffer PROVE InBuffer'
      <4>1. /\ conn.cmd.store = "STATIC_BUFFER" /\ conn.cmd.wr > 0
            /\ FlushedBuf = 0 /\ left <= bufpos - sentlen
        BY <3>4 DEF InBuffer
      <4>2. sentlen' = sentlen + 1 /\ bufpos' = bufpos
        <5>1. bufpos - sentlen >= 2
          BY <1>3, <3>6, <4>1
        <5>2. sentlen + 1 # bufpos /\ bufpos # 0
          BY <1>3, <5>1
        <5> QED
          BY <3>3, <5>2
      <4>3. m <= bufpos - (sentlen + 1)
        BY <1>3, <3>6, <4>1
      <4>4. FlushedBuf' = 0
        BY <1>3, <1>5, <2>5, <2>6, <4>1, <4>2
      <4> QED
        BY <1>1, <3>1, <4>1, <4>2, <4>3, <4>4 DEF InBuffer
    <3>5. ASSUME NEW j \in 1..Len(list), InBlock(j)
          PROVE  \E i \in 1..Len(list') : InBlock(i)'
      <4>1. FlushedList + Sizes[j] = conn.cmd.wr /\ left <= bufpos + Used[j] - sentlen
        BY <3>5 DEF InBlock
      <4>2. j \in 0..Len(list) /\ Sizes[j] \in Nat /\ Used[j] \in Nat
        <5>1. j \in 0..Len(list)
          BY <1>3
        <5> QED
          BY <5>1, StateSums DEF WInv, TInv, RInv
      <4>3. CASE list' = list
        <5>1. Sizes' = Sizes /\ Used' = Used /\ r = reply_bytes
          BY <1>5, <4>3 DEF Sizes, Used, reply_bytes
        <5>2. PICK s \in Nat : s = sentlen' /\ m <= b + Used[j] - s
          <6>1. ASSUME sentlen' = sentlen + 1, bufpos' = bufpos
                PROVE  \E s \in Nat : s = sentlen' /\ m <= b + Used[j] - s
            BY SMTT(30), <1>3, <1>5, <3>1, <4>1, <4>2, <6>1
          <6>2. ASSUME bufpos > 0, sentlen + 1 = bufpos, bufpos' = 0, sentlen' = 0
                PROVE  \E s \in Nat : s = sentlen' /\ m <= b + Used[j] - s
            BY SMTT(30), <1>3, <1>5, <3>1, <4>1, <4>2, <6>2
          <6>3. ASSUME bufpos = 0, list # <<>>, sentlen + 1 = list[1].used, list' = Tail(list)
                PROVE  FALSE
            <7>1. list \in Blocks /\ Len(list') = Len(list) - 1
              BY <6>3, BlockFreed DEF WInv, TInv, RInv, Stores
            <7> QED
              BY <1>3, <4>3, <7>1
          <6> QED
            BY <3>3, <6>1, <6>2, <6>3
        <5>3. FlushedList' = FlushedList
          BY <2>5, <5>1
        <5> QED
          BY <1>1, <1>5, <3>1, <4>1, <4>3, <5>1, <5>2, <5>3 DEF InBlock
      <4>4. CASE list' # list
        <5>1. /\ reply_bytes' = reply_bytes - list[1].size /\ Len(list') = Len(list) - 1
              /\ Sizes'[j - 1] = Sizes[j] - list[1].size
              /\ Used'[j - 1] = Used[j] - list[1].used
          BY <1>4, <4>4
        <5>2. /\ bufpos = 0 /\ sentlen + 1 = list[1].used /\ bufpos' = 0 /\ sentlen' = 0
          BY <3>3, <4>4
        <5>3. list[1].size \in Nat /\ list[1].used \in Nat
          <6>1. 1 \in 1..Len(list)
            BY <1>3
          <6> QED
            BY <6>1, StateSums DEF WInv, TInv, RInv
        <5>4. FlushedList' + (Sizes[j] - list[1].size) = conn.cmd.wr
          <6>1. r = reply_bytes - list[1].size
            BY <1>5, <5>1
          <6>2. (conn.rdList + (conn.curList - reply_bytes)) + Sizes[j] = conn.cmd.wr
            BY <2>5, <4>1
          <6>3. (conn.rdList + (conn.curList - r)) + (Sizes[j] - list[1].size) = conn.cmd.wr
            <7>1. PICK a \in Nat, c \in Nat, x \in Nat, z \in Nat, w \in Nat, s \in Nat :
                    /\ a = conn.rdList /\ c = conn.curList /\ x = reply_bytes
                    /\ z = list[1].size /\ w = conn.cmd.wr /\ s = Sizes[j]
              BY <1>3, <2>2, <4>2, <5>3
            <7>2. r = x - z /\ (a + (c - x)) + s = w
              BY <6>1, <6>2, <7>1
            <7>3. (a + (c - r)) + (s - z) = w
              BY <7>2
            <7> QED
              BY <7>1, <7>3
          <6> QED
            BY <2>5, <6>3
        <5>5. m <= 0 + (Used[j] - list[1].used) - 0
          BY <1>3, <3>1, <4>1, <4>2, <5>2, <5>3
        <5>6. j - 1 \in 1..Len(list')
          <6>1. j # 1
            <7> SUFFICES ASSUME j = 1 PROVE FALSE
              OBVIOUS
            <7>1. Used[1] = list[1].used
              <8>1. /\ list \in Blocks /\ Used = UsedOf(list) /\ 1 \in 1..Len(list)
                BY <1>3, StateSums DEF WInv, TInv, RInv, Stores
              <8>2. /\ UsedOf(list)[1] = UsedOf(list)[1 - 1] + list[1].used /\ UsedOf(list)[0] = 0
                BY <8>1, BlockSums
              <8> QED
                BY <5>3, <8>1, <8>2
            <7> QED
              BY <3>1, <5>3, <5>5, <7>1
          <6> QED
            BY <1>3, <5>1, <6>1
        <5>7. InBlock(j - 1)'
          BY <1>1, <3>1, <5>1, <5>2, <5>4, <5>5 DEF InBlock
        <5> QED
          BY <5>6, <5>7
      <4> QED
        BY <4>3, <4>4
    <3> QED
      BY <1>1, <3>2, <3>4, <3>5
  <2> QED
    BY <2>4, <2>7, <2>8
<1> QED
  BY <1>6, <1>7, <1>8

\* The return of writeToClient adds what was written to the sums.
LEMMA WriteReturnWInv ==
  ASSUME WInv, WriteReturn
  PROVE  Shrinks' /\ Fresh' /\ Judged' /\ Awaited' /\ Unsent'
<1>1. /\ pc = "write" /\ pc' = "idle" /\ UNCHANGED <<pending, bufpos, list, sentlen, stash, last>>
      /\ Busy' => UNCHANGED <<where, left>>
      /\ conn = NULL => conn' = NULL
  BY DEF WriteReturn
<1>2. ~stash /\ ~stash'
  BY <1>1 DEF WInv, TInv, Kept
<1>3. pending = 0
  BY <1>1 DEF WInv, Fresh
<1>4. Shrinks' /\ Fresh' /\ Judged'
  BY <1>1, <1>2, <1>3 DEF Shrinks, Fresh, Judged
<1>5. /\ Sizes' = Sizes /\ Used' = Used /\ reply_bytes' = reply_bytes
  BY <1>1 DEF Sizes, Used, reply_bytes
<1>6. ASSUME ~Busy' PROVE Awaited' /\ Unsent'
  BY <1>6 DEF Awaited, Unsent
<1>7. ASSUME Busy' PROVE Awaited' /\ Unsent'
  <2>1. conn # NULL
    BY <1>1, <1>7 DEF Busy
  <2>2. conn \in Conns
    BY <2>1 DEF WInv, TInv, TypeOK
  <2>3. conn' \in Conns
    BY <2>1, WriteReturnIs DEF WInv
  <2>4. conn'.n = 1
    <3>1. conn'.n \in {0, 1}
      BY <2>3, Fields
    <3> QED
      BY <1>7, <3>1 DEF Busy
  <2>5. /\ conn.n = 1 /\ conn'.rdBuf = Counted.rdBuf /\ conn'.rdList = Counted.rdList
        /\ conn'.cmd.store = conn.cmd.store /\ conn'.cmd.wr = conn.cmd.wr
        /\ conn'.cmd.finished = (conn.cmd.finished \/ Written(Counted))
    BY <2>1, <2>4, WriteReturnIs DEF WInv
  <2>6. /\ Counted \in Conns /\ Counted.cmd = conn.cmd
        /\ Counted.rdBuf = IF bufpos < conn.curBuf
                           THEN Capped(conn.rdBuf + conn.curBuf - bufpos, MaxBuf) ELSE conn.rdBuf
        /\ Counted.rdList = IF reply_bytes < conn.curList
                            THEN Capped(conn.rdList + conn.curList - reply_bytes, MaxList)
                            ELSE conn.rdList
    BY <2>2, CountedIs DEF WInv, TInv
  <2>7. /\ bufpos \in Nat /\ reply_bytes \in Nat /\ sentlen \in Nat /\ left \in Nat
        /\ Len(list) \in Nat /\ MaxBuf \in Nat /\ MaxList \in Nat
    BY Numbers DEF WInv
  <2>8. /\ conn.rdBuf \in Nat /\ conn.rdList \in Nat /\ conn.cmd.wr \in Nat
        /\ conn.curBuf \in Nat /\ conn.curList \in Nat
    BY <2>2, Fields
  <2>9. bufpos <= conn.curBuf /\ reply_bytes <= conn.curList
    BY <1>1, <2>1 DEF WInv, Shrinks
  <2>10. PICK f \in Nat, g \in Nat, x \in Nat, y \in Nat :
           /\ f = FlushedBuf /\ g = FlushedList
           /\ x = Counted.rdBuf /\ y = Counted.rdList
           /\ x = Capped(f, MaxBuf) \/ x = f
           /\ y = Capped(g, MaxList) \/ y = g
    <3>1. PICK a \in Nat, c \in Nat, p \in Nat : a = conn.rdBuf /\ c = conn.curBuf /\ p = bufpos
      BY <2>7, <2>8
    <3>2. PICK d \in Nat, e \in Nat, q \in Nat :
            d = conn.rdList /\ e = conn.curList /\ q = reply_bytes
      BY <2>7, <2>8
    <3>3. p <= c /\ q <= e
      BY <2>9, <3>1, <3>2
    <3>4. /\ FlushedBuf = a + (c - p) /\ FlushedList = d + (e - q)
      BY <1>1, <3>1, <3>2 DEF FlushedBuf, FlushedList
    <3>5. /\ Counted.rdBuf = IF p < c THEN Capped(a + c - p, MaxBuf) ELSE a
          /\ Counted.rdList = IF q < e THEN Capped(d + e - q, MaxList) ELSE d
      BY <2>6, <3>1, <3>2
    <3>6. /\ a + (c - p) \in Nat /\ d + (e - q) \in Nat
          /\ ~(p < c) => a = a + (c - p)
          /\ ~(q < e) => d = d + (e - q)
      BY <3>3
    <3>7. Counted.rdBuf \in Nat /\ Counted.rdList \in Nat
      BY <2>6, Fields
    <3> QED
      BY <3>4, <3>5, <3>6, <3>7
  <2>11. FlushedBuf' = x /\ FlushedList' = y
    <3>1. FlushedBuf' = x + 0 /\ FlushedList' = y + 0
      BY <1>1, <2>5, <2>10 DEF FlushedBuf, FlushedList
    <3> QED
      BY <3>1
  <2>12. Busy
    BY <2>1, <2>5 DEF Busy
  <2>13. PICK w \in Nat, bp \in Nat, rp \in Nat, B \in Nat, L \in Nat :
            /\ w = conn.cmd.wr /\ bp = bufpos /\ rp = reply_bytes /\ B = MaxBuf /\ L = MaxList
    BY <2>7, <2>8
  <2>14. /\ w <= B /\ w <= f + bp => w <= x + bp
         /\ w <= L /\ w <= g + rp => w <= y + rp
    <3>1. (x = f \/ (f > B /\ x = B)) /\ (y = g \/ (g > L /\ y = L))
      BY <2>10, <2>13 DEF Capped
    <3> QED
      BY <3>1
  <2>15. Awaited'
    BY <1>1, <1>2, <1>5, <2>5, <2>10, <2>11, <2>12, <2>13, <2>14 DEF WInv, Awaited
  <2>16. Unsent'
    <3>0. SUFFICES ASSUME ~Misjudged', left' > 0
                   PROVE  /\ ~conn'.cmd.finished
                          /\ \/ InBuffer'
                             \/ /\ conn'.cmd.store = "DYNAMIC_LIST" /\ conn'.cmd.wr <= MaxList
                                /\ \E j \in 1..Len(list') : InBlock(j)'
      BY DEF Unsent
    <3>1. left' = left /\ left > 0 /\ ~Misjudged
      BY <1>1, <1>7, <3>0 DEF Misjudged
    <3>2. /\ ~conn.cmd.finished
          /\ \/ InBuffer
             \/ /\ conn.cmd.store = "DYNAMIC_LIST" /\ conn.cmd.wr <= MaxList
                /\ \E j \in 1..Len(list) : InBlock(j)
      BY <1>2, <2>12, <3>1 DEF WInv, Unsent
    <3>3. CASE InBuffer
      <4>1. /\ conn.cmd.store = "STATIC_BUFFER" /\ w > 0 /\ f = 0 /\ left <= bufpos - sentlen
        BY <2>10, <2>13, <3>3 DEF InBuffer
      <4>2. x = 0
        BY <2>7, <2>10, <4>1 DEF Capped
      <4>3. ~Written(Counted)
        <5>1. ~(w <= x)
          BY <4>1, <4>2
        <5>2. Counted.cmd.store # "DYNAMIC_LIST" /\ Counted.cmd.wr = w /\ Counted.rdBuf = x
          BY <2>6, <2>10, <2>13, <4>1
        <5> QED
          BY <5>1, <5>2 DEF Written
      <4>4. InBuffer'
        BY <1>1, <1>7, <2>5, <2>11, <2>13, <3>1, <4>1, <4>2 DEF InBuffer
      <4> QED
        BY <2>5, <3>2, <4>3, <4>4
    <3>4. ASSUME conn.cmd.store = "DYNAMIC_LIST", conn.cmd.wr <= MaxList,
                 NEW j \in 1..Len(list), InBlock(j)
          PROVE  ~conn'.cmd.finished /\ InBlock(j)'
      <4>1. j \in 0..Len(list) /\ Sizes[j] \in Nat /\ Sizes[j] > 0
        <5>1. j \in 0..Len(list) /\ 1 \in 1..Len(list)
          BY <2>7
        <5>2. Sizes[j] \in Nat /\ Sizes[j] >= list[1].size /\ list[1].size \in Nat /\ list[1].used \in Nat
          BY <5>1, StateSums DEF WInv, TInv, RInv
        <5>3. 0 < list[1].used /\ list[1].used <= list[1].size
          BY <5>1 DEF WInv, TInv, RInv, Filled
        <5> QED
          BY <5>1, <5>2, <5>3
      <4>2. PICK s \in Nat : s = Sizes[j] /\ s > 0
        BY <4>1
      <4>3. g + s = w /\ w <= L
        BY <2>10, <2>13, <3>4, <4>2 DEF InBlock
      <4>4. y = g /\ ~(w <= y)
        <5>1. y = g \/ (g > L /\ y = L)
          BY <2>10, <2>13 DEF Capped
        <5> QED
          BY <4>2, <4>3, <5>1
      <4>5. ~Written(Counted)
        <5>1. Counted.cmd.store # "STATIC_BUFFER" /\ Counted.cmd.wr = w /\ Counted.rdList = y
          BY <2>6, <2>10, <2>13, <3>4
        <5> QED
          BY <4>4, <5>1 DEF Written
      <4>6. InBlock(j)'
        <5>1. FlushedList' = FlushedList
          BY <2>10, <2>11, <4>4
        <5> QED
          BY <1>1, <1>5, <2>5, <3>1, <3>4, <5>1 DEF InBlock
      <4> QED
        BY <2>5, <3>2, <4>5, <4>6
    <3> QED
      BY <1>1, <2>5, <3>2, <3>3, <3>4
  <2> QED
    BY <2>15, <2>16
<1> QED
  BY <1>4, <1>6, <1>7

\* The mark of a finished command is set in processCommand's return and in
\* writeToClient's return only.
LEMMA NextMarks ==
  ASSUME WInv, [Next]_vars
  PROVE  Open' /\ Unwritten'
<1>1. ASSUME UNCHANGED <<conn, stash>>, pc' # "write" => pc # "write" PROVE Open' /\ Unwritten'
  BY <1>1 DEF WInv, Open, Unwritten, Busy, Written
<1>2. CASE ReadQuery
  <2>1. pc = "idle" /\ pc' = "idle" /\ stash' = stash /\ ~stash
    BY <1>2 DEF ReadQuery, WInv, TInv, Kept
  <2>2. conn' \in Conns /\ (conn'.n = 1 => conn' = conn /\ conn # NULL)
    BY <1>2, ReadQueryIs DEF WInv
  <2>3. conn'.n \in {0, 1}
    BY <2>2, Fields
  <2>4. Busy' => Busy /\ conn' = conn
    BY <2>2, <2>3 DEF Busy
  <2> QED
    BY <2>1, <2>4 DEF WInv, Open, Unwritten, Written
<1>3. CASE ReadQueryUnknown
  BY <1>1, <1>3 DEF ReadQueryUnknown
<1>4. CASE ProcessCommand
  <2>1. pc = "idle" /\ pc' = "process" /\ ~stash
    BY <1>4 DEF ProcessCommand, WInv, TInv, Kept
  <2>2. CASE conn = NULL \/ Busy
    <3>1. ~stash' /\ conn' = conn
      BY <1>4, <2>2 DEF ProcessCommand
    <3> QED
      BY <2>1, <3>1 DEF WInv, Open, Unwritten, Busy, Written
  <2>3. CASE conn # NULL /\ ~Busy
    <3>1. stash' = TRUE /\ conn'.cmd.finished = FALSE
      BY <1>4, <2>3, ProcessCommandIs DEF WInv
    <3> QED
      BY <3>1 DEF Open, Unwritten
  <2> QED
    BY <2>2, <2>3
<1>5. ASSUME NEW k \in 1..MaxPart, ReplyToBuffer(k) \/ ReplyToList(k) \/ ReplyLater(k)
      PROVE  Open' /\ Unwritten'
  BY <1>1, <1>5 DEF ReplyToBuffer, ReplyToList, ReplyLater
<1>6. CASE ProcessReturn
  <2>1. pc = "process" /\ pc' = "idle" /\ ~stash'
    BY <1>6 DEF ProcessReturn
  <2>2. CASE ~stash
    <3>1. conn' = conn
      BY <1>6, <2>2 DEF ProcessReturn
    <3> QED
      BY <2>1, <2>2, <3>1 DEF WInv, Open, Unwritten, Busy, Written
  <2>3. CASE stash
    <3>1. /\ conn \in Conns /\ conn'.rdBuf = conn.rdBuf /\ conn'.rdList = conn.rdList
          /\ IF conn.curBuf < bufpos
             THEN conn'.cmd.store = "STATIC_BUFFER" /\ conn'.cmd.wr = bufpos
                  /\ conn'.cmd.finished = conn.cmd.finished
             ELSE IF conn.curList < reply_bytes
             THEN conn'.cmd.store = "DYNAMIC_LIST" /\ conn'.cmd.wr = reply_bytes
                  /\ conn'.cmd.finished = conn.cmd.finished
             ELSE conn'.cmd.finished = TRUE
      BY <1>6, <2>3, ProcessReturnIs DEF WInv
    <3>2. conn.rdBuf = 0 /\ conn.rdList = 0
      BY <2>3 DEF WInv, Judged
    <3>3. conn.curBuf \in Nat /\ conn.curList \in Nat
      BY <3>1, Fields
    <3>4. bufpos \in Nat /\ reply_bytes \in Nat
      BY Numbers DEF WInv
    <3>5. (conn.curBuf < bufpos => ~(bufpos <= 0)) /\ (conn.curList < reply_bytes => ~(reply_bytes <= 0))
      BY <3>3, <3>4
    <3>6. conn'.cmd.finished \/ ~Written(conn')
      BY <3>1, <3>2, <3>5 DEF Written
    <3>7. Unwritten'
      BY <3>6 DEF Unwritten, Written
    <3> QED
      BY <2>1, <3>7 DEF Open
  <2> QED
    BY <2>2, <2>3
<1>7. CASE WriteToClient
  BY <1>7 DEF WriteToClient, WInv, TInv, Kept, Open, Unwritten
<1>8. CASE Send
  BY <1>1, <1>8 DEF Send
<1>9. CASE WriteReturn
  <2>1. pc = "write" /\ pc' = "idle" /\ stash' = stash /\ ~stash
    BY <1>9 DEF WriteReturn, WInv, TInv, Kept
  <2>2. CASE conn = NULL
    BY <1>9, <2>1, <2>2 DEF WriteReturn, Open, Unwritten, Busy
  <2>3. CASE conn # NULL
    <3>1. /\ conn' \in Conns
          /\ conn'.n = 1 =>
               /\ conn'.rdBuf = Counted.rdBuf /\ conn'.rdList = Counted.rdList
               /\ conn'.cmd.store = conn.cmd.store /\ conn'.cmd.wr = conn.cmd.wr
               /\ conn'.cmd.finished = (conn.cmd.finished \/ Written(Counted))
      BY <1>9, <2>3, WriteReturnIs DEF WInv
    <3>2. Counted.cmd = conn.cmd
      <4>1. conn \in Conns
        BY <2>3 DEF WInv, TInv, TypeOK
      <4> QED
        BY <4>1, CountedIs DEF WInv, TInv
    <3>3. conn'.n \in {0, 1}
      BY <3>1, Fields
    <3>4. conn'.n = 1 => conn'.cmd.finished \/ ~Written(conn')
      BY <3>1, <3>2 DEF Written
    <3>5. Unwritten'
      BY <3>3, <3>4 DEF Unwritten, Busy, Written
    <3> QED
      BY <2>1, <3>5 DEF Open
  <2> QED
    BY <2>2, <2>3
<1>10. CASE FreeClient
  BY <1>10 DEF FreeClient, WInv, TInv, Kept, Open, Unwritten, Busy
<1>11. CASE Tick
  <2>1. /\ conn # NULL /\ conn'.n = conn.n
        /\ conn'.rdBuf = conn.rdBuf /\ conn'.rdList = conn.rdList /\ conn'.cmd = conn.cmd
    BY <1>11, TickIs DEF WInv
  <2>2. UNCHANGED <<pc, stash>>
    BY <1>11 DEF Tick, redis
  <2> QED
    BY <2>1, <2>2 DEF WInv, Open, Unwritten, Busy, Written
<1>12. CASE UNCHANGED vars
  BY <1>1, <1>12 DEF vars
<1> QED
  BY <1>2, <1>3, <1>4, <1>5, <1>6, <1>7, <1>8, <1>9, <1>10, <1>11, <1>12 DEF Next

\* With no command left over in the query buffer every step keeps the invariant.
LEMMA NextWInv ==
  ASSUME ~Unblocks
  PROVE  WInv /\ [Next]_vars => WInv'
<1> SUFFICES ASSUME WInv, [Next]_vars PROVE WInv'
  OBVIOUS
<1> DEFINE Rest == Shrinks' /\ Fresh' /\ Judged' /\ Awaited' /\ Unsent'
<1>1. TInv'
  BY NextTInv DEF WInv
<1>2. Open' /\ Unwritten'
  BY NextMarks
<1>3. CASE ReadQuery
  BY <1>1, <1>2, <1>3, ReadQueryWInv DEF WInv
<1>4. CASE ReadQueryUnknown
  <2>1. conn = NULL /\ conn' = NULL /\ stash' = stash /\ ~stash /\ pc = "idle" /\ pc' = "idle"
    BY <1>4 DEF ReadQueryUnknown, WInv, TInv, Kept
  <2>2. Rest
    BY <2>1 DEF Shrinks, Fresh, Judged, Awaited, Unsent, Busy
  <2> QED
    BY <1>1, <1>2, <2>2 DEF WInv
<1>5. CASE ProcessCommand
  BY <1>1, <1>2, <1>5, ProcessCommandWInv DEF WInv
<1>6. ASSUME NEW k \in 1..MaxPart, ReplyToBuffer(k) PROVE WInv'
  BY <1>1, <1>2, <1>6, ToBufferWInv DEF WInv, ReplyToBuffer
<1>7. ASSUME NEW k \in 1..MaxPart, ReplyToList(k) PROVE WInv'
  BY <1>1, <1>2, <1>7, ToListWInv DEF WInv, ReplyToList
<1>7a. ASSUME NEW k \in 1..MaxPart, ReplyLater(k) PROVE WInv'
  <2>1. /\ pc # "write" /\ UNCHANGED <<pc, pending, conn, stash, left, where>>
        /\ AddToBuffer(k) \/ AddToList(k)
    BY <1>7a DEF ReplyLater
  <2>2. ~stash
    BY <1>7a DEF ReplyLater, WInv, TInv, Kept
  <2>3. Sampled({"buf"}) /\ Sampled(InList(k))
    BY <2>1, <2>2 DEF Sampled
  <2>4. Rest
    BY <2>1, <2>3, ToBufferWInv, ToListWInv
  <2> QED
    BY <1>1, <1>2, <2>4 DEF WInv
<1>8. CASE ProcessReturn
  BY <1>1, <1>2, <1>8, ProcessReturnWInv DEF WInv
<1>9. CASE WriteToClient
  BY <1>1, <1>2, <1>9, WriteToClientWInv DEF WInv
<1>10. CASE Send
  BY <1>1, <1>2, <1>10, SendWInv DEF WInv
<1>11. CASE WriteReturn
  BY <1>1, <1>2, <1>11, WriteReturnWInv DEF WInv
<1>12. CASE FreeClient
  <2>1. conn' = NULL /\ ~stash' /\ pc' = "idle"
    BY <1>12 DEF FreeClient, WInv, TInv, Kept
  <2>2. Rest
    BY <2>1 DEF Shrinks, Fresh, Judged, Awaited, Unsent, Busy
  <2> QED
    BY <1>1, <1>2, <2>2 DEF WInv
<1>13. ASSUME UNCHANGED <<pc, pending, bufpos, list, sentlen, stash, where, left>>,
              \/ conn' = conn
              \/ /\ conn # NULL /\ conn' \in Conns /\ conn'.n = conn.n
                 /\ conn'.curBuf = conn.curBuf /\ conn'.curList = conn.curList
                 /\ conn'.rdBuf = conn.rdBuf /\ conn'.rdList = conn.rdList /\ conn'.cmd = conn.cmd
       PROVE  WInv'
  <2>1. Sizes' = Sizes /\ Used' = Used /\ reply_bytes' = reply_bytes /\ (Misjudged' <=> Misjudged)
    BY <1>13 DEF Sizes, Used, reply_bytes, Misjudged
  <2>2. Busy' => Busy
    BY <1>13 DEF Busy
  <2>3. Shrinks' /\ Fresh' /\ Judged'
    BY <1>13, <2>1 DEF WInv, Shrinks, Fresh, Judged
  <2>4. FlushedBuf' = FlushedBuf /\ FlushedList' = FlushedList
    BY <1>13, <2>1 DEF FlushedBuf, FlushedList
  <2>5. conn'.cmd = conn.cmd
    BY <1>13
  <2>6. InBuffer' <=> InBuffer
    BY <1>13, <2>4, <2>5 DEF InBuffer
  <2>7. \A j \in 1..Len(list) : InBlock(j)' <=> InBlock(j)
    BY <1>13, <2>1, <2>4, <2>5 DEF InBlock
  <2>8. Awaited' /\ Unsent'
    BY <1>13, <2>1, <2>2, <2>4, <2>5, <2>6, <2>7 DEF WInv, Awaited, Unsent
  <2> QED
    BY <1>1, <1>2, <2>3, <2>8 DEF WInv
<1>14. CASE Tick
  BY <1>13, <1>14, TickIs DEF WInv, Tick, redis
<1>15. CASE UNCHANGED vars
  BY <1>13, <1>15 DEF vars
<1> QED
  BY <1>3, <1>4, <1>5, <1>6, <1>7, <1>7a, <1>8, <1>9, <1>10, <1>11, <1>12, <1>14, <1>15 DEF Next

\* The invariant holds at first.
LEMMA InitWInv == Init => WInv
<1> SUFFICES ASSUME Init PROVE WInv
  OBVIOUS
<1>1. TInv
  BY InitTInv
<1>2. conn = NULL /\ stash = FALSE /\ pc = "idle"
  BY DEF Init
<1> QED
  BY <1>1, <1>2 DEF WInv, Shrinks, Fresh, Judged, Open, Unwritten, Awaited, Unsent, Busy

(***************************************************************************)
(* For any sizes of the stores, any replies and any order of writes: a     *)
(* command that the probe takes for finished has been answered, unless its *)
(* reply was misjudged (it is in both stores, in the rest of a block, or   *)
(* it comes after the return of a command that blocks), as long as no      *)
(* command is left over in the query buffer while the client is blocked.   *)
(***************************************************************************)
THEOREM FinishedMeansSent ==
  ASSUME ~Unblocks
  PROVE  Spec => []FinishedIsSent
<1>1. WInv /\ [Next]_vars => WInv'
  BY NextWInv
<1>2. WInv => FinishedIsSent
  <2> SUFFICES ASSUME WInv, Busy, conn.cmd.finished, ~stash, ~Misjudged, left # 0 PROVE FALSE
    BY DEF FinishedIsSent
  <2>1. left > 0
    BY Numbers DEF WInv
  <2> QED
    BY <2>1 DEF WInv, Unsent
<1> QED
  BY <1>1, <1>2, InitWInv, PTL DEF Spec

(***************************************************************************)
(* The other direction, for every reply, the misjudged ones included: when *)
(* nothing waits any more the sampled command counts as finished.          *)
(***************************************************************************)
THEOREM SentMeansFinished ==
  ASSUME ~Unblocks
  PROVE  Spec => []SentIsFinished
<1>1. WInv /\ [Next]_vars => WInv'
  BY NextWInv
<1>2. WInv => SentIsFinished
  <2> SUFFICES ASSUME WInv, Busy, pc = "idle", Waiting = 0, ~conn.cmd.finished PROVE FALSE
    BY DEF SentIsFinished
  <2>1. bufpos = 0 /\ reply_bytes = 0
    BY WaitingAndBounds DEF WInv, TInv
  <2>2. ~stash /\ conn \in Conns
    BY DEF WInv, TInv, TypeOK, Kept, Busy
  <2>3. conn.rdBuf \in Nat /\ conn.rdList \in Nat /\ conn.cmd.wr \in Nat
    BY <2>2, Fields
  <2>4. FlushedBuf = conn.rdBuf /\ FlushedList = conn.rdList
    BY <2>2, FlushedIs
  <2>5. \/ conn.cmd.store = "STATIC_BUFFER" /\ conn.cmd.wr <= conn.rdBuf + 0
        \/ conn.cmd.store = "DYNAMIC_LIST" /\ conn.cmd.wr <= conn.rdList + 0
    BY <2>1, <2>2, <2>4 DEF WInv, Awaited
  <2>6. Written(conn)
    BY <2>3, <2>5 DEF Written
  <2> QED
    BY <2>2, <2>6 DEF WInv, Unwritten
<1> QED
  BY <1>1, <1>2, InitWInv, PTL DEF Spec
=============================================================================
