---------------------------- MODULE Imdb_proofs ----------------------------
(***************************************************************************)
(* Proofs about module Imdb, for any number of tables and keys, any        *)
(* capacity, timeout and size of the page.                                 *)
(***************************************************************************)
EXTENDS Imdb, SequenceTheorems, FiniteSetTheorems, TLAPS

\* The inductive invariant.  That a key has one record is what makes the
\* deletion of one record before an insert enough.
Inv == TypeOK /\ UniqueKeys

\* Deleting the record at place n leaves the others, in their order.
LEMMA RemoveAtOthers ==
  ASSUME NEW S, NEW s \in Seq(S), NEW n \in 1..Len(s)
  PROVE  /\ RemoveAt(s, n) \in Seq(S)
         /\ Len(RemoveAt(s, n)) = Len(s) - 1
         /\ \A i \in 1..(Len(s) - 1) : RemoveAt(s, n)[i] = s[IF i < n THEN i ELSE i + 1]
<1> DEFINE a == SubSeq(s, 1, n - 1)
           b == SubSeq(s, n + 1, Len(s))
<1>1. a \in Seq(S) /\ Len(a) = n - 1 /\ \A i \in 1..(n - 1) : a[i] = s[i]
  OBVIOUS
<1>2. b \in Seq(S) /\ Len(b) = Len(s) - n /\ \A i \in 1..(Len(s) - n) : b[i] = s[n + i]
  OBVIOUS
<1>3. RemoveAt(s, n) = a \o b
  BY DEF RemoveAt
<1> HIDE DEF a, b
<1>4. /\ a \o b \in Seq(S) /\ Len(a \o b) = Len(a) + Len(b)
      /\ \A i \in 1..(Len(a) + Len(b)) :
           (a \o b)[i] = IF i <= Len(a) THEN a[i] ELSE b[i - Len(a)]
  BY <1>1, <1>2, ConcatProperties
<1> DEFINE c == a \o b
<1> HIDE DEF c
<1>5. c \in Seq(S) /\ Len(c) = Len(s) - 1
  BY <1>1, <1>2, <1>4 DEF c
<1>6. \A i \in 1..(Len(s) - 1) : c[i] = IF i <= n - 1 THEN a[i] ELSE b[i - (n - 1)]
  BY <1>1, <1>2, <1>4 DEF c
<1>7. ASSUME NEW i \in 1..(Len(s) - 1)
      PROVE  c[i] = s[IF i < n THEN i ELSE i + 1]
  <2>1. CASE i < n
    BY <2>1, <1>1, <1>6
  <2>2. CASE i >= n
    <3>1. c[i] = b[i - (n - 1)] /\ i - (n - 1) \in 1..(Len(s) - n)
      BY <2>2, <1>6
    <3>2. b[i - (n - 1)] = s[n + (i - (n - 1))] /\ n + (i - (n - 1)) = i + 1
      BY <3>1, <1>2
    <3>3. ~(i < n)
      BY <2>2
    <3> QED BY <3>1, <3>2, <3>3
  <2> QED BY <2>1, <2>2
<1> QED
  BY <1>3, <1>5, <1>7 DEF c

\* What is left when the record of key k goes: one record less if there was
\* one, and every record of another key.
LEMMA WithoutKeepsOthers ==
  ASSUME NEW s \in Seq(Record), NEW k \in Keys,
         \A i, j \in DOMAIN s : s[i].key = s[j].key => i = j
  PROVE  /\ Without(s, k) \in Seq(Record)
         /\ Len(Without(s, k)) <= Len(s)
         /\ k \in KeysOf(s) => Len(Without(s, k)) = Len(s) - 1
         /\ k \notin KeysOf(s) => Without(s, k) = s
         /\ \A i, j \in DOMAIN Without(s, k) :
              Without(s, k)[i].key = Without(s, k)[j].key => i = j
         /\ \A i \in DOMAIN Without(s, k) : Without(s, k)[i].key # k
         /\ KeysOf(Without(s, k)) = KeysOf(s) \ {k}
<1>1. CASE k \notin KeysOf(s)
  BY <1>1 DEF Without, KeysOf
<1>2. CASE k \in KeysOf(s)
  <2> DEFINE n == CHOOSE i \in DOMAIN s : s[i].key = k
             r == RemoveAt(s, n)
  <2>1. n \in DOMAIN s /\ s[n].key = k
    BY <1>2 DEF KeysOf
  <2>2. Without(s, k) = r
    BY <2>1 DEF Without
  <2> HIDE DEF n
  <2>3. n \in 1..Len(s)
    BY <2>1
  <2>4. /\ r \in Seq(Record) /\ Len(r) = Len(s) - 1
        /\ \A i \in 1..(Len(s) - 1) : r[i] = s[IF i < n THEN i ELSE i + 1]
    BY <2>3, RemoveAtOthers
  <2> HIDE DEF r
  <2>5. DOMAIN r = 1..(Len(s) - 1) /\ DOMAIN s = 1..Len(s)
    BY <2>4
  <2>6. \A i \in DOMAIN r : r[i].key # k
    <3> SUFFICES ASSUME NEW i \in DOMAIN r, r[i].key = k PROVE FALSE
      OBVIOUS
    <3> DEFINE p == IF i < n THEN i ELSE i + 1
    <3>1. p \in DOMAIN s /\ p # n
      BY <2>3, <2>5
    <3>2. r[i] = s[p]
      BY <2>4, <2>5
    <3> HIDE DEF p
    <3>3. s[p].key = s[n].key
      BY <2>1, <3>2
    <3>4. p = n
      BY <2>1, <3>1, <3>3
    <3> QED BY <3>1, <3>4
  <2>7. ASSUME NEW i \in DOMAIN r, NEW j \in DOMAIN r, r[i].key = r[j].key
        PROVE  i = j
    <3> DEFINE p(x) == IF x < n THEN x ELSE x + 1
    <3>1. p(i) \in DOMAIN s /\ p(j) \in DOMAIN s
      BY <2>3, <2>5
    <3>2. r[i] = s[p(i)] /\ r[j] = s[p(j)]
      BY <2>4, <2>5
    <3>3. p(i) = p(j) => i = j
      BY <2>3, <2>5
    <3> HIDE DEF p
    <3>4. s[p(i)].key = s[p(j)].key
      BY <2>7, <3>2
    <3>5. p(i) = p(j)
      BY <3>1, <3>4
    <3> QED BY <3>3, <3>5
  <2>8. \A j \in DOMAIN s : j # n => \E i \in DOMAIN r : r[i] = s[j]
    <3> TAKE j \in DOMAIN s
    <3> HAVE j # n
    <3>1. CASE j < n
      <4>1. j \in DOMAIN r /\ r[j] = s[j]
        BY <3>1, <2>3, <2>4, <2>5
      <4> QED BY <4>1
    <3>2. CASE j > n
      <4>1. j - 1 \in DOMAIN r /\ r[j - 1] = s[j]
        BY <3>2, <2>3, <2>4, <2>5
      <4> QED BY <4>1
    <3> QED BY <3>1, <3>2, <2>3, <2>5
  <2>9. \A i \in DOMAIN r : \E j \in DOMAIN s : r[i] = s[j]
    <3> TAKE i \in DOMAIN r
    <3> DEFINE p == IF i < n THEN i ELSE i + 1
    <3>1. p \in DOMAIN s
      BY <2>3, <2>5
    <3>2. r[i] = s[p]
      BY <2>4, <2>5
    <3> HIDE DEF p
    <3> QED BY <3>1, <3>2
  <2>10. KeysOf(r) = KeysOf(s) \ {k}
    BY <2>1, <2>6, <2>8, <2>9 DEF KeysOf
  <2> QED
    BY <1>2, <2>2, <2>4, <2>6, <2>7, <2>10
<1> QED BY <1>1, <1>2

-----------------------------------------------------------------------------
\* The part of the invariant that is about the tables.
TablesOK ==
  /\ table \in [Tables -> Seq(Record)]
  /\ \A t \in Tables : Len(table[t]) <= Capacity
  /\ UniqueKeys

\* Replacing one table by one that is within the limits.
LEMMA TableReplaced ==
  ASSUME TablesOK, NEW t \in Tables, NEW u \in Seq(Record),
         Len(u) <= Capacity,
         \A i, j \in DOMAIN u : u[i].key = u[j].key => i = j,
         table' = [table EXCEPT ![t] = u]
  PROVE  TablesOK'
<1>1. table' \in [Tables -> Seq(Record)]
  BY DEF TablesOK
<1>2. \A x \in Tables : table'[x] = IF x = t THEN u ELSE table[x]
  BY DEF TablesOK
<1>3. \A x \in Tables : Len(table'[x]) <= Capacity
  BY <1>2 DEF TablesOK
<1>4. UniqueKeys'
  BY <1>2 DEF TablesOK, UniqueKeys
<1> QED BY <1>1, <1>3, <1>4 DEF TablesOK

\* The scrape deletes the first record of its table.
LEMMA HeadDropped ==
  ASSUME TablesOK, sTbl \in Tables, table[sTbl] # <<>>, DropHead
  PROVE  TablesOK'
<1> DEFINE s == table[sTbl]
           u == Tail(s)
<1>1. s \in Seq(Record) /\ s # <<>> /\ Len(s) <= Capacity
  BY DEF TablesOK
<1>2. table' = [table EXCEPT ![sTbl] = u]
  BY DEF DropHead, TablesOK
<1>3. \A i, j \in DOMAIN s : s[i].key = s[j].key => i = j
  BY DEF TablesOK, UniqueKeys
<1> HIDE DEF s
<1>4. u \in Seq(Record) /\ Len(u) = Len(s) - 1 /\ \A i \in 1..Len(u) : u[i] = s[i + 1]
  BY <1>1
<1> HIDE DEF u
<1>5. Len(u) <= Capacity
  BY <1>1, <1>4, ImdbAssumption
<1>6. DOMAIN u = 1..Len(u) /\ DOMAIN s = 1..Len(s) /\ Len(s) \in Nat /\ Len(u) \in Nat
  BY <1>1, <1>4
<1>7. ASSUME NEW i \in DOMAIN u, NEW j \in DOMAIN u, u[i].key = u[j].key
      PROVE  i = j
  <2>1. i + 1 \in DOMAIN s /\ j + 1 \in DOMAIN s /\ i \in Nat /\ j \in Nat
    BY <1>4, <1>6
  <2>2. u[i] = s[i + 1] /\ u[j] = s[j + 1]
    BY <1>4, <1>6
  <2>3. i + 1 = j + 1
    BY <1>3, <1>7, <2>1, <2>2
  <2> QED BY <2>1, <2>3
<1> QED BY <1>2, <1>4, <1>5, <1>7, TableReplaced

\* Ageing changes neither the number of the records nor their keys.
LEMMA TablesAged ==
  ASSUME TablesOK,
         table' = [t \in Tables |-> [i \in DOMAIN table[t] |-> Older(table[t][i])]]
  PROVE  TablesOK'
<1>1. ASSUME NEW r \in Record
      PROVE  Older(r) \in Record /\ Older(r).key = r.key
  <2>1. Later(r.age) \in Ages
    BY ImdbAssumption DEF Record, Lists, Ages, Later
  <2> QED BY <2>1 DEF Older, Record
<1>2. ASSUME NEW t \in Tables
      PROVE  /\ table'[t] \in Seq(Record) /\ Len(table'[t]) = Len(table[t])
             /\ DOMAIN table'[t] = DOMAIN table[t]
             /\ \A i \in DOMAIN table[t] : table'[t][i].key = table[t][i].key
  <2> DEFINE s == table[t]
             u == [i \in DOMAIN s |-> Older(s[i])]
  <2>1. s \in Seq(Record) /\ table'[t] = u
    BY DEF TablesOK
  <2> HIDE DEF s
  <2>2. DOMAIN s = 1..Len(s) /\ Len(s) \in Nat /\ \A i \in DOMAIN s : s[i] \in Record
    BY <2>1
  <2>3. u \in [1..Len(s) -> Record]
    BY <1>1, <2>2
  <2>4. u \in Seq(Record) /\ Len(u) = Len(s)
    BY <2>2, <2>3
  <2>5. \A i \in DOMAIN s : u[i].key = s[i].key
    BY <1>1, <2>2
  <2> QED BY <2>1, <2>4, <2>5 DEF s
<1>3. table' \in [Tables -> Seq(Record)]
  BY <1>2
<1>4. \A t \in Tables : Len(table'[t]) <= Capacity
  BY <1>2 DEF TablesOK
<1>5. UniqueKeys'
  BY SMTT(30), <1>2 DEF TablesOK, UniqueKeys
<1> QED BY <1>3, <1>4, <1>5 DEF TablesOK

-----------------------------------------------------------------------------
\* The invariant holds at the start.
LEMMA InitInv == Init => Inv
<1> SUFFICES ASSUME Init PROVE Inv
  OBVIOUS
<1>1. table \in [Tables -> Seq(Record)] /\ start \in [Tables -> Seq(Record)]
  BY DEF Init
<1>2. \A t \in Tables : table[t] = <<>>
  BY DEF Init
<1>3. \A t \in Tables : Len(table[t]) <= Capacity
  BY <1>2, ImdbAssumption
<1>4. UniqueKeys
  BY <1>2 DEF UniqueKeys
<1>5. /\ sTbl \in 1..(NumTables + 1) /\ sIdx \in 0..PeriodRecords
      /\ sRoom \in 1..BufLen /\ elapsed \in Ages
  BY ImdbAssumption DEF Init, Ages
<1>6. page \in Seq(Line) /\ rec = NULL /\ sPc = "idle"
  BY DEF Init
<1> QED
  BY <1>1, <1>3, <1>4, <1>5, <1>6 DEF Inv, TypeOK

\* An insert that is accepted, or refused because the table is full.
LEMMA InsertInv ==
  ASSUME Inv, Insert
  PROVE  Inv'
<1> USE DEF Inv
<1>1. TablesOK
  BY DEF TypeOK, TablesOK
<1>2. PICK t \in Tables, k \in Keys :
        (\E m \in Metrics[k] : CreateRec(t, k, m)) \/ CreateRecFull(t, k)
  BY DEF Insert
<1> DEFINE s == table[t]
           w == Without(s, k)
<1>3. s \in Seq(Record) /\ Len(s) <= Capacity /\ \A i, j \in DOMAIN s : s[i].key = s[j].key => i = j
  BY DEF TypeOK, UniqueKeys
<1>4. /\ w \in Seq(Record) /\ Len(w) <= Len(s)
      /\ \A i, j \in DOMAIN w : w[i].key = w[j].key => i = j
      /\ \A i \in DOMAIN w : w[i].key # k
  BY <1>3, WithoutKeepsOthers
<1>5. table \in [Tables -> Seq(Record)]
  BY DEF TypeOK
<1>6. ASSUME NEW m \in Metrics[k], CreateRec(t, k, m)
      PROVE  Inv'
  <2> DEFINE r == [key |-> k, metrics |-> m, age |-> 0]
             u == Append(w, r)
  <2>1. table' = [table EXCEPT ![t] = u]
    BY <1>5, <1>6 DEF CreateRec
  <2>2. Len(w) < Capacity
    BY <1>6 DEF CreateRec
  <2>3. rec' \in [tbl : Tables, key : Keys] \union {NULL} /\ UNCHANGED scrapeVars
    BY <1>6 DEF CreateRec
  <2> HIDE DEF w
  <2>4. r \in Record /\ r.key = k
    BY ImdbAssumption DEF Record, Lists, Ages
  <2> HIDE DEF r
  <2>5. /\ u \in Seq(Record) /\ Len(u) = Len(w) + 1 /\ u[Len(w) + 1] = r
        /\ \A i \in 1..Len(w) : u[i] = w[i]
    BY <1>4, <2>4
  <2> HIDE DEF u
  <2>6. /\ DOMAIN u = 1..Len(u) /\ DOMAIN w = 1..Len(w)
        /\ Len(u) \in Nat /\ Len(w) \in Nat
    BY <1>4, <2>5
  <2>7. Len(u) <= Capacity
    BY <2>2, <2>5, <2>6, ImdbAssumption
  <2>8. \A i, j \in DOMAIN u : u[i].key = u[j].key => i = j
    <3>1. \A i \in DOMAIN u : i \in DOMAIN w \/ i = Len(w) + 1
      BY <2>5, <2>6
    <3> QED BY <1>4, <2>4, <2>5, <2>6, <3>1
  <2>9. TablesOK'
    BY <1>1, <2>1, <2>5, <2>7, <2>8, TableReplaced
  <2> QED
    BY <2>3, <2>9 DEF TypeOK, TablesOK, scrapeVars
<1>7. CASE CreateRecFull(t, k)
  <2>1. table' = [table EXCEPT ![t] = w] /\ UNCHANGED <<rec, scrapeVars>>
    BY <1>5, <1>7 DEF CreateRecFull
  <2> HIDE DEF w, s
  <2>2. Len(w) <= Capacity
    BY <1>3, <1>4, ImdbAssumption
  <2>3. TablesOK'
    BY <1>1, <1>4, <2>1, <2>2, TableReplaced
  <2> QED
    BY <2>1, <2>3 DEF TypeOK, TablesOK, scrapeVars
<1> QED BY <1>2, <1>6, <1>7

\* The metrics of a record take a number of characters.
LEMMA UptoType ==
  ASSUME NEW m \in Lists, NEW k \in 0..Len(m)
  PROVE  Upto(m, k) \in Nat /\ Len(m) \in Nat
<1>1. m \in Seq(Nat \ {0})
  BY ImdbAssumption DEF Lists
<1> QED
  BY <1>1 DEF Upto

\* A record is printed: the page keeps room for at least one character.
LEMMA ScrapeRecordInv ==
  ASSUME Inv, ScrapeRecord
  PROVE  Inv'
<1> USE DEF Inv
<1>1. TablesOK
  BY DEF TypeOK, TablesOK
<1> DEFINE r == Head(table[sTbl])
<1>2. sTbl \in Tables /\ table[sTbl] # <<>> /\ sIdx < PeriodRecords
  BY DEF ScrapeRecord, AtRecord, TypeOK
<1>3. table[sTbl] \in Seq(Record)
  BY <1>2 DEF TypeOK
<1>4. r \in Record
  BY <1>2, <1>3
<1>5. PICK k \in 1..Len(r.metrics) :
        /\ Fits(k, r.metrics, sRoom)
        /\ sRoom' = sRoom - Upto(r.metrics, k)
        /\ page' = Append(page, [tbl |-> sTbl, key |-> r.key,
                                 printed |-> k, metrics |-> r.metrics])
  BY DEF ScrapeRecord
<1>6. r.key \in Keys /\ r.metrics \in Lists /\ k \in Nat
  BY <1>4 DEF Record
<1> HIDE DEF r
<1>7. sRoom' \in 1..BufLen
  <2> DEFINE chars == Upto(r.metrics, k)
  <2>1. chars \in Nat
    BY <1>5, <1>6, UptoType
  <2>2. chars < sRoom
    BY <1>5 DEF Fits
  <2>3. sRoom' = sRoom - chars
    BY <1>5
  <2>4. sRoom \in 1..BufLen /\ BufLen \in Nat
    BY ImdbAssumption DEF TypeOK
  <2> HIDE DEF chars
  <2> QED BY <2>1, <2>2, <2>3, <2>4
<1>8. page' \in Seq(Line)
  BY <1>2, <1>5, <1>6 DEF TypeOK, Line
<1>9. sIdx' \in 0..PeriodRecords
  BY <1>2, ImdbAssumption DEF ScrapeRecord, TypeOK
<1>10. TablesOK'
  BY <1>1, <1>2, HeadDropped DEF ScrapeRecord
<1> QED
  BY <1>2, <1>7, <1>8, <1>9, <1>10 DEF ScrapeRecord, TypeOK, TablesOK

\* The other steps of the scrape.
LEMMA WebRequestInv ==
  ASSUME Inv, WebRequest
  PROVE  Inv'
<1> USE DEF Inv
<1>1. TablesOK
  BY DEF TypeOK, TablesOK
<1>2. CASE ScrapeEmptyTable
  <2>1. sTbl' \in 1..(NumTables + 1)
    BY <1>2, ImdbAssumption DEF ScrapeEmptyTable, Tables
  <2> QED BY <1>2, <2>1 DEF ScrapeEmptyTable, TypeOK, UniqueKeys
<1>3. CASE ScrapeTable
  <2>1. sIdx' \in 0..PeriodRecords
    BY <1>3, ImdbAssumption DEF ScrapeTable
  <2> QED BY <1>3, <2>1 DEF ScrapeTable, TypeOK, UniqueKeys
<1>4. CASE ScrapeExpired
  <2>1. sTbl \in Tables /\ table[sTbl] # <<>>
    BY <1>4 DEF ScrapeExpired, AtRecord, TypeOK
  <2>2. TablesOK'
    BY <1>1, <1>4, <2>1, HeadDropped DEF ScrapeExpired
  <2> QED BY <1>4, <2>2 DEF ScrapeExpired, TypeOK, TablesOK, scrapeVars
<1>5. CASE ScrapeRecord
  BY <1>5, ScrapeRecordInv
<1>6. CASE ScrapeRecordFails
  BY <1>6 DEF ScrapeRecordFails, TypeOK, UniqueKeys
<1>7. CASE ScrapeTableEnd
  <2>1. sTbl \in Tables
    BY <1>7 DEF ScrapeTableEnd, AtTableEnd, TypeOK
  <2>2. sTbl' \in 1..(NumTables + 1)
    BY <1>7, <2>1, ImdbAssumption DEF ScrapeTableEnd, Tables
  <2>3. sRoom' \in 1..BufLen
    BY <1>7, ImdbAssumption DEF ScrapeTableEnd, TypeOK
  <2> QED BY <1>7, <2>2, <2>3 DEF ScrapeTableEnd, TypeOK, UniqueKeys
<1>8. CASE ScrapeTableFails
  BY <1>8 DEF ScrapeTableFails, TypeOK, UniqueKeys
<1>9. CASE ScrapeDone
  BY <1>9 DEF ScrapeDone, TypeOK, UniqueKeys
<1>10. CASE WebRequestEnd
  <2>1. /\ sTbl' \in 1..(NumTables + 1) /\ sIdx' \in 0..PeriodRecords
        /\ sRoom' \in 1..BufLen /\ elapsed' \in Ages
    BY <1>10, ImdbAssumption DEF WebRequestEnd, Ages
  <2>2. page' \in Seq(Line) /\ start' \in [Tables -> Seq(Record)]
    BY <1>10 DEF WebRequestEnd
  <2> QED BY <1>10, <2>1, <2>2 DEF WebRequestEnd, TypeOK, UniqueKeys
<1> QED
  BY <1>2, <1>3, <1>4, <1>5, <1>6, <1>7, <1>8, <1>9, <1>10 DEF WebRequest

\* Every step keeps the invariant.
LEMMA NextInv == Inv /\ [Next]_vars => Inv'
<1> SUFFICES ASSUME Inv, [Next]_vars PROVE Inv'
  OBVIOUS
<1>1. CASE Insert
  BY <1>1, InsertInv
<1>2. CASE Rec2Json
  BY <1>2 DEF Rec2Json, Inv, TypeOK, UniqueKeys, scrapeVars
<1>3. CASE ScrapeBegin
  <2>1. /\ sTbl' \in 1..(NumTables + 1) /\ sIdx' \in 0..PeriodRecords
        /\ sRoom' \in 1..BufLen /\ elapsed' \in Ages
    BY <1>3, ImdbAssumption DEF ScrapeBegin, Ages
  <2>2. page' \in Seq(Line)
    BY <1>3 DEF ScrapeBegin
  <2> QED BY <1>3, <2>1, <2>2 DEF ScrapeBegin, Inv, TypeOK, UniqueKeys
<1>4. CASE WebRequest
  BY <1>4, WebRequestInv
<1>5. CASE Tick
  <2>1. TablesOK
    BY DEF Inv, TypeOK, TablesOK
  <2>2. TablesOK'
    BY <1>5, <2>1, TablesAged DEF Tick
  <2>3. elapsed' \in Ages
    BY <1>5, ImdbAssumption DEF Tick, Inv, TypeOK, Later, Ages
  <2> QED BY <1>5, <2>2, <2>3 DEF Tick, Inv, TypeOK, TablesOK
<1>6. CASE UNCHANGED vars
  BY <1>6 DEF vars, scrapeVars, Inv, TypeOK, UniqueKeys
<1> QED BY <1>1, <1>2, <1>3, <1>4, <1>5, <1>6 DEF Next

(***************************************************************************)
(* The limits of the IMDB hold whatever is inserted and scraped: no table  *)
(* exceeds recordsCapability, and curMaxLen in IMDB_Tbl2Prometheus and     *)
(* IMDB_DataBase2Prometheus, an unsigned number, never reaches zero.       *)
(***************************************************************************)
THEOREM LimitsHold == Spec => []TypeOK
<1>1. Inv => TypeOK
  BY DEF Inv
<1> QED BY InitInv, NextInv, <1>1, PTL DEF Spec

\* IMDB_TableAddRecord never leaves two records of one key in a table.
THEOREM OneRecordPerKey == Spec => []UniqueKeys
<1>1. Inv => UniqueKeys
  BY DEF Inv
<1> QED BY InitInv, NextInv, <1>1, PTL DEF Spec

(***************************************************************************)
(* IMDB_TableAddRecord deletes the old record before it looks whether the  *)
(* table is full; nothing is lost by that, because a table within its      *)
(* capacity has room for the new record once the old one is gone.          *)
(***************************************************************************)
THEOREM InsertsLoseNothing == Spec => InsertKeepsKeys
<1> DEFINE Keeps == Unlocked => \A t \in Tables : KeysOf(table[t]) \subseteq KeysOf(table'[t])
<1>1. Inv /\ [Next]_vars => [Keeps]_vars
  <2> SUFFICES ASSUME Inv, Next, Unlocked, NEW x \in Tables
               PROVE  KeysOf(table[x]) \subseteq KeysOf(table'[x])
    OBVIOUS
  <2> USE DEF Inv
  <2>1. CASE Insert
    <3>1. PICK t \in Tables, k \in Keys :
            (\E m \in Metrics[k] : CreateRec(t, k, m)) \/ CreateRecFull(t, k)
      BY <2>1 DEF Insert
    <3> DEFINE s == table[t]
               w == Without(s, k)
    <3>2. s \in Seq(Record) /\ Len(s) <= Capacity /\ Len(s) \in Nat
          /\ \A i, j \in DOMAIN s : s[i].key = s[j].key => i = j
      BY DEF TypeOK, UniqueKeys
    <3>3. /\ w \in Seq(Record) /\ Len(w) <= Len(s)
          /\ k \in KeysOf(s) => Len(w) = Len(s) - 1
          /\ k \notin KeysOf(s) => w = s
          /\ KeysOf(w) = KeysOf(s) \ {k}
      BY <3>2, WithoutKeepsOthers
    <3>4. table \in [Tables -> Seq(Record)]
      BY DEF TypeOK
    <3>5. ASSUME NEW m \in Metrics[k], CreateRec(t, k, m)
          PROVE  KeysOf(table[x]) \subseteq KeysOf(table'[x])
      <4> DEFINE r == [key |-> k, metrics |-> m, age |-> 0]
                 u == Append(w, r)
      <4>1. table' = [table EXCEPT ![t] = u]
        BY <3>4, <3>5 DEF CreateRec
      <4> HIDE DEF w
      <4>2. r.key = k /\ r \in Record
        BY ImdbAssumption DEF Record, Lists, Ages
      <4> HIDE DEF r
      <4>3. /\ Len(w) + 1 \in DOMAIN u /\ u[Len(w) + 1] = r
            /\ \A i \in DOMAIN w : i \in DOMAIN u /\ u[i] = w[i]
        BY <3>3, <4>2
      <4> HIDE DEF u
      <4>4. KeysOf(w) \union {k} \subseteq KeysOf(u)
        BY <4>2, <4>3 DEF KeysOf
      <4>5. KeysOf(s) \subseteq KeysOf(u)
        BY <3>3, <4>4
      <4> QED BY <3>4, <4>1, <4>5
    <3>6. CASE CreateRecFull(t, k)
      <4>1. table' = [table EXCEPT ![t] = w] /\ Len(w) >= Capacity
        BY <3>4, <3>6 DEF CreateRecFull
      <4> HIDE DEF w
      <4>2. Len(w) \in Nat
        BY <3>3
      <4>3. k \notin KeysOf(s)
        BY <3>2, <3>3, <4>1, <4>2, ImdbAssumption
      <4>4. w = s
        BY <3>3, <4>3
      <4> QED BY <3>4, <4>1, <4>4
    <3> QED BY <3>1, <3>5, <3>6
  <2>2. CASE Rec2Json
    BY <2>2 DEF Rec2Json
  <2>3. CASE ScrapeBegin
    BY <2>3 DEF ScrapeBegin
  <2>4. CASE WebRequest
    <3>1. table' = table
      BY <2>4 DEF WebRequest, Unlocked, AtRecord, AtTableEnd, ScrapeEmptyTable, ScrapeTable,
           ScrapeExpired, ScrapeRecord, ScrapeRecordFails, ScrapeTableEnd, ScrapeTableFails,
           ScrapeDone, WebRequestEnd
    <3> QED BY <3>1
  <2>5. CASE Tick
    <3> DEFINE s == table[x]
               u == [i \in DOMAIN s |-> Older(s[i])]
    <3>1. s \in Seq(Record) /\ table'[x] = u
      BY <2>5 DEF Tick, TypeOK
    <3> HIDE DEF s
    <3>2. \A i \in DOMAIN s : s[i] \in Record /\ i \in DOMAIN u /\ u[i] = Older(s[i])
      BY <3>1
    <3>3. \A i \in DOMAIN s : u[i].key = s[i].key
      BY <3>2 DEF Older, Record
    <3> HIDE DEF u
    <3>4. KeysOf(s) \subseteq KeysOf(u)
      BY <3>2, <3>3 DEF KeysOf
    <3> QED BY <3>1, <3>4 DEF s
  <2> QED BY <2>1, <2>2, <2>3, <2>4, <2>5 DEF Next
<1> QED
  BY InitInv, NextInv, <1>1, PTL DEF Spec, InsertKeepsKeys

-----------------------------------------------------------------------------
\* What OldestFirst says of one table.
Sorted(s) == \A i, j \in DOMAIN s : i < j => s[i].age >= s[j].age

\* Deleting a record keeps the order of the others.
LEMMA WithoutSorted ==
  ASSUME NEW s \in Seq(Record), NEW k \in Keys, Sorted(s)
  PROVE  Without(s, k) \in Seq(Record) /\ Sorted(Without(s, k))
<1>1. CASE k \notin KeysOf(s)
  BY <1>1 DEF Without, KeysOf
<1>2. CASE k \in KeysOf(s)
  <2> DEFINE n == CHOOSE i \in DOMAIN s : s[i].key = k
             r == RemoveAt(s, n)
  <2>1. n \in DOMAIN s /\ s[n].key = k
    BY <1>2 DEF KeysOf
  <2>2. Without(s, k) = r
    BY <2>1 DEF Without
  <2> HIDE DEF n
  <2>3. n \in 1..Len(s)
    BY <2>1
  <2>4. /\ r \in Seq(Record) /\ Len(r) = Len(s) - 1
        /\ \A i \in 1..(Len(s) - 1) : r[i] = s[IF i < n THEN i ELSE i + 1]
    BY <2>3, RemoveAtOthers
  <2> HIDE DEF r
  <2>5. DOMAIN r = 1..(Len(s) - 1) /\ DOMAIN s = 1..Len(s)
    BY <2>4
  <2>6. ASSUME NEW i \in DOMAIN r, NEW j \in DOMAIN r, i < j PROVE r[i].age >= r[j].age
    <3> DEFINE p(x) == IF x < n THEN x ELSE x + 1
    <3>1. p(i) \in DOMAIN s /\ p(j) \in DOMAIN s /\ p(i) < p(j)
      BY <2>3, <2>5, <2>6
    <3>2. r[i] = s[p(i)] /\ r[j] = s[p(j)]
      BY <2>4, <2>5
    <3> HIDE DEF p
    <3> QED
      BY <3>1, <3>2 DEF Sorted
  <2> QED
    BY <2>2, <2>4, <2>6 DEF Sorted
<1> QED
  BY <1>1, <1>2

\* Replacing one table by one that is in order.
LEMMA SortedReplaced ==
  ASSUME table \in [Tables -> Seq(Record)], OldestFirst, NEW t \in Tables, NEW u, Sorted(u),
         table' = [table EXCEPT ![t] = u]
  PROVE  OldestFirst'
BY DEF OldestFirst, Sorted

\* Every step keeps the records in the order of their last update.
LEMMA NextSorted == Inv /\ OldestFirst /\ [Next]_vars => OldestFirst'
<1> SUFFICES ASSUME Inv, OldestFirst, [Next]_vars PROVE OldestFirst'
  OBVIOUS
<1>a. table \in [Tables -> Seq(Record)] /\ \A t \in Tables : Sorted(table[t])
  BY DEF Inv, TypeOK, OldestFirst, Sorted
<1>1. ASSUME NEW t \in Tables, NEW k \in Keys, NEW m \in Metrics[k], CreateRec(t, k, m)
      PROVE  OldestFirst'
  <2> DEFINE w == Without(table[t], k)
             r == [key |-> k, metrics |-> m, age |-> 0]
             u == Append(w, r)
  <2>1. table' = [table EXCEPT ![t] = u]
    BY <1>a, <1>1 DEF CreateRec
  <2>2. w \in Seq(Record) /\ Sorted(w)
    BY <1>a, WithoutSorted
  <2> HIDE DEF w
  <2>3. r \in Record /\ r.age = 0
    BY ImdbAssumption DEF Record, Lists, Ages
  <2> HIDE DEF r
  <2>4. /\ u \in Seq(Record) /\ Len(u) = Len(w) + 1 /\ u[Len(w) + 1] = r
        /\ \A i \in 1..Len(w) : u[i] = w[i]
    BY <2>2, <2>3
  <2> HIDE DEF u
  <2>5. DOMAIN u = 1..(Len(w) + 1) /\ DOMAIN w = 1..Len(w) /\ Len(w) \in Nat
    BY <2>2, <2>4
  <2>6. ASSUME NEW i \in DOMAIN u, NEW j \in DOMAIN u, i < j PROVE u[i].age >= u[j].age
    <3>1. i \in DOMAIN w /\ u[i] = w[i] /\ w[i] \in Record
      BY <2>2, <2>4, <2>5, <2>6
    <3>2. CASE j \in DOMAIN w
      BY <2>2, <2>4, <2>5, <2>6, <3>1, <3>2 DEF Sorted
    <3>3. CASE j = Len(w) + 1
      BY <2>3, <2>4, <3>1, <3>3, ImdbAssumption DEF Record, Ages
    <3> QED
      BY <2>5, <3>2, <3>3
  <2> QED
    BY <1>a, <2>1, <2>6, SortedReplaced DEF Sorted
<1>2. ASSUME NEW t \in Tables, NEW k \in Keys, CreateRecFull(t, k) PROVE OldestFirst'
  <2>1. table' = [table EXCEPT ![t] = Without(table[t], k)]
    BY <1>a, <1>2 DEF CreateRecFull
  <2>2. Sorted(Without(table[t], k))
    BY <1>a, WithoutSorted
  <2> QED
    BY <1>a, <2>1, <2>2, SortedReplaced
<1>3. ASSUME ScrapeExpired \/ ScrapeRecord PROVE OldestFirst'
  <2>1. PICK t \in Tables : t = sTbl
    BY <1>3 DEF ScrapeExpired, ScrapeRecord, AtRecord, Inv, TypeOK
  <2> DEFINE s == table[t]
             u == Tail(s)
  <2>2. table' = [table EXCEPT ![t] = u] /\ s # <<>> /\ s \in Seq(Record) /\ Sorted(s)
    BY <1>a, <1>3, <2>1 DEF ScrapeExpired, ScrapeRecord, AtRecord, DropHead
  <2> HIDE DEF s
  <2>3. u \in Seq(Record) /\ Len(u) = Len(s) - 1 /\ \A i \in 1..Len(u) : u[i] = s[i + 1]
    BY <2>2
  <2> HIDE DEF u
  <2>4. DOMAIN u = 1..Len(u) /\ DOMAIN s = 1..Len(s) /\ Len(s) \in Nat /\ Len(u) \in Nat
    BY <2>2, <2>3
  <2>5. ASSUME NEW i \in DOMAIN u, NEW j \in DOMAIN u, i < j PROVE u[i].age >= u[j].age
    <3>1. i + 1 \in DOMAIN s /\ j + 1 \in DOMAIN s /\ i + 1 < j + 1
      BY <2>3, <2>4, <2>5
    <3>2. u[i] = s[i + 1] /\ u[j] = s[j + 1]
      BY <2>3, <2>4
    <3> QED
      BY <2>2, <3>1, <3>2 DEF Sorted
  <2> QED
    BY <1>a, <2>2, <2>5, SortedReplaced DEF Sorted
<1>4. ASSUME Tick PROVE OldestFirst'
  <2>1. ASSUME NEW t \in Tables, NEW i \in DOMAIN table'[t], NEW j \in DOMAIN table'[t], i < j
        PROVE  table'[t][i].age >= table'[t][j].age
    <3> DEFINE s == table[t]
               u == [x \in DOMAIN s |-> Older(s[x])]
    <3>1. table'[t] = u /\ s \in Seq(Record) /\ Sorted(s)
      BY <1>a, <1>4 DEF Tick
    <3> HIDE DEF s
    <3>2. i \in DOMAIN s /\ j \in DOMAIN s /\ s[i] \in Record /\ s[j] \in Record
      BY <2>1, <3>1
    <3>3. table'[t][i] = Older(s[i]) /\ table'[t][j] = Older(s[j])
      BY <3>1, <3>2
    <3>4. s[i].age >= s[j].age /\ s[i].age \in Ages /\ s[j].age \in Ages
      BY <2>1, <3>1, <3>2 DEF Sorted, Record
    <3>5. Older(s[i]).age = Later(s[i].age) /\ Older(s[j]).age = Later(s[j].age)
      BY <3>2 DEF Older, Record
    <3>6. Later(s[i].age) >= Later(s[j].age)
      BY <3>4, ImdbAssumption DEF Later, Ages
    <3> QED
      BY <3>3, <3>5, <3>6
  <2> QED
    BY <2>1 DEF OldestFirst
<1>5. CASE UNCHANGED table
  BY <1>5 DEF OldestFirst
<1> QED
  BY <1>1, <1>2, <1>3, <1>4, <1>5
     DEF Next, Insert, WebRequest, Rec2Json, ScrapeBegin, ScrapeEmptyTable, ScrapeTable,
         ScrapeRecordFails, ScrapeTableEnd, ScrapeTableFails, ScrapeDone, WebRequestEnd, vars

(***************************************************************************)
(* Records lie in the order of their last update in every table, for any   *)
(* number of keys and any timeout.  An update moves a record to the end;   *)
(* the scrape, which takes PeriodRecords from the front, reaches the       *)
(* expired ones first.                                                     *)
(***************************************************************************)
THEOREM OldestAreFirst == Spec => []OldestFirst
<1>1. Init => OldestFirst
  BY DEF Init, OldestFirst
<1> QED
  BY <1>1, InitInv, NextInv, NextSorted, PTL DEF Spec
-----------------------------------------------------------------------------
\* The page has no room for what its lines lack.
NoRoomForMissing ==
  \A l \in DOMAIN page :
    page[l].printed < Len(page[l].metrics) => Missing(page[l]) >= sRoom

\* What a line lacks has a length.
LEMMA MissingType ==
  ASSUME NEW l \in Line, l.printed < Len(l.metrics)
  PROVE  Missing(l) \in Int
<1>1. l.printed \in Nat /\ l.metrics \in Lists
  BY DEF Line
<1>2. Len(l.metrics) \in Nat
  BY <1>1, ImdbAssumption DEF Lists
<1>3. l.printed \in 0..Len(l.metrics) /\ l.printed + 1 \in 0..Len(l.metrics)
  BY <1>1, <1>2
<1>4. Upto(l.metrics, l.printed) \in Nat /\ Upto(l.metrics, l.printed + 1) \in Nat
  BY <1>1, <1>3, UptoType
<1> QED
  BY <1>4 DEF Missing

\* Every step keeps it: the room only gets less until the page is sent.
LEMMA NextMissing == Inv /\ NoRoomForMissing /\ [Next]_vars => NoRoomForMissing'
<1> SUFFICES ASSUME Inv, NoRoomForMissing, [Next]_vars PROVE NoRoomForMissing'
  OBVIOUS
<1>1. sRoom \in Nat /\ page \in Seq(Line)
  BY ImdbAssumption DEF Inv, TypeOK
<1>2. CASE UNCHANGED <<page, sRoom>>
  BY <1>2 DEF NoRoomForMissing
<1>3. ASSUME page' = <<>> PROVE NoRoomForMissing'
  BY <1>3 DEF NoRoomForMissing
<1>a. \A l \in DOMAIN page : page[l].printed < Len(page[l].metrics) =>
        Missing(page[l]) \in Int /\ Missing(page[l]) >= sRoom
  BY <1>1, MissingType DEF NoRoomForMissing
<1>4. CASE ScrapeTableEnd
  <2>1. sRoom' = sRoom - 1 /\ page' = page
    BY <1>4 DEF ScrapeTableEnd
  <2>2. \A z \in Int : z >= sRoom => z >= sRoom - 1
    BY <1>1
  <2> QED
    BY <1>a, <2>1, <2>2 DEF NoRoomForMissing
<1>5. CASE ScrapeRecord
  <2> DEFINE r == Head(table[sTbl])
  <2>1. PICK k \in 1..Len(r.metrics) :
          /\ Fits(k, r.metrics, sRoom)
          /\ sRoom' = sRoom - Upto(r.metrics, k)
          /\ page' = Append(page, [tbl |-> sTbl, key |-> r.key,
                                   printed |-> k, metrics |-> r.metrics])
    BY <1>5 DEF ScrapeRecord
  <2>2. r.metrics \in Lists /\ r.key \in Keys /\ sTbl \in Tables
    <3>1. sTbl \in Tables /\ table[sTbl] # <<>>
      BY <1>5 DEF ScrapeRecord, AtRecord, Inv, TypeOK
    <3>2. table[sTbl] \in Seq(Record)
      BY <3>1 DEF Inv, TypeOK
    <3>3. r \in Record
      BY <3>1, <3>2
    <3> HIDE DEF r
    <3> QED
      BY <3>1, <3>3 DEF Record
  <2> DEFINE m == r.metrics
             x == [tbl |-> sTbl, key |-> r.key, printed |-> k, metrics |-> m]
  <2>3. Upto(m, k) \in Nat /\ Len(m) \in Nat /\ k \in Nat
    <3>1. k \in 0..Len(m)
      BY <2>1
    <3> HIDE DEF r
    <3> QED
      BY <2>2, <3>1, UptoType
  <2>4. page' = Append(page, x) /\ x.printed = k /\ x.metrics = m /\ sRoom' = sRoom - Upto(m, k)
    BY <2>1
  <2>5. k < Len(m) => Upto(m, k + 1) >= sRoom
    BY <2>1 DEF Fits
  <2>6. x \in Line
    BY <2>2, <2>3 DEF Line
  <2> HIDE DEF m, x, r
  <2>7. k < Len(m) => Missing(x) >= sRoom'
    <3>1. k < Len(m) => Upto(m, k + 1) \in Nat
      <4>1. m \in Lists
        BY <2>2 DEF m
      <4>2. k < Len(m) => k + 1 \in 0..Len(m)
        BY <2>3
      <4> QED
        BY <4>1, <4>2, UptoType
    <3> QED
      BY <1>1, <2>3, <2>4, <2>5, <3>1 DEF Missing
  <2>8. /\ DOMAIN page' = 1..(Len(page) + 1) /\ page'[Len(page) + 1] = x
        /\ \A l \in 1..Len(page) : page'[l] = page[l]
        /\ DOMAIN page = 1..Len(page) /\ Len(page) \in Nat
    BY <1>1, <2>4, <2>6
  <2>9. ASSUME NEW l \in DOMAIN page', page'[l].printed < Len(page'[l].metrics)
        PROVE  Missing(page'[l]) >= sRoom'
    <3>1. CASE l \in 1..Len(page)
      <4>1. Missing(page[l]) \in Int /\ Missing(page[l]) >= sRoom /\ page'[l] = page[l]
        BY <1>a, <2>8, <2>9, <3>1
      <4> QED
        BY <1>1, <2>3, <2>4, <4>1
    <3>2. CASE l = Len(page) + 1
      BY <2>4, <2>7, <2>8, <2>9, <3>2
    <3> QED
      BY <2>8, <3>1, <3>2
  <2> QED
    BY <2>9 DEF NoRoomForMissing
<1>6. ASSUME ~ScrapeRecord, ~ScrapeTableEnd
      PROVE  UNCHANGED <<page, sRoom>> \/ page' = <<>>
  BY <1>6 DEF Next, Insert, CreateRec, CreateRecFull, WebRequest, Rec2Json, ScrapeBegin,
       ScrapeEmptyTable, ScrapeTable, ScrapeExpired, ScrapeRecordFails, ScrapeTableFails,
       ScrapeDone, WebRequestEnd, Tick, vars, scrapeVars
<1> QED
  BY <1>2, <1>3, <1>4, <1>5, <1>6

(***************************************************************************)
(* For any size of the page and any lengths of metrics: what a page that   *)
(* is sent lacks of its records does not fit in the room that is left.     *)
(***************************************************************************)
THEOREM MissingDoesNotFit == Spec => []LacksWhatDoesNotFit
<1>1. Init => NoRoomForMissing
  BY DEF Init, NoRoomForMissing
<1>2. NoRoomForMissing => LacksWhatDoesNotFit
  BY DEF NoRoomForMissing, LacksWhatDoesNotFit
<1> QED
  BY <1>1, <1>2, InitInv, NextInv, NextMissing, PTL DEF Spec

-----------------------------------------------------------------------------
(***************************************************************************)
(* What a page holds.  While the scrape runs nobody inserts, and what it   *)
(* deletes are the first records of a table: those that are left are the   *)
(* last ones of the table as it was, and older by the time that passed.    *)
(***************************************************************************)
\* LinesOf(t) for a page p.
Lines(p, t) == {l \in DOMAIN p : p[l].tbl = t}

\* The records of table t that the scrape has deleted so far.
Gone(t) == Len(start[t]) - Len(table[t])

\* An age e seconds later.
Aged(a, e) == IF a + e > RecordTimeout THEN RecordTimeout + 1 ELSE a + e

\* The table u is what is left of s, e seconds later.
Rest(u, s, e) ==
  /\ Len(u) <= Len(s)
  /\ \A i \in 1..Len(u) :
       /\ u[i].key = s[(Len(s) - Len(u)) + i].key
       /\ u[i].metrics = s[(Len(s) - Len(u)) + i].metrics
       /\ u[i].age = Aged(s[(Len(s) - Len(u)) + i].age, e)

\* The lines L of the page p are those of records of s, in their order, all of
\* them among the first n.
Ordered(L, p, s, n) ==
  \E at \in [L -> 1..n] :
    \A l \in L :
      /\ \A m \in L : m < l => at[m] < at[l]
      /\ ~Expired(s[at[l]])
      /\ p[l].key = s[at[l]].key
      /\ p[l].metrics = s[at[l]].metrics

\* What of the first n has no line has expired.
Covered(L, p, s, n, e) ==
  \A i \in 1..n :
    \/ \E l \in L : p[l].key = s[i].key
    \/ s[i].age + e > RecordTimeout

\* How far the scrape is with table t.
Reached(t) ==
  /\ t > sTbl \/ (t = sTbl /\ sPc = "table") => Lines(page, t) = {}
  /\ t = sTbl /\ sPc = "record" => Cardinality(Lines(page, t)) = sIdx
  /\ t < sTbl => table[t] = <<>> \/ Cardinality(Lines(page, t)) = PeriodRecords

Printed(t) ==
  /\ Rest(table[t], start[t], elapsed)
  /\ Ordered(Lines(page, t), page, start[t], Gone(t))
  /\ Covered(Lines(page, t), page, start[t], Gone(t), elapsed)

Scraped ==
  sPc \in {"table", "record"} => \A t \in Tables : Printed(t) /\ Reached(t)

-----------------------------------------------------------------------------
\* What a page p and the page q with one line x more share.
Added(p, x, q, t) ==
  /\ Len(p) \in Nat /\ Lines(p, t) \subseteq 1..Len(p) /\ IsFiniteSet(Lines(p, t))
  /\ Lines(q, t) = IF x.tbl = t THEN Lines(p, t) \union {Len(p) + 1} ELSE Lines(p, t)
  /\ (\A l \in Lines(p, t) : q[l] = p[l]) /\ q[Len(p) + 1] = x

\* The lines of a table when a line is added to the page.
LEMMA LineAdded ==
  ASSUME NEW p \in Seq(Line), NEW x \in Line, NEW q, q = Append(p, x), NEW t
  PROVE  Added(p, x, q, t)
<1>1. /\ Len(p) \in Nat /\ DOMAIN p = 1..Len(p) /\ DOMAIN Append(p, x) = 1..(Len(p) + 1)
      /\ \A l \in 1..Len(p) : Append(p, x)[l] = p[l]
      /\ Append(p, x)[Len(p) + 1] = x
  OBVIOUS
<1>2. Lines(p, t) \subseteq 1..Len(p)
  BY <1>1 DEF Lines
<1>3. IsFiniteSet(Lines(p, t))
  <2>1. IsFiniteSet(1..Len(p))
    BY <1>1, FS_Interval
  <2> QED
    BY <1>2, <2>1, FS_Subset
<1>4. DOMAIN q = 1..(Len(p) + 1) /\ (\A l \in 1..Len(p) : q[l] = p[l]) /\ q[Len(p) + 1] = x
  BY <1>1
<1>5. \A l : l \in 1..(Len(p) + 1) <=> l \in 1..Len(p) \/ l = Len(p) + 1
  BY <1>1
<1>6. Lines(q, t) = IF x.tbl = t THEN Lines(p, t) \union {Len(p) + 1} ELSE Lines(p, t)
  <2>1. \A l : l \in Lines(q, t) <=> l \in Lines(p, t) \/ (l = Len(p) + 1 /\ x.tbl = t)
    BY <1>1, <1>4, <1>5 DEF Lines
  <2> QED
    BY <2>1
<1> QED
  BY <1>1, <1>2, <1>3, <1>4, <1>6 DEF Added

\* More records may be deleted without a line.
LEMMA OrderedGrows ==
  ASSUME NEW L, NEW p, NEW s, NEW n \in Nat, NEW m \in Nat, n <= m, Ordered(L, p, s, n)
  PROVE  Ordered(L, p, s, m)
<1>1. PICK at \in [L -> 1..n] :
        \A l \in L :
          /\ \A j \in L : j < l => at[j] < at[l]
          /\ ~Expired(s[at[l]])
          /\ p[l].key = s[at[l]].key
          /\ p[l].metrics = s[at[l]].metrics
  BY DEF Ordered
<1>2. 1..n \subseteq 1..m
  OBVIOUS
<1>3. at \in [L -> 1..m]
  BY <1>2
<1> QED
  BY <1>1, <1>3 DEF Ordered

\* The next record gets the next line.
LEMMA OrderedAdded ==
  ASSUME NEW p, NEW q, NEW s, NEW n \in Nat, NEW k \in Nat, NEW L \in SUBSET (1..k),
         Ordered(L, p, s, n), \A l \in L : q[l] = p[l],
         ~Expired(s[n + 1]), q[k + 1].key = s[n + 1].key, q[k + 1].metrics = s[n + 1].metrics
  PROVE  Ordered(L \union {k + 1}, q, s, n + 1)
<1>1. PICK at \in [L -> 1..n] :
        \A l \in L :
          /\ \A m \in L : m < l => at[m] < at[l]
          /\ ~Expired(s[at[l]])
          /\ p[l].key = s[at[l]].key
          /\ p[l].metrics = s[at[l]].metrics
  BY DEF Ordered
<1> DEFINE M == L \union {k + 1}
           by == [l \in M |-> IF l = k + 1 THEN n + 1 ELSE at[l]]
<1>2. \A l \in L : l \in 1..k /\ l # k + 1 /\ l < k + 1 /\ ~(k + 1 < l) /\ at[l] \in 1..n
                   /\ at[l] < n + 1 /\ at[l] \in 1..(n + 1)
  BY <1>1
<1>3. by \in [M -> 1..(n + 1)]
  <2>1. n + 1 \in 1..(n + 1)
    OBVIOUS
  <2>2. \A l \in M : (IF l = k + 1 THEN n + 1 ELSE at[l]) \in 1..(n + 1)
    BY <1>2, <2>1
  <2> QED
    BY <2>2
<1>4. by[k + 1] = n + 1 /\ \A l \in L : by[l] = at[l]
  BY <1>2
<1> HIDE DEF by
<1>5. ~(k + 1 < k + 1)
  OBVIOUS
<1>6. ASSUME NEW l \in M
      PROVE  /\ \A m \in M : m < l => by[m] < by[l]
             /\ ~Expired(s[by[l]])
             /\ q[l].key = s[by[l]].key
             /\ q[l].metrics = s[by[l]].metrics
  <2>1. CASE l \in L
    <3>1. \A m \in M : m < l => by[m] < by[l]
      BY <1>1, <1>2, <1>4, <2>1
    <3> QED
      BY <1>1, <1>4, <2>1, <3>1
  <2>2. CASE l = k + 1
    <3>1. \A m \in M : m < l => by[m] < by[l]
      BY <1>2, <1>4, <1>5, <2>2
    <3> QED
      BY <1>4, <2>2, <3>1
  <2> QED
    BY <2>1, <2>2
<1>7. \E f \in [M -> 1..(n + 1)] :
        \A l \in M :
          /\ \A m \in M : m < l => f[m] < f[l]
          /\ ~Expired(s[f[l]])
          /\ q[l].key = s[f[l]].key
          /\ q[l].metrics = s[f[l]].metrics
  BY <1>3, <1>6
<1> QED
  BY <1>7 DEF Ordered

\* Dropping the first record of what is left.
LEMMA RestDropped ==
  ASSUME NEW u \in Seq(Record), NEW s \in Seq(Record), NEW e, u # <<>>, Rest(u, s, e)
  PROVE  /\ Rest(Tail(u), s, e) /\ Len(Tail(u)) = Len(u) - 1
         /\ Len(s) - Len(Tail(u)) = (Len(s) - Len(u)) + 1
         /\ Len(s) - Len(u) \in Nat /\ (Len(s) - Len(u)) + 1 \in 1..Len(s)
         /\ Head(u).key = s[(Len(s) - Len(u)) + 1].key
         /\ Head(u).metrics = s[(Len(s) - Len(u)) + 1].metrics
         /\ Head(u).age = Aged(s[(Len(s) - Len(u)) + 1].age, e)
<1> DEFINE v == Tail(u)
<1>1. /\ Len(u) \in Nat /\ Len(s) \in Nat /\ Len(u) >= 1 /\ Head(u) = u[1]
      /\ Len(v) = Len(u) - 1 /\ \A i \in 1..(Len(u) - 1) : v[i] = u[i + 1]
  OBVIOUS
<1>2. /\ Len(u) <= Len(s)
      /\ \A i \in 1..Len(u) :
           /\ u[i].key = s[(Len(s) - Len(u)) + i].key
           /\ u[i].metrics = s[(Len(s) - Len(u)) + i].metrics
           /\ u[i].age = Aged(s[(Len(s) - Len(u)) + i].age, e)
  BY DEF Rest
<1> HIDE DEF v
<1>3. Len(v) <= Len(s) /\ Len(s) - Len(v) = (Len(s) - Len(u)) + 1
  BY <1>1, <1>2
<1>4. Len(s) - Len(u) \in Nat /\ (Len(s) - Len(u)) + 1 \in 1..Len(s) /\ 1 \in 1..Len(u)
  BY <1>1, <1>2
<1>5. ASSUME NEW i \in 1..Len(v)
      PROVE  /\ v[i].key = s[(Len(s) - Len(v)) + i].key
             /\ v[i].metrics = s[(Len(s) - Len(v)) + i].metrics
             /\ v[i].age = Aged(s[(Len(s) - Len(v)) + i].age, e)
  <2>1. i + 1 \in 1..Len(u) /\ i \in 1..(Len(u) - 1)
        /\ (Len(s) - Len(v)) + i = (Len(s) - Len(u)) + (i + 1)
    BY <1>1, <1>3
  <2>2. v[i] = u[i + 1]
    BY <1>1, <2>1
  <2> QED
    BY <1>2, <2>1, <2>2
<1>6. Rest(v, s, e)
  BY <1>3, <1>5 DEF Rest
<1> QED
  BY <1>1, <1>2, <1>3, <1>4, <1>6 DEF v

\* Ages grow alike.
LEMMA LaterAged ==
  ASSUME NEW a \in Ages, NEW e \in Ages
  PROVE  /\ Later(Aged(a, e)) = Aged(a, Later(e)) /\ Later(e) \in Ages
         /\ a + e > RecordTimeout => a + Later(e) > RecordTimeout
         /\ Aged(a, 0) = a
         /\ Aged(a, e) > RecordTimeout <=> a + e > RecordTimeout
         /\ a > RecordTimeout => a + e > RecordTimeout
BY ImdbAssumption DEF Later, Aged, Ages


-----------------------------------------------------------------------------
\* A table and its history are sequences of records.
LEMMA TableTypes ==
  ASSUME Inv, NEW t \in Tables
  PROVE  /\ table[t] \in Seq(Record) /\ start[t] \in Seq(Record)
         /\ Len(table[t]) \in Nat /\ Len(start[t]) \in Nat
         /\ \A i \in 1..Len(table[t]) : table[t][i] \in Record
         /\ \A i \in 1..Len(start[t]) : start[t][i] \in Record /\ start[t][i].age \in Ages
<1>1. table[t] \in Seq(Record) /\ start[t] \in Seq(Record)
  BY DEF Inv, TypeOK
<1>2. /\ Len(table[t]) \in Nat /\ Len(start[t]) \in Nat
      /\ \A i \in 1..Len(table[t]) : table[t][i] \in Record
      /\ \A i \in 1..Len(start[t]) : start[t][i] \in Record
  BY <1>1
<1>3. \A i \in 1..Len(start[t]) : start[t][i].age \in Ages
  BY <1>2 DEF Record
<1> QED
  BY <1>1, <1>2, <1>3

\* A scrape begins with all records left and no lines.
LEMMA BeginScraped ==
  ASSUME Inv, ScrapeBegin
  PROVE  Scraped'
<1>1. /\ sPc' = "table" /\ sTbl' = 1 /\ page' = <<>> /\ start' = table /\ elapsed' = 0
      /\ table' = table
  BY DEF ScrapeBegin
<1>2. ASSUME NEW t \in Tables PROVE Printed(t)' /\ Reached(t)'
  <2>1. /\ table[t] \in Seq(Record) /\ Len(table[t]) \in Nat
        /\ \A i \in 1..Len(table[t]) : table[t][i] \in Record
    BY TableTypes
  <2>2. Gone(t)' = 0
    BY <1>1, <2>1 DEF Gone
  <2>3. Lines(page', t) = {}
    BY <1>1 DEF Lines
  <2>4. Rest(table[t], table[t], 0)
    <3>1. ASSUME NEW i \in 1..Len(table[t])
          PROVE  /\ (Len(table[t]) - Len(table[t])) + i = i
                 /\ table[t][i].age = Aged(table[t][i].age, 0)
      <4>1. table[t][i].age \in Ages /\ 0 \in Ages
        BY <2>1, ImdbAssumption DEF Record, Ages
      <4>2. Aged(table[t][i].age, 0) = table[t][i].age
        BY <4>1, LaterAged
      <4> QED
        BY <2>1, <4>2
    <3> QED
      BY <2>1, <3>1 DEF Rest
  <2>5. Ordered({}, page', table[t], 0)
    <3>1. [l \in {} |-> 0] \in [{} -> 1..0]
      OBVIOUS
    <3> QED
      BY <3>1 DEF Ordered
  <2>6. Covered({}, page', table[t], 0, 0)
    BY DEF Covered
  <2>7. Printed(t)'
    BY <1>1, <2>2, <2>3, <2>4, <2>5, <2>6 DEF Printed
  <2>8. t \in Nat /\ ~(t < 1)
    BY DEF Tables
  <2>9. Reached(t)'
    BY <1>1, <2>3, <2>8 DEF Reached
  <2> QED
    BY <2>7, <2>9
<1> QED
  BY <1>2 DEF Scraped

\* Steps of the scrape that only change where it is.
LEMMA PrintedStays ==
  ASSUME NEW t \in Tables, Printed(t), UNCHANGED <<table, page, start, elapsed>>
  PROVE  Printed(t)'
BY DEF Printed, Gone

LEMMA MoveScraped ==
  ASSUME Inv, Scraped, ScrapeEmptyTable \/ ScrapeTable \/ ScrapeTableEnd
  PROVE  Scraped'
<1>1. UNCHANGED <<table, page, start, elapsed>> /\ sPc \in {"table", "record"}
  BY DEF ScrapeEmptyTable, ScrapeTable, ScrapeTableEnd, AtTableEnd
<1>2. sTbl \in Tables
  BY DEF ScrapeEmptyTable, ScrapeTable, ScrapeTableEnd, AtTableEnd, Inv, TypeOK
<1>3. ASSUME NEW t \in Tables PROVE Printed(t)' /\ Reached(t)'
  <2>1. Printed(t) /\ Reached(t)
    BY <1>1 DEF Scraped
  <2>2. Printed(t)'
    BY <1>1, <2>1, PrintedStays
  <2>3. t \in Nat /\ sTbl \in Nat
    BY <1>2 DEF Tables
  <2>4. CASE ScrapeEmptyTable
    <3>1. sPc = "table" /\ sPc' = "table" /\ sTbl' = sTbl + 1 /\ table[sTbl] = <<>>
      BY <2>4 DEF ScrapeEmptyTable
    <3>2. /\ t > sTbl + 1 \/ t = sTbl + 1 => t > sTbl
          /\ t < sTbl + 1 => t < sTbl \/ t = sTbl
      BY <2>3
    <3> QED
      BY <1>1, <2>1, <2>2, <3>1, <3>2 DEF Reached
  <2>5. CASE ScrapeTable
    <3>1. sPc = "table" /\ sPc' = "record" /\ sTbl' = sTbl /\ sIdx' = 0
      BY <2>5 DEF ScrapeTable
    <3>2. t = sTbl => Cardinality(Lines(page, t)) = 0
      BY <2>1, <3>1, FS_EmptySet DEF Reached
    <3> QED
      BY <1>1, <2>1, <2>2, <3>1, <3>2 DEF Reached
  <2>6. CASE ScrapeTableEnd
    <3>1. /\ sPc = "record" /\ sPc' = "table" /\ sTbl' = sTbl + 1
          /\ table[sTbl] = <<>> \/ sIdx >= PeriodRecords
      BY <2>6 DEF ScrapeTableEnd, AtTableEnd
    <3>2. /\ t > sTbl + 1 \/ t = sTbl + 1 => t > sTbl
          /\ t < sTbl + 1 => t < sTbl \/ t = sTbl
      BY <2>3
    <3>3. sIdx >= PeriodRecords => sIdx = PeriodRecords
      BY ImdbAssumption DEF Inv, TypeOK
    <3> QED
      BY <1>1, <2>1, <2>2, <3>1, <3>2, <3>3 DEF Reached
  <2> QED
    BY <2>4, <2>5, <2>6
<1> QED
  BY <1>3 DEF Scraped

\* The other tables when the scrape deletes a record of its own.
LEMMA OthersStay ==
  ASSUME Inv, Scraped, AtRecord, DropHead, UNCHANGED <<start, elapsed, sPc, sTbl>>,
         NEW t \in Tables, t # sTbl,
         Lines(page', t) = Lines(page, t), \A l \in Lines(page, t) : page'[l] = page[l]
  PROVE  Printed(t)' /\ Reached(t)'
<1>1. Printed(t) /\ Reached(t)
  BY DEF Scraped, AtRecord
<1>2. table'[t] = table[t]
  BY DEF Inv, TypeOK, DropHead
<1>3. Gone(t)' = Gone(t)
  BY <1>2 DEF Gone
<1>4. Ordered(Lines(page, t), page', start[t], Gone(t))
  BY <1>1 DEF Printed, Ordered
<1>5. Covered(Lines(page, t), page', start[t], Gone(t), elapsed)
  BY <1>1 DEF Printed, Covered
<1>6. Printed(t)'
  BY <1>1, <1>2, <1>3, <1>4, <1>5 DEF Printed
<1>7. Reached(t)'
  BY <1>1, <1>2 DEF Reached
<1> QED
  BY <1>6, <1>7

\* The facts about the record that the scrape is at.
LEMMA RecordAt ==
  ASSUME Inv, Scraped, AtRecord, DropHead
  PROVE  /\ sTbl \in Tables /\ Printed(sTbl) /\ Reached(sTbl) /\ Gone(sTbl) \in Nat
         /\ table'[sTbl] = Tail(table[sTbl])
         /\ Rest(Tail(table[sTbl]), start[sTbl], elapsed)
         /\ Len(start[sTbl]) - Len(Tail(table[sTbl])) = Gone(sTbl) + 1
         /\ Gone(sTbl) + 1 \in 1..Len(start[sTbl])
         /\ Head(table[sTbl]) \in Record /\ start[sTbl][Gone(sTbl) + 1] \in Record
         /\ Head(table[sTbl]).key = start[sTbl][Gone(sTbl) + 1].key
         /\ Head(table[sTbl]).metrics = start[sTbl][Gone(sTbl) + 1].metrics
         /\ Expired(Head(table[sTbl])) <=> start[sTbl][Gone(sTbl) + 1].age + elapsed > RecordTimeout
         /\ ~Expired(Head(table[sTbl])) => ~Expired(start[sTbl][Gone(sTbl) + 1])
<1> DEFINE u == table[sTbl]
           s == start[sTbl]
<1>1. sTbl \in Tables /\ u # <<>> /\ sPc = "record"
  BY DEF AtRecord, Inv, TypeOK
<1>2. Printed(sTbl) /\ Reached(sTbl)
  BY <1>1 DEF Scraped
<1>3. u \in Seq(Record) /\ s \in Seq(Record) /\ \A i \in 1..Len(s) : s[i] \in Record /\ s[i].age \in Ages
  BY <1>1, TableTypes
<1>4. table'[sTbl] = Tail(u)
  BY <1>1 DEF DropHead, Inv, TypeOK
<1>5. Rest(u, s, elapsed)
  BY <1>2 DEF Printed
<1>6. Gone(sTbl) = Len(s) - Len(u)
  BY DEF Gone
<1>7. Head(u) \in Record
  BY <1>1, <1>3
<1> HIDE DEF u, s
<1>8. /\ Rest(Tail(u), s, elapsed)
      /\ Len(s) - Len(Tail(u)) = (Len(s) - Len(u)) + 1
      /\ Len(s) - Len(u) \in Nat /\ (Len(s) - Len(u)) + 1 \in 1..Len(s)
      /\ Head(u).key = s[(Len(s) - Len(u)) + 1].key
      /\ Head(u).metrics = s[(Len(s) - Len(u)) + 1].metrics
      /\ Head(u).age = Aged(s[(Len(s) - Len(u)) + 1].age, elapsed)
  BY <1>1, <1>3, <1>5, RestDropped
<1>9. PICK n \in Nat : n = Gone(sTbl)
  BY <1>6, <1>8
<1>10. /\ n + 1 \in 1..Len(s) /\ s[n + 1] \in Record /\ s[n + 1].age \in Ages
       /\ Head(u).age = Aged(s[n + 1].age, elapsed)
  BY <1>3, <1>6, <1>8, <1>9
<1>11. elapsed \in Ages
  BY DEF Inv, TypeOK
<1>12. /\ Aged(s[n + 1].age, elapsed) > RecordTimeout <=> s[n + 1].age + elapsed > RecordTimeout
       /\ s[n + 1].age > RecordTimeout => s[n + 1].age + elapsed > RecordTimeout
  BY <1>10, <1>11, LaterAged
<1>13. /\ Expired(Head(u)) <=> s[n + 1].age + elapsed > RecordTimeout
       /\ ~Expired(Head(u)) => ~Expired(s[n + 1])
  BY <1>10, <1>12 DEF Expired
<1> QED
  BY <1>1, <1>2, <1>4, <1>6, <1>7, <1>8, <1>9, <1>10, <1>13 DEF u, s


\* An expired record is deleted and gets no line.
LEMMA ExpiredScraped ==
  ASSUME Inv, Scraped, ScrapeExpired
  PROVE  Scraped'
<1>1. AtRecord /\ DropHead /\ UNCHANGED <<sPc, sTbl, sIdx, page, start, elapsed>>
      /\ Expired(Head(table[sTbl]))
  BY DEF ScrapeExpired, scrapeVars
<1> DEFINE s == start[sTbl]
           L == Lines(page, sTbl)
<1>2. /\ sTbl \in Tables /\ Printed(sTbl) /\ Reached(sTbl) /\ Gone(sTbl) \in Nat
      /\ table'[sTbl] = Tail(table[sTbl])
      /\ Rest(Tail(table[sTbl]), s, elapsed)
      /\ Len(s) - Len(Tail(table[sTbl])) = Gone(sTbl) + 1
      /\ s[Gone(sTbl) + 1].age + elapsed > RecordTimeout
  BY <1>1, RecordAt
<1>3. PICK n \in Nat : n = Gone(sTbl)
  BY <1>2
<1>4. Gone(sTbl)' = n + 1
  BY <1>1, <1>2, <1>3 DEF Gone
<1>5. Ordered(L, page, s, n) /\ Covered(L, page, s, n, elapsed)
  BY <1>2, <1>3 DEF Printed
<1>6. Ordered(L, page, s, n + 1)
  BY <1>5, OrderedGrows
<1>7. Covered(L, page, s, n + 1, elapsed)
  <2>1. \A i \in 1..(n + 1) : i \in 1..n \/ i = n + 1
    OBVIOUS
  <2> QED
    BY <1>2, <1>3, <1>5, <2>1 DEF Covered
<1>8. Printed(sTbl)'
  BY <1>1, <1>2, <1>4, <1>6, <1>7 DEF Printed
<1>9. sPc = "record"
  BY <1>1 DEF AtRecord
<1>10. Reached(sTbl)'
  <2>1. sTbl \in Nat /\ ~(sTbl < sTbl) /\ ~(sTbl > sTbl)
    BY <1>2 DEF Tables
  <2> QED
    BY <1>1, <1>2, <1>9, <2>1 DEF Reached
<1>11. ASSUME NEW t \in Tables PROVE Printed(t)' /\ Reached(t)'
  <2>1. CASE t = sTbl
    BY <1>1, <1>8, <1>10, <2>1
  <2>2. CASE t # sTbl
    BY <1>1, <2>2, OthersStay
  <2> QED
    BY <2>1, <2>2
<1> QED
  BY <1>11 DEF Scraped

\* A record that has not expired is deleted and gets the next line.
LEMMA RecordScraped ==
  ASSUME Inv, Scraped, ScrapeRecord
  PROVE  Scraped'
<1>1. /\ AtRecord /\ DropHead /\ UNCHANGED <<sPc, sTbl, start, elapsed>> /\ sIdx' = sIdx + 1
      /\ ~Expired(Head(table[sTbl]))
  BY DEF ScrapeRecord
<1> DEFINE r == Head(table[sTbl])
           s == start[sTbl]
           L == Lines(page, sTbl)
<1>2. /\ sTbl \in Tables /\ Printed(sTbl) /\ Reached(sTbl) /\ Gone(sTbl) \in Nat
      /\ table'[sTbl] = Tail(table[sTbl])
      /\ Rest(Tail(table[sTbl]), s, elapsed)
      /\ Len(s) - Len(Tail(table[sTbl])) = Gone(sTbl) + 1
      /\ r \in Record /\ r.key = s[Gone(sTbl) + 1].key /\ r.metrics = s[Gone(sTbl) + 1].metrics
      /\ ~Expired(s[Gone(sTbl) + 1])
  BY <1>1, RecordAt
<1>3. PICK n \in Nat : n = Gone(sTbl)
  BY <1>2
<1>4. PICK x \in Line :
        page' = Append(page, x) /\ x.tbl = sTbl /\ x.key = r.key /\ x.metrics = r.metrics
  <2>1. PICK k \in 1..Len(r.metrics) :
          page' = Append(page, [tbl |-> sTbl, key |-> r.key, printed |-> k, metrics |-> r.metrics])
    BY DEF ScrapeRecord
  <2>2. r.metrics \in Lists /\ r.key \in Keys
    BY <1>2 DEF Record
  <2> HIDE DEF r
  <2>3. k \in Nat
    BY <2>2
  <2>4. [tbl |-> sTbl, key |-> r.key, printed |-> k, metrics |-> r.metrics] \in Line
    BY <1>2, <2>2, <2>3 DEF Line
  <2> QED
    BY <2>1, <2>4
<1> HIDE DEF r
<1>5. page \in Seq(Line)
  BY DEF Inv, TypeOK
<1>6. PICK k \in Nat : k = Len(page)
  BY <1>5
<1>7. /\ L \subseteq 1..k /\ IsFiniteSet(L)
      /\ Lines(page', sTbl) = L \union {k + 1}
      /\ (\A l \in L : page'[l] = page[l]) /\ page'[k + 1] = x
  <2>0. page' = Append(page, x)
    BY <1>4
  <2>1. PICK q : q = page'
    OBVIOUS
  <2>2. q = Append(page, x)
    BY <2>0, <2>1
  <2>3. /\ Len(page) \in Nat /\ Lines(page, sTbl) \subseteq 1..Len(page)
        /\ IsFiniteSet(Lines(page, sTbl))
        /\ Lines(q, sTbl) = IF x.tbl = sTbl THEN Lines(page, sTbl) \union {Len(page) + 1}
                            ELSE Lines(page, sTbl)
        /\ (\A l \in Lines(page, sTbl) : q[l] = page[l]) /\ q[Len(page) + 1] = x
    <3>1. Added(page, x, q, sTbl)
      BY <1>5, <2>2, LineAdded
    <3> QED
      BY <3>1 DEF Added
  <2> QED
    BY <1>4, <1>6, <2>1, <2>3
<1>8. Gone(sTbl)' = n + 1
  BY <1>1, <1>2, <1>3 DEF Gone
<1>9. Ordered(L, page, s, n) /\ Covered(L, page, s, n, elapsed)
  BY <1>2, <1>3 DEF Printed
<1>10. Ordered(L \union {k + 1}, page', s, n + 1)
  <2>1. /\ page'[k + 1].key = s[n + 1].key /\ page'[k + 1].metrics = s[n + 1].metrics
        /\ ~Expired(s[n + 1])
    BY <1>2, <1>3, <1>4, <1>7
  <2> HIDE DEF s, L
  <2> QED
    BY <1>7, <1>9, <2>1, OrderedAdded
<1>11. Covered(L \union {k + 1}, page', s, n + 1, elapsed)
  <2>1. \A i \in 1..(n + 1) : i \in 1..n \/ i = n + 1
    OBVIOUS
  <2>2. page'[k + 1].key = s[n + 1].key
    BY <1>2, <1>3, <1>4, <1>7
  <2> QED
    BY <1>7, <1>9, <2>1, <2>2 DEF Covered
<1>12. Printed(sTbl)'
  BY <1>1, <1>2, <1>7, <1>8, <1>10, <1>11 DEF Printed
<1>13. sPc = "record"
  BY <1>1 DEF AtRecord
<1>14. Reached(sTbl)'
  <2>1. sTbl \in Nat /\ ~(sTbl < sTbl) /\ ~(sTbl > sTbl)
    BY <1>2 DEF Tables
  <2>2. Cardinality(L) = sIdx
    BY <1>2, <1>13 DEF Reached
  <2>3. k + 1 \notin L
    BY <1>7
  <2>4. Cardinality(L \union {k + 1}) = sIdx + 1
    BY <1>7, <2>2, <2>3, FS_AddElement
  <2> QED
    BY <1>1, <1>7, <1>13, <2>1, <2>4 DEF Reached
<1>15. ASSUME NEW t \in Tables PROVE Printed(t)' /\ Reached(t)'
  <2>1. CASE t = sTbl
    BY <1>1, <1>12, <1>14, <2>1
  <2>2. CASE t # sTbl
    <3>1. Lines(page', t) = Lines(page, t) /\ \A l \in Lines(page, t) : page'[l] = page[l]
      <4>0. page' = Append(page, x)
        BY <1>4
      <4>1. PICK q : q = page'
        OBVIOUS
      <4>2. q = Append(page, x)
        BY <4>0, <4>1
      <4>3. /\ Lines(q, t) = IF x.tbl = t THEN Lines(page, t) \union {Len(page) + 1}
                             ELSE Lines(page, t)
            /\ (\A l \in Lines(page, t) : q[l] = page[l])
        <5>1. Added(page, x, q, t)
          BY <1>5, <4>2, LineAdded
        <5> QED
          BY <5>1 DEF Added
      <4> QED
        BY <1>4, <2>2, <4>1, <4>3
    <3> QED
      BY <1>1, <2>2, <3>1, OthersStay
  <2> QED
    BY <2>1, <2>2
<1> QED
  BY <1>15 DEF Scraped

\* A second passes during the scrape.
LEMMA TickScraped ==
  ASSUME Inv, Scraped, Tick
  PROVE  Scraped'
<1> SUFFICES ASSUME sPc \in {"table", "record"}, NEW t \in Tables PROVE Printed(t)' /\ Reached(t)'
  BY DEF Scraped, Tick
<1>1. /\ UNCHANGED <<sPc, sTbl, sIdx, page, start>> /\ elapsed' = Later(elapsed)
      /\ table'[t] = [i \in DOMAIN table[t] |-> Older(table[t][i])]
  BY DEF Tick
<1>2. Printed(t) /\ Reached(t)
  BY DEF Scraped
<1> DEFINE u == table[t]
           s == start[t]
           v == [i \in DOMAIN u |-> Older(u[i])]
<1>3. /\ u \in Seq(Record) /\ s \in Seq(Record) /\ Len(u) \in Nat /\ Len(s) \in Nat
      /\ \A i \in 1..Len(u) : u[i] \in Record
      /\ \A i \in 1..Len(s) : s[i] \in Record /\ s[i].age \in Ages
  BY TableTypes
<1>4. /\ Rest(u, s, elapsed) /\ Gone(t) = Len(s) - Len(u) /\ Gone(t)' = Len(s) - Len(table'[t])
      /\ Ordered(Lines(page, t), page, s, Gone(t))
      /\ Covered(Lines(page, t), page, s, Gone(t), elapsed)
  BY <1>1, <1>2 DEF Printed, Gone
<1>5. table'[t] = v
  BY <1>1
<1>6. elapsed \in Ages /\ Later(elapsed) \in Ages
  <2>1. elapsed \in Ages
    BY DEF Inv, TypeOK
  <2> QED
    BY <2>1, LaterAged
<1> HIDE DEF u, s
<1>7. Len(v) = Len(u) /\ \A i \in 1..Len(u) : v[i] = Older(u[i])
  <2>1. DOMAIN u = 1..Len(u)
    BY <1>3
  <2>2. v \in [1..Len(u) -> {Older(u[i]) : i \in 1..Len(u)}]
    BY <2>1
  <2>3. v \in Seq({Older(u[i]) : i \in 1..Len(u)}) /\ Len(v) = Len(u)
    BY <1>3, <2>2
  <2> QED
    BY <2>1, <2>3
<1>8. \A i \in 1..Len(u) :
        v[i].key = u[i].key /\ v[i].metrics = u[i].metrics /\ v[i].age = Later(u[i].age)
  BY <1>3, <1>7 DEF Older, Record
<1> HIDE DEF v
<1>9. Rest(v, s, Later(elapsed))
  <2>1. /\ Len(u) <= Len(s)
        /\ \A i \in 1..Len(u) :
             /\ u[i].key = s[(Len(s) - Len(u)) + i].key
             /\ u[i].metrics = s[(Len(s) - Len(u)) + i].metrics
             /\ u[i].age = Aged(s[(Len(s) - Len(u)) + i].age, elapsed)
    BY <1>4 DEF Rest
  <2>2. ASSUME NEW i \in 1..Len(u)
        PROVE  Later(u[i].age) = Aged(s[(Len(s) - Len(u)) + i].age, Later(elapsed))
    <3>1. (Len(s) - Len(u)) + i \in 1..Len(s)
      BY <1>3, <2>1
    <3>2. s[(Len(s) - Len(u)) + i].age \in Ages
      BY <1>3, <3>1
    <3> QED
      BY <1>6, <2>1, <3>2, LaterAged
  <2> QED
    BY <1>7, <1>8, <2>1, <2>2 DEF Rest
<1>10. Gone(t)' = Gone(t)
  BY <1>4, <1>5, <1>7
<1>11. Covered(Lines(page, t), page, s, Gone(t), Later(elapsed))
  <2> SUFFICES ASSUME NEW i \in 1..Gone(t), s[i].age + elapsed > RecordTimeout
               PROVE  s[i].age + Later(elapsed) > RecordTimeout
    BY <1>4 DEF Covered
  <2>1. i \in 1..Len(s)
    BY <1>3, <1>4
  <2>2. s[i].age \in Ages
    BY <1>3, <2>1
  <2> QED
    BY <1>6, <2>2, LaterAged
<1>12. Printed(t)'
  BY <1>1, <1>4, <1>5, <1>9, <1>10, <1>11 DEF Printed, s
<1>13. table[t] = <<>> => table'[t] = <<>>
  <2> SUFFICES ASSUME u = <<>> PROVE v = <<>>
    BY <1>5 DEF u
  <2> QED
    BY DEF v
<1>14. Reached(t)'
  BY <1>1, <1>2, <1>13 DEF Reached
<1> QED
  BY <1>12, <1>14

\* The page when the scrape is done.
LEMMA DonePage ==
  ASSUME Inv, Scraped, ScrapeDone
  PROVE  PageIsWhatWasStored'
<1>1. sPc = "table" /\ sTbl > NumTables /\ UNCHANGED <<table, page, start, elapsed>>
  BY DEF ScrapeDone
<1> SUFFICES ASSUME NEW t \in Tables
             PROVE  /\ \E at \in [LinesOf(t)' -> DOMAIN start'[t]] :
                         \A l \in LinesOf(t)' :
                           /\ \A m \in LinesOf(t)' : m < l => at[m] < at[l]
                           /\ ~Expired(start'[t][at[l]])
                           /\ page'[l].key = start'[t][at[l]].key
                           /\ page'[l].metrics = start'[t][at[l]].metrics
                    /\ \A i \in DOMAIN start'[t] :
                         \/ \E l \in LinesOf(t)' : page'[l].key = start'[t][i].key
                         \/ start'[t][i].age + elapsed' > RecordTimeout
                         \/ Cardinality(LinesOf(t)') = PeriodRecords
  BY DEF PageIsWhatWasStored
<1> DEFINE L == Lines(page, t)
           s == start[t]
<1>2. LinesOf(t)' = L
  BY <1>1 DEF LinesOf, Lines
<1>3. Printed(t) /\ Reached(t)
  BY <1>1 DEF Scraped
<1>4. /\ s \in Seq(Record) /\ Len(table[t]) \in Nat /\ Len(s) \in Nat /\ DOMAIN s = 1..Len(s)
      /\ Gone(t) = Len(s) - Len(table[t])
  <2>1. s \in Seq(Record) /\ Len(table[t]) \in Nat /\ Len(s) \in Nat
    BY TableTypes
  <2> QED
    BY <2>1 DEF Gone
<1>5. Len(table[t]) <= Len(s) /\ Ordered(L, page, s, Gone(t)) /\ Covered(L, page, s, Gone(t), elapsed)
  BY <1>3 DEF Printed, Rest
<1>6. Ordered(L, page, s, Len(s))
  <2>1. PICK a \in Nat, b \in Nat : a = Len(s) /\ b = Len(table[t])
    BY <1>4
  <2>2. Gone(t) = a - b /\ b <= a
    BY <1>4, <1>5, <2>1
  <2>3. b <= a
    BY <2>2
  <2>4. a - b \in Nat /\ a - b <= a
    BY <2>3
  <2>5. Gone(t) \in Nat /\ Gone(t) <= Len(s)
    BY <2>1, <2>2, <2>4
  <2> QED
    BY <1>4, <1>5, <2>5, OrderedGrows
<1>7. t < sTbl
  BY <1>1, ImdbAssumption DEF Tables, Inv, TypeOK
<1>8. table[t] = <<>> \/ Cardinality(L) = PeriodRecords
  BY <1>3, <1>7 DEF Reached
<1>9. table[t] = <<>> => Covered(L, page, s, Len(s), elapsed)
  <2> SUFFICES ASSUME table[t] = <<>> PROVE Gone(t) = Len(s)
    BY <1>5
  <2> QED
    BY <1>4
<1> HIDE DEF L, s
<1>10. \E at \in [L -> DOMAIN s] :
         \A l \in L :
           /\ \A m \in L : m < l => at[m] < at[l]
           /\ ~Expired(s[at[l]])
           /\ page[l].key = s[at[l]].key
           /\ page[l].metrics = s[at[l]].metrics
  BY <1>4, <1>6 DEF Ordered
<1>11. \A i \in DOMAIN s :
         \/ \E l \in L : page[l].key = s[i].key
         \/ s[i].age + elapsed > RecordTimeout
         \/ Cardinality(L) = PeriodRecords
  BY <1>4, <1>8, <1>9 DEF Covered
<1> QED
  BY <1>1, <1>2, <1>10, <1>11 DEF s

\* A page stays true while it is sent, though time passes.
LEMMA TickPage ==
  ASSUME Inv, PageIsWhatWasStored, Tick
  PROVE  PageIsWhatWasStored'
<1>1. UNCHANGED <<sPc, page, start>> /\ (sPc = "reply" => elapsed' = Later(elapsed))
  BY DEF Tick
<1>2. \A t : LinesOf(t)' = LinesOf(t)
  BY <1>1 DEF LinesOf
<1>3. ASSUME NEW t \in Tables, NEW i \in DOMAIN start[t], start[t][i].age + elapsed > RecordTimeout
      PROVE  start[t][i].age + Later(elapsed) > RecordTimeout
  <2>1. start[t] \in Seq(Record) /\ \A j \in 1..Len(start[t]) : start[t][j].age \in Ages
    BY TableTypes
  <2>2. start[t][i].age \in Ages /\ elapsed \in Ages
    BY <2>1 DEF Inv, TypeOK
  <2> QED
    BY <1>3, <2>2, LaterAged
<1> QED
  BY <1>1, <1>2, <1>3 DEF PageIsWhatWasStored

\* Every step keeps what the scrape knows, and the page that is sent.
LEMMA NextPage ==
  Inv /\ Scraped /\ PageIsWhatWasStored /\ [Next]_vars => Scraped' /\ PageIsWhatWasStored'
<1> SUFFICES ASSUME Inv, Scraped, PageIsWhatWasStored, [Next]_vars
             PROVE  Scraped' /\ PageIsWhatWasStored'
  OBVIOUS
<1>1. ASSUME Insert PROVE UNCHANGED scrapeVars /\ sPc \notin {"table", "record"}
  BY <1>1 DEF Insert, CreateRec, CreateRecFull, Unlocked
<1>2. ASSUME UNCHANGED <<sPc, page, start, elapsed>> PROVE PageIsWhatWasStored'
  <2>1. \A t : LinesOf(t)' = LinesOf(t)
    BY <1>2 DEF LinesOf
  <2> QED
    BY <1>2, <2>1 DEF PageIsWhatWasStored
<1>3. ASSUME sPc' # "reply" PROVE PageIsWhatWasStored'
  BY <1>3 DEF PageIsWhatWasStored
<1>4. ASSUME sPc' \notin {"table", "record"} PROVE Scraped'
  BY <1>4 DEF Scraped
<1>5. CASE Insert
  BY <1>1, <1>2, <1>4, <1>5 DEF scrapeVars
<1>6. ASSUME UNCHANGED <<table, scrapeVars>> PROVE Scraped' /\ PageIsWhatWasStored'
  <2>1. Scraped'
    BY <1>6 DEF Scraped, Printed, Reached, Gone, scrapeVars
  <2> QED
    BY <1>2, <1>6, <2>1 DEF scrapeVars
<1>7. CASE Rec2Json
  BY <1>6, <1>7 DEF Rec2Json
<1>8. CASE ScrapeBegin
  BY <1>3, <1>8, BeginScraped DEF ScrapeBegin
<1>9. CASE ScrapeEmptyTable \/ ScrapeTable \/ ScrapeTableEnd
  <2>1. sPc' # "reply"
    BY <1>9 DEF ScrapeEmptyTable, ScrapeTable, ScrapeTableEnd
  <2> QED
    BY <1>3, <1>9, <2>1, MoveScraped
<1>10. CASE ScrapeExpired
  <2>1. sPc' # "reply"
    BY <1>10 DEF ScrapeExpired, AtRecord, scrapeVars
  <2> QED
    BY <1>3, <1>10, <2>1, ExpiredScraped
<1>11. CASE ScrapeRecord
  <2>1. sPc' # "reply"
    BY <1>11 DEF ScrapeRecord, AtRecord
  <2> QED
    BY <1>3, <1>11, <2>1, RecordScraped
<1>12. CASE ScrapeRecordFails \/ ScrapeTableFails \/ WebRequestEnd
  <2>1. sPc' \notin {"table", "record", "reply"}
    BY <1>12 DEF ScrapeRecordFails, ScrapeTableFails, WebRequestEnd
  <2> QED
    BY <1>3, <1>4, <2>1
<1>13. CASE ScrapeDone
  BY <1>4, <1>13, DonePage DEF ScrapeDone
<1>14. CASE Tick
  BY <1>14, TickScraped, TickPage
<1>15. CASE UNCHANGED vars
  BY <1>6, <1>15 DEF vars
<1> QED
  BY <1>5, <1>7, <1>8, <1>9, <1>10, <1>11, <1>12, <1>13, <1>14, <1>15 DEF Next, WebRequest

(***************************************************************************)
(* For any number of tables and records: a page that is sent holds the     *)
(* records that were stored when the request came, in their order, none    *)
(* twice and none that had expired, and leaves out only what expired since *)
(* and what comes after PeriodRecords others.                              *)
(***************************************************************************)
THEOREM PageHoldsWhatWasStored == Spec => []PageIsWhatWasStored
<1>1. Init => Scraped /\ PageIsWhatWasStored
  BY DEF Init, Scraped, PageIsWhatWasStored
<1> QED
  BY <1>1, InitInv, NextInv, NextPage, PTL DEF Spec

=============================================================================
