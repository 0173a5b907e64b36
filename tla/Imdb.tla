-------------------------------- MODULE Imdb --------------------------------
(***************************************************************************)
(* The in-memory database between the ingress thread, which inserts one    *)
(* record per line, and the web server thread, which turns the records     *)
(* into a page for Prometheus and deletes what it printed.                 *)
(*                                                                         *)
(* The two share mgr->rwlock.  An insert runs under the write lock and is  *)
(* one step.  A scrape runs under the read lock and is one step per record *)
(* so that what the ingress thread does without the lock, and the passing  *)
(* of time, can come in between.                                           *)
(*                                                                         *)
(* A record is its key, its metrics that are exported to Prometheus (none  *)
(* when its labels do not fit the label buffer) and the time since         *)
(* updateTime, counted up to the first value that has expired.  Of each    *)
(* metric there is the number of characters that the record takes on the   *)
(* page up to the end of it: metrics differ in length.                     *)
(***************************************************************************)
EXTENDS Integers, Sequences, FiniteSets, SequencesExt

CONSTANTS
  NumTables,      \* mgr->tablesNum
  Keys,           \* values of the key fields of a record
  Metrics,        \* per key: the lists of exported metrics that its record can have,
                  \* each metric as its end on the page
  Capacity,       \* table->recordsCapability
  PeriodRecords,  \* DEFAULT_PERIOD_RECORD_NUM
  RecordTimeout,  \* g_recordTimeout
  BufLen,         \* MAX_WEBPAGE_BUFFER_SIZE
  KafkaOn,        \* egressMgr->kafkaMgr # NULL
  NULL

ASSUME ImdbAssumption ==
  /\ NumTables \in Nat
  /\ Metrics \in [Keys -> SUBSET Seq(Nat \ {0})]
  /\ \A k \in Keys : \A m \in Metrics[k] : \A i, j \in DOMAIN m : i < j => m[i] < m[j]
  /\ Capacity \in Nat \ {0} /\ PeriodRecords \in Nat \ {0}
  /\ RecordTimeout \in Nat
  /\ BufLen \in Nat \ {0}
  /\ KafkaOn \in BOOLEAN

VARIABLES
  table,   \* per table: its records in the order of insertion
  rec,     \* record the ingress thread still uses after the unlock, or NULL
  sPc,     \* what the web server thread does next
  sTbl,    \* the table it scrapes
  sIdx,    \* records of that table it has printed
  sRoom,   \* characters left in the page
  page,    \* what it has printed: table, key, metrics printed and wanted
  start,   \* history: the tables as they were when the scrape began
  elapsed  \* history: seconds since then, counted like ages

scrapeVars == <<sPc, sTbl, sIdx, sRoom, page, start, elapsed>>
vars == <<table, rec, scrapeVars>>

Tables == 1..NumTables
Ages   == 0..(RecordTimeout + 1)
Lists  == UNION {Metrics[k] : k \in Keys}
Record == [key : Keys, metrics : Lists, age : Ages]
Line   == [tbl : Tables, key : Keys, printed : Nat, metrics : Lists]

Expired(r) == r.age > RecordTimeout

Init ==
  /\ table = [t \in Tables |-> <<>>]
  /\ rec = NULL
  /\ sPc = "idle" /\ sTbl = 1 /\ sIdx = 0 /\ sRoom = BufLen
  /\ page = <<>>
  /\ start = [t \in Tables |-> <<>>] /\ elapsed = 0

-----------------------------------------------------------------------------
(***************************************************************************)
(* The ingress thread.                                                     *)
(***************************************************************************)

\* The scraper does not hold the read lock.
Unlocked == sPc \in {"idle", "reply", "failed"}

\* Mutant of Without: the record that is updated stays.
Without_KeepOld(s, k) == s

\* HASH_findRecord and HASH_deleteRecord of the record with key k, if any.
Without(s, k) ==
  IF \E i \in DOMAIN s : s[i].key = k
  THEN RemoveAt(s, CHOOSE i \in DOMAIN s : s[i].key = k)
  ELSE s

\* Mutant of CreateRec: one record too many.
CreateRec_OffByOne(t, k, m) ==
  /\ Unlocked /\ rec = NULL
  /\ Len(Without(table[t], k)) <= Capacity
  /\ table' = [table EXCEPT ![t] =
                 Append(Without(@, k), [key |-> k, metrics |-> m, age |-> 0])]
  /\ rec' = IF KafkaOn THEN [tbl |-> t, key |-> k] ELSE NULL
  /\ UNCHANGED scrapeVars

\* Mutant of CreateRec: the record is put in front of the others.
CreateRec_InFront(t, k, m) ==
  /\ Unlocked /\ rec = NULL
  /\ Len(Without(table[t], k)) < Capacity
  /\ table' = [table EXCEPT ![t] =
                 <<[key |-> k, metrics |-> m, age |-> 0]>> \o Without(@, k)]
  /\ rec' = IF KafkaOn THEN [tbl |-> t, key |-> k] ELSE NULL
  /\ UNCHANGED scrapeVars

\* A line of table t that parses.  The pointer is used after the unlock when
\* there is a Kafka channel.
CreateRec(t, k, m) ==
  /\ Unlocked /\ rec = NULL
  /\ Len(Without(table[t], k)) < Capacity
  /\ table' = [table EXCEPT ![t] =
                 Append(Without(@, k), [key |-> k, metrics |-> m, age |-> 0])]
  /\ rec' = IF KafkaOn THEN [tbl |-> t, key |-> k] ELSE NULL
  /\ UNCHANGED scrapeVars

\* Mutant of CreateRecFull: the table is counted before the old record goes.
CreateRecFull_CountFirst(t, k) ==
  /\ Unlocked /\ rec = NULL
  /\ Len(table[t]) >= Capacity
  /\ table' = [table EXCEPT ![t] = Without(@, k)]
  /\ UNCHANGED <<rec, scrapeVars>>

\* "table full": the record with the same key is gone already by then.
CreateRecFull(t, k) ==
  /\ Unlocked /\ rec = NULL
  /\ Len(Without(table[t], k)) >= Capacity
  /\ table' = [table EXCEPT ![t] = Without(@, k)]
  /\ UNCHANGED <<rec, scrapeVars>>

\* IMDB_Rec2Json reads the record, outside the lock.
Rec2Json ==
  /\ rec # NULL
  /\ rec' = NULL
  /\ UNCHANGED <<table, scrapeVars>>

-----------------------------------------------------------------------------
(***************************************************************************)
(* The web server thread: one request at a time.                           *)
(***************************************************************************)
ScrapeBegin ==
  /\ sPc = "idle"
  /\ sPc' = "table"
  /\ sTbl' = 1
  /\ sIdx' = 0
  /\ sRoom' = BufLen
  /\ page' = <<>>
  /\ start' = table /\ elapsed' = 0
  /\ UNCHANGED <<table, rec>>

\* An empty table adds nothing, not even the end of line.
ScrapeEmptyTable ==
  /\ sPc = "table"
  /\ sTbl \in Tables
  /\ table[sTbl] = <<>>
  /\ sTbl' = sTbl + 1
  /\ UNCHANGED <<table, rec, sPc, sIdx, sRoom, page, start, elapsed>>

ScrapeTable ==
  /\ sPc = "table"
  /\ sTbl \in Tables
  /\ table[sTbl] # <<>>
  /\ sIdx' = 0
  /\ sPc' = "record"
  /\ UNCHANGED <<table, rec, sTbl, sRoom, page, start, elapsed>>

\* The loop goes on with the first record that is left: each round deletes
\* its record or is the last one.
AtRecord ==
  /\ sPc = "record"
  /\ table[sTbl] # <<>>
  /\ sIdx < PeriodRecords

DropHead == table' = [table EXCEPT ![sTbl] = Tail(@)]

ScrapeExpired ==
  /\ AtRecord
  /\ Expired(Head(table[sTbl]))
  /\ DropHead
  /\ UNCHANGED <<rec, scrapeVars>>

\* The characters of the first k of the metrics m.
Upto(m, k) == IF k = 0 THEN 0 ELSE m[k]

\* Mutant of Fits: a metric that is not exported ends the record.
Fits_AnyPrefix(k, m, room) == Upto(m, k) < room

\* IMDB_Rec2Prometheus prints k of the metrics m: it stops at the first one
\* that does not fit with its terminating NUL.
Fits(k, m, room) ==
  /\ Upto(m, k) < room
  /\ k < Len(m) => Upto(m, k + 1) >= room

\* Mutant of ScrapeRecord: the expiry test is gone.
ScrapeRecord_Stale ==
  /\ AtRecord
  /\ LET r == Head(table[sTbl]) IN
       \E k \in 1..Len(r.metrics) :
         /\ Fits(k, r.metrics, sRoom)
         /\ sRoom' = sRoom - Upto(r.metrics, k)
         /\ page' = Append(page, [tbl |-> sTbl, key |-> r.key,
                                  printed |-> k, metrics |-> r.metrics])
  /\ sIdx' = sIdx + 1
  /\ DropHead
  /\ UNCHANGED <<rec, sPc, sTbl, start, elapsed>>

\* "delete record after to string", also when only a part of it was printed.
ScrapeRecord ==
  /\ AtRecord
  /\ LET r == Head(table[sTbl]) IN
       /\ ~Expired(r)
       /\ \E k \in 1..Len(r.metrics) :
            /\ Fits(k, r.metrics, sRoom)
            /\ sRoom' = sRoom - Upto(r.metrics, k)
            /\ page' = Append(page, [tbl |-> sTbl, key |-> r.key,
                                     printed |-> k, metrics |-> r.metrics])
  /\ sIdx' = sIdx + 1
  /\ DropHead
  /\ UNCHANGED <<rec, sPc, sTbl, start, elapsed>>

\* Nothing of the record could be printed: the whole scrape fails.
ScrapeRecordFails ==
  /\ AtRecord
  /\ LET r == Head(table[sTbl]) IN
       /\ ~Expired(r)
       /\ Fits(0, r.metrics, sRoom)
  /\ sPc' = "failed"
  /\ UNCHANGED <<table, rec, sTbl, sIdx, sRoom, page, start, elapsed>>

\* No record is left, or enough were printed in this period.
AtTableEnd ==
  /\ sPc = "record"
  /\ table[sTbl] = <<>> \/ sIdx >= PeriodRecords

\* The end of line after a table.
ScrapeTableEnd ==
  /\ AtTableEnd
  /\ sRoom' = sRoom - 1
  /\ sRoom' > 0
  /\ sTbl' = sTbl + 1
  /\ sPc' = "table"
  /\ UNCHANGED <<table, rec, sIdx, page, start, elapsed>>

\* ret >= curMaxLen: the end of line took the last character.
ScrapeTableFails ==
  /\ AtTableEnd
  /\ sRoom = 1
  /\ sPc' = "failed"
  /\ UNCHANGED <<table, rec, sTbl, sIdx, sRoom, page, start, elapsed>>

ScrapeDone ==
  /\ sPc = "table"
  /\ sTbl > NumTables
  /\ sPc' = "reply"
  /\ UNCHANGED <<table, rec, sTbl, sIdx, sRoom, page, start, elapsed>>

\* WebRequestCallback returns: with the page queued, or with MHD_NO.
WebRequestEnd ==
  /\ sPc \in {"reply", "failed"}
  /\ sPc' = "idle"
  /\ sTbl' = 1 /\ sIdx' = 0 /\ sRoom' = BufLen
  /\ page' = <<>>
  /\ start' = [t \in Tables |-> <<>>] /\ elapsed' = 0
  /\ UNCHANGED <<table, rec>>

-----------------------------------------------------------------------------
Later(age) == IF age > RecordTimeout THEN age ELSE age + 1
Older(r) == [r EXCEPT !.age = Later(@)]

\* A second passes.
Tick ==
  /\ table' = [t \in Tables |-> [i \in DOMAIN table[t] |-> Older(table[t][i])]]
  /\ elapsed' = IF sPc = "idle" THEN elapsed ELSE Later(elapsed)
  /\ UNCHANGED <<rec, sPc, sTbl, sIdx, sRoom, page, start>>

Insert ==
  \E t \in Tables, k \in Keys :
    \/ \E m \in Metrics[k] : CreateRec(t, k, m)
    \/ CreateRecFull(t, k)

WebRequest ==
  \/ ScrapeEmptyTable
  \/ ScrapeTable
  \/ ScrapeExpired
  \/ ScrapeRecord
  \/ ScrapeRecordFails
  \/ ScrapeTableEnd
  \/ ScrapeTableFails
  \/ ScrapeDone
  \/ WebRequestEnd

Next == Insert \/ Rec2Json \/ ScrapeBegin \/ WebRequest \/ Tick

Spec == Init /\ [][Next]_vars

\* Both threads are scheduled and time passes; nobody has to send lines or
\* requests.
Fairness == WF_vars(WebRequest) /\ WF_vars(Rec2Json) /\ WF_vars(Tick)

FairSpec == Spec /\ Fairness

\* As FairSpec, with a Prometheus server that keeps asking.
ScrapedSpec == FairSpec /\ WF_vars(ScrapeBegin)
-----------------------------------------------------------------------------
(***************************************************************************)
(* Properties.                                                             *)
(***************************************************************************)

(***************************************************************************)
(* Types and limits: no table holds more than its capacity, and the page   *)
(* keeps room for a terminating NUL as long as the scrape has not failed,  *)
(* so curMaxLen, which is unsigned, never wraps.                           *)
(***************************************************************************)
TypeOK ==
  /\ table \in [Tables -> Seq(Record)]
  /\ \A t \in Tables : Len(table[t]) <= Capacity
  /\ rec \in [tbl : Tables, key : Keys] \union {NULL}
  /\ sPc \in {"idle", "table", "record", "reply", "failed"}
  /\ sTbl \in 1..(NumTables + 1)
  /\ sPc = "record" => sTbl \in Tables
  /\ sIdx \in 0..PeriodRecords
  /\ sRoom \in 1..BufLen
  /\ page \in Seq(Line)
  /\ start \in [Tables -> Seq(Record)]
  /\ elapsed \in Ages

\* A key has one record in a table, however often it is updated.
UniqueKeys ==
  \A t \in Tables : \A i, j \in DOMAIN table[t] :
    table[t][i].key = table[t][j].key => i = j

\* Records lie in the order of their last update.  The scrape stops at the
\* first PeriodRecords it can print, so expired records cannot hide behind.
OldestFirst ==
  \A t \in Tables : \A i, j \in DOMAIN table[t] :
    i < j => table[t][i].age >= table[t][j].age

KeysOf(s) == {s[i].key : i \in DOMAIN s}

(***************************************************************************)
(* While no scrape runs, no stored key disappears: an insert that the full *)
(* table refuses has not deleted the record it wanted to replace.          *)
(***************************************************************************)
InsertKeepsKeys ==
  [][Unlocked => \A t \in Tables : KeysOf(table[t]) \subseteq KeysOf(table'[t])]_vars

\* The places in the page of the lines of table t.
LinesOf(t) == {l \in DOMAIN page : page[l].tbl = t}

(***************************************************************************)
(* A page that is sent holds, table by table, the records that were stored *)
(* when the request came: in their order, none twice, none that had        *)
(* expired then, and leaving out only what expired since and what comes    *)
(* after PeriodRecords others.                                             *)
(***************************************************************************)
PageIsWhatWasStored ==
  sPc = "reply" => \A t \in Tables :
    /\ \E at \in [LinesOf(t) -> DOMAIN start[t]] :
         \A l \in LinesOf(t) :
           /\ \A m \in LinesOf(t) : m < l => at[m] < at[l]
           /\ ~Expired(start[t][at[l]])
           /\ page[l].key = start[t][at[l]].key
           /\ page[l].metrics = start[t][at[l]].metrics
    /\ \A i \in DOMAIN start[t] :
         \/ \E l \in LinesOf(t) : page[l].key = start[t][i].key
         \/ start[t][i].age + elapsed > RecordTimeout
         \/ Cardinality(LinesOf(t)) = PeriodRecords

\* The length of the first metric that a line lacks.
Missing(l) == Upto(l.metrics, l.printed + 1) - Upto(l.metrics, l.printed)

(***************************************************************************)
(* A page that is sent leaves out only metrics that it has no room for,    *)
(* even at its end.  (What a record lacks is lost, because it is deleted   *)
(* like the others: IMDB_Tbl2Prometheus takes a record that was cut for a  *)
(* success, and goes on with shorter metrics of the records after it.)     *)
(***************************************************************************)
LacksWhatDoesNotFit ==
  sPc = "reply" => \A l \in DOMAIN page :
    page[l].printed < Len(page[l].metrics) => Missing(page[l]) >= sRoom

\* A record with key k has waited for a second in table t since its last update.
Waits(t, k) == \E i \in DOMAIN table[t] : table[t][i].key = k /\ table[t][i].age > 0

(***************************************************************************)
(* Under a Prometheus server that keeps asking, a record of the first      *)
(* table does not wait for ever: it is printed or expires, or is updated   *)
(* (and then goes to the end of the table, where it can be updated again   *)
(* before its turn comes, as often as it likes).  A record of a later      *)
(* table has that promise only if requests do not fail from some time on:  *)
(* a table whose first record cannot be printed, or which fills the page,  *)
(* keeps a request from the tables after it.                               *)
(***************************************************************************)
StoredLeaves ==
  \A t \in Tables, k \in Keys :
    t = 1 \/ []<>(sPc = "reply") => (Waits(t, k) ~> ~Waits(t, k))

-----------------------------------------------------------------------------
(***************************************************************************)
(* What the documents and comments of the repository say, and the code     *)
(* does not do.                                                            *)
(***************************************************************************)

\* "buffer is full, break loop" in IMDB_Tbl2Prometheus: a full buffer ends the
\* page, and the page is sent.
FullPageIsSent == sPc # "failed"

\* "format data to json" in IngressData2Egress: the record it is handed is
\* still the one that was stored.
RecIsStored == rec # NULL => rec.key \in KeysOf(table[rec.tbl])
=============================================================================
