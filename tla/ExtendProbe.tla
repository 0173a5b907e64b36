---------------------------- MODULE ExtendProbe ----------------------------
(***************************************************************************)
(* RunExtendProbe: the thread of an extend probe reads the output of its   *)
(* child process with fgets, copies lines that begin with a bar into a     *)
(* buffer and hands the buffer over to the fifo at the end of the line.    *)
(*                                                                         *)
(* dataStr survives from one fgets to the next, so what it holds depends   *)
(* on every earlier chunk: of lines longer than the buffer of fgets, of    *)
(* lines the fifo refused, of a child that was killed in the middle.       *)
(*                                                                         *)
(* A line is a number, a length and, when it begins with a bar, the values *)
(* of its fields; a chunk is the part of a line that one fgets returns.    *)
(* When the thread ends the daemon starts it again.                        *)
(*                                                                         *)
(* The ingress thread takes the line apart again: the table's name up to   *)
(* the second bar, then one metric of the record for each further field.   *)
(*                                                                         *)
(* After a line that was too long or a failed write() the fifo here is no  *)
(* longer that of the code: dataStr may have been written past its end, or *)
(* is still written by the thread, put again and freed twice while it is   *)
(* in the fifo.  The ingress thread may then find anything.                *)
(***************************************************************************)
EXTENDS Integers, Sequences, SequencesExt

CONSTANTS
  BufMax,          \* MAX_DATA_STR_LEN, of buffer and of dataStr
  LogLens,         \* lengths of lines that do not begin with a bar
  Values,          \* what a field can say when it is not empty
  Odd,             \* those with a '%' in them or longer than a metric's value
  FieldSeqs,       \* fields of the lines "|table|field|...|field|" that do
  MetricsNum,      \* metricsNum of the table's meta
  FifoSize,        \* MAX_FIFO_SIZE
  MaxLines,        \* bound: lines printed by the children
  TriggerMayFail,  \* whether write() to the eventfd may fail
  EMPTY,           \* an empty field
  INVALID,         \* INVALID_METRIC_VALUE
  GARBLED,         \* what snprintf makes of an odd value
  NULL

ASSUME ExtendProbeAssumption ==
  /\ BufMax \in Nat /\ BufMax > 1
  /\ LogLens \subseteq Nat \ {0}
  /\ FieldSeqs \subseteq Seq(Values \union {EMPTY})
  /\ MetricsNum \in Nat
  /\ {EMPTY, INVALID, GARBLED, NULL} \cap Values = {} /\ EMPTY # INVALID
  /\ Odd \subseteq Values
  /\ FifoSize \in Nat \ {0} /\ MaxLines \in Nat
  /\ TriggerMayFail \in BOOLEAN

VARIABLES
  line,   \* number of the line in the pipe
  rest,   \* characters of it that fgets has not returned
  fields, \* its fields, NULL when it does not begin with a bar
  cut,    \* it has no end of line: the child was killed
  begun,  \* a chunk of it was returned
  eof,    \* the child has ended
  pc,     \* what the thread does next
  data,   \* dataStr: index, and the chunks copied into it
  fifo,   \* contents of the buffers in the fifo
  rec,    \* the line last taken apart by the ingress thread, and its metrics
  clean   \* history: no line was too long and no write() has failed

pipeVars == <<line, rest, fields, cut, begun, eof>>
vars == <<pipeVars, pc, data, fifo, rec, clean>>

Init ==
  /\ line = 0 /\ rest = 0 /\ fields = NULL /\ cut = FALSE /\ begun = FALSE /\ eof = FALSE
  /\ pc = "read" /\ data = NULL
  /\ fifo = <<>> /\ rec = NULL
  /\ clean = TRUE

-----------------------------------------------------------------------------
(***************************************************************************)
(* The child process and the ingress thread.                               *)
(***************************************************************************)
ChildPrints(n, f, killed) ==
  /\ rest = 0 /\ ~eof /\ line < MaxLines
  /\ line' = line + 1 /\ rest' = n /\ fields' = f /\ begun' = FALSE
  /\ cut' = killed /\ eof' = killed
  /\ UNCHANGED <<pc, data, fifo, rec, clean>>

\* The lengths count the table's name, each field and the end of line as one.
ChildPrintsData(f, killed) == ChildPrints(Len(f) + 2, f, killed)
ChildPrintsLog(n, killed) == ChildPrints(n, NULL, killed)

ChildEnds ==
  /\ rest = 0 /\ ~eof
  /\ eof' = TRUE
  /\ UNCHANGED <<line, rest, fields, cut, begun, pc, data, fifo, rec, clean>>

WholeLine(d) == Len(d.from) = 1 /\ d.from[1].whole

\* GetTableNameAndContent: the content begins with the bar after the name, and
\* RunExtendProbe has taken off the end of line, so that strsep finds an empty
\* token before the first field and after the last.
Tokens(f) == <<EMPTY>> \o f \o <<EMPTY>>

\* IMDB_MetricSetValue: the token is the format of an snprintf with a limit.
SetValue(token) == IF token \in Odd THEN GARBLED ELSE token

Metric(token) == IF token = EMPTY THEN INVALID ELSE SetValue(token)

\* Mutant of AddToken: an empty token is a metric without a value everywhere.
AddToken_EveryEmpty(cols, token) ==
  IF Len(cols) >= MetricsNum THEN cols ELSE Append(cols, Metric(token))

\* One turn of the loop of IMDB_DataBaseMgrParseContent; index is Len(cols).
AddToken(cols, token) ==
  IF Len(cols) >= MetricsNum \/ (token = EMPTY /\ cols = <<>>) THEN cols
  ELSE Append(cols, Metric(token))

\* The metrics after the first 0, 1, ... tokens of t.
Columns(t) ==
  LET cols[n \in 0..Len(t)] == IF n = 0 THEN <<>> ELSE AddToken(cols[n - 1], t[n]) IN cols

ParseContent(f) == Columns(Tokens(f))[Len(Tokens(f))]

\* What the child printed, where the ingress thread finds the fields f.
Taken(d, f) ==
  IF WholeLine(d) THEN [fields |-> d.from[1].fields, metrics |-> ParseContent(f)] ELSE NULL

\* What is not one whole line is taken apart too, into metrics that say nothing.
IngressGets ==
  /\ fifo # <<>>
  /\ fifo' = Tail(fifo)
  /\ \/ rec' = Taken(Head(fifo), Head(fifo).from[1].fields)
     \/ ~clean /\ \E f \in FieldSeqs : rec' = Taken(Head(fifo), f)
  /\ UNCHANGED <<pipeVars, pc, data, clean>>

-----------------------------------------------------------------------------
(***************************************************************************)
(* The thread.                                                             *)
(***************************************************************************)

\* What fgets returns: it keeps one character for the terminating NUL.
Chunk == Min({rest, BufMax - 1})

\* The first character of a chunk in the middle of a line can be anything.
FirstIsBar == IF begun THEN BOOLEAN ELSE {fields # NULL}

Consume ==
  /\ rest' = rest - Chunk
  /\ begun' = TRUE
  /\ clean' = (clean /\ Chunk = rest)
  /\ UNCHANGED <<line, fields, cut, eof, fifo, rec>>

\* A chunk that does not begin with a bar.
ReadSkip ==
  /\ pc = "read" /\ rest > 0
  /\ FALSE \in FirstIsBar
  /\ Consume
  /\ UNCHANGED <<pc, data>>

Piece == [line |-> line, fields |-> fields,
          whole |-> ~begun /\ Chunk = rest /\ ~cut]

\* Copy n more characters; the buffer is allocated when there is none.
Copied(n) ==
  IF data = NULL
  THEN [len |-> n, from |-> <<Piece>>]
  ELSE [len |-> data.len + n, from |-> Append(data.from, Piece)]

\* A chunk with the end of the line.
ReadLine ==
  /\ pc = "read" /\ rest > 0
  /\ TRUE \in FirstIsBar
  /\ Chunk = rest /\ ~cut
  /\ data' = Copied(Chunk - 1)
  /\ pc' = "put"
  /\ Consume

\* A chunk without.
ReadPart ==
  /\ pc = "read" /\ rest > 0
  /\ TRUE \in FirstIsBar
  /\ Chunk < rest \/ cut
  /\ data' = Copied(Chunk)
  /\ Consume
  /\ UNCHANGED pc

Put ==
  /\ pc = "put"
  /\ Len(fifo) < FifoSize
  /\ fifo' = Append(fifo, data)
  /\ pc' = "trigger"
  /\ UNCHANGED <<pipeVars, data, rec, clean>>

\* Mutant of PutFull: dataStr is not reset.
PutFull_NoReset ==
  /\ pc = "put"
  /\ Len(fifo) = FifoSize
  /\ pc' = "read"
  /\ UNCHANGED <<pipeVars, data, fifo, rec, clean>>

\* "fifo full": the line is dropped.
PutFull ==
  /\ pc = "put"
  /\ Len(fifo) = FifoSize
  /\ data' = NULL
  /\ pc' = "read"
  /\ UNCHANGED <<pipeVars, fifo, rec, clean>>

Trigger ==
  /\ pc = "trigger"
  /\ data' = NULL
  /\ pc' = "read"
  /\ UNCHANGED <<pipeVars, fifo, rec, clean>>

\* write() fails: the loop is left before dataStr is reset, with index where it
\* was, and the fifo has the buffer as well.
TriggerFails ==
  /\ TriggerMayFail
  /\ pc = "trigger"
  /\ clean' = FALSE
  /\ pc' = "read"
  /\ UNCHANGED <<pipeVars, data, fifo, rec>>

\* Mutant of RunAgain: dataStr survives the restart.
RunAgain_KeepData ==
  /\ pc = "read" /\ rest = 0 /\ eof
  /\ eof' = FALSE
  /\ UNCHANGED <<line, rest, fields, cut, begun, pc, data, fifo, rec, clean>>

\* feof: RunExtendProbe returns, whatever dataStr holds, and is called again
\* by the thread that DaemonKeeplive creates.
RunAgain ==
  /\ pc = "read" /\ rest = 0 /\ eof
  /\ eof' = FALSE
  /\ data' = NULL
  /\ UNCHANGED <<line, rest, fields, cut, begun, pc, fifo, rec, clean>>

-----------------------------------------------------------------------------
RunExtendProbe ==
  \/ ReadSkip
  \/ ReadLine
  \/ ReadPart
  \/ Put
  \/ PutFull
  \/ Trigger
  \/ TriggerFails
  \/ RunAgain

Next ==
  \/ \E f \in FieldSeqs, killed \in BOOLEAN : ChildPrintsData(f, killed)
  \/ \E n \in LogLens, killed \in BOOLEAN : ChildPrintsLog(n, killed)
  \/ ChildEnds
  \/ IngressGets
  \/ RunExtendProbe

Spec == Init /\ [][Next]_vars
-----------------------------------------------------------------------------
(***************************************************************************)
(* Properties.                                                             *)
(***************************************************************************)
\* What the fifo gets is one whole line of one child, in the order printed;
\* a line that is too long for the buffer is left out, as the message "stdout
\* buf(len:%u) is too long" of RunExtendProbe says.
Lines ==
  /\ \A i \in DOMAIN fifo : WholeLine(fifo[i])
  /\ \A i, j \in DOMAIN fifo : i < j => fifo[i].from[1].line < fifo[j].from[1].line

\* dataStr[index], where the terminating NUL goes, is inside the buffer.
InBuffer == data # NULL => data.len < BufMax

(***************************************************************************)
(* As long as no line is longer than the buffer and no write() fails, the  *)
(* ingress thread gets whole lines in order, also when lines were dropped  *)
(* before or a child was killed half way.                                  *)
(***************************************************************************)
CleanLines == clean => Lines

\* Under the same condition RunExtendProbe never writes past dataStr, whatever
\* it had left in the buffer of an earlier line.
CleanBuffer == clean => InBuffer

(***************************************************************************)
(* Under the same condition the value the child printed in the i-th field  *)
(* is the value of the i-th metric, and a metric without a value is an     *)
(* empty field or one past the last field, although the record is filled   *)
(* from tokens that are split off a string and not from fields.  The code  *)
(* makes two exceptions: a line with an empty first field has its later    *)
(* values one metric to the left, and an odd value does not stay as it is. *)
(***************************************************************************)
MetricIsField ==
  clean /\ rec # NULL /\ rec.fields # <<>> /\ Head(rec.fields) # EMPTY =>
    /\ \A i \in DOMAIN rec.fields :
         rec.fields[i] # EMPTY /\ i <= MetricsNum =>
           /\ i \in DOMAIN rec.metrics
           /\ rec.metrics[i] = IF rec.fields[i] \in Odd THEN GARBLED ELSE rec.fields[i]
    /\ \A i \in DOMAIN rec.metrics :
         rec.metrics[i] \in {INVALID, GARBLED}
           \/ (i \in DOMAIN rec.fields /\ rec.metrics[i] = rec.fields[i])
=============================================================================
