# A verification of gala-gopher in TLA+

gala-gopher (`src/gala-gopher`) is a daemon that runs probes, collects the lines
they print, keeps the last values in an in-memory database for Prometheus, and
sends every line to Kafka. This directory holds TLA+ models of its core, TLC
configurations that check them on small instances, and theorems that TLAPS checks
for every value of the constants. Paths below are relative to `src/gala-gopher/src`
unless they begin with `doc`.

## 1. The system

| Component | State | Operations | Talks to |
|---|---|---|---|
| `lib/fifo` | ring of pointers, cursors `in`, `out` | `FifoPut`, `FifoGet` | one producer and one consumer thread |
| native probes, `lib/probe/probe.c` | the line being formatted | `__wrap_fprintf` | fifo + eventfd to ingress |
| extend probes, `lib/probe/extend_probe.c` | `dataStr`, `index`, the pipe from the child | `RunExtendProbe` | child process, fifo + eventfd to ingress |
| `ingress` | epoll set, the line and the record in hand | `IngressDataProcesss(Input)`, `IngressData2Egress` | all probe fifos, IMDB, egress fifo |
| `egress`, `lib/kafka` | the message in hand, retries | `EgressDataProcesss(Input)`, `KafkaMsgProduce` | egress fifo, librdkafka |
| `lib/imdb` | tables of records in a hash with insertion order, `rwlock` | insert, expire, print as page, print as JSON | ingress thread, web server thread |
| `web_server` | `g_buffer` | `WebRequestCallback` | libmicrohttpd, IMDB |
| `daemon` | `is_running` and `tid` of the probes, the timer | `DaemonRun`, `DaemonKeeplive` | all threads |
| `resource`, `lib/config`, `lib/meta`, `cmd`, `common` | configuration, table of modules, command socket | start-up, shut-down, one query | all |
| `ebpf.probe/ksliprobe` | `conn_map`, `conn_samp_map`: one sample per connection | hooks on `accept4`, `close`, `read`, `write`, TCP transmit and deliver | the kernel, user space by a perf buffer |
| `ebpf.probe/sliprobe` | `conn_map` with one sampled command per connection | uprobes on Redis: read, process, write, free | Redis, user space by a perf buffer |
| `ebpf.probe/{nginx,haproxy,lvs}probe` | a map of links | hooks on open and close; a loop that counts, prints and deletes | the load balancer, the map shared by both |
| `ebpf.probe/tcpprobe` | `sock_map`, `tcp_link_map`, `tcp_fd_map` | hooks on every TCP event, reports | the kernel, user space by a perf buffer |
| other `probes/*` | counters of the last period | collect, print | extend or native probe framework |

What is hard in it, and what makes the parts correct:

* *Lock-free hand-over.* The fifo has no lock; its cursors are `uint32_t` that are
  never reduced and wrap at 2^32. Right: a first-in first-out queue.
* *Wakeups.* A line is queued first and the eventfd written after; the reader resets
  the eventfd first and drains after. Right: no line waits without a wakeup.
* *Ownership.* A line is a bare `malloc`ed pointer that passes through four threads
  and librdkafka. Right: a line of a native probe has exactly one owner on every path, full
  queues and failed system calls included. (An extend probe keeps its buffer when the
  `write()` fails after the put: see *ExtendProbe*.)
* *The database under two threads and a clock.* Right: one record per key, refused
  inserts lose nothing, a page shows what was stored when it was asked for, and what it
  leaves out of a record had no room.
* *A blocking signal handler.* `DaemonKeeplive` calls `pthread_join` in a handler
  that any thread may run. Right: no circle of waiting threads, probes come back.
* *A line buffer that outlives the chunk.* `dataStr` keeps what an earlier `fgets`,
  a full fifo, or a killed child left. Right: only whole lines are handed over, and
  a value is stored as the metric it was printed for. Both hold only until a line is too
  long or a `write()` fails.
* *Hooks that see only part of a request.* The latency probes infer when a request
  came and when its reply left from events of a socket that other events overtake, and
  from two sizes in the memory of Redis. Right: a sample starts and ends with its own
  request, statistics are those of the period, no sample stays for ever.
* *A map walked while it changes.* The loop of a link probe deletes from the map it
  walks through, while hooks enter, store again and mark links. Right: an open link whose
  entry keeps its place is counted once per walk and stays, a closed one is counted and
  leaves.

## 2. Modules

| Module | Models | Extends |
|---|---|---|
| `BoundedQueue` | what a fifo promises (abstract specification) | |
| `Fifo`, `MCFifo`, `Fifo_proofs` | `lib/fifo/fifo.c` | instantiates `BoundedQueue` |
| `Pipeline`, `MCPipeline`, `Pipeline_proofs` | probes → ingress → egress → librdkafka, over queues as in `BoundedQueue` | |
| `Imdb`, `MCImdb`, `Imdb_proofs` | `lib/imdb` with its two users and the clock | |
| `Keeplive`, `MCKeeplive`, `Keeplive_proofs` | start and restart of extend probes in `daemon/daemon.c` | |
| `ExtendProbe`, `MCExtendProbe`, `ExtendProbe_proofs` | `RunExtendProbe` with child, fifo and restarts; `IMDB_DataBaseMgrParseContent` on what it hands over | |
| `WebServer`, `MCWebServer` | `WebRequestCallback` and the shared page | |
| `Ksli`, `MCKsli`, `Ksli_proofs` | `ksliprobe.bpf.c` with server, network and clock | |
| `RedisSli`, `MCRedisSli`, `RedisSli_proofs` | `redissli.bpf.c` with the reply stores of Redis | |
| `LinkProbe`, `MCLinkProbe`, `LinkProbe_proofs` | kernel and user side of nginxprobe, haproxyprobe and lvsprobe | |
| `TcpProbe`, `MCTcpProbe` | `tcpprobe.bpf.c`: which links there are | |

`PROJECT.json` maps every definition to the lines it stands for. The operators
`X_Something` directly before a definition `X` are mutations of it: each makes one
property fail, which shows that the property depends on that code.

### Fifo

`FifoPut` and `FifoGet` are cut at the two barriers `__sync_synchronize()`: compute
`len`, copy, advance. Producer and consumer have their own program counter and
`len`. `Size` and `W` (the number of values of a `uint32_t`) are constants; all that
is assumed is that `Size` divides `W` at least twice, which holds for the powers of
two `FifoCreate` accepts (every fifo of the daemon has `MAX_FIFO_SIZE` = 1024 slots).

### Pipeline

The probes are native ones, which hand a line over in `__wrap_fprintf` and forget it, whatever
becomes of it; an extend probe keeps its buffer after a failed `write()` and is the subject of
`ExtendProbe`. One action per step that touches something another thread can see: allocate, put,
write the eventfd; wait, reset the eventfd, get, drop or accept, put, write; and for the egress
thread wait, get, produce, retry, give up. A buffer is an address; `live` are the allocated
ones. What a line says is decided where the ingress thread looks at it. `malloc` is assumed to
succeed: a thread that finds every address of the small set in use waits for one to be freed. An
eventfd is its counter being zero or not. `epoll_wait` returns every readable eventfd
(`MAX_EPOLL_EVENTS_NUM` exceeds the number of fifos). `TriggerMayFail` says whether `write()` to
an eventfd may fail; `missed` remembers it until the fifo is drained. `epoll_wait` and `read()`
fail only with `EINTR`, which the code tolerates; a real failure ends the thread and is not
modelled.

### Imdb

An insert is one step under the write lock. A scrape is one step per record under the read lock,
so that the clock (`Tick`) and what the ingress thread does after the unlock (`Rec2Json`) come
in between. Absolute times are replaced by ages, counted to the first expired value. A record is
a key, the metrics that are exported, and an age. The metrics differ in length: each one is
given by the number of characters that the record takes up to its end (so the list increases),
and `Metrics` says which lists the records of a key may have. A record without exported metrics
stands for one whose labels exceed `MAX_LABELS_BUFFER_SIZE` as well. `start` and `elapsed` are
history variables: the tables when the request came, and the time since.

### Keeplive

`DaemonRun` starts or skips each extend probe, then the timer runs. `TimerFires`
makes SIGUSR1 pending; a thread that exists and does not block it takes it and runs
the loop of `DaemonKeeplive`, which is one step because it takes no time against the
period of 120 s. `joins[th]` is the probe whose end the handler in thread `th`
waits for; SIGUSR1 is blocked in a thread inside its handler. POSIX lets any thread
take the signal; Linux prefers the main thread (`MainFirst`). `pthread_kill` is
taken to return `ESRCH` for a thread that has ended, as the code expects and glibc
before 2.34 does; with a later glibc an ended probe is never noticed at all.

### ExtendProbe

A line is a number, a length and, if it begins with a bar, its fields; `fgets` returns chunks of
at most `BufMax - 1` characters. `data` is `dataStr` with `index` and the pieces copied into it.
The first character of a chunk in the middle of a line may be anything, a bar included. A child
may be killed in the middle of a line. `clean` is a history variable: no line was too long and
no `write()` has failed so far. After that the code writes past the end of `dataStr`, or into a
buffer that is in the fifo and may be freed; the fifo of the model then no longer is that of the
code, the ingress thread may find anything in it, and every property is about clean behaviours.
`IngressGets` takes the line apart as `GetTableNameAndContent` and
`IMDB_DataBaseMgrParseContent` do: `strsep` finds an empty token before the first field and
after the last one, an empty token is skipped while no metric was stored and is
`INVALID_METRIC_VALUE` after that. `IMDB_MetricSetValue` gives the value to `snprintf` as a
format, with room for `MAX_IMDB_METRIC_VAL_LEN`: a value of `Odd` (one with a `%`, or a longer
one) becomes `GARBLED`. `rec` is the record that comes out of it, beside the fields that were
printed.

### WebServer

`WebRequestCallback` is called twice per request. The second call writes the page
into `g_buffer` and queues a response that points to it; libmicrohttpd (external)
sends it in `Pieces` whenever the socket takes some, and serves other connections in
between on its one thread.

### Ksli

A hook is one step, except the return of `read()`, which looks at the status twice (count a
finished sample, then begin a new one) and is cut between the two looks: transmission and
delivery run in softirqs on other CPUs. The kernel around the hooks is external: requests in the
receive queue, replies that are written by one or more calls of `write()` into one or more skbs,
transmitted, merged by a retransmission and delivered in order, descriptors, socks and skbs that
are used again. A timestamp is its age up to the period; `NULL` is the 0 of a stamp that no tc
program has set, and `FUTURE` a stamp of the real-time clock, which the kernel puts there when
someone has asked for it and no tc program overwrites it: it is later than any time of the
monotonic clock. `MultiThreaded` says whether several threads of the server make system calls,
`Blocking` whether `read()` may be called before there is data. `hist` and `seen` are history:
the true arrival and read of the sampled request, whether its reply was delivered, and the
samples of this period.

### RedisSli

One connection, since all state of the probe is per connection. External, but with its
sizes: how Redis 6.2.1 puts a reply into the static buffer while the list is empty,
otherwise into the last block and new blocks of at least `Chunk`, and how a write
empties both. A command may return without a reply and block the client (`blocked`); its reply
comes later, between other commands, and so do the messages of channels (`ReplyLater`).
`bufpos` and `reply_bytes` are what the probe reads; `where` and
`left` are history: where the sampled reply really went, and how much is to be sent until
all of it was. Timestamps appear as what they are worth: `last` and `start` say
whether the time kept is that of the read that brought the command.
`Unblocks` says whether commands stay in the query buffer of a blocked client and
run after a write, without another read.

### LinkProbe

The three probes differ in their hooks and share the shape of the loop `pull_probe_data`;
`probe` says which one a behaviour is about. The map is the hash of the kernel: every key has a
`Bucket`, an entry is put at the head of the list of its bucket when it is entered and also when
it is stored again, and `bpf_map_get_next_key` goes through the lists in order. `front` says
which entries are in front of one in its list; a key that is not in the map starts the walk
again. The key `Zero` is the one the loop starts from, and also what the return of a failed
`ip_vs_conn_new` enters. The loop is cut at every access to the map (next key, lookup, delete),
and so is the hook of a close, which marks an entry and stores it again. `Mode` is the way IPVS
forwards a link: `ip_vs_conn_new` leaves it in the single entry of `lvs_flag_map`, and the
fields of a link are read at the offsets it implies (`Junk` is what the wrong offsets give).
`recorded`, `overtaken` and `steady` are history; `steady` are the links that were open in the
map when the walk began and whose place in the list of their bucket has not changed since.

### TcpProbe

A hook is one step. `links` are the keys of `tcp_link_map`; a
key is made of process, role and addresses, with the client port only when
`cport_flag` is set. `Valid` are the processes that `is_valid_tgid` lets through. Some socks
are older than the probe, and are known by the descriptors that `tcpprobe.c` listed for
their process when it was started.

## 3. Runs

| Run | Property | Says |
|---|---|---|
| `fifo` | `CursorsInRange` | `in - out`, unsigned, is at most the size; the tests of both threads stay sound until their cursor moves |
| | `NoOverwrite` | the slot being written is never unread |
| | `ImplementsQueue` | refinement of `BoundedQueue` |
| `pipeline` | `OneOwner` | every live buffer of native probes, the ingress and the egress thread has exactly one holder, and nothing else is held |
| | `NoLostWakeup` | a queued line has a wakeup on its way, or its `write()` failed |
| `pipeline_live` | `FifosAreDrained` | a fifo with lines gets drained if the ingress thread returns to `epoll_wait` again and again |
| | `MessagesLeave` | every message reaches librdkafka or is freed |
| `imdb` | `UniqueKeys`, `OldestFirst` | one record per key, in the order of the last update |
| | `InsertKeepsKeys` | an insert never makes a stored key disappear |
| | `PageIsWhatWasStored` | a page that is sent is what was stored, in order, minus what expired and what exceeds the period |
| | `LacksWhatDoesNotFit` | a page that is sent leaves out only metrics that it has no room for, even at its end |
| `imdb_live` | `PageIsWhatWasStored` | the same over two tables, with less than a table per period |
| | `StoredLeaves` | a record that has waited in the first table is printed, expires or is updated; one in a later table too, if requests do not fail for ever |
| `keeplive` | `NoJoinCycle`, `SomeoneListens` | handlers do not deadlock, some thread can take the next signal |
| | `EndedIsRestarted` | an ended probe comes back if the ones before it stay up |
| `extend_probe` | `CleanLines`, `CleanBuffer` | while `clean`, whole lines in order and no overrun |
| | `MetricIsField` | while `clean`, the i-th metric is the i-th field the child printed, if the first one is not empty, and apart from values that `snprintf` garbles |
| `ksli` | `Tracked` | the two maps agree with the open connections, and nothing stays after a close |
| | `StartIsArrival` | a sample starts between the arrival of its request and the read that got it, unless its stamp is of the real-time clock |
| | `NotTooShort` | a finished sample ended with the delivery of its reply, or of something behind it, unless data was waiting for transmission or the reply took more than one skb |
| | `PeriodStats` | largest, smallest and latest are of the samples of this period |
| | `NeverStuck` | a sample that does not start in the future ends, also if the server never answers, as long as requests are read |
| `redis_sli` | `FinishedIsSent` | a command that is finished was answered: all of its reply was given to the socket, with the three exceptions of `Misjudged` |
| | `SentIsFinished` | when nothing is left to write, the sampled command is finished |
| | `StartIsRead` | the latency starts at the read that brought the command |
| | `SamplesChange` | while something is written, a sample makes room for the next one |
| `link_probe` | `WalkKeepsItsPlace` | the lookup never fails and the walk never starts again |
| | `CountedOnce` | an open link is counted once per walk, as long as it keeps its place in its bucket |
| | `CountedBeforeItLeaves` | a link is counted in the walk that deletes it |
| | `StaysRecorded` | a link stays in the map until it is closed, except in one race |
| | `ClosedLinksLeave` | closed links are deleted at last, unless the key of zeros was entered |

Each run except `pipeline_live`, `imdb_live`, `keeplive` and `extend_probe` also checks its
module's `TypeOK`, which holds the limits: queue sizes, retries, table capacity,
the unsigned room of the page, the size of a map, the one slot for a sampled command.

Two runs end with a violation and show where the code and what the repository says of
it differ:

| Run | Said | Done |
|---|---|---|
| `web_server` | `doc/api_doc.md:11`, a GET returns the page | the next request overwrites the page while it is sent |
| `tcp_link` | `tcpprobe/tcpprobe.bpf.c:167` "if cport_flag is invalid, return" | `delete_tcp_link` tests the flag of a link that is still all zeros, and returns always: closed links stay until the map is full |

More of them are shown by configurations that are kept to be run by hand
(`tlc -config <cfg> <module>`); each ends with a violation:

| Configuration | Property | Shows |
|---|---|---|
| `MCImdbFullPage.cfg` (`MCImdb`) | `FullPageIsSent` | `lib/imdb/imdb.c:920` "buffer is full, break loop" is never reached: a full page fails the request, after records were deleted |
| `MCImdbRec.cfg` (`MCImdb`) | `RecIsStored` | the ingress thread formats a record without the lock (`ingress/ingress.c:193`), when a scrape may have freed it |
| `MCKeepliveStarved.cfg` (`MCKeeplive`) | `AllRestarted` | a probe that keeps ending takes every signal, against `doc/design_coe.md:353` |
| `MCExtendProbeLong.cfg` (`MCExtendProbe`) | `Lines` | the test for long lines (`lib/probe/extend_probe.c:91`) is never true; parts of long lines are handed over and glued to others |
| `MCLinkProbeMixed.cfg` (`MCLinkProbe`) | `ClosedLinksLeave` | with mixed ways of forwarding a link of IPVS is entered or marked under the wrong key, and stays |

Further differences that the models show: `design_coe.md:353`
limits restarts to three, `DaemonKeeplive` counts nothing; a thread that restarts a
probe, be it ingress, is out of service while the probe lives; expired records
(`doc/conf_introduction.md:52`) are only removed by a scrape; a table larger than
`DEFAULT_PERIOD_RECORD_NUM` can keep a frequently updated record from ever being
printed, and so can a record before it that does not fit into a page; a record that was cut
is deleted, and the metrics it lacks are lost although shorter ones of later records are
printed after it; after a failed `write()` `RunExtendProbe` keeps writing into a buffer that is
in the fifo, puts it there again and has it freed twice, and if the fifo fills up after a
failed `write()` no later line wakes the ingress thread; a line whose first field is empty has its
later values stored one metric to the left, and a value with a `%` is not stored as it is; a
latency of `ksliprobe` is often too long, because a reply is transmitted before `write()`
returns and the probe waits for the skb of the next reply, and too short when a reply takes
several skbs; a sample of `ksliprobe` that is stamped by the real-time clock starts in the
future, has no latency and, without an answer, keeps its connection from being sampled again;
with a server of several threads the return of `close()` can remove the entries of the
connection that got the descriptor next; `redissli` counts a reply as written too early
when it is in both stores, or all in the rest of a block, or comes after the return of a
command that blocks, or when commands were left over by a blocked client (`Unblocks = TRUE`);
a link that is stored again while the loop walks through its bucket, as by every event of
nginx and every close, can be missed, and others with it counted twice; a failed
`ip_vs_conn_new` enters a key of zeros, from which every later walk starts, in the middle of the
map; a link that is entered between the lookup of the closed link with the same addresses
and its deletion is deleted in its place.

### Bounds

* `fifo`: 4 slots, cursors modulo 8: both cursors pass their wrap at every fill level.
* `pipeline`: two probes with fifos of one slot, egress fifo and Kafka queue of one
  message, two tries, four line and three message buffers: both fifos are full while
  the ingress thread and a probe hold a line each, and the egress fifo and the Kafka
  queue are full while the ingress thread or the egress thread holds a message.
  Buffers and probes are interchangeable, and symmetry is used (no liveness here).
* `pipeline_live`: fifos of two slots, no symmetry.
* `imdb`: four keys for a table of three, two records per period, a page of six characters,
  records with two metrics of two characters each, or with a short and a long one: full
  tables, records cut at a long metric with a record behind them that fits, records that do
  not fit, ages up to two. Keys are interchangeable.
* `imdb_live`: two tables of two records of which one is printed per period, and a page of four
  characters, which is too short for the record of one key and is filled by another one: a
  record that cannot be printed blocks the head of either table.
* `keeplive`: four probes and two other threads: chains of handlers of length four.
* `extend_probe`: lines shorter than, as long as and longer than the buffer of six;
  four lines, so that a line follows one that was dropped, cut and glued; tables of two
  metrics with fewer, as many and more fields, empty ones and odd values at every place.
* `ksli`: one descriptor and one sock that are used again, two skbs, so that the reply
  before or after, or the other part of the same one, is under way at the same time; samples
  are counted up to two.
* `redis_sli`: a buffer and blocks of two units, four units waiting at most, parts of
  a reply of one and two units, two commands per read: every reply is whole, split over
  both stores, in new blocks or in the rest of one, late or not, and is written in pieces.
* `link_probe`: three links, two of which share a bucket, a map with room for two, one thread in
  the load balancer; the key of zeros lies behind all links, so that a walk which starts from it
  misses everything.
* `tcp_link`: two socks, two connections, two processes of which one is ignored.

### Fairness

Threads are scheduled: weak fairness of each thread's next step once it has one. A probe need
not print and a client need not ask; `ScrapedSpec` adds a server that keeps asking, as
Prometheus does. The timer is periodic and a pending signal is delivered. Nothing is assumed
about when a probe ends. For `ksli`: time passes, system calls return, requests keep coming and
a server that finds one again and again reads it (strong fairness, since the thread does other
things in between); neither an answer nor a delivery is assumed. For `redis_sli`: time passes
and `writeToClient` returns, whatever it has written. For `link_probe`: the loop goes on, the
hooks may stop anywhere; `ClosedLinksLeave` assumes that walks come to an end, since links that
are entered behind the walk could prolong it. For `imdb_live`: `StoredLeaves` assumes for the
tables after the first that requests do not fail from some time on; nothing in the code ensures
it. `KafkaError`, a permanent failure and a full queue are always possible.

The drain loop of `IngressDataProcesssInput` has no bound, so one probe that prints
as fast as it is read starves the others. `FifosAreDrained` therefore assumes that
the ingress thread returns to `epoll_wait` infinitely often.

## 4. Proofs

| Theorem | States | Invariant used |
|---|---|---|
| `Fifo_proofs!FifoTypes`, `CursorsStayInRange`, `UnreadStayElements`, `NeverOverwrites` | the invariants of run `fifo`, and that unread slots hold what was put | `Inv` |
| `Fifo_proofs!RefinesQueue` | `Spec => ImplementsQueue` | `Inv` and the mapping `Unread` |
| `Pipeline_proofs!TypeCorrect`, `WakeupsAreNotLost` | `TypeOK`, `NoLostWakeup` | plus `Phases` |
| `Pipeline_proofs!OwnershipIsUnique` | `OneOwner` | plus `HandsEmpty`, `DataOwned`, `JsonOwned` |
| `Imdb_proofs!LimitsHold`, `OneRecordPerKey`, `InsertsLoseNothing` | `TypeOK`, `UniqueKeys`, `InsertKeepsKeys` | `TypeOK /\ UniqueKeys` |
| `Imdb_proofs!OldestAreFirst` | `OldestFirst` | plus the order itself |
| `Imdb_proofs!MissingDoesNotFit` | `LacksWhatDoesNotFit` | `TypeOK`, `NoRoomForMissing` |
| `Imdb_proofs!PageHoldsWhatWasStored` | `PageIsWhatWasStored` | plus `Scraped` |
| `Keeplive_proofs!KeepliveTypes`, `NoDeadlockOfHandlers`, `SignalsAreTaken` | `TypeOK`, `NoJoinCycle`, `SomeoneListens` | plus `JoinsAreSound` |
| `ExtendProbe_proofs!WholeLinesInOrder`, `IndexInBuffer` | `CleanLines`, `CleanBuffer` | plus `Leftover`, `InPipe`, `AboutToPut` |
| `ExtendProbe_proofs!MetricsAreFields` | `MetricIsField` | `Types`, `Parsed` |
| `Ksli_proofs!KsliTypes`, `StatsAreOfThePeriod` | `TypeOK`, `PeriodStats` | plus `Calls`, `HasStart` |
| `Ksli_proofs!MapsAgree` | `Tracked`, if `~MultiThreaded` | plus `Maps` |
| `Ksli_proofs!SampleStartsInTime` | `StartIsArrival`, if `~MultiThreaded` and `~Blocking` | plus `Stamped` |
| `Ksli_proofs!SampleIsNotTooShort` | `NotTooShort`, if `~MultiThreaded` | `Maps`, `Traces` |
| `RedisSli_proofs!RedisTypes` | `TypeOK` | `TInv` |
| `RedisSli_proofs!LatencyStartsAtRead` | `StartIsRead`, if `~Unblocks` | `TimeIsFresh`, `Started`, `Stashed` |
| `RedisSli_proofs!FinishedMeansSent`, `SentMeansFinished` | `FinishedIsSent`, `SentIsFinished`, if `~Unblocks` | `WInv` |
| `LinkProbe_proofs!LinkProbeTypes`, `PlaceIsKept`, `OpenLinksAreCountedOnce`, `RecordedLinksStay`, `NoLinkLeavesUncounted` | `TypeOK`, `WalkKeepsItsPlace`, `CountedOnce`, `StaysRecorded`, `CountedBeforeItLeaves` | `Place`, `Lists`, `Stays`, `Count` |

*Fifo.* `CursorsInRange` is not inductive alone: a thread moves its cursor by the
`len` it computed earlier, so the invariant says that room (or an element) is still
there while `len` is in use. `CopiedBeforeAdvance` says what the producer's slot
holds before `in` moves. The lemmas on remainders turn the 32-bit expressions into
plain differences; `SlotAcrossWrap` is where it is needed that `Size` divides `W`.
A put takes effect when `in` advances, a get when the element is copied.

*Pipeline.* `Phases` says what each thread holds in each phase, so that a full
queue, an empty `iReady` and the number of tries can be concluded. The wakeup
invariant then holds step by step: whoever removes one of its disjuncts (the reset
of the eventfd, the end of the drain) makes another one true. For ownership the number
of holders is replaced by three facts that a step changes at one place: what is
held is allocated (`DataLive`, `JsonLive`), no two places hold the same buffer and no fifo
holds one twice (`DataOnce`, `JsonOnce`), and every allocated buffer has a place (`DataFound`,
`JsonFound`); `HandsEmpty` says that a thread holds nothing outside of the phases in which
it does.

*Imdb.* Replacing a record deletes at most one element, because keys are unique; hence the table
cannot be full after a replacement, and a refused insert was for a new key. Deleting one element
keeps the order, and the new record, of age 0, is the last one. `NoRoomForMissing`: a record is
cut at the first metric that does not fit, and the room only shrinks after that. `Scraped`
compares, while a scrape runs, each table with its copy `start` of the time of the request: the
table is the rest of the copy, aged (`Rest`), since the scrape takes records from the front only
and nothing is inserted meanwhile; the lines of the page are those of records among the part
that is gone, in order (`Ordered`); and what is gone without a line has expired (`Covered`).
`Reached` counts the lines of the table in work, so that the end of its loop means an empty
table or `PeriodRecords` lines.

*Keeplive.* A probe that is started again had ended, and an ended thread is in no
handler; so a new join ends in a thread that waits for nobody.

*ExtendProbe.* While `clean`, `dataStr` holds something between two chunks only when the child
was killed and the pipe is empty, so that the next thing to happen is a restart, which forgets
it. A line in the pipe, or about to be put, is younger than everything in the fifo. `Parsed`
says that what is taken for a whole line began with a bar, also when it was copied, cut or
glued, and that the last record is what the loop of `IMDB_DataBaseMgrParseContent` makes of its
fields. What the loop makes of them is shown by induction on the number of tokens
(`ColumnsUnique`, `ParsedLine`): for a line with a first field the metrics after `n + 1` tokens
are the first `n` fields, `INVALID` where they are empty and `GARBLED` where they are odd, up to
the number of metrics of the table. `strsep` finds an empty token before the first field, which
the loop passes over; it passes over an empty first field in the same way, hence the exception.

*Ksli.* A sock belongs to one descriptor and a system call is about an open one
(`Calls`). `Maps` adds that no system call is under way while a descriptor that was
released still has its entries, which is where one thread is needed. `Stamped` says, for
each point of a read, that the start the sample would get lies between the two times the
property compares; a delivery in between sets the start to 0, and the return of
`read()` then takes the present time. `Traces` follows the reply of a sample, as long as it
is neither delivered nor late, from the request that is to be answered to the queue of skbs
to transmit and on to those under way, according to the status of the sample (`Owed`):
when the probe waits for an skb, the reply is in front of it (`Ahead`). A reply that takes
several skbs makes the sample late with its first piece (`Piece`); `Writing` says that a call of
`write()` leaves nothing of a whole reply to be written. That an address is used
again does no harm, because no two skbs that wait have the same one (`Apart`).

*RedisSli.* A sample ends in `writeToClient`, which runs when no command waits; so when
commands wait and none is sampled, the last read has set the time. The size of the list and
what is used of it are sums over its blocks; the lemmas on `Sums` say what a new block, more
in the last block and the loss of the first one do to them. `Fresh` says that a
sample begins with both sums of the probe at 0, which is where `~Unblocks` is needed; `Judged`
that the sizes at the call and at the return of `processCommand` tell where the reply went
(a reply that comes later, or in both stores, is `Misjudged` and nothing is claimed of it; what
comes later for another command or from a channel goes behind the reply, as `ToBufferWInv` and
`ToListWInv` show);
`Shrinks` that a write only takes away. `Awaited` bounds the position of the reply's end by
what has left its store and what is in it, so an empty store means that the end was passed;
`Unsent` says that as long as a part of the reply waits, the buffer was not emptied
since, or the block with its end is still in the list, so that the end was not passed. The
caps `MaxBuf` and `MaxList` on the sums do not matter, since no position is larger.

*LinkProbe.* `Place` says that the key the loop goes on from and the link in its hands are
in the map, which holds because only the loop deletes. `Lists` says that `front` makes a list of
the entries of each bucket, so that a walk has an order, and that putting an entry at the head
changes it only for that entry and those it passes. `Count` says that a link in `steady` was
counted exactly if it is behind the walk (`Behind`). `Stays`
says that the loop deletes an open link only if it was entered after the
lookup. The size of the map needs that a finite set without room gains no element.

Assumptions are the `ASSUME`s of the modules (`FifoAssumption`,
`PipelineAssumption`, `ImdbAssumption`, `KeepliveAssumption`, `ExtendProbeAssumption`,
`KsliAssumption`, `RedisSliAssumption`, `LinkProbeAssumption`), which TLC evaluates
in every run, and the hypotheses named in the table.

Induction over data. The induction theorems of the library take an operator, which the
provers cannot instantiate. Where the length of a sequence is arbitrary the proofs use
the form about sets instead: a set that has 0 and the successors of its elements has
every natural number (`Induction` in `ExtendProbe_proofs` and `RedisSli_proofs`, from the
least element that well-foundedness gives). With it the recursive functions `Columns` and
`Sums` are shown to be the only ones that satisfy their equations, and to have the explicit
form, or the sums of a longer and a shorter list the relation, that the proofs need.

Only model-checked: the liveness properties (`FifosAreDrained`, `MessagesLeave`,
`StoredLeaves`, `EndedIsRestarted`, `NeverStuck`, `SamplesChange`, `ClosedLinksLeave`), which
rest on fairness and are out of reach of the prover. Every invariant and every safety
property over steps that a passing run checks is a theorem, the three of `ksli` and three of
`redis_sli` under the hypotheses in the table, which are also the settings of their runs; and the
two properties of runs that expect a violation are false.

## 5. Not modelled, and why

* Failing `malloc`, and a failing `epoll_wait` or `read()` of an eventfd, which ends its
  thread.
* `resource`: one thread that calls the `Init` functions of a table in order, before the
  others exist. When one of them fails, `main()` returns (`daemon/main.c:123`): nothing of what was
  set up is torn down, and the process ends. `ResourceMgrDeinit` runs only after the threads
  have ended.
* `cmd`: one request after the other for the path of the configuration, over a Unix
  socket, in one thread that shares no state with the others. It has a flaw that needs no model
  to be seen: the buffer of the result is allocated once before the loop and freed after
  every request, and also when `accept()` fails (`cmd/server.c:184`, `:204`); from the second
  request on the loop clears, fills and frees a buffer that was freed before.
* `lib/config`, `lib/meta`, `common`: read once before any thread runs; logging and
  arguments.
* The texts: pages, labels, JSON messages, the formats of `__wrap_fprintf`, the letters
  of a Redis request.
* Setting up and tearing down the Kafka producer, the HTTP daemon and the fifos.
* Of the probes: `blockprobe`, `taskprobe`, `endpointprobe`, `fileprobe`, `killprobe`,
  `containerdprobe`, `dnsmasqprobe` and the native probes, which count or print single
  events: sums over many fields of kernel structs, without a protocol between the hooks.
  The metrics of `tcpprobe` and their reports are left out for the same reason.
* Races inside of a hook, where a hook is one step: the reset of an old
  sample of `ksliprobe` can meet the handler of a delivery (`ksliprobe.bpf.c:444`).
* Scripts of `python.probe` and `sh.probe`.
* The generated kernel headers under `ebpf.probe/src/include`, which make up nearly all
  lines of the repository's C code and contain no behaviour.
