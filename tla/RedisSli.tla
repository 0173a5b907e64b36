------------------------------ MODULE RedisSli ------------------------------
(***************************************************************************)
(* redissli.bpf.c: the latency of one command per period of a Redis        *)
(* connection, by uprobes on the functions of the server.  The probe does  *)
(* not see the replies, it infers from two numbers of the client, the fill *)
(* of the static buffer (c->bufpos) and the size of the list of blocks     *)
(* (c->reply_bytes), when the reply to the sampled command has been        *)
(* written to the socket.                                                  *)
(*                                                                         *)
(* The module models one connection: all state of the probe is per         *)
(* connection.  How Redis 6.2.1, the only version redissli.h accepts,      *)
(* fills and empties its two stores is external.  Bytes are counted in     *)
(* units; a timestamp is modelled by what the probe concludes from it.     *)
(***************************************************************************)
EXTENDS Integers, Sequences, FiniteSets

CONSTANTS
  BufSize,     \* units in the static buffer of a client
  Chunk,       \* units in a block of the list, at least
  MaxPart,     \* bound: units of one addReply
  MaxOut,      \* bound: units a client has waiting
  MaxPipe,     \* bound: commands that one read brings
  Period,      \* period_map, in ticks
  Unblocks,    \* whether commands wait in the query buffer of a blocked client,
               \* and run after a write
  NULL

ASSUME RedisSliAssumption ==
  /\ {BufSize, Chunk, MaxPart, MaxOut, MaxPipe, Period} \subseteq Nat \ {0}
  /\ Unblocks \in BOOLEAN
  /\ NULL \notin Nat

VARIABLES
  pc,        \* where the server is: "idle", "process" or "write"
  pending,   \* commands in the query buffer
  bufpos,    \* c->bufpos
  list,      \* c->reply, the blocks: size and used
  sentlen,   \* c->sentlen: what was sent of the buffer or else of the first block
  blocked,   \* the client waits for a command that has returned: BLPOP, WAIT, ...
  conn,      \* the entry of conn_map, or NULL
  stash,     \* whether processCommand's return will find its parameters
  last,      \* whether last_read_ts_nsec is that of the last read
  where,     \* history: the stores the reply of the sampled command went to,
             \* {"later"} if the command blocked the client
  left       \* history: units to be sent until that reply has been sent

redis == <<pc, pending, bufpos, list, sentlen, blocked>>
vars  == <<pc, pending, bufpos, list, sentlen, blocked, conn, stash, last, where, left>>

\* The sums of the first 0, 1, ... elements of d.
Sums(d) == LET s[n \in 0..Len(d)] == IF n = 0 THEN 0 ELSE s[n - 1] + d[n] IN s

\* The sizes of the first n blocks, what is used of them, and c->reply_bytes.
Sizes == Sums([i \in DOMAIN list |-> list[i].size])
Used  == Sums([i \in DOMAIN list |-> list[i].used])
reply_bytes == Sizes[Len(list)]
Waiting     == bufpos + Used[Len(list)] - sentlen

NoCmd == [start |-> FALSE, store |-> "NO_STORAGE", wr |-> 0, finished |-> FALSE]

Init ==
  /\ pc = "idle" /\ pending = 0
  /\ bufpos = 0 /\ list = <<>> /\ sentlen = 0 /\ blocked = FALSE
  /\ conn = NULL /\ stash = FALSE /\ last = FALSE
  /\ where = {} /\ left = 0

Busy == conn # NULL /\ conn.n > 0

-----------------------------------------------------------------------------
\* create_conn_from_client.
NewConn == [n |-> 0, smp |-> 0, rdBuf |-> 0, rdList |-> 0, curBuf |-> 0, curList |-> 0,
            cmd |-> NoCmd]

\* Mutant of ReadQuery: what was sent before the command stays counted.
ReadQuery_NoReset ==
  /\ pc = "idle" /\ pending = 0 /\ (blocked => Unblocks)
  /\ \E k \in 1..MaxPipe : pending' = k
  /\ LET c == IF conn = NULL THEN NewConn ELSE conn IN
       conn' = c /\ last' = (c.n = 0)
  /\ UNCHANGED <<pc, bufpos, list, sentlen, blocked, stash, where, left>>

\* Mutant of ReadQuery: the sizes start again although a command is sampled.
ReadQuery_AlwaysReset ==
  /\ pc = "idle" /\ pending = 0 /\ (blocked => Unblocks)
  /\ \E k \in 1..MaxPipe : pending' = k
  /\ LET c == IF conn = NULL THEN NewConn ELSE conn IN
       /\ conn' = [c EXCEPT !.rdBuf = 0, !.rdList = 0]
       /\ last' = (c.n = 0)
  /\ UNCHANGED <<pc, bufpos, list, sentlen, blocked, stash, where, left>>

\* readQueryFromClient: the time and the sizes start again for the next sample.
ReadQuery ==
  /\ pc = "idle" /\ pending = 0 /\ (blocked => Unblocks)
  /\ \E k \in 1..MaxPipe : pending' = k
  /\ LET c == IF conn = NULL THEN NewConn ELSE conn IN
       IF c.n > 0 THEN conn' = c /\ last' = FALSE
       ELSE conn' = [c EXCEPT !.rdBuf = 0, !.rdList = 0] /\ last' = TRUE
  /\ UNCHANGED <<pc, bufpos, list, sentlen, blocked, stash, where, left>>

\* conn_map is full: the connection is not followed.
ReadQueryUnknown ==
  /\ pc = "idle" /\ pending = 0 /\ (blocked => Unblocks) /\ conn = NULL
  /\ \E k \in 1..MaxPipe : pending' = k
  /\ UNCHANGED <<pc, bufpos, list, sentlen, blocked, conn, stash, last, where, left>>

-----------------------------------------------------------------------------
\* Mutant of ProcessCommand: a new command takes the place of the sampled one.
ProcessCommand_NoGuard ==
  /\ pc = "idle" /\ pending > 0 /\ ~blocked
  /\ pc' = "process" /\ pending' = pending - 1
  /\ conn' = IF conn = NULL THEN conn
             ELSE [conn EXCEPT !.n = 1, !.curBuf = bufpos, !.curList = reply_bytes,
                               !.cmd.start = last, !.cmd.finished = FALSE]
  /\ stash' = (conn # NULL) /\ where' = {} /\ left' = 0
  /\ UNCHANGED <<bufpos, list, sentlen, blocked, last>>

\* Mutant of ProcessCommand: the command is added to the sampled ones.
ProcessCommand_Append ==
  /\ pc = "idle" /\ pending > 0 /\ ~blocked
  /\ pc' = "process" /\ pending' = pending - 1
  /\ conn' = IF conn = NULL THEN conn
             ELSE [conn EXCEPT !.n = @ + 1, !.curBuf = bufpos, !.curList = reply_bytes,
                               !.cmd.start = last, !.cmd.finished = FALSE]
  /\ stash' = (conn # NULL) /\ where' = {} /\ left' = 0
  /\ UNCHANGED <<bufpos, list, sentlen, blocked, last>>

\* The entry of processCommand: the command is sampled when no other one is.
ProcessCommand ==
  /\ pc = "idle" /\ pending > 0 /\ ~blocked
  /\ pc' = "process" /\ pending' = pending - 1
  /\ IF conn = NULL \/ Busy THEN stash' = FALSE /\ UNCHANGED <<conn, where, left>>
     ELSE /\ conn' = [conn EXCEPT !.n = 1, !.curBuf = bufpos, !.curList = reply_bytes,
                                  !.cmd.start = last, !.cmd.finished = FALSE]
          /\ stash' = TRUE /\ where' = {} /\ left' = 0
  /\ UNCHANGED <<bufpos, list, sentlen, blocked, last>>

Spare == IF list = <<>> THEN 0 ELSE list[Len(list)].size - list[Len(list)].used

\* The sampled command is the one that is processed.
Sampled(stores) == where' = IF stash THEN where \union stores ELSE where

\* _addReplyToBuffer: to the buffer while the list is empty and there is room, ...
AddToBuffer(k) ==
  /\ Waiting + k <= MaxOut
  /\ list = <<>> /\ bufpos + k <= BufSize
  /\ bufpos' = bufpos + k
  /\ UNCHANGED <<list, sentlen>>

\* What goes to the last block, as far as it has room.
InTail(k) == IF k <= Spare THEN k ELSE Spare

\* _addReplyProtoToList: ... or to the last block and then to a new one.
AddToList(k) ==
  /\ Waiting + k <= MaxOut
  /\ ~(list = <<>> /\ bufpos + k <= BufSize)
  /\ LET rest == k - InTail(k)
         tail == [list EXCEPT ![Len(list)].used = @ + InTail(k)]
     IN list' = IF rest = 0 THEN tail
                ELSE Append(IF InTail(k) = 0 THEN list ELSE tail,
                            [size |-> IF rest < Chunk THEN Chunk ELSE rest,
                             used |-> rest])
  /\ UNCHANGED <<bufpos, sentlen>>

\* The parts of the list it goes to.
InList(k) == (IF InTail(k) > 0 THEN {"spare"} ELSE {})
             \union (IF k > InTail(k) THEN {"list"} ELSE {})

\* addReply of the command that runs.
ReplyToBuffer(k) ==
  /\ pc = "process"
  /\ AddToBuffer(k)
  /\ Sampled({"buf"})
  /\ UNCHANGED <<pc, pending, blocked, conn, stash, last, left>>

ReplyToList(k) ==
  /\ pc = "process"
  /\ AddToList(k)
  /\ Sampled(InList(k))
  /\ UNCHANGED <<pc, pending, blocked, conn, stash, last, left>>

(***************************************************************************)
(* addReply while no command of the client runs: the reply of the command  *)
(* that has blocked it, with which it may be unblocked, or a message of a  *)
(* channel, at any time between two reads.  The probe sees the sizes only. *)
(***************************************************************************)
ReplyLater(k) ==
  /\ pc = "idle" /\ (pending = 0 \/ blocked)
  /\ AddToBuffer(k) \/ AddToList(k)
  /\ blocked' \in {blocked, FALSE}
  /\ UNCHANGED <<pc, pending, conn, stash, last, where, left>>

(***************************************************************************)
(* A command that has added no reply may have blocked the client; the one  *)
(* that is sampled then counts as one without a reply.  (One that is not   *)
(* sampled may block the client whatever was added.)                       *)
(***************************************************************************)
Block ==
  /\ blocked' \in BOOLEAN
  /\ blocked' => (pending = 0 \/ Unblocks) /\ (stash => where = {})
  /\ where' = IF stash /\ blocked' THEN {"later"} ELSE where

\* The return of processCommand: where the reply ends.
ProcessReturn ==
  /\ pc = "process"
  /\ pc' = "idle" /\ stash' = FALSE
  /\ IF ~stash THEN UNCHANGED <<conn, left>>
     ELSE /\ left' = IF where = {} THEN 0 ELSE Waiting
          /\ conn' =
               IF conn.curBuf < bufpos
               THEN [conn EXCEPT !.cmd.store = "STATIC_BUFFER", !.cmd.wr = bufpos]
               ELSE IF conn.curList < reply_bytes
               THEN [conn EXCEPT !.cmd.store = "DYNAMIC_LIST", !.cmd.wr = reply_bytes]
               ELSE [conn EXCEPT !.cmd.store = "NO_STORAGE", !.cmd.finished = TRUE]
  /\ Block
  /\ UNCHANGED <<pending, bufpos, list, sentlen, last>>

-----------------------------------------------------------------------------
\* The entry of writeToClient.
WriteToClient ==
  /\ pc = "idle" /\ Waiting > 0
  /\ pending = 0 \/ Unblocks
  /\ pc' = "write"
  /\ conn' = IF conn = NULL THEN conn
             ELSE [conn EXCEPT !.curBuf = bufpos, !.curList = reply_bytes]
  /\ UNCHANGED <<pending, bufpos, list, sentlen, blocked, stash, last, where, left>>

\* The socket takes a unit, first of the buffer, then of the blocks; the buffer
\* is empty when all of it was sent, a block is freed when all of it was sent.
Send ==
  /\ pc = "write" /\ Waiting > 0
  /\ LET whole == sentlen + 1 = IF bufpos > 0 THEN bufpos ELSE Head(list).used IN
       /\ sentlen' = IF whole THEN 0 ELSE sentlen + 1
       /\ bufpos' = IF whole THEN 0 ELSE bufpos
       /\ list' = IF whole /\ bufpos = 0 THEN Tail(list) ELSE list
  /\ left' = IF left > 0 THEN left - 1 ELSE 0
  /\ UNCHANGED <<pc, pending, blocked, conn, stash, last, where>>

\* Bounds: only whether a sum has reached a position matters, and no position in
\* the buffer or the list is larger than these.
MaxBuf  == BufSize
MaxList == MaxOut + 2 * Chunk + MaxPart
Capped(n, max) == IF n > max THEN max ELSE n

\* The reply is written when as much was written as stood before its end.
Written(c) ==
  \/ c.cmd.store = "STATIC_BUFFER" /\ c.cmd.wr <= c.rdBuf
  \/ c.cmd.store = "DYNAMIC_LIST" /\ c.cmd.wr <= c.rdList

\* (curBuf and curList are set again before they are looked at.)
Counted ==
  [conn EXCEPT !.curBuf = 0, !.curList = 0,
               !.rdBuf  = IF bufpos < conn.curBuf
                          THEN Capped(@ + conn.curBuf - bufpos, MaxBuf) ELSE @,
               !.rdList = IF reply_bytes < conn.curList
                          THEN Capped(@ + conn.curList - reply_bytes, MaxList) ELSE @]

\* Mutant of Renewed: a sample that is not finished stays.
Renewed_OnlyFinished(c) ==
  IF c.smp > Period /\ c.cmd.finished THEN [c EXCEPT !.smp = 0, !.n = 0, !.cmd = NoCmd] ELSE c

\* After the period the sample is sent if it is finished, and dropped if not.
\* (cmds[0] is set again before it is looked at.)
Renewed(c) ==
  IF c.smp > Period THEN [c EXCEPT !.smp = 0, !.n = 0, !.cmd = NoCmd] ELSE c

\* The return of writeToClient, whether all was written or not.
WriteReturn ==
  /\ pc = "write"
  /\ pc' = "idle"
  /\ conn' = IF conn = NULL THEN conn
             ELSE IF ~Busy THEN Counted
             ELSE Renewed([Counted EXCEPT !.cmd.finished = @ \/ Written(Counted)])
  /\ IF Busy' THEN UNCHANGED <<where, left>> ELSE where' = {} /\ left' = 0
  /\ UNCHANGED <<pending, bufpos, list, sentlen, blocked, stash, last>>

\* freeClient.  The next connection with this descriptor starts anew.
FreeClient ==
  /\ pc = "idle"
  /\ pending' = 0 /\ bufpos' = 0 /\ list' = <<>> /\ sentlen' = 0 /\ blocked' = FALSE
  /\ conn' = NULL /\ last' = FALSE /\ where' = {} /\ left' = 0
  /\ UNCHANGED <<pc, stash>>

Tick ==
  /\ conn # NULL /\ conn.smp <= Period
  /\ conn' = [conn EXCEPT !.smp = @ + 1]
  /\ UNCHANGED <<redis, stash, last, where, left>>

Next ==
  \/ ReadQuery \/ ReadQueryUnknown
  \/ ProcessCommand \/ ProcessReturn
  \/ \E k \in 1..MaxPart : ReplyToBuffer(k) \/ ReplyToList(k) \/ ReplyLater(k)
  \/ WriteToClient \/ Send \/ WriteReturn
  \/ FreeClient
  \/ Tick

Spec == Init /\ [][Next]_vars

\* Time passes and writeToClient returns; nothing makes it write all.
FairSpec == Spec /\ WF_vars(Tick) /\ WF_vars(WriteReturn)
-----------------------------------------------------------------------------
(***************************************************************************)
(* Properties.                                                             *)
(***************************************************************************)
Cmds  == [start : BOOLEAN, store : {"NO_STORAGE", "STATIC_BUFFER", "DYNAMIC_LIST"},
          wr : Nat, finished : BOOLEAN]
Conns == [n : 0..1, smp : 0..(Period + 1), rdBuf : Nat, rdList : Nat, curBuf : Nat,
          curList : Nat, cmd : Cmds]

\* Types; cmd_nums never exceeds MAX_CACHED_CMDS, the size of the array cmds.
TypeOK ==
  /\ pc \in {"idle", "process", "write"} /\ pending \in 0..MaxPipe
  /\ bufpos \in 0..BufSize /\ list \in Seq([size : Nat, used : Nat]) /\ sentlen \in Nat
  /\ blocked \in BOOLEAN
  /\ conn \in Conns \union {NULL} /\ stash \in BOOLEAN /\ last \in BOOLEAN
  /\ where \subseteq {"buf", "list", "spare", "later"} /\ left \in Nat

\* The reply has parts in both stores, of which the probe takes the first, or
\* it is all in the rest of a block, where the probe does not see it, or it comes
\* after the return of a command that blocks, for which the probe does not wait.
Misjudged == {"buf", "list"} \subseteq where \/ where = {"spare"} \/ "later" \in where

(***************************************************************************)
(* A command that counts as finished has been answered: all of its reply   *)
(* was given to the socket, also when it stood behind older replies and    *)
(* was written in pieces, after commands of the same read, with messages   *)
(* of channels before and after it.  (Not for the replies that             *)
(* processCommand's return misjudges, the late one of a blocking command   *)
(* among them.)                                                            *)
(***************************************************************************)
FinishedIsSent ==
  Busy /\ conn.cmd.finished /\ ~stash /\ ~Misjudged => left = 0

(***************************************************************************)
(* The other direction: when nothing waits to be written the sampled       *)
(* command is finished.  No reply is missed, however the sums rd_bufsize   *)
(* and rd_listsize got to their values.                                    *)
(***************************************************************************)
SentIsFinished ==
  Busy /\ pc = "idle" /\ Waiting = 0 => conn.cmd.finished

(***************************************************************************)
(* The latency starts at the read that brought the command, although a     *)
(* read during a sample does not set last_read_ts_nsec.                    *)
(***************************************************************************)
StartIsRead == Busy => conn.cmd.start

(***************************************************************************)
(* While writeToClient keeps being called a sample makes room for the next *)
(* one, also when its reply is never seen to be written.                   *)
(***************************************************************************)
SamplesChange == []<>(pc = "write") => (Busy ~> ~Busy)
=============================================================================
