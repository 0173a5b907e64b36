------------------------------ MODULE LinkProbe ------------------------------
(***************************************************************************)
(* The probes of load balancers: nginx_probe, trace_haproxy and trace_lvs. *)
(* Each one keeps its links in a hash map in the kernel.  Hooks in the     *)
(* load balancer enter a link when it is established and mark it when it   *)
(* is closed.  A loop in user space walks through the map once per period, *)
(* counts the links it meets and deletes the ones that are marked, while   *)
(* the hooks go on changing the map.                                       *)
(*                                                                         *)
(* A behaviour is one of a single probe, chosen in the initial state: they *)
(* differ in their hooks and share the shape of the loop.  The map is the  *)
(* kernel's hash: an entry is put at the head of the list of its bucket    *)
(* when it is entered and also when it is stored again, and                *)
(* bpf_map_get_next_key goes through the lists, bucket by bucket.  What a  *)
(* line says about a link is left out.                                     *)
(***************************************************************************)
EXTENDS Integers, FiniteSets

CONSTANTS
  N,           \* links, 1..N: pairs of addresses, used again after a close
  Threads,     \* threads or CPUs of the load balancer
  MaxEntries,  \* HASH_ITEM_CNTS, LINK_MAX_ENTRIES, IPVS_MAX_ENTRIES
  Mode,        \* per link: whether IPVS forwards it by "fullnat" or by "other"
  Bucket,      \* per key: its bucket in the hash
  NULL

ASSUME LinkProbeAssumption ==
  /\ N \in Nat \ {0} /\ MaxEntries \in Nat \ {0}
  /\ Mode \in [1..N -> {"fullnat", "other"}]
  /\ Bucket \in [0..(N + 1) -> Nat]
  /\ NULL \notin Nat \union {"open", "closed", "fullnat", "other"}

Links == 1..N
Junk  == N + 1            \* the key that a struct of the other layout gives
Zero  == 0                \* the key that is all zeros, from which the loop starts
Keys  == 0..(N + 1)

VARIABLES
  probe,     \* which of the three probes this is
  map,       \* hs, haproxy_link_map or lvs_link_map
  front,     \* per key: the entries that are in front of it in the list of its bucket
  live,      \* the links that are open
  opening,   \* per thread: the link that it is establishing
  par,       \* para_hs: per thread, the session of the last call
  flag,      \* lvs_flag_map: its only entry
  marking,   \* links that a hook has marked and is about to store again
  pc, key, next, data,  \* the loop in user space
  counted,   \* how often a link was counted in this walk (capped at 2)
  steady,    \* history: links that were in the map, open, since the walk began, and
             \* whose place in the list of their bucket did not change
  recorded,  \* history: links that were entered since they were opened
  overtaken  \* history: links opened between the lookup and the deletion of
             \* the closed link before them under the same key

hooks   == <<opening, par, flag>>
loop    == <<pc, key, next, data, counted>>
history == <<steady, recorded, overtaken>>
table   == <<map, front>>
vars    == <<probe, table, live, hooks, marking, loop, history>>

Entries == {k \in Keys : map[k] # NULL}

Init ==
  /\ probe \in {"nginx", "haproxy", "lvs"}
  /\ map = [k \in Keys |-> NULL] /\ front = [k \in Keys |-> {}] /\ live = {}
  /\ opening = [t \in Threads |-> NULL] /\ par = [t \in Threads |-> NULL]
  /\ flag = NULL /\ marking = {}
  /\ pc = "next" /\ key = Zero /\ next = Zero /\ data = NULL
  /\ counted = [k \in Keys |-> 0]
  /\ steady = {} /\ recorded = {} /\ overtaken = {}

-----------------------------------------------------------------------------
(***************************************************************************)
(* The hooks.                                                              *)
(***************************************************************************)
\* Mutant of Room: one entry more.
Room_OneMore(k) == map[k] # NULL \/ Cardinality(Entries) <= MaxEntries

\* bpf_map_update_elem(..., BPF_ANY): a new key needs room.
Room(k) == map[k] # NULL \/ Cardinality(Entries) < MaxEntries

Free(k) == k \notin marking /\ \A t \in Threads : opening[t] # k

\* The entries in front of an entry after e was put at the head of its bucket, ...
HeadFront(e) ==
  [k \in Keys |-> IF k # e /\ k \in Entries /\ Bucket[k] = Bucket[e] THEN front[k] \union {e}
                  ELSE IF k = e THEN {} ELSE front[k]]

\* ... and after it was deleted.
FrontWithout(e) == [k \in Keys |-> IF k = e THEN {} ELSE front[k] \ {e}]

\* The links whose place changes when e is put at the head: e and what it passes.
\* (An entry Zero is different: the loop starts from it, wherever it is.)
Moved(e) == IF e = Zero THEN Links ELSE IF front[e] = {} THEN {} ELSE front[e] \union {e}

Store(e, value) ==
  /\ map' = [map EXCEPT ![e] = value]
  /\ front' = HeadFront(e)
  /\ steady' = steady \ Moved(e)

\* A link is entered under key e: link k, unless k is NULL.
Record(k, e) ==
  IF Room(e)
  THEN /\ Store(e, "open")
       /\ recorded' = IF e = k THEN recorded \union {k} ELSE recorded
       /\ overtaken' = IF e = k /\ e = next /\ pc = "decide" /\ data = "closed"
                       THEN overtaken \union {e} ELSE overtaken \ {e}
  ELSE UNCHANGED <<table, history>>

\* Link k is open; it is entered under key e.
Enter(k, e) == live' = live \union {k} /\ Record(k, e)

\* haproxy: back_establish.
BackEstablish(k) ==
  /\ probe = "haproxy"
  /\ k \notin live /\ Free(k)
  /\ Enter(k, k)
  /\ UNCHANGED <<probe, hooks, marking, loop>>

\* nginx, HTTP: every event of the upstream of a request enters the link again.
HttpUpstreamHandler(k) ==
  /\ probe = "nginx"
  /\ Free(k)
  /\ Enter(k, k)
  /\ UNCHANGED <<probe, hooks, marking, loop>>

\* nginx, TCP: the session is remembered at the entry, ...
StreamInitEnter(t, k) ==
  /\ probe = "nginx"
  /\ k \notin live /\ Free(k) /\ opening[t] = NULL
  /\ opening' = [opening EXCEPT ![t] = k]
  /\ par' = [par EXCEPT ![t] = k]
  /\ UNCHANGED <<probe, table, live, flag, marking, loop, history>>

\* ... and the link is entered at the return (the entry of para_hs is stale from
\* then on, and written again by the next call),
StreamInitReturn(t) ==
  /\ probe = "nginx" /\ opening[t] # NULL
  /\ opening' = [opening EXCEPT ![t] = NULL]
  /\ Enter(opening[t], par[t]) /\ par' = [par EXCEPT ![t] = NULL]
  /\ UNCHANGED <<probe, flag, marking, loop>>

\* if an upstream was found.
StreamInitFails(t) ==
  /\ probe = "nginx" /\ opening[t] # NULL
  /\ opening' = [opening EXCEPT ![t] = NULL] /\ par' = [par EXCEPT ![t] = NULL]
  /\ UNCHANGED <<probe, table, live, flag, marking, loop, history>>

\* IPVS: the entry of ip_vs_conn_new leaves the way of forwarding in the map, ...
ConnNewEnter(t, k) ==
  /\ probe = "lvs"
  /\ k \notin live /\ Free(k) /\ opening[t] = NULL
  /\ opening' = [opening EXCEPT ![t] = k]
  /\ flag' = Mode[k]
  /\ UNCHANGED <<probe, table, live, par, marking, loop, history>>

\* The struct of a connection is read in one of two layouts.
ReadAs(layout, k) == IF Mode[k] = layout THEN k ELSE Junk

\* ... and its return reads the connection in the layout that it finds there.
ConnNewReturn(t) ==
  /\ probe = "lvs" /\ opening[t] # NULL
  /\ opening' = [opening EXCEPT ![t] = NULL]
  /\ Enter(opening[t], ReadAs(flag, opening[t]))
  /\ UNCHANGED <<probe, par, flag, marking, loop>>

\* ip_vs_conn_new found no memory: the fields of NULL are read as zeros.
ConnNewFails(t) ==
  /\ probe = "lvs" /\ opening[t] # NULL
  /\ opening' = [opening EXCEPT ![t] = NULL]
  /\ Record(NULL, Zero)
  /\ UNCHANGED <<probe, live, par, flag, marking, loop>>

\* The key that the hook on the end of a link computes.
KeyAtEnd(k) == IF probe # "lvs" THEN k ELSE ReadAs(IF flag = NULL THEN "other" ELSE flag, k)

\* Mutant of Close: a hook that does not mark the link.
Close_NoMark(k) ==
  /\ k \in live /\ Free(k)
  /\ live' = live \ {k} /\ steady' = steady \ {k} /\ recorded' = recorded \ {k}
  /\ overtaken' = overtaken \ {k}
  /\ UNCHANGED <<probe, table, hooks, marking, loop>>

\* The end of a link: stream_free, ngx_close_connection or ip_vs_conn_expire
\* marks it where it is in the map, ...
Close(k) ==
  /\ k \in live /\ Free(k)
  /\ live' = live \ {k} /\ steady' = steady \ {k} /\ recorded' = recorded \ {k}
  /\ overtaken' = overtaken \ {k}
  /\ UNCHANGED front
  /\ IF map[KeyAtEnd(k)] = NULL THEN UNCHANGED <<map, marking>>
     ELSE /\ map' = [map EXCEPT ![KeyAtEnd(k)] = "closed"]
          /\ marking' = marking \union {KeyAtEnd(k)}
  /\ UNCHANGED <<probe, hooks, loop>>

\* ... and stores it again, even if the loop has deleted it in between.
CloseStore(e) ==
  /\ e \in marking
  /\ marking' = marking \ {e}
  /\ IF Room(e) THEN Store(e, "closed") ELSE UNCHANGED <<table, steady>>
  /\ UNCHANGED <<probe, live, hooks, loop, recorded, overtaken>>

-----------------------------------------------------------------------------
(***************************************************************************)
(* The loop: pull_probe_data and the printing of what it counted.          *)
(***************************************************************************)
\* Mutant of After: the walk leaves out the rest of a bucket.
After_NextBucket ==
  IF key \in Entries THEN {k \in Entries : Bucket[key] < Bucket[k]} ELSE Entries

\* The order of a walk.
Ahead(j, k) == Bucket[j] < Bucket[k] \/ j \in front[k]

\* From a key that is not in the map the walk starts at the first bucket.
After == IF key \in Entries THEN {k \in Entries : Ahead(key, k)} ELSE Entries

PullNext ==
  /\ pc = "next"
  /\ \E k \in After : next' = k /\ \A j \in After \ {k} : Ahead(k, j)
  /\ pc' = "lookup"
  /\ UNCHANGED <<probe, table, live, hooks, marking, key, data, counted, history>>

PullEnd ==
  /\ pc = "next" /\ After = {}
  /\ pc' = "print"
  /\ UNCHANGED <<probe, table, live, hooks, marking, key, next, data, counted, history>>

Once(n) == IF n < 2 THEN n + 1 ELSE n

\* Mutant of Lookup: only open links are counted.
Lookup_OnlyOpen ==
  /\ pc = "lookup" /\ pc' = "decide"
  /\ IF map[next] = NULL THEN UNCHANGED <<data, counted>>
     ELSE /\ data' = map[next]
          /\ counted' = IF map[next] = "open" THEN [counted EXCEPT ![next] = Once(@)] ELSE counted
  /\ UNCHANGED <<probe, table, live, hooks, marking, key, next, history>>

\* Where the lookup fails, data is that of an earlier link.
Lookup ==
  /\ pc = "lookup" /\ pc' = "decide"
  /\ IF map[next] = NULL THEN UNCHANGED <<data, counted>>
     ELSE data' = map[next] /\ counted' = [counted EXCEPT ![next] = Once(@)]
  /\ UNCHANGED <<probe, table, live, hooks, marking, key, next, history>>

\* Mutant of Delete: the walk goes on from the link that was deleted.
Delete_Advance ==
  /\ pc = "decide" /\ data = "closed"
  /\ map' = [map EXCEPT ![next] = NULL] /\ front' = FrontWithout(next)
  /\ pc' = "next" /\ key' = next
  /\ UNCHANGED <<probe, live, hooks, marking, next, data, counted, history>>

Delete ==
  /\ pc = "decide" /\ data = "closed"
  /\ map' = [map EXCEPT ![next] = NULL] /\ front' = FrontWithout(next)
  /\ pc' = "next"
  /\ UNCHANGED <<probe, live, hooks, marking, key, next, data, counted, history>>

\* Mutant of Advance: the link is deleted after it was counted.
Advance_Delete ==
  /\ pc = "decide" /\ data # "closed"
  /\ map' = [map EXCEPT ![next] = NULL] /\ front' = FrontWithout(next)
  /\ pc' = "next"
  /\ UNCHANGED <<probe, live, hooks, marking, key, next, data, counted, history>>

Advance ==
  /\ pc = "decide" /\ data # "closed"
  /\ key' = next
  /\ pc' = "next"
  /\ UNCHANGED <<probe, table, live, hooks, marking, next, data, counted, history>>

\* The counts are printed and deleted, and the next walk begins a period later.
PrintCollect ==
  /\ pc = "print" /\ pc' = "next"
  /\ key' = Zero /\ next' = Zero /\ data' = NULL
  /\ counted' = [k \in Keys |-> 0]
  /\ steady' = IF map[Zero] = NULL THEN {k \in live : map[k] = "open"} ELSE {}
  /\ UNCHANGED <<probe, table, live, hooks, marking, recorded, overtaken>>

Hooks ==
  \/ \E k \in Links : BackEstablish(k) \/ HttpUpstreamHandler(k) \/ Close(k)
  \/ \E k \in Keys : CloseStore(k)
  \/ \E t \in Threads, k \in Links : StreamInitEnter(t, k) \/ ConnNewEnter(t, k)
  \/ \E t \in Threads : StreamInitReturn(t) \/ StreamInitFails(t) \/ ConnNewReturn(t) \/ ConnNewFails(t)

Loop == PullNext \/ PullEnd \/ Lookup \/ Delete \/ Advance \/ PrintCollect

Next == Hooks \/ Loop

Spec == Init /\ [][Next]_vars

\* The loop is a program of its own.
FairSpec == Spec /\ WF_vars(Loop)
-----------------------------------------------------------------------------
(***************************************************************************)
(* Properties.                                                             *)
(***************************************************************************)
\* Types, and the map is never larger than it was created.
TypeOK ==
  /\ probe \in {"nginx", "haproxy", "lvs"}
  /\ map \in [Keys -> {"open", "closed", NULL}] /\ front \in [Keys -> SUBSET Keys]
  /\ Cardinality(Entries) <= MaxEntries
  /\ live \subseteq Links /\ marking \subseteq Keys
  /\ opening \in [Threads -> Links \union {NULL}] /\ par \in [Threads -> Links \union {NULL}]
  /\ flag \in {"fullnat", "other", NULL}
  /\ pc \in {"next", "lookup", "decide", "print"}
  /\ key \in 0..(N + 1) /\ next \in 0..(N + 1) /\ data \in {"open", "closed", NULL}
  /\ counted \in [Keys -> 0..2]
  /\ steady \subseteq Links /\ recorded \subseteq Links /\ overtaken \subseteq Keys

(***************************************************************************)
(* The lookup never fails, so that the loop never decides by the data of   *)
(* another link (or, in nginx_probe.c and trace_lvs.c, by an uninitialized *)
(* struct), and the key it goes on from is in the map, so that the walk    *)
(* does not start again: only the loop deletes.                            *)
(***************************************************************************)
WalkKeepsItsPlace ==
  /\ pc = "lookup" => map[next] # NULL
  /\ key # Zero => map[key] # NULL

(***************************************************************************)
(* A link that is open during all of a walk is counted in it exactly once, *)
(* whatever is entered, closed and deleted around it, as long as its place *)
(* in the list of its bucket does not change.  (A link that is stored      *)
(* again, as by every event of nginx_probe and every close, goes to the    *)
(* head: it may pass the loop and be missed, and when the loop goes on     *)
(* from it what it passed is counted twice.  And from an entry Zero, which *)
(* is never closed, every walk misses what comes before it.)               *)
(***************************************************************************)
CountedOnce ==
  \A k \in steady :
    /\ counted[k] <= 1
    /\ pc = "print" => counted[k] = 1

(***************************************************************************)
(* A link that was entered stays in the map until it is closed.  The one   *)
(* exception: its addresses are used again just between the lookup of the  *)
(* closed link before it and the deletion, which then deletes the new one. *)
(***************************************************************************)
StaysRecorded ==
  \A k \in recorded : map[k] = "open" \/ k \in overtaken

(***************************************************************************)
(* No link leaves the map without having been counted in this walk.        *)
(***************************************************************************)
CountedBeforeItLeaves ==
  [][\A k \in Keys : map[k] # NULL /\ map'[k] = NULL => counted[k] > 0]_vars

(***************************************************************************)
(* Closed links do not stay in the map, as long as walks come to an end:   *)
(* otherwise the map fills up, and they are counted in every period.  (For *)
(* lvsprobe only if all links are forwarded in ways of the same layout,    *)
(* and if ip_vs_conn_new does not fail.)                                   *)
(***************************************************************************)
ClosedLinksLeave ==
  []<>(pc = "print") =>
    \A k \in Links : (map[k] # NULL /\ k \notin live) ~>
                     (map[k] = NULL \/ k \in live \/ map[Zero] # NULL)
=============================================================================
