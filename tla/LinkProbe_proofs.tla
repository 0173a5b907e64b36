--------------------------- MODULE LinkProbe_proofs ---------------------------
(***************************************************************************)
(* Proofs about module LinkProbe: for any number of links and threads, any *)
(* size and buckets of the map and any mixture of ways of forwarding.      *)
(***************************************************************************)
EXTENDS LinkProbe, FiniteSetTheorems, TLAPS

(***************************************************************************)
(* The inductive invariant of the walk: of the links that stay where they  *)
(* are, those behind the place of the walk have been counted and the       *)
(* others not, and the link in the hands of the loop is in the map.        *)
(***************************************************************************)
Types ==
  /\ map \in [Keys -> {"open", "closed", NULL}] /\ front \in [Keys -> SUBSET Keys]
  /\ live \subseteq Links /\ marking \subseteq Keys
  /\ probe \in {"nginx", "haproxy", "lvs"}
  /\ opening \in [Threads -> Links \union {NULL}] /\ par \in [Threads -> Links \union {NULL}]
  /\ flag \in {"fullnat", "other", NULL}
  /\ pc \in {"next", "lookup", "decide", "print"}
  /\ key \in 0..(N + 1) /\ next \in 0..(N + 1) /\ data \in {"open", "closed", NULL}
  /\ counted \in [Keys -> 0..2]
  /\ steady \subseteq Links /\ recorded \subseteq Links /\ overtaken \subseteq Keys

\* No hook is busy with an open link, and a call that has begun knows its link.
Calls ==
  /\ live \cap marking = {}
  /\ \A t \in Threads : opening[t] # NULL => opening[t] \notin live \union marking
  /\ \A t, u \in Threads : t # u /\ opening[t] # NULL => opening[t] # opening[u]
  /\ probe = "nginx" => \A t \in Threads : opening[t] # NULL => par[t] = opening[t]
  /\ probe = "lvs" => \A t \in Threads : opening[t] # NULL => flag # NULL

Place ==
  /\ pc \in {"lookup", "decide"} => next # key /\ map[next] # NULL
  /\ pc = "decide" => counted[next] > 0
  /\ key # Zero => map[key] # NULL

\* The entries of a bucket form a list.
Lists ==
  /\ \A k \in Keys : \A j \in front[k] :
       /\ j # k /\ map[j] # NULL /\ map[k] # NULL /\ Bucket[j] = Bucket[k]
       /\ k \notin front[j] /\ front[j] \subseteq front[k]
  /\ \A j, k \in Keys : j # k /\ map[j] # NULL /\ map[k] # NULL /\ Bucket[j] = Bucket[k] =>
       j \in front[k] \/ k \in front[j]

Stays ==
  /\ StaysRecorded
  /\ recorded \cap marking = {}
  /\ pc = "decide" /\ data = "closed" /\ next \in recorded => next \in overtaken

\* The walk has come to link k or gone past it.
Behind(k) == key \in Entries /\ (k = key \/ Ahead(k, key))

Count ==
  /\ \A k \in steady : map[k] = "open" /\ k \in live /\ k \notin marking /\ map[Zero] = NULL
  /\ \A k \in steady : counted[k] = IF Behind(k) \/ (pc = "decide" /\ k = next) THEN 1 ELSE 0
  /\ pc \in {"lookup", "decide"} => \A k \in steady : Behind(k) <=> k # next /\ Ahead(k, next)
  /\ pc = "decide" /\ next \in steady => data # "closed"
  /\ pc = "print" => \A k \in steady : Behind(k)

-----------------------------------------------------------------------------
\* Every step keeps the types.
LEMMA InitTypes == Init => Types
BY LinkProbeAssumption DEF Init, Types, Keys, Links, Zero

\* A link that is entered is a link or the junk key.
LEMMA EnterKey ==
  ASSUME Types, NEW k \in Links, NEW l
  PROVE  ReadAs(l, k) \in Keys /\ KeyAtEnd(k) \in Keys /\ k \in Keys
BY LinkProbeAssumption DEF Types, ReadAs, KeyAtEnd, Keys, Links, Junk

\* Entering a link keeps the types.
LEMMA EnterTypes ==
  ASSUME Types, NEW k \in Links, NEW e \in Keys, Enter(k, e)
  PROVE  /\ map' \in [Keys -> {"open", "closed", NULL}]
         /\ front' \in [Keys -> SUBSET Keys] /\ steady' \subseteq steady
         /\ live' \subseteq Links /\ recorded' \subseteq Links /\ overtaken' \subseteq Keys
BY DEF Types, Enter, Record, Store, HeadFront, Entries, table, history

\* Entering the key of a connection that was not made keeps them too.
LEMMA RecordTypes ==
  ASSUME Types, Record(NULL, Zero)
  PROVE  /\ map' \in [Keys -> {"open", "closed", NULL}]
         /\ front' \in [Keys -> SUBSET Keys] /\ steady' \subseteq steady
         /\ recorded' = recorded /\ overtaken' \subseteq overtaken
<1>1. Zero \in Keys /\ NULL # Zero
  BY LinkProbeAssumption DEF Zero, Keys
<1> QED
  BY <1>1 DEF Types, Record, Store, HeadFront, Entries, table, history

\* Where the walk goes next: an entry with no other between its place and it.
LEMMA NextKey ==
  ASSUME Types, Place, Lists, PullNext
  PROVE  /\ next' \in Keys /\ next' # key /\ map[next'] # NULL
         /\ key \in Entries => Ahead(key, next')
         /\ \A k \in Entries \ {next'} : k \in After => Ahead(next', k)
<1>1. next' \in After /\ \A j \in After \ {next'} : Ahead(next', j)
  BY DEF PullNext
<1>2. After \subseteq Entries /\ Entries \subseteq Keys
  BY DEF After, Entries
<1>3. key \in Entries => Ahead(key, next')
  BY <1>1 DEF After
<1>4. next' # key
  <2>1. CASE key \in Entries
    <3>1. ~(Bucket[key] < Bucket[key]) /\ key \notin front[key]
      BY <1>2, <2>1, LinkProbeAssumption DEF Lists, Keys
    <3> QED
      BY <1>3, <2>1, <3>1 DEF Ahead
  <2> QED
    BY <1>1, <1>2, <2>1
<1> QED
  BY <1>1, <1>2, <1>3, <1>4 DEF Entries

-----------------------------------------------------------------------------
\* Every step keeps the types.
LEMMA NextTypes == Types /\ Place /\ Lists /\ Calls /\ [Next]_vars => Types'
<1> SUFFICES ASSUME Types, Place, Lists, Calls, [Next]_vars PROVE Types'
  OBVIOUS
<1> USE LinkProbeAssumption
<1>1. ASSUME NEW k \in Links, BackEstablish(k) \/ HttpUpstreamHandler(k) PROVE Types'
  <2>1. Enter(k, k) /\ k \in Keys
    BY <1>1, EnterKey DEF BackEstablish, HttpUpstreamHandler
  <2> QED
    BY <1>1, <2>1, EnterTypes DEF Types, BackEstablish, HttpUpstreamHandler, hooks, loop
<1>2. ASSUME NEW t \in Threads, StreamInitReturn(t) PROVE Types'
  <2>1. opening[t] \in Links /\ par[t] = opening[t]
    BY <1>2 DEF Types, Calls, StreamInitReturn
  <2>2. Enter(opening[t], par[t]) /\ par[t] \in Keys
    BY <1>2, <2>1, EnterKey DEF StreamInitReturn
  <2> QED
    BY <1>2, <2>1, <2>2, EnterTypes DEF Types, StreamInitReturn, loop
<1>15. ASSUME NEW t \in Threads, ConnNewFails(t) PROVE Types'
  <2>1. Record(NULL, Zero)
    BY <1>15 DEF ConnNewFails
  <2> QED
    BY <1>15, <2>1, RecordTypes DEF Types, ConnNewFails, loop
<1>3. ASSUME NEW t \in Threads, ConnNewReturn(t) PROVE Types'
  <2>1. opening[t] \in Links
    BY <1>3 DEF Types, ConnNewReturn
  <2>2. Enter(opening[t], ReadAs(flag, opening[t])) /\ ReadAs(flag, opening[t]) \in Keys
    BY <1>3, <2>1, EnterKey DEF ConnNewReturn
  <2> QED
    BY <1>3, <2>1, <2>2, EnterTypes DEF Types, ConnNewReturn, loop
<1>4. ASSUME NEW t \in Threads, NEW k \in Links, StreamInitEnter(t, k) \/ ConnNewEnter(t, k)
      PROVE  Types'
  BY ZenonT(40), <1>4 DEF Types, StreamInitEnter, ConnNewEnter, loop, history, table, Links
<1>5. ASSUME NEW t \in Threads, StreamInitFails(t) PROVE Types'
  BY <1>5 DEF Types, StreamInitFails, loop, history, table
<1>6. ASSUME NEW k \in Links, Close(k) PROVE Types'
  <2>1. KeyAtEnd(k) \in Keys
    BY EnterKey
  <2> QED
    BY <1>6, <2>1 DEF Types, Close, hooks, loop
<1>7. ASSUME NEW e \in Keys, CloseStore(e) PROVE Types'
  <2>1. Store(e, "closed") => /\ map' \in [Keys -> {"open", "closed", NULL}]
                              /\ front' \in [Keys -> SUBSET Keys] /\ steady' \subseteq steady
    BY DEF Types, Store, HeadFront, Entries
  <2> QED
    BY <1>7, <2>1 DEF Types, CloseStore, hooks, loop, table
<1>8. CASE PullNext
  <2>1. next' \in Keys
    BY <1>8, NextKey
  <2> QED
    BY <1>8, <2>1 DEF Types, PullNext, hooks, history, table, Keys
<1>9. CASE PullEnd
  BY <1>9 DEF Types, PullEnd, hooks, history, table
<1>10. CASE Lookup
  <2>1. next \in Keys
    BY DEF Types, Keys
  <2>2. map[next] # NULL => counted' \in [Keys -> 0..2]
    BY <1>10, <2>1 DEF Types, Lookup, Once
  <2> QED
    BY <1>10, <2>1, <2>2 DEF Types, Lookup, hooks, history, table
<1>11. CASE Delete
  BY <1>11 DEF Types, Delete, FrontWithout, hooks, history
<1>12. CASE Advance
  BY <1>12 DEF Types, Advance, hooks, history, table, Keys
<1>13. CASE PrintCollect
  BY <1>13 DEF Types, PrintCollect, hooks, table, Zero
<1>14. CASE UNCHANGED vars
  BY <1>14 DEF Types, vars, hooks, loop, history, table
<1> QED
  BY <1>1, <1>2, <1>3, <1>4, <1>5, <1>6, <1>7, <1>8, <1>9, <1>10, <1>11, <1>12, <1>13, <1>14,
     <1>15 DEF Next, Hooks, Loop

-----------------------------------------------------------------------------
\* What a hook can do to the map: enter a link that no other hook is busy with,
\* mark one, store a marked one again, or nothing.
EnterStep == \E k \in Links \union {NULL}, e \in Keys :
  /\ Record(k, e) /\ live \subseteq live' /\ k \notin marking
  /\ k # NULL => e \in {k, Junk}
  /\ k = NULL => e = Zero
  /\ UNCHANGED <<marking, loop>>

QuietStep == UNCHANGED <<table, live, marking, loop, history>>

\* Every hook is one of these.
LEMMA HookSteps ==
  ASSUME Types, Calls, Hooks
  PROVE  \/ EnterStep \/ QuietStep
         \/ \E k \in Links : Close(k)
         \/ \E e \in Keys : CloseStore(e)
<1> USE LinkProbeAssumption
<1>0. /\ NULL \notin Links /\ NULL \notin marking /\ Zero \in Keys
      /\ Links \subseteq Links \union {NULL}
  <2>1. Keys \subseteq Nat /\ Links \subseteq Nat /\ Zero \in Keys
    BY DEF Links, Keys, Zero
  <2>2. marking \subseteq Nat /\ NULL \notin Nat
    BY <2>1 DEF Types
  <2> QED
    BY <2>1, <2>2
<1>1. ASSUME NEW k \in Links, BackEstablish(k) \/ HttpUpstreamHandler(k) PROVE EnterStep
  <2>1. k \in Keys
    BY EnterKey
  <2> QED
    BY <1>0, <1>1, <2>1 DEF EnterStep, BackEstablish, HttpUpstreamHandler, Free, Enter
<1>2. ASSUME NEW t \in Threads, StreamInitReturn(t) PROVE EnterStep
  <2>1. opening[t] \in Links /\ par[t] = opening[t] /\ opening[t] \notin marking
    BY <1>2 DEF Types, Calls, StreamInitReturn
  <2>2. opening[t] \in Keys
    BY <2>1, EnterKey
  <2>3. Enter(opening[t], opening[t]) /\ UNCHANGED <<marking, loop>>
    BY <1>2, <2>1 DEF StreamInitReturn
  <2> QED
    BY <1>0, <2>1, <2>2, <2>3 DEF EnterStep, Enter
<1>3. ASSUME NEW t \in Threads, ConnNewReturn(t) PROVE EnterStep
  <2>1. opening[t] \in Links /\ opening[t] \notin marking
    BY <1>3 DEF Types, Calls, ConnNewReturn
  <2>2. ReadAs(flag, opening[t]) \in Keys /\ ReadAs(flag, opening[t]) \in {opening[t], Junk}
    BY <2>1, EnterKey DEF ReadAs
  <2>3. Enter(opening[t], ReadAs(flag, opening[t])) /\ UNCHANGED <<marking, loop>>
    BY <1>3 DEF ConnNewReturn
  <2> QED
    BY <1>0, <2>1, <2>2, <2>3 DEF EnterStep, Enter
<1>4. ASSUME NEW t \in Threads, NEW k \in Links, StreamInitEnter(t, k) \/ ConnNewEnter(t, k)
      PROVE  QuietStep
  BY <1>4 DEF QuietStep, StreamInitEnter, ConnNewEnter
<1>5. ASSUME NEW t \in Threads, StreamInitFails(t) PROVE QuietStep
  BY <1>5 DEF QuietStep, StreamInitFails
<1>6. ASSUME NEW t \in Threads, ConnNewFails(t) PROVE EnterStep
  BY <1>0, <1>6 DEF EnterStep, ConnNewFails
<1> QED
  BY <1>1, <1>2, <1>3, <1>4, <1>5, <1>6 DEF Hooks

-----------------------------------------------------------------------------
\* Two calls are never about the same link, and none about one that is open.
LEMMA NextCalls == Types /\ Place /\ Calls /\ [Next]_vars => Calls'
<1> SUFFICES ASSUME Types, Place, Calls, [Next]_vars PROVE Calls'
  OBVIOUS
<1> USE LinkProbeAssumption
<1>1. ASSUME NEW k \in Links, BackEstablish(k) \/ HttpUpstreamHandler(k) PROVE Calls'
  BY <1>1 DEF Types, Calls, BackEstablish, HttpUpstreamHandler, Enter, Free, hooks
<1>2. ASSUME NEW t \in Threads, StreamInitReturn(t) PROVE Calls'
  BY <1>2 DEF Types, Calls, StreamInitReturn, Enter
<1>3. ASSUME NEW t \in Threads, ConnNewReturn(t) PROVE Calls'
  BY <1>3 DEF Types, Calls, ConnNewReturn, Enter
<1>4. ASSUME NEW t \in Threads, NEW k \in Links, StreamInitEnter(t, k) PROVE Calls'
  BY <1>4 DEF Types, Calls, StreamInitEnter, Free, Links
<1>5. ASSUME NEW t \in Threads, NEW k \in Links, ConnNewEnter(t, k) PROVE Calls'
  BY <1>5 DEF Types, Calls, ConnNewEnter, Free, Links
<1>6. ASSUME NEW t \in Threads, StreamInitFails(t) PROVE Calls'
  BY <1>6 DEF Types, Calls, StreamInitFails
<1>7. ASSUME NEW k \in Links, Close(k) PROVE Calls'
  <2>1. \A t \in Threads : opening[t] # NULL => opening[t] # KeyAtEnd(k)
    BY <1>7 DEF Types, Close, Free, KeyAtEnd, ReadAs, Junk, Links
  <2>2. KeyAtEnd(k) \notin live \ {k}
    BY DEF Types, KeyAtEnd, ReadAs, Junk, Links
  <2> QED
    BY <1>7, <2>1, <2>2 DEF Types, Calls, Close, hooks
<1>8. ASSUME NEW e \in Keys, CloseStore(e) PROVE Calls'
  BY <1>8 DEF Calls, CloseStore, hooks
<1>9. CASE Loop
  BY <1>9 DEF Calls, Loop, PullNext, PullEnd, Lookup, Delete, Advance, PrintCollect, hooks
<1>10. CASE UNCHANGED vars
  BY <1>10 DEF Calls, vars, hooks
<1>11. ASSUME NEW t \in Threads, ConnNewFails(t) PROVE Calls'
  BY <1>11 DEF Types, Calls, ConnNewFails
<1> QED
  BY <1>1, <1>2, <1>3, <1>4, <1>5, <1>6, <1>7, <1>8, <1>9, <1>10, <1>11 DEF Next, Hooks

-----------------------------------------------------------------------------
\* No hook takes an entry out of the map.
LEMMA HooksKeep ==
  ASSUME Types, Calls, Hooks
  PROVE  /\ UNCHANGED loop
         /\ \A k \in Keys : map[k] # NULL => map'[k] # NULL
<1> USE LinkProbeAssumption
<1>1. CASE EnterStep
  BY <1>1 DEF Types, EnterStep, Record, Store, table
<1>2. CASE QuietStep
  BY <1>2 DEF QuietStep, table
<1>3. ASSUME NEW k \in Links, Close(k)
      PROVE  UNCHANGED loop /\ \A j \in Keys : map[j] # NULL => map'[j] # NULL
  BY <1>3 DEF Types, Close
<1>4. ASSUME NEW e \in Keys, CloseStore(e)
      PROVE  UNCHANGED loop /\ \A j \in Keys : map[j] # NULL => map'[j] # NULL
  BY <1>4 DEF Types, CloseStore, Store, table
<1> QED
  BY <1>1, <1>2, <1>3, <1>4, HookSteps

\* The walk keeps its place.
LEMMA NextPlace == Types /\ Calls /\ Place /\ Lists /\ [Next]_vars => Place'
<1> SUFFICES ASSUME Types, Calls, Place, Lists, [Next]_vars PROVE Place'
  OBVIOUS
<1> USE LinkProbeAssumption
<1>0. key \in Keys /\ next \in Keys
  BY DEF Types, Keys
<1>1. CASE Hooks
  BY <1>0, <1>1, HooksKeep DEF Place, loop
<1>2. CASE PullNext
  BY <1>2, NextKey DEF Place, PullNext, table
<1>3. CASE PullEnd
  BY <1>3 DEF Place, PullEnd, table
<1>4. CASE Lookup
  <2>1. counted[next] \in 0..2 /\ map[next] # NULL /\ next # key
    BY <1>0, <1>4 DEF Types, Place, Lookup
  <2>2. counted'[next] = Once(counted[next])
    BY <1>0, <1>4, <2>1 DEF Types, Lookup
  <2>3. counted'[next] > 0
    BY <2>1, <2>2 DEF Once
  <2> QED
    BY <1>4, <2>1, <2>3 DEF Place, Lookup, table
<1>5. CASE Delete
  <2>1. map'[key] = map[key]
    BY <1>0, <1>5 DEF Types, Place, Delete
  <2> QED
    BY <1>5, <2>1 DEF Place, Delete
<1>6. CASE Advance
  BY <1>6 DEF Place, Advance, table
<1>7. CASE PrintCollect
  BY <1>7 DEF Place, PrintCollect, table
<1>8. CASE UNCHANGED vars
  BY <1>8 DEF Place, vars, loop, table
<1> QED
  BY <1>1, <1>2, <1>3, <1>4, <1>5, <1>6, <1>7, <1>8 DEF Next, Loop

-----------------------------------------------------------------------------
\* A link that is recorded stays, unless it was overtaken.
LEMMA NextStays == Types /\ Calls /\ Place /\ Stays /\ [Next]_vars => Stays'
<1> SUFFICES ASSUME Types, Calls, Place, Stays, [Next]_vars PROVE Stays'
  OBVIOUS
<1> USE LinkProbeAssumption
<1>0. Junk \notin Links
  BY DEF Junk, Links
<1>1. CASE EnterStep
  <2>1. PICK k \in Links \union {NULL}, e \in Keys :
           /\ Record(k, e) /\ k \notin marking /\ (k # NULL => e \in {k, Junk})
           /\ (k = NULL => e = Zero) /\ UNCHANGED <<marking, loop>>
    BY <1>1 DEF EnterStep
  <2>a. Zero \notin Links /\ NULL # Zero
    BY DEF Zero, Links
  <2>2. CASE ~Room(e)
    BY <2>1, <2>2 DEF Stays, StaysRecorded, Record, loop, table, history
  <2>3. CASE Room(e)
    <3>1. map' = [map EXCEPT ![e] = "open"] /\ map'[e] = "open"
      BY <2>1, <2>3 DEF Types, Record, Store
    <3>2. recorded' = IF e = k THEN recorded \union {k} ELSE recorded
      BY <2>1, <2>3 DEF Record
    <3>3. overtaken \ {e} \subseteq overtaken'
      BY <2>1, <2>3 DEF Record
    <3>4. StaysRecorded'
      BY <1>0, <2>1, <2>a, <3>1, <3>2, <3>3 DEF Types, Stays, StaysRecorded
    <3>5. recorded' \cap marking' = {}
      BY <2>1, <3>2 DEF Stays
    <3>6. pc' = "decide" /\ data' = "closed" /\ next' \in recorded' => next' \in overtaken'
      BY <1>0, <2>1, <2>3, <2>a, <3>2, <3>3 DEF Types, Stays, Record, loop
    <3> QED
      BY <3>4, <3>5, <3>6 DEF Stays
  <2> QED
    BY <2>2, <2>3
<1>2. CASE QuietStep
  BY <1>2 DEF Stays, StaysRecorded, QuietStep, loop, history, table
<1>3. ASSUME NEW k \in Links, Close(k) PROVE Stays'
  <2>1. KeyAtEnd(k) \in {k, Junk}
    BY DEF KeyAtEnd, ReadAs
  <2>2. k \in Keys /\ KeyAtEnd(k) \in Keys
    BY EnterKey
  <2>3. \A j \in recorded' : map'[j] = map[j] /\ j # KeyAtEnd(k)
    <3>1. \A j \in recorded' : j # KeyAtEnd(k) /\ j \in Keys
      BY <1>0, <1>3, <2>1 DEF Types, Close, Links, Keys
    <3>2. map' = map \/ map' = [map EXCEPT ![KeyAtEnd(k)] = "closed"]
      BY <1>3 DEF Close
    <3> QED
      BY <3>1, <3>2 DEF Types
  <2> QED
    BY <1>3, <2>3 DEF Types, Stays, StaysRecorded, Close, loop
<1>4. ASSUME NEW e \in Keys, CloseStore(e) PROVE Stays'
  <2>1. \A j \in recorded : map'[j] = map[j]
    <3>1. \A j \in recorded : j \in Keys /\ j # e
      BY <1>4 DEF Types, Stays, CloseStore, Links, Keys
    <3> QED
      BY <1>4, <3>1 DEF Types, CloseStore, Store, table
  <2> QED
    BY <1>4, <2>1 DEF Stays, StaysRecorded, CloseStore, loop, history
<1>5. CASE PullNext
  BY <1>5 DEF Stays, StaysRecorded, PullNext, history, table
<1>6. CASE PullEnd
  BY <1>6 DEF Stays, StaysRecorded, PullEnd, history, table
<1>7. CASE Lookup
  BY <1>7 DEF Place, Stays, StaysRecorded, Lookup, history, table
<1>8. CASE Delete
  BY <1>8 DEF Types, Stays, StaysRecorded, Delete, history
<1>9. CASE Advance
  BY <1>9 DEF Stays, StaysRecorded, Advance, history, table
<1>10. CASE PrintCollect
  BY <1>10 DEF Stays, StaysRecorded, PrintCollect, table
<1>11. CASE UNCHANGED vars
  BY <1>11 DEF Stays, StaysRecorded, vars, loop, history, table
<1> QED
  BY <1>1, <1>2, <1>3, <1>4, <1>5, <1>6, <1>7, <1>8, <1>9, <1>10, <1>11, HookSteps
     DEF Next, Loop

-----------------------------------------------------------------------------
\* What is put at the head of its bucket becomes the first of the list.
LEMMA StoreLists ==
  ASSUME Types, Lists, NEW e \in Keys, NEW v \in {"open", "closed"}, Store(e, v)
  PROVE  Lists'
<1>1. v # NULL
  BY LinkProbeAssumption
<1>2. /\ \A k \in Keys : k # e => map'[k] = map[k]
      /\ map'[e] = v /\ front'[e] = {}
      /\ \A k \in Keys : k # e => front'[k] = IF map[k] # NULL /\ Bucket[k] = Bucket[e]
                                             THEN front[k] \union {e} ELSE front[k]
  BY DEF Types, Store, HeadFront, Entries
<1>3. ASSUME NEW k \in Keys, NEW j \in front'[k]
      PROVE  /\ j # k /\ map'[j] # NULL /\ map'[k] # NULL /\ Bucket[j] = Bucket[k]
             /\ k \notin front'[j] /\ front'[j] \subseteq front'[k]
  <2>1. k # e
    BY <1>2, <1>3
  <2>2. CASE j = e
    BY <1>1, <1>2, <1>3, <2>1, <2>2 DEF Lists
  <2>3. CASE j # e
    <3>1. j \in front[k] /\ j \in Keys
      BY <1>2, <1>3, <2>1, <2>3 DEF Types
    <3>2. /\ j # k /\ map[j] # NULL /\ map[k] # NULL /\ Bucket[j] = Bucket[k]
          /\ k \notin front[j] /\ front[j] \subseteq front[k]
      BY <3>1 DEF Lists
    <3>3. front'[j] \subseteq front[j] \union {e} /\ front[k] \subseteq front'[k]
      BY <1>2, <2>1, <2>3, <3>1
    <3>4. Bucket[k] = Bucket[e] => e \in front'[k]
      BY <1>2, <2>1, <3>2
    <3>5. Bucket[k] # Bucket[e] => front'[j] = front[j]
      BY <1>2, <2>3, <3>1, <3>2
    <3>6. front'[j] \subseteq front'[k] /\ k \notin front'[j]
      BY <2>1, <3>2, <3>3, <3>4, <3>5
    <3> QED
      BY <1>2, <2>1, <2>3, <3>1, <3>2, <3>6
  <2> QED
    BY <2>2, <2>3
<1>4. ASSUME NEW j \in Keys, NEW k \in Keys, j # k, map'[j] # NULL, map'[k] # NULL,
             Bucket[j] = Bucket[k]
      PROVE  j \in front'[k] \/ k \in front'[j]
  <2>1. CASE j = e
    BY <1>2, <1>4, <2>1
  <2>2. CASE k = e
    BY <1>2, <1>4, <2>2
  <2>3. CASE j # e /\ k # e
    <3>1. j \in front[k] \/ k \in front[j]
      BY <1>2, <1>4, <2>3 DEF Lists
    <3> QED
      BY <1>2, <1>4, <2>3, <3>1
  <2> QED
    BY <2>1, <2>2, <2>3
<1> QED
  BY <1>3, <1>4 DEF Lists

\* A list without one of its elements is a list.
LEMMA DeleteLists ==
  ASSUME Types, Lists, Delete
  PROVE  Lists'
<1>1. next \in Keys
  BY LinkProbeAssumption DEF Types, Keys
<1>2. /\ \A k \in Keys : k # next => map'[k] = map[k] /\ front'[k] = front[k] \ {next}
      /\ map'[next] = NULL /\ front'[next] = {}
  BY <1>1 DEF Types, Delete, FrontWithout
<1>3. ASSUME NEW k \in Keys, NEW j \in front'[k]
      PROVE  /\ j # k /\ map'[j] # NULL /\ map'[k] # NULL /\ Bucket[j] = Bucket[k]
             /\ k \notin front'[j] /\ front'[j] \subseteq front'[k]
  <2>1. k # next /\ j \in front[k] /\ j # next /\ j \in Keys
    BY <1>2, <1>3 DEF Types
  <2> QED
    BY <1>2, <2>1 DEF Lists
<1>4. ASSUME NEW j \in Keys, NEW k \in Keys, j # k, map'[j] # NULL, map'[k] # NULL,
             Bucket[j] = Bucket[k]
      PROVE  j \in front'[k] \/ k \in front'[j]
  BY <1>2, <1>4 DEF Lists
<1> QED
  BY <1>3, <1>4 DEF Lists

\* Marking an entry where it is changes no list.
LEMMA SameLists ==
  ASSUME Types, Lists, UNCHANGED front, \A k \in Keys : map'[k] = NULL <=> map[k] = NULL
  PROVE  Lists'
<1>1. \A k \in Keys : \A j \in front[k] : j \in Keys
  BY DEF Types
<1> QED
  BY <1>1 DEF Lists

\* Every step keeps the lists.
LEMMA NextLists == Types /\ Calls /\ Lists /\ [Next]_vars => Lists'
<1> SUFFICES ASSUME Types, Calls, Lists, [Next]_vars PROVE Lists'
  OBVIOUS
<1> USE LinkProbeAssumption
<1>1. CASE EnterStep
  <2>1. PICK k \in Links \union {NULL}, e \in Keys : Record(k, e)
    BY <1>1 DEF EnterStep
  <2>2. CASE Room(e)
    BY <2>1, <2>2, StoreLists DEF Record
  <2>3. CASE ~Room(e)
    BY <2>1, <2>3, SameLists DEF Record, table
  <2> QED
    BY <2>2, <2>3
<1>2. CASE UNCHANGED table
  BY <1>2, SameLists DEF table
<1>3. ASSUME NEW k \in Links, Close(k) PROVE Lists'
  <2>1. KeyAtEnd(k) \in Keys
    BY EnterKey
  <2>2. \A j \in Keys : map'[j] = NULL <=> map[j] = NULL
    BY <1>3, <2>1 DEF Types, Close
  <2> QED
    BY <1>3, <2>2, SameLists DEF Close
<1>4. ASSUME NEW e \in Keys, CloseStore(e) PROVE Lists'
  BY <1>2, <1>4, StoreLists DEF CloseStore, table
<1>5. CASE Delete
  BY <1>5, DeleteLists
<1>6. CASE PullNext \/ PullEnd \/ Lookup \/ Advance \/ PrintCollect \/ UNCHANGED vars \/ QuietStep
  BY <1>2, <1>6 DEF PullNext, PullEnd, Lookup, Advance, PrintCollect, vars, QuietStep
<1> QED
  BY <1>1, <1>3, <1>4, <1>5, <1>6, HookSteps DEF Next, Loop

-----------------------------------------------------------------------------
\* A link that is still steady has the same places before and after it.
LEMMA SamePlaces ==
  ASSUME Types, Lists, NEW e \in Keys, NEW v \in {"open", "closed"}, Store(e, v), e # Zero,
         NEW k \in steady', k \in Entries, NEW x \in Entries
  PROVE  (Ahead(k, x)' <=> Ahead(k, x)) /\ (Ahead(x, k)' <=> Ahead(x, k))
<1>1. k \in Keys /\ x \in Keys /\ map[k] # NULL /\ map[x] # NULL
  BY DEF Entries
<1>2. front'[e] = {} /\ k \notin Moved(e)
      /\ \A y \in Keys : y # e => front'[y] = IF map[y] # NULL /\ Bucket[y] = Bucket[e]
                                             THEN front[y] \union {e} ELSE front[y]
  BY DEF Types, Store, HeadFront, Entries
<1>3. k \notin front[e] /\ (k = e => front[e] = {})
  BY <1>2 DEF Moved
<1>4. k \in front'[x] <=> k \in front[x]
  <2>1. CASE x = e
    BY <1>2, <1>3, <2>1
  <2>2. CASE x # e
    <3>1. k = e /\ Bucket[x] = Bucket[e] => e \in front[x]
      BY <1>1, <1>3, <2>2 DEF Lists
    <3>2. k = e /\ e \in front[x] => Bucket[x] = Bucket[e]
      BY <1>1 DEF Lists
    <3> QED
      BY <1>1, <1>2, <2>2, <3>1, <3>2
  <2> QED
    BY <2>1, <2>2
<1>5. x \in front'[k] <=> x \in front[k]
  <2>1. CASE k = e
    BY <1>2, <1>3, <2>1
  <2>2. CASE k # e /\ x # e
    BY <1>1, <1>2, <2>2
  <2>3. CASE k # e /\ x = e
    <3>1. Bucket[k] = Bucket[e] => e \in front[k]
      BY <1>1, <1>3, <2>3 DEF Lists
    <3> QED
      BY <1>1, <1>2, <2>3, <3>1
  <2> QED
    BY <2>1, <2>2, <2>3
<1> QED
  BY <1>4, <1>5 DEF Ahead

\* Storing an entry at the head of its bucket.
LEMMA StoreCount ==
  ASSUME Types, Lists, Place, Count, NEW e \in Keys, NEW v \in {"open", "closed"}, Store(e, v),
         UNCHANGED loop, \A k \in steady' : map'[k] = "open" /\ k \in live' /\ k \notin marking'
  PROVE  Count'
<1> USE LinkProbeAssumption
<1>1. CASE e = Zero
  <2>1. steady' = {}
    BY <1>1 DEF Types, Store, Moved
  <2> QED
    BY <2>1 DEF Count
<1>2. CASE e # Zero
  <2>1. steady' \subseteq steady /\ (\A k \in Keys : k # e => map'[k] = map[k]) /\ map'[e] # NULL
    BY DEF Types, Store
  <2>2. Zero \in Keys /\ key \in Keys /\ next \in Keys /\ steady \subseteq Keys
    BY DEF Types, Zero, Keys, Links
  <2>3. \A k \in steady' : k \in Entries /\ map[Zero] = NULL
    BY <2>1, <2>2 DEF Count, Entries
  <2>4. map'[Zero] = map[Zero]
    BY <1>2, <2>1, <2>2
  <2>5. ASSUME NEW k \in steady' PROVE Behind(k)' <=> Behind(k)
    <3>1. key' = key /\ (key' \in Entries' <=> key \in Entries)
      BY <2>1, <2>2, <2>3, <2>4 DEF Place, Entries, loop
    <3>2. key \in Entries => (Ahead(k, key)' <=> Ahead(k, key))
      BY <1>2, <2>3, <3>1, SamePlaces DEF Ahead
    <3> QED
      BY <3>1, <3>2 DEF Behind
  <2>6. ASSUME NEW k \in steady', pc \in {"lookup", "decide"}
        PROVE  Ahead(k, next)' <=> Ahead(k, next)
    <3>1. next \in Entries /\ next' = next
      BY <2>2, <2>6 DEF Place, Entries, loop
    <3> QED
      BY <1>2, <2>3, <3>1, SamePlaces DEF Ahead
  <2> QED
    BY <2>1, <2>3, <2>4, <2>5, <2>6 DEF Count, loop
<1> QED
  BY <1>1, <1>2

\* The order of a walk is the order of a list.
LEMMA Order ==
  ASSUME Types, Lists, NEW a \in Entries, NEW b \in Entries, NEW c \in Entries
  PROVE  /\ ~Ahead(a, a)
         /\ Ahead(a, b) => ~Ahead(b, a)
         /\ Ahead(a, b) /\ Ahead(b, c) => Ahead(a, c)
         /\ a # b => Ahead(a, b) \/ Ahead(b, a)
<1>1. a \in Keys /\ b \in Keys /\ c \in Keys /\ map[a] # NULL /\ map[b] # NULL /\ map[c] # NULL
  BY DEF Entries
<1>2. Bucket[a] \in Nat /\ Bucket[b] \in Nat /\ Bucket[c] \in Nat
  BY <1>1, LinkProbeAssumption DEF Keys
<1>3. \A x \in {a, b, c}, y \in {a, b, c} : x \in front[y] =>
        x # y /\ Bucket[x] = Bucket[y] /\ y \notin front[x] /\ front[x] \subseteq front[y]
  BY <1>1 DEF Lists
<1>4. a # b /\ Bucket[a] = Bucket[b] => a \in front[b] \/ b \in front[a]
  BY <1>1 DEF Lists
<1> QED
  BY <1>2, <1>3, <1>4 DEF Ahead

\* Steps of hooks that leave the lists as they are.
LEMMA SameCount ==
  ASSUME Types, Count, UNCHANGED <<front, loop>>, steady' \subseteq steady,
         \A k \in Keys : map'[k] = NULL <=> map[k] = NULL,
         \A k \in steady' : map'[k] = "open" /\ k \in live' /\ k \notin marking'
  PROVE  Count'
<1>1. Entries' = Entries /\ Zero \in Keys
  BY LinkProbeAssumption DEF Entries, Zero, Keys
<1>2. \A k : Behind(k)' <=> Behind(k)
  BY <1>1 DEF Behind, Ahead, loop
<1> QED
  BY <1>1, <1>2 DEF Count, Ahead, loop

\* What is behind the walk was counted once, what is ahead of it was not.
LEMMA NextCount == Types /\ Calls /\ Place /\ Lists /\ Count /\ [Next]_vars => Count'
<1> SUFFICES ASSUME Types, Calls, Place, Lists, Count, [Next]_vars PROVE Count'
  OBVIOUS
<1> USE LinkProbeAssumption
<1>0. /\ Junk \notin Links /\ steady \subseteq Keys /\ Links \subseteq Keys /\ Zero \in Keys
      /\ key \in Keys /\ next \in Keys /\ \A k \in steady : k \in Entries
  BY DEF Types, Junk, Links, Keys, Zero, Count, Entries
<1>1. CASE EnterStep
  <2>1. PICK k \in Links \union {NULL}, e \in Keys :
           Record(k, e) /\ live \subseteq live' /\ UNCHANGED <<marking, loop>>
    BY <1>1 DEF EnterStep
  <2>2. CASE Room(e)
    <3>1. Store(e, "open")
      BY <2>1, <2>2 DEF Record
    <3>2. \A j \in steady' : map'[j] = "open" /\ j \in live' /\ j \notin marking'
      BY <1>0, <2>1, <3>1 DEF Types, Count, Store
    <3> QED
      BY <2>1, <3>1, <3>2, StoreCount
  <2>3. CASE ~Room(e)
    BY <2>1, <2>3, SameCount DEF Count, Record, table, history
  <2> QED
    BY <2>2, <2>3
<1>2. CASE QuietStep
  BY <1>2, SameCount DEF Count, QuietStep, table, history
<1>3. ASSUME NEW k \in Links, Close(k) PROVE Count'
  <2>1. KeyAtEnd(k) \in {k, Junk} /\ KeyAtEnd(k) \in Keys
    BY EnterKey DEF KeyAtEnd, ReadAs
  <2>2. steady' = steady \ {k} /\ live' = live \ {k} /\ UNCHANGED <<front, loop>>
    BY <1>3 DEF Close
  <2>3. \A j \in Keys : j # KeyAtEnd(k) => map'[j] = map[j] /\ (j \in marking' <=> j \in marking)
    BY <1>3, <2>1 DEF Types, Close
  <2>4. \A j \in Keys : map'[j] = NULL <=> map[j] = NULL
    BY <1>3, <2>1 DEF Types, Close
  <2>5. \A j \in steady' : map'[j] = "open" /\ j \in live' /\ j \notin marking'
    BY <1>0, <2>1, <2>2, <2>3 DEF Types, Count
  <2> QED
    BY <2>2, <2>4, <2>5, SameCount
<1>4. ASSUME NEW e \in Keys, CloseStore(e) PROVE Count'
  <2>1. UNCHANGED <<live, loop>> /\ marking' \subseteq marking /\ e \in marking
    BY <1>4 DEF CloseStore
  <2>2. CASE Room(e)
    <3>1. Store(e, "closed")
      BY <1>4, <2>2 DEF CloseStore
    <3>2. \A j \in steady' : map'[j] = "open" /\ j \in live' /\ j \notin marking'
      BY <1>0, <2>1, <3>1 DEF Types, Count, Store
    <3> QED
      BY <2>1, <3>1, <3>2, StoreCount
  <2>3. CASE ~Room(e)
    BY <1>4, <2>1, <2>3, SameCount DEF Count, CloseStore, table
  <2> QED
    BY <2>2, <2>3
<1>5. CASE PullNext
  <2>1. next' \in Entries /\ next' \in After /\ \A j \in After \ {next'} : Ahead(next', j)
    BY <1>5 DEF PullNext, After
  <2>2. ASSUME NEW k \in steady PROVE Behind(k) <=> k # next' /\ Ahead(k, next')
    <3>1. CASE key \in Entries
      <4>1. Ahead(key, next')
        BY <2>1, <3>1 DEF After
      <4>2. ASSUME Behind(k) PROVE k # next' /\ Ahead(k, next')
        BY <1>0, <2>1, <3>1, <4>1, <4>2, Order DEF Behind
      <4>3. ASSUME ~Behind(k), k # next' PROVE ~Ahead(k, next')
        <5>1. Ahead(key, k)
          BY <1>0, <3>1, <4>3, Order DEF Behind
        <5>2. Ahead(next', k)
          BY <1>0, <2>1, <3>1, <4>3, <5>1 DEF After
        <5> QED
          BY <1>0, <2>1, <5>2, Order
      <4> QED
        BY <4>2, <4>3
    <3>2. CASE key \notin Entries
      <4>1. k # next' => Ahead(next', k)
        BY <1>0, <2>1, <3>2 DEF After
      <4> QED
        BY <1>0, <2>1, <3>2, <4>1, Order DEF Behind
    <3> QED
      BY <3>1, <3>2
  <2>3. \A k : (Behind(k)' <=> Behind(k)) /\ (Ahead(k, next)' <=> Ahead(k, next'))
    BY <1>5 DEF PullNext, Behind, Ahead, Entries, table
  <2> QED
    BY <1>5, <2>2, <2>3 DEF Count, PullNext, table, history
<1>6. CASE PullEnd
  <2>1. \A k \in steady : Behind(k)
    <3>1. key \in Entries => \A k \in steady : ~Ahead(key, k)
      BY <1>0, <1>6 DEF PullEnd, After
    <3>2. key \notin Entries => steady = {}
      BY <1>0, <1>6 DEF PullEnd, After
    <3> QED
      BY <1>0, <3>1, <3>2, Order DEF Behind
  <2>2. \A k : Behind(k)' <=> Behind(k)
    BY <1>6 DEF PullEnd, Behind, Ahead, Entries, table
  <2> QED
    BY <1>6, <2>1, <2>2 DEF Count, PullEnd, table, history
<1>7. CASE Lookup
  <2>1. map[next] # NULL /\ next \in Entries
    BY <1>0, <1>7 DEF Place, Lookup, Entries
  <2>2. counted' = [counted EXCEPT ![next] = Once(counted[next])] /\ data' = map[next]
    BY <1>7, <2>1 DEF Lookup
  <2>3. \A k \in Keys : k # next => counted'[k] = counted[k]
    BY <2>2 DEF Types
  <2>4. next \in steady => ~Behind(next) /\ counted[next] = 0
    BY <1>7 DEF Count, Lookup
  <2>5. next \in steady => counted'[next] = 1 /\ data' # "closed"
    BY <1>0, <2>2, <2>4 DEF Types, Count, Once
  <2>6. \A k \in steady : counted'[k] = IF Behind(k) \/ k = next THEN 1 ELSE 0
    BY <1>0, <1>7, <2>3, <2>5 DEF Count, Lookup
  <2>7. \A k : (Behind(k)' <=> Behind(k)) /\ (Ahead(k, next)' <=> Ahead(k, next))
    BY <1>7 DEF Lookup, Behind, Ahead, Entries, table
  <2> QED
    BY <1>7, <2>5, <2>6, <2>7 DEF Count, Lookup, table, history
<1>8. CASE Delete
  <2>1. next \notin steady /\ next # key /\ map[next] # NULL
    BY <1>8 DEF Count, Place, Delete
  <2>2. \A k \in Keys : k # next => map'[k] = map[k] /\ front'[k] = front[k] \ {next}
    BY <1>0, <1>8 DEF Types, Delete, FrontWithout
  <2>3. \A k \in steady : (Behind(k)' <=> Behind(k)) /\ map'[k] = map[k] /\ map'[Zero] = map[Zero]
    <3>1. key' = key /\ (key \in Entries' <=> key \in Entries)
      BY <1>0, <1>8, <2>1, <2>2 DEF Delete, Entries
    <3>2. \A k \in steady : k \in front'[key] <=> k \in front[key]
      BY <1>0, <2>1, <2>2
    <3>3. \A k \in steady : Behind(k)' <=> Behind(k)
      BY <3>1, <3>2 DEF Behind, Ahead
    <3> QED
      BY <1>0, <2>1, <2>2, <3>3 DEF Count
  <2> QED
    BY <1>8, <2>1, <2>3 DEF Count, Delete, history
<1>9. CASE Advance
  <2>1. next \in Entries
    BY <1>0, <1>9 DEF Place, Advance, Entries
  <2>2. \A k : Behind(k)' <=> k = next \/ Ahead(k, next)
    BY <1>9, <2>1 DEF Advance, Behind, Ahead, Entries, table
  <2>3. \A k \in steady : counted[k] = IF Behind(k)' THEN 1 ELSE 0
    BY <1>9, <2>2 DEF Count, Advance
  <2> QED
    BY <1>9, <2>3 DEF Count, Advance, table, history
<1>10. CASE PrintCollect
  <2>1. steady' # {} => map'[Zero] = NULL /\ key' \notin Entries'
    BY <1>10 DEF PrintCollect, Entries, table
  <2>2. \A k \in steady' : map'[k] = "open" /\ k \in live' /\ k \notin marking' /\ k \in Keys
    BY <1>0, <1>10 DEF Types, Calls, PrintCollect, table
  <2>3. \A k \in steady' : ~Behind(k)' /\ counted'[k] = 0
    BY <1>10, <2>1, <2>2 DEF Behind, PrintCollect
  <2> QED
    BY <1>10, <2>1, <2>2, <2>3 DEF Count, PrintCollect
<1>11. CASE UNCHANGED vars
  BY <1>11, SameCount DEF Count, vars, table, history
<1> QED
  BY <1>1, <1>2, <1>3, <1>4, <1>5, <1>6, <1>7, <1>8, <1>9, <1>10, <1>11, HookSteps
     DEF Next, Loop

-----------------------------------------------------------------------------
IInv == Types /\ Calls /\ Place /\ Lists /\ Stays /\ Count

\* The invariant is inductive.
LEMMA InductiveInvariant == Spec => []IInv
<1>1. Init => IInv
  <2> SUFFICES ASSUME Init PROVE IInv
    OBVIOUS
  <2> USE LinkProbeAssumption
  <2>1. Types
    BY InitTypes
  <2>2. Calls /\ Place /\ Stays
    BY DEF Init, Calls, Place, Stays, StaysRecorded
  <2>3. Count
    BY DEF Init, Count
  <2>4. Lists
    BY DEF Init, Lists
  <2> QED
    BY <2>1, <2>2, <2>3, <2>4 DEF IInv
<1>2. IInv /\ [Next]_vars => IInv'
  BY NextTypes, NextCalls, NextPlace, NextLists, NextStays, NextCount DEF IInv
<1> QED
  BY <1>1, <1>2, PTL DEF Spec

(***************************************************************************)
(* For any number of links and threads, and although the hooks change the  *)
(* map while pull_probe_data walks through it, the lookup of the loop      *)
(* never fails and the walk never starts again.                            *)
(***************************************************************************)
THEOREM PlaceIsKept == Spec => []WalkKeepsItsPlace
<1>1. IInv => WalkKeepsItsPlace
  BY DEF IInv, Place, WalkKeepsItsPlace
<1> QED
  BY <1>1, InductiveInvariant, PTL

(***************************************************************************)
(* A link that is open during all of a walk and keeps its place in the     *)
(* list of its bucket is counted in it exactly once, although entries are  *)
(* put at the head of the lists and taken out of them, also those that the *)
(* loop goes on from.  This is so for any number of buckets.               *)
(***************************************************************************)
THEOREM OpenLinksAreCountedOnce == Spec => []CountedOnce
<1>1. IInv => CountedOnce
  <2> SUFFICES ASSUME IInv, NEW k \in steady
               PROVE  counted[k] <= 1 /\ (pc = "print" => counted[k] = 1)
    BY DEF CountedOnce
  <2> QED
    BY DEF IInv, Count
<1> QED
  BY <1>1, InductiveInvariant, PTL

(***************************************************************************)
(* A link that was entered stays in the map until it is closed, unless its *)
(* key was used again between a lookup and a deletion of the loop.  This   *)
(* holds also where lvsprobe forwards links in both layouts.               *)
(***************************************************************************)
THEOREM RecordedLinksStay == Spec => []StaysRecorded
<1>1. IInv => StaysRecorded
  BY DEF IInv, Stays
<1> QED
  BY <1>1, InductiveInvariant, PTL

(***************************************************************************)
(* No step of a hook or of the loop takes a link out of the map that was   *)
(* not counted in the same walk.                                           *)
(***************************************************************************)
THEOREM NoLinkLeavesUncounted == Spec => CountedBeforeItLeaves
<1>1. IInv /\ [Next]_vars =>
        [\A k \in Keys : map[k] # NULL /\ map'[k] = NULL => counted[k] > 0]_vars
  <2> SUFFICES ASSUME IInv, [Next]_vars, NEW k \in Keys, map[k] # NULL, map'[k] = NULL
               PROVE  counted[k] > 0
    OBVIOUS
  <2>1. ~Hooks
    BY HooksKeep DEF IInv
  <2>2. Delete
    BY <2>1 DEF Next, Loop, PullNext, PullEnd, Lookup, Advance, PrintCollect, vars, table
  <2>3. k = next
    BY <2>2 DEF IInv, Types, Delete
  <2> QED
    BY <2>2, <2>3 DEF IInv, Place, Delete
<1> QED
  BY <1>1, InductiveInvariant, PTL DEF Spec, CountedBeforeItLeaves

-----------------------------------------------------------------------------
\* Entries is a finite set of keys.
LEMMA EntriesFinite == IsFiniteSet(Entries)
<1>1. IsFiniteSet(Keys)
  BY LinkProbeAssumption, FS_Interval DEF Keys
<1>2. Entries \subseteq Keys
  BY DEF Entries
<1> QED
  BY <1>1, <1>2, FS_Subset

\* A step that leaves the other keys alone and had room for the one it writes.
LEMMA StaysInRoom ==
  ASSUME Types, Types', NEW e \in Keys, Cardinality(Entries) <= MaxEntries,
         \A k \in Keys : k # e => map'[k] = map[k],
         map'[e] # NULL => Room(e)
  PROVE  Cardinality(Entries') <= MaxEntries
<1> USE LinkProbeAssumption
<1>1. IsFiniteSet(Entries) /\ Cardinality(Entries) \in Nat
  BY EntriesFinite, FS_CardinalityType
<1>2. CASE Entries' \subseteq Entries
  <2>1. Cardinality(Entries') <= Cardinality(Entries) /\ IsFiniteSet(Entries')
    BY <1>1, <1>2, FS_Subset
  <2>2. Cardinality(Entries') \in Nat
    BY <2>1, FS_CardinalityType
  <2> QED
    BY <1>1, <2>1, <2>2
<1>3. CASE ~(Entries' \subseteq Entries)
  <2>1. e \notin Entries /\ Entries' = Entries \union {e} /\ map[e] = NULL /\ map'[e] # NULL
    BY <1>3 DEF Entries
  <2>2. Cardinality(Entries) < MaxEntries
    BY <2>1 DEF Room
  <2>3. Cardinality(Entries') = Cardinality(Entries) + 1
    BY <1>1, <2>1, FS_AddElement
  <2> QED
    BY <1>1, <2>2, <2>3
<1> QED
  BY <1>2, <1>3

\* Every step leaves room, or had room for what it enters.
LEMMA NextRoom ==
  ASSUME IInv, IInv', Cardinality(Entries) <= MaxEntries, [Next]_vars
  PROVE  Cardinality(Entries') <= MaxEntries
<1> USE LinkProbeAssumption DEF IInv
<1>1. CASE EnterStep
  <2>1. PICK k \in Links \union {NULL}, e \in Keys : Record(k, e)
    BY <1>1 DEF EnterStep
  <2>2. CASE Room(e)
    BY <2>1, <2>2, StaysInRoom DEF Types, Record, Store
  <2>3. CASE ~Room(e)
    BY <2>1, <2>3 DEF Record, Entries, table
  <2> QED
    BY <2>2, <2>3
<1>2. CASE UNCHANGED map
  BY <1>2 DEF Entries
<1>3. ASSUME NEW k \in Links, Close(k) PROVE Cardinality(Entries') <= MaxEntries
  <2>1. KeyAtEnd(k) \in Keys
    BY EnterKey
  <2>2. CASE map[KeyAtEnd(k)] # NULL
    BY <1>3, <2>1, <2>2, StaysInRoom DEF Types, Close, Room
  <2>3. CASE map[KeyAtEnd(k)] = NULL
    BY <1>3, <2>3, <1>2 DEF Close
  <2> QED
    BY <2>2, <2>3
<1>4. ASSUME NEW e \in Keys, CloseStore(e) PROVE Cardinality(Entries') <= MaxEntries
  <2>1. CASE Room(e)
    BY <1>4, <2>1, StaysInRoom DEF Types, CloseStore, Store
  <2>2. CASE ~Room(e)
    BY <1>4, <2>2, <1>2 DEF CloseStore, table
  <2> QED
    BY <2>1, <2>2
<1>5. CASE Delete
  <2>1. next \in Keys /\ map'[next] = NULL /\ \A k \in Keys : k # next => map'[k] = map[k]
    BY <1>5 DEF Types, Place, Delete
  <2> QED
    BY <2>1, StaysInRoom
<1>6. CASE PullNext \/ PullEnd \/ Lookup \/ Advance \/ PrintCollect \/ UNCHANGED vars \/ QuietStep
  BY <1>2, <1>6 DEF PullNext, PullEnd, Lookup, Advance, PrintCollect, vars, QuietStep, table
<1> QED
  BY <1>1, <1>3, <1>4, <1>5, <1>6, HookSteps DEF Next, Loop

(***************************************************************************)
(* Types, and the map never holds more links than it was created for.      *)
(***************************************************************************)
THEOREM LinkProbeTypes == Spec => []TypeOK
<1> DEFINE Fits == Cardinality(Entries) <= MaxEntries
<1>1. Init => Fits
  <2> SUFFICES ASSUME Init PROVE Fits
    OBVIOUS
  <2>1. Entries = {}
    BY DEF Init, Entries
  <2> QED
    BY <2>1, FS_EmptySet, LinkProbeAssumption
<1>2. IInv /\ IInv' /\ Fits /\ [Next]_vars => Fits'
  BY NextRoom
<1>3. IInv /\ Fits => TypeOK
  BY DEF IInv, Types, TypeOK
<1> HIDE DEF Fits
<1> QED
  BY <1>1, <1>2, <1>3, InductiveInvariant, PTL DEF Spec
=============================================================================
