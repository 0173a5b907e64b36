----------------------------- MODULE WebServer -----------------------------
(***************************************************************************)
(* The web server: one thread of libmicrohttpd that serves any number of   *)
(* connections, and the one page buffer that they share.                   *)
(*                                                                         *)
(* WebRequestCallback writes the page into g_buffer and queues a response  *)
(* that points to g_buffer (MHD_RESPMEM_PERSISTENT: it is not copied).     *)
(* libmicrohttpd sends the response in pieces, whenever the socket of the  *)
(* connection takes more, and calls the callback for other connections in  *)
(* between.  Module Imdb says what a page holds; here it has a number.     *)
(***************************************************************************)
EXTENDS Integers, Sequences

CONSTANTS
  Conns,     \* connections
  Pieces,    \* number of pieces a page is sent in
  MaxPages   \* bound: pages written

VARIABLES
  pages,   \* pages written so far
  buffer,  \* g_buffer: the number of the page in it
  state,   \* per connection: what libmicrohttpd does with it next
  page,    \* per connection: the page it was promised
  sent     \* per connection: the page each piece was taken from

vars == <<pages, buffer, state, page, sent>>

Init ==
  /\ pages = 0 /\ buffer = 0
  /\ state = [c \in Conns |-> "idle"]
  /\ page = [c \in Conns |-> 0]
  /\ sent = [c \in Conns |-> <<>>]

\* First call for a request: only *ptr is set.  A method other than GET, or
\* uploaded data, closes the connection instead and changes nothing.
Headers(c) ==
  /\ state[c] = "idle"
  /\ state' = [state EXCEPT ![c] = "request"]
  /\ UNCHANGED <<pages, buffer, page, sent>>

\* Second call: the page is written and a response is queued.
Respond(c) ==
  /\ state[c] = "request" /\ pages < MaxPages
  /\ pages' = pages + 1
  /\ buffer' = pages'
  /\ page' = [page EXCEPT ![c] = pages']
  /\ sent' = [sent EXCEPT ![c] = <<>>]
  /\ state' = [state EXCEPT ![c] = "send"]

\* The scrape fails: what it wrote stays in g_buffer, the connection closes.
Refuse(c) ==
  /\ state[c] = "request" /\ pages < MaxPages
  /\ pages' = pages + 1
  /\ buffer' = pages'
  /\ state' = [state EXCEPT ![c] = "idle"]
  /\ UNCHANGED <<page, sent>>

\* The socket takes one more piece.
Send(c) ==
  /\ state[c] = "send" /\ Len(sent[c]) < Pieces
  /\ sent' = [sent EXCEPT ![c] = Append(@, buffer)]
  /\ state' = [state EXCEPT ![c] = IF Len(sent'[c]) = Pieces THEN "idle" ELSE "send"]
  /\ UNCHANGED <<pages, buffer, page>>

Next == \E c \in Conns : Headers(c) \/ Respond(c) \/ Refuse(c) \/ Send(c)

Spec == Init /\ [][Next]_vars
-----------------------------------------------------------------------------
\* api_doc.md: a GET of /metrics returns the page.  No piece of a response
\* comes from the page of another request.
OnePage == \A c \in Conns : \A i \in DOMAIN sent[c] : sent[c][i] = page[c]
=============================================================================
