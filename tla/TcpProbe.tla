------------------------------ MODULE TcpProbe ------------------------------
(***************************************************************************)
(* tcpprobe.bpf.c: the metrics of TCP links.  sock_map knows the role and  *)
(* the process of a sock from the moment it is established, or from the    *)
(* list of descriptors that tcpprobe.c finds at its start; tcp_link_map    *)
(* holds the metrics of a link, which some socks may share.  Every hook on *)
(* a sock enters its link when it is new.                                  *)
(*                                                                         *)
(* A hook is one step.  The metrics and their reports are left out; what   *)
(* counts is which links there are.                                        *)
(***************************************************************************)
EXTENDS Integers, FiniteSets, FiniteSetsExt

CONSTANTS
  Socks,     \* addresses of socks, used again after tcp_destroy_sock
  Tgids,     \* processes
  Valid,     \* those that is_valid_tgid lets through
  Tuples,    \* addresses and ports of connections
  MaxLinks,  \* __TCP_LINK_MAX
  MaxSocks,  \* __TCP_TUPLE_MAX
  CPort,     \* args.cport_flag: links tell the client ports apart
  NULL

Roles == {"client", "server"}

VARIABLES
  tuple,     \* per sock: its connection, or NULL
  state,     \* per sock: "open", "closed", and "late" when a hook ran after that
  sock_map,  \* per sock: role and tgid (NULL for 0), or NULL
  tcp_fd,    \* tcp_fd_map: per process, the socks (found by descriptor) and roles
  links      \* the keys of tcp_link_map

vars == <<tuple, state, sock_map, tcp_fd, links>>

\* get_tcp_link_key: the sock is known, and the process that it belongs to.
HasKey(info) == info # NULL /\ info.tgid \in Valid

Link(s, info) == [tgid |-> info.tgid, role |-> info.role,
                  tuple |-> IF CPort THEN tuple[s] ELSE "all"]

\* Some socks were established before the probe was started: tcpprobe.c has
\* listed their descriptors by process.
Init ==
  /\ tuple \in [Socks -> Tuples \union {NULL}]
  /\ \A s, r \in Socks : s # r /\ tuple[s] # NULL => tuple[s] # tuple[r]
  /\ state = [s \in Socks |-> "open"]
  /\ sock_map = [s \in Socks |-> NULL]
  /\ tcp_fd \in [Tgids -> SUBSET [sk : {s \in Socks : tuple[s] # NULL}, role : Roles]]
  /\ \A g \in Tgids : \A x, y \in tcp_fd[g] : x.sk = y.sk => x = y
  /\ links = {}

\* create_sock_obj: fails without room.
CreateSockObj(map, s, info) ==
  IF map[s] # NULL \/ Cardinality({r \in Socks : map[r] # NULL}) < MaxSocks
  THEN [map EXCEPT ![s] = info] ELSE map

\* tcp_set_state to TCP_ESTABLISHED.
Established(s, t, role) ==
  /\ tuple[s] = NULL /\ \A r \in Socks : tuple[r] # t
  /\ tuple' = [tuple EXCEPT ![s] = t]
  /\ state' = [state EXCEPT ![s] = "open"]
  /\ sock_map' = CreateSockObj(sock_map, s, [role |-> role, tgid |-> NULL])
  /\ UNCHANGED <<tcp_fd, links>>

\* delete_tcp_link: c_flag is tested in a link that is all zeros, before
\* get_tcp_link_key has filled it in.
ZeroLink == [c_flag |-> 0]

DeleteTcpLink(s) ==
  links' = IF ZeroLink.c_flag = 0 \/ ~HasKey(sock_map[s]) THEN links
           ELSE links \ {Link(s, sock_map[s])}

\* tcp_set_state to TCP_CLOSE, TCP_CLOSE_WAIT or TCP_FIN_WAIT1.
Closed(s) ==
  /\ tuple[s] # NULL
  /\ state' = [state EXCEPT ![s] = "closed"]
  /\ DeleteTcpLink(s)
  /\ UNCHANGED <<tuple, sock_map, tcp_fd>>

\* tcp_destroy_sock.
Destroyed(s) ==
  /\ tuple[s] # NULL /\ state[s] # "open"
  /\ tuple' = [tuple EXCEPT ![s] = NULL]
  /\ state' = [state EXCEPT ![s] = "open"]
  /\ sock_map' = [sock_map EXCEPT ![s] = NULL]
  /\ UNCHANGED <<tcp_fd, links>>

-----------------------------------------------------------------------------
\* get_tcp_metrics: a new link is entered while there is room for it.
Measure(map, s) ==
  links' = IF HasKey(map[s]) /\ Cardinality(links) < MaxLinks
           THEN links \union {Link(s, map[s])} ELSE links

Touched(s) == state' = [state EXCEPT ![s] = IF @ = "closed" THEN "late" ELSE @]

\* load_tcp_fd: the socks that the process had when the probe was started.
Loaded(g) ==
  FoldSet(LAMBDA fd, map : CreateSockObj(map, fd.sk, [role |-> fd.role, tgid |-> g]),
          sock_map, {fd \in tcp_fd[g] : tuple[fd.sk] # NULL})

\* tcp_sendmsg and tcp_recvmsg: the sock belongs to the process that uses it.
Message(s, g) ==
  /\ tuple[s] # NULL
  /\ LET map == Loaded(g)
         new == IF map[s] = NULL THEN map ELSE [map EXCEPT ![s].tgid = g]
     IN sock_map' = new /\ Measure(new, s)
  /\ tcp_fd' = [tcp_fd EXCEPT ![g] = {}]
  /\ Touched(s)
  /\ UNCHANGED tuple

\* The other hooks: drops, retransmissions, resets, timeouts, memory, data read.
Event(s) ==
  /\ tuple[s] # NULL
  /\ Measure(sock_map, s)
  /\ Touched(s)
  /\ UNCHANGED <<tuple, sock_map, tcp_fd>>

Next ==
  \/ \E s \in Socks : Closed(s) \/ Destroyed(s) \/ Event(s)
  \/ \E s \in Socks, t \in Tuples, role \in Roles : Established(s, t, role)
  \/ \E s \in Socks, g \in Tgids : Message(s, g)

Spec == Init /\ [][Next]_vars
-----------------------------------------------------------------------------
(***************************************************************************)
(* "if cport_flag is invalid, return" (tcpprobe.bpf.c:167): where it is    *)
(* valid, and a link therefore is one connection, the close removes the    *)
(* link, as long as no hook runs on the sock after that.                   *)
(***************************************************************************)
ClosedLinkLeaves ==
  \A s \in Socks :
    CPort /\ tuple[s] # NULL /\ state[s] = "closed" /\ HasKey(sock_map[s]) =>
      Link(s, sock_map[s]) \notin links
=============================================================================
