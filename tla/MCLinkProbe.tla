---------------------------- MODULE MCLinkProbe -----------------------------
(***************************************************************************)
(* Module LinkProbe for TLC: three links for a map with room for two, all  *)
(* forwarded in the same way.                                              *)
(***************************************************************************)
EXTENDS LinkProbe

\* Links 1 and 2 share a bucket; an entry Zero lies behind all others.
Buckets    == [k \in 0..(N + 1) |-> IF k \in {1, 2} THEN 1 ELSE IF k = 0 THEN 3 ELSE 2]
AllFullnat == [k \in 1..N |-> "fullnat"]
Mixed      == [k \in 1..N |-> IF k = 1 THEN "fullnat" ELSE "other"]
=============================================================================
