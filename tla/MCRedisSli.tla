----------------------------- MODULE MCRedisSli -----------------------------
(***************************************************************************)
(* Module RedisSli for TLC: the buffer and the blocks have two units, so   *)
(* that replies fill them, share them and are split over them.             *)
(***************************************************************************)
EXTENDS RedisSli
=============================================================================
