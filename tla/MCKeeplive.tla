----------------------------- MODULE MCKeeplive -----------------------------
(***************************************************************************)
(* Module Keeplive for TLC.                                                *)
(***************************************************************************)
EXTENDS Keeplive
=============================================================================
