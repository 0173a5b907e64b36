------------------------------- MODULE MCKsli -------------------------------
(***************************************************************************)
(* Module Ksli for TLC: one descriptor and one sock address, both used     *)
(* again after a close.                                                    *)
(***************************************************************************)
EXTENDS Ksli
=============================================================================
