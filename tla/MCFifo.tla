------------------------------- MODULE MCFifo -------------------------------
(***************************************************************************)
(* Fifo with a ring of 4 slots and cursors that wrap after 8 values, so    *)
(* that every alignment of in and out to the wrap and to the ring occurs.  *)
(***************************************************************************)
EXTENDS Fifo
=============================================================================
