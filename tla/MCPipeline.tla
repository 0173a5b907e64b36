----------------------------- MODULE MCPipeline -----------------------------
(***************************************************************************)
(* Pipeline for TLC: the addresses malloc returns are interchangeable, and *)
(* so are the probes.                                                      *)
(***************************************************************************)
EXTENDS Pipeline, TLC

Symmetry ==
  Permutations(Probes) \union Permutations(DataBufs) \union Permutations(JsonBufs)
=============================================================================
