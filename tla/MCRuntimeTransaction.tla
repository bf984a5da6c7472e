------------------------- MODULE MCRuntimeTransaction -------------------------
(***************************************************************************)
(* RuntimeTransaction for TLC.  The callers inside the panel are alike,    *)
(* and so are the sites.                                                   *)
(***************************************************************************)
EXTENDS RuntimeTransaction, TLC

Symmetry == Permutations(Panel) \cup Permutations(Sites)
=============================================================================
