----------------------------- MODULE MCRangeAll -----------------------------
(***************************************************************************)
(* MCRange with every deterministic target.                                *)
(***************************************************************************)
EXTENDS MCRange, MCAllTargets
=============================================================================
