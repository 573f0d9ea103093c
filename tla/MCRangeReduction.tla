-------------------------- MODULE MCRangeReduction --------------------------
(***************************************************************************)
(* RangeReduction with the inputs of MCTargets and every deterministic     *)
(* target.                                                                 *)
(***************************************************************************)
EXTENDS RangeReduction, MCAllTargets
=============================================================================
