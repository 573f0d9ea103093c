---------------------------- MODULE MCAllTargets ----------------------------
(***************************************************************************)
(* Every deterministic target, of which there are too many for inputs of   *)
(* more than four bytes.                                                   *)
(***************************************************************************)
EXTENDS MCTargets

Deterministic == {Target(F, {}) : F \in SUBSET Proper}
MCJudges      == Deterministic \cup FlakyOne
=============================================================================
