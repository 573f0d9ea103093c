------------------------------ MODULE MCDdmin ------------------------------
(***************************************************************************)
(* Ddmin with the inputs and targets of MCTargets, on an input file whose  *)
(* name ddmin() does not use itself, or on one it does: the result of an   *)
(* earlier run.                                                            *)
(***************************************************************************)
EXTENDS Ddmin, MCTargets

FreshName   == {<<"input", 0>>}
ResultName  == {<<"part", 1>>}

(* Every kind of target, and those that fail on one string only.           *)
ResultJudges ==
    Monotone \cup FlakyOne \cup AnyVerdict \cup {Target({s}, {}) : s \in Proper}
=============================================================================
