----------------------------- MODULE MCTargets -----------------------------
(***************************************************************************)
(* The subsequences of one short input, and targets to run on them.  A     *)
(* target is given by the strings it surely fails on and those it may fail *)
(* on.                                                                     *)
(***************************************************************************)
EXTENDS Integers, Sequences

CONSTANT Size   (* length of the input file *)

Whole        == [i \in 1 .. Size |-> i]
MCCandidates == {SelectSeq(Whole, LAMBDA byte : byte \in S) : S \in SUBSET (1 .. Size)}
MCInputs     == {Whole}

(* The verdict function of a target that surely fails on F and may fail    *)
(* on G.                                                                   *)
Target(F, G) ==
    [s \in MCCandidates |->
        IF s \in F THEN {TRUE} ELSE IF s \in G THEN BOOLEAN ELSE {FALSE}]

Proper == {s \in MCCandidates : Len(s) \in 1 .. Size - 1}

(* Targets whose verdict on one string, or on every string, may differ     *)
(* from test to test.                                                      *)
FlakyString == {Target({}, {s}) : s \in Proper}
FlakyOne    == FlakyString \cup {Target({}, Proper)}

(* Targets that fail if and only if the bytes R are all there.             *)
Monotone == {Target({s \in MCCandidates : R \subseteq {s[i] : i \in DOMAIN s}}, {}) :
                R \in SUBSET (1 .. Size)}

(* A target that may fail or not on any string, in any test: the runs of   *)
(* every other target are among its runs.                                  *)
AnyVerdict == {Target({}, MCCandidates)}

(* Targets for which only rounds with r_size = 1 record failures, and there*)
(* every task does: fail_arr fills up.                                     *)
ManyFailures == {Target({s \in MCCandidates : Len(s) >= Size - 1}, {})}

(* The target fails on every string, so every task records a failure.      *)
AlwaysFails == {Target(MCCandidates, {})}
=============================================================================
