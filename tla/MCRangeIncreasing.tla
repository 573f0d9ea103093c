------------------------- MODULE MCRangeIncreasing -------------------------
(***************************************************************************)
(* RangeIncreasing with the inputs and targets of MCTargets, and with      *)
(* targets that fail for either of two reasons.                            *)
(***************************************************************************)
EXTENDS RangeIncreasing, MCTargets

AnyName == {<<"input", 0>>, <<"part", 1>>, <<"part", 2>>}

(* Targets that fail if all bytes of P or all bytes of Q are there.        *)
TwoCauses ==
    {Target({s \in MCCandidates : \E R \in {P, Q} : R \subseteq {s[i] : i \in DOMAIN s}}, {}) :
        P, Q \in SUBSET (1 .. Size)}

MCJudges == TwoCauses \cup FlakyOne \cup AnyVerdict
=============================================================================
