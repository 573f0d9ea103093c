------------------------------ MODULE MCRange ------------------------------
(***************************************************************************)
(* Range with the inputs and targets of MCTargets, and with or without a   *)
(* copy of the input that an earlier run left behind.                      *)
(***************************************************************************)
EXTENDS Range, MCTargets

NothingLeft == {NoCopies}
LongerJudges == Monotone \cup ManyFailures \cup FlakyString
MaybeLeft   == {NoCopies, [w \in {THREAD_N - 1} |-> <<1>>]}
=============================================================================
