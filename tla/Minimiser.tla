----------------------------- MODULE Minimiser -----------------------------
(***************************************************************************)
(* What the tool promises whichever algorithm it runs: it goes from one    *)
(* failing string to a shorter one, a subsequence of it, and returns only  *)
(* when no single byte can be removed such that the target surely still    *)
(* fails.                                                                  *)
(*                                                                         *)
(* judge says what a test may report of a string: {TRUE} is a string the   *)
(* target always fails on, {FALSE} one it never fails on, and BOOLEAN one  *)
(* whose verdict may differ from test to test.                             *)
(***************************************************************************)
EXTENDS ByteStrings

CONSTANTS Inputs,  (* the strings the tool may be called with              *)
          Judges   (* the targets: functions on byte strings               *)

VARIABLES current, judge, returned

vars == <<current, judge, returned>>

MayFail(s)  == TRUE \in judge[s]
MustFail(s) == judge[s] = {TRUE}

Init ==
    /\ current \in Inputs
    /\ judge \in Judges
    /\ returned = FALSE

Reduce ==
    /\ ~returned
    /\ current' \in DOMAIN judge
    /\ Len(current') < Len(current)
    /\ IsSubsequence(current', current)
    /\ MayFail(current')
    /\ UNCHANGED <<judge, returned>>

Return ==
    /\ ~returned
    /\ Len(current) <= 1 \/ \A s \in Cuts(current, 1) : ~MustFail(s)
    /\ returned' = TRUE
    /\ UNCHANGED <<current, judge>>

Next == Reduce \/ Return

Spec == Init /\ [][Next]_vars
=============================================================================
