--------------------------- MODULE RangeReduction ---------------------------
(***************************************************************************)
(* What range() of src/range.c promises, with no thread, queue or file:    *)
(* a sequence of rounds, each for one block size r.  A round tests every   *)
(* string left by removing r consecutive bytes of the current input, and   *)
(* either one failing string becomes the current input or, if none failed, *)
(* the next round uses a smaller block.                                    *)
(*                                                                         *)
(* judge says what a test may report of a string: {TRUE} is a string the   *)
(* target always fails on, {FALSE} one it never fails on, and BOOLEAN one  *)
(* whose verdict may differ from test to test.                             *)
(***************************************************************************)
EXTENDS ByteStrings

CONSTANTS Candidates,  (* the byte strings the target may be run on        *)
          Inputs,      (* the strings range() may be called with           *)
          Judges       (* the targets: functions on Candidates             *)

ReductionAssumption ==
    /\ Inputs \subseteq Candidates
    /\ \A s \in Candidates :
          /\ s \in Seq(0 .. 255)
          /\ \A k \in 0 .. Len(s) : Cuts(s, k) \subseteq Candidates
    /\ \A j \in Judges : j \in [Candidates -> (SUBSET BOOLEAN) \ {{}}]

ASSUME ReductionAssumption

VARIABLES input, r_size, judge, returned

vars == <<input, r_size, judge, returned>>

(* The block size of the next round: after a failing string of length len  *)
(* was found with blocks of size k, and after nothing was found.           *)
MutWholeSize(k, len) == Lesser(k, len)
MutSkipSize(k, len)  == Lesser(k - 1, len - 1)
NextSize(k, len)     == Lesser(k, len - 1)
Smaller(k)           == k - 1

MayFail(s)  == TRUE \in judge[s]
MustFail(s) == judge[s] = {TRUE}

Init ==
    /\ input \in Inputs
    /\ judge \in Judges
    /\ r_size = Len(input) - 1
    /\ returned = FALSE

(* A failing string was found: it is the next input.                       *)
Reduce ==
    /\ r_size > 0
    /\ \E s \in Cuts(input, r_size) :
          /\ MayFail(s)
          /\ input' = s
          /\ r_size' = NextSize(r_size, Len(s))
    /\ UNCHANGED <<judge, returned>>

(* Every string of the round was tested and none was reported to fail.     *)
Narrow ==
    /\ r_size > 0
    /\ \A s \in Cuts(input, r_size) : ~MustFail(s)
    /\ r_size' = Smaller(r_size)
    /\ UNCHANGED <<input, judge, returned>>

Return ==
    /\ r_size <= 0
    /\ ~returned
    /\ returned' = TRUE
    /\ UNCHANGED <<input, r_size, judge>>

Next == Reduce \/ Narrow \/ Return

Spec == Init /\ [][Next]_vars
-----------------------------------------------------------------------------
TypeOK ==
    /\ input \in Candidates /\ judge \in Judges
    /\ r_size \in Int /\ r_size < Len(input)
    /\ returned \in BOOLEAN

(* When no block size is left, removing any single byte gives a string that*)
(* was tested and did not fail, or there is no byte to remove.  So no block*)
(* size that could still succeed is skipped when the next one is chosen.   *)
BytesTried ==
    r_size <= 0 =>
        Len(input) <= 1 \/ \A s \in Cuts(input, 1) : ~MustFail(s)

(* This is how range() keeps the promise of the tool.                      *)
Promise == INSTANCE Minimiser WITH current <- input
ImplementsMinimiser == Promise!Spec
=============================================================================
