------------------------ MODULE RangeReductionProofs ------------------------
(***************************************************************************)
(* The rounds of range(), for every input and every target: no block size  *)
(* that could still succeed is skipped, so the result is 1-minimal, and    *)
(* every run is a run of the abstract minimiser.                           *)
(***************************************************************************)
EXTENDS RangeReduction, ByteStringsProofs, TLAPS

(* The cuts of a candidate.                                                *)
LEMMA CutsTypes ==
    ASSUME ReductionAssumption, NEW s \in Candidates, NEW k \in 1 .. Len(s),
           NEW c \in Cuts(s, k)
    PROVE  /\ Len(s) \in Nat
           /\ c \in Candidates /\ Len(c) = Len(s) - k
           /\ IsSubsequence(c, s)
<1>1. s \in Seq(0 .. 255) /\ Len(s) \in Nat
    BY DEF ReductionAssumption
<1>2. PICK b \in 0 .. Len(s) - k : c = Cut(s, b, k, Len(s))
    BY DEF Cuts
<1>3. b \in Nat /\ k \in Nat /\ b + k <= Len(s) /\ k \in 0 .. Len(s)
    BY <1>1
<1>4. c \in Candidates
    BY <1>3 DEF ReductionAssumption
<1> QED
    BY <1>1, <1>2, <1>3, <1>4, CutType, CutSubsequence

IInv ==
    /\ TypeOK
    /\ BytesTried
    /\ returned => r_size <= 0

LEMMA InitIInv == ReductionAssumption /\ Init => IInv
<1> SUFFICES ASSUME ReductionAssumption, Init
             PROVE  IInv
    OBVIOUS
<1>1. input \in Candidates /\ Len(input) \in Nat
    BY DEF Init, ReductionAssumption
<1>2. r_size = Len(input) - 1 /\ r_size \in Int /\ r_size < Len(input)
    BY <1>1 DEF Init
<1>3. r_size <= 0 => Len(input) <= 1
    BY <1>1, <1>2
<1> QED
    BY <1>1, <1>2, <1>3 DEF Init, IInv, TypeOK, BytesTried

(* Reduce keeps the next block size below the new length, and r_size 0     *)
(* therefore means that the new input has one byte.                        *)
LEMMA ReduceStep ==
    ASSUME ReductionAssumption, IInv, Reduce
    PROVE  /\ IInv'
           /\ Len(input') < Len(input) /\ IsSubsequence(input', input)
           /\ input' \in Candidates /\ MayFail(input')
           /\ ~returned
<1>1. PICK s \in Cuts(input, r_size) :
         MayFail(s) /\ input' = s /\ r_size' = NextSize(r_size, Len(s))
    BY DEF Reduce
<1>2. /\ input \in Candidates /\ r_size \in Int /\ 0 < r_size
      /\ r_size < Len(input) /\ Len(input) \in Nat
    BY DEF IInv, TypeOK, Reduce, ReductionAssumption
<1>3. r_size \in 1 .. Len(input)
    BY <1>2
<1>4. s \in Candidates /\ Len(s) = Len(input) - r_size /\ IsSubsequence(s, input)
    BY <1>2, <1>3, CutsTypes
<1>5. Len(s) \in Nat /\ 0 < Len(s)
    BY <1>2, <1>4
<1>6. r_size' \in Int /\ r_size' < Len(s) /\ (r_size' <= 0 => Len(s) <= 1)
    BY <1>1, <1>2, <1>5 DEF NextSize, Lesser
<1>7. ~returned
    BY <1>2 DEF IInv
<1>8. judge' = judge /\ returned' = returned
    BY DEF Reduce
<1>9. IInv'
    BY <1>1, <1>4, <1>6, <1>7, <1>8 DEF IInv, TypeOK, BytesTried
<1> QED
    BY <1>1, <1>2, <1>4, <1>5, <1>7, <1>9

(* Narrow gives up a block size only after every cut of that size: when it *)
(* gives up size 1, single bytes have been tried.                          *)
LEMMA NarrowStep ==
    ASSUME ReductionAssumption, IInv, Narrow
    PROVE  IInv'
<1>1. /\ r_size > 0 /\ r_size' = r_size - 1
      /\ UNCHANGED <<input, judge, returned>>
      /\ \A s \in Cuts(input, r_size) : ~MustFail(s)
    BY DEF Narrow, Smaller
<1>2. r_size \in Int /\ r_size < Len(input) /\ Len(input) \in Nat
    BY DEF IInv, TypeOK, ReductionAssumption
<1>3. TypeOK'
    BY <1>1, <1>2 DEF IInv, TypeOK
<1>4. r_size' <= 0 => r_size = 1
    BY <1>1, <1>2
<1>5. BytesTried'
    BY <1>1, <1>4 DEF BytesTried, MustFail
<1>6. ~returned
    BY <1>1, <1>2 DEF IInv
<1> QED
    BY <1>1, <1>3, <1>5, <1>6 DEF IInv

LEMMA IInvStep == ReductionAssumption /\ IInv /\ [Next]_vars => IInv'
<1> SUFFICES ASSUME ReductionAssumption, IInv, [Next]_vars
             PROVE  IInv'
    OBVIOUS
<1>1. CASE Reduce
    BY <1>1, ReduceStep
<1>2. CASE Narrow
    BY <1>2, NarrowStep
<1>3. CASE Return
    BY <1>3 DEF Return, IInv, TypeOK, BytesTried, MustFail
<1>4. CASE UNCHANGED vars
    BY <1>4 DEF vars, IInv, TypeOK, BytesTried, MustFail
<1> QED
    BY <1>1, <1>2, <1>3, <1>4 DEF Next

LEMMA IInvAlways == Spec => []IInv
<1>1. Init => IInv
    BY ReductionAssumption, InitIInv
<1>2. IInv /\ [Next]_vars => IInv'
    BY ReductionAssumption, IInvStep
<1> QED
    BY <1>1, <1>2, PTL DEF Spec

(* However the targets answer, the block size stays below the length of    *)
(* the input: a cut never removes the whole input.                         *)
THEOREM TypeCorrect == Spec => []TypeOK
<1>1. IInv => TypeOK
    BY DEF IInv
<1> QED
    BY <1>1, IInvAlways, PTL

(* When no block size is left, no single byte can be removed such that the *)
(* target surely still fails: the recursive call of _range() with          *)
(* MIN(rs, input_size-rs-1) skips no size that matters.                    *)
THEOREM BytesAlwaysTried == Spec => []BytesTried
<1>1. IInv => BytesTried
    BY DEF IInv
<1> QED
    BY <1>1, IInvAlways, PTL

LEMMA StepSimulation ==
    ASSUME ReductionAssumption, IInv, [Next]_vars
    PROVE  [Promise!Next]_(Promise!vars)
<1>1. CASE Reduce
  <2>1. DOMAIN judge = Candidates
      BY DEF IInv, TypeOK, ReductionAssumption
  <2>2. Promise!Reduce
      BY <1>1, <2>1, ReduceStep
      DEF Promise!Reduce, Promise!MayFail, MayFail, Promise!IsSubsequence,
          IsSubsequence, Reduce
  <2> QED
      BY <2>2 DEF Promise!Next
<1>2. CASE Narrow
    BY <1>2 DEF Narrow, Promise!vars
<1>3. CASE Return
  <2>1. Promise!Cuts(input, 1) = Cuts(input, 1)
      BY DEF Promise!Cuts, Promise!Cut, Cuts, Cut
  <2>2. Len(input) <= 1 \/ \A s \in Cuts(input, 1) : ~MustFail(s)
      BY <1>3 DEF Return, IInv, BytesTried
  <2>3. Promise!Return
      BY <1>3, <2>1, <2>2 DEF Return, Promise!Return, Promise!MustFail, MustFail
  <2> QED
      BY <2>3 DEF Promise!Next
<1>4. CASE UNCHANGED vars
    BY <1>4 DEF vars, Promise!vars
<1> QED
    BY <1>1, <1>2, <1>3, <1>4 DEF Next

(* Every sequence of rounds of range() is a run of the abstract minimiser. *)
THEOREM Implementation == Spec => ImplementsMinimiser
<1>1. Init => Promise!Init
    BY DEF Init, Promise!Init
<1>2. IInv /\ [Next]_vars => [Promise!Next]_(Promise!vars)
    BY ReductionAssumption, StepSimulation
<1> QED
    BY <1>1, <1>2, IInvAlways, PTL DEF Spec, ImplementsMinimiser, Promise!Spec
=============================================================================
