------------------------ MODULE RangeIncreasingProofs ------------------------
(***************************************************************************)
(* range_increasing() for every input and every target: no block is        *)
(* skipped, the file only shrinks, and for a target that keeps failing when*)
(* bytes are added the first pass leaves a 1-minimal file.                 *)
(***************************************************************************)
EXTENDS RangeIncreasing, ByteStringsProofs

LEMMA EditTypes ==
    ASSUME IncreasingAssumption, NEW s \in Candidates, NEW b \in Nat, NEW k \in Nat,
           b + k <= Len(s)
    PROVE  /\ s \in Seq(0 .. 255) /\ Len(s) \in Nat
           /\ Cut(s, b, k, Len(s)) \in Candidates
           /\ Len(Cut(s, b, k, Len(s))) = Len(s) - k
<1>1. s \in Seq(0 .. 255) /\ Len(s) \in Nat
    BY DEF IncreasingAssumption
<1>2. b \in 0 .. Len(s) /\ k \in 0 .. Len(s)
    BY <1>1
<1>3. Cut(s, b, k, Len(s)) \in Candidates
    BY <1>2 DEF IncreasingAssumption
<1> QED
    BY <1>1, <1>3, CutType

(* A target that fails upwards and may fail on a cut surely fails on the   *)
(* string that was cut.                                                    *)
LEMMA FailsOneUp ==
    ASSUME IncreasingAssumption, FailsUpwards, NEW t \in Candidates,
           NEW b \in Nat, NEW k \in Nat \ {0}, b + k <= Len(t),
           TRUE \in judge[Cut(t, b, k, Len(t))]
    PROVE  judge[t] = {TRUE}
<1>1. Len(t) \in Nat
    BY DEF IncreasingAssumption
<1>2. k \in 1 .. Len(t) /\ b \in 0 .. Len(t) - k
    BY <1>1
<1>3. Cut(t, b, k, Len(t)) \in Cuts(t, k)
    BY <1>2 DEF Cuts
<1> QED
    BY <1>2, <1>3 DEF FailsUpwards

LEMMA InitIInv == IncreasingAssumption /\ Init => IInv
<1> SUFFICES ASSUME IncreasingAssumption, Init
             PROVE  IInv
    OBVIOUS
<1>1. PICK name \in InputNames, s \in Inputs :
          /\ input_path = name
          /\ disk = Emptied([m \in {name} |-> s], FailPath(1))
    BY DEF Init
<1>2. name \in Names /\ s \in Candidates /\ <<>> \in Candidates /\ FailPath(1) \in Names
    BY DEF IncreasingAssumption, FailPath, Names
<1>3. /\ DOMAIN disk = {name, FailPath(1)}
      /\ disk = [m \in DOMAIN disk |-> disk[m]]
      /\ disk[FailPath(1)] = <<>>
      /\ name # FailPath(1) => disk[name] = s
    BY <1>1 DEF Emptied
<1>4. TypeOK
    BY <1>1, <1>2, <1>3 DEF Init, TypeOK
<1>5. NamesApart
    BY <1>1, <1>3 DEF Init, NamesApart, Current
<1> QED
    BY <1>4, <1>5 DEF Init, IInv, BlocksTried, SingleBytes, OneMinimal

LEMMA StartPassStep ==
    ASSUME IncreasingAssumption, IInv, StartPass
    PROVE  IInv' /\ Current' = Current
<1>1. /\ TypeOK /\ NamesApart /\ OneMinimal /\ pc = "size" /\ rs < Len(Current)
      /\ begin' = 0 /\ kept' = {} /\ pc' = "cut"
      /\ UNCHANGED <<rs, input_path, out_file, fail_no, disk, judge>>
    BY DEF IInv, StartPass
<1>2. Current' = Current /\ (FailsUpwards' <=> FailsUpwards)
    BY <1>1 DEF Current, FailsUpwards
<1>3. TypeOK'
    BY <1>1 DEF TypeOK
<1>4. NamesApart'
  <2>1. Current # <<>>
      BY <1>1 DEF TypeOK
  <2> QED
      BY <1>1, <1>2, <2>1 DEF NamesApart
<1>5. BlocksTried' /\ SingleBytes'
    BY <1>1 DEF BlocksTried, SingleBytes
<1>6. OneMinimal'
    BY <1>1, <1>2 DEF OneMinimal
<1> QED
    BY <1>2, <1>3, <1>4, <1>5, <1>6 DEF IInv

(* What a test finds and writes: out_file is not the current file, and the *)
(* truncated file is the current one less the block at begin.              *)
LEMMA TestedExact ==
    ASSUME IncreasingAssumption, IInv, Test, NEW s, s = Cut(Current, begin, rs, Len(Current))
    PROVE  /\ Current \in Candidates /\ Current \in Seq(0 .. 255) /\ Len(Current) \in Nat
           /\ rs \in Nat \ {0} /\ begin \in Nat /\ begin + rs <= Len(Current)
           /\ s \in Candidates /\ Len(s) = Len(Current) - rs
           /\ input_path # out_file
           /\ Truncated(Overwritten(disk[out_file], s), Len(s)) = s
<1>1. TypeOK /\ NamesApart /\ pc = "cut" /\ begin <= Len(Current) - rs
    BY DEF IInv, Test, LastBegin
<1>2. /\ rs \in Nat \ {0} /\ begin \in Nat
      /\ Current \in Candidates /\ disk[out_file] \in Candidates
    BY <1>1 DEF TypeOK, Current
<1>3. Current \in Seq(0 .. 255) /\ disk[out_file] \in Seq(0 .. 255) /\ Len(Current) \in Nat
    BY <1>2 DEF IncreasingAssumption
<1>4. begin + rs <= Len(Current)
    BY <1>1, <1>2, <1>3
<1>5. s \in Candidates /\ Len(s) = Len(Current) - rs
    BY <1>2, <1>4, EditTypes
<1>6. s \in Seq(0 .. 255)
    BY <1>5 DEF IncreasingAssumption
<1>7. input_path # out_file
    BY <1>1 DEF NamesApart
<1> QED
    BY <1>2, <1>3, <1>4, <1>5, <1>6, <1>7, TruncatedExact

(* A test either keeps the file and adds a block to kept, or the file      *)
(* without the block, on which the target failed, takes its place.         *)
Cutting(s) ==
    /\ pc' = "cut" /\ UNCHANGED <<rs, judge>>
    /\ \/ /\ TRUE \in judge[s] /\ Current' = s
          /\ begin' = Back(begin, rs) /\ kept' = kept
       \/ /\ FALSE \in judge[s] /\ Current' = Current
          /\ begin' = begin + 1 /\ kept' = kept \cup {Block(Current, begin, rs)}

LEMMA TestFiles ==
    ASSUME IncreasingAssumption, IInv, Test, NEW s, s = Cut(Current, begin, rs, Len(Current))
    PROVE  TypeOK' /\ NamesApart' /\ Cutting(s)
<1> DEFINE stored == [disk EXCEPT ![out_file] = s]
<1>1. /\ s \in Candidates /\ begin \in Nat /\ rs \in Nat \ {0} /\ input_path # out_file
      /\ Truncated(Overwritten(disk[out_file], s), Len(s)) = s
    BY TestedExact
<1>2. TypeOK /\ NamesApart /\ pc = "cut"
    BY DEF IInv, Test
<1>3. /\ disk \in [DOMAIN disk -> Candidates] /\ DOMAIN disk \subseteq Names
      /\ input_path \in DOMAIN disk /\ out_file \in DOMAIN disk
      /\ out_file = <<"part", fail_no>> /\ fail_no \in Nat
    BY <1>2 DEF TypeOK, NamesApart, FailPath
<1>4. /\ stored \in [DOMAIN disk -> Candidates] /\ DOMAIN stored = DOMAIN disk
      /\ stored[out_file] = s /\ stored[input_path] = Current
    BY <1>1, <1>3 DEF Current
<1>5. /\ UNCHANGED <<pc, rs, judge>>
      /\ \/ /\ TRUE \in judge[s] /\ input_path' = out_file /\ fail_no' = fail_no + 1
            /\ out_file' = FailPath(fail_no') /\ disk' = Emptied(stored, out_file')
            /\ begin' = Back(begin, rs) /\ kept' = kept
         \/ /\ FALSE \in judge[s] /\ disk' = stored /\ begin' = begin + 1
            /\ kept' = kept \cup {Block(Current, begin, rs)}
            /\ UNCHANGED <<input_path, fail_no, out_file>>
    BY <1>1 DEF Test
<1>6. Back(begin, rs) \in Nat
    BY <1>1 DEF Back, Greater
<1> HIDE DEF stored
<1>7. CASE /\ TRUE \in judge[s] /\ input_path' = out_file /\ fail_no' = fail_no + 1
           /\ out_file' = FailPath(fail_no') /\ disk' = Emptied(stored, out_file')
           /\ begin' = Back(begin, rs) /\ kept' = kept
  <2>1. out_file' = <<"part", fail_no + 1>> /\ out_file' # out_file /\ out_file' \in Names
      BY <1>3, <1>7 DEF FailPath, Names
  <2>2. /\ DOMAIN disk' = DOMAIN disk \cup {out_file'}
        /\ disk' = [m \in DOMAIN disk' |-> disk'[m]]
        /\ \A m \in DOMAIN disk' : disk'[m] = IF m = out_file' THEN <<>> ELSE stored[m]
      BY <1>4, <1>7 DEF Emptied
  <2>3. \A m \in DOMAIN disk' : disk'[m] \in Candidates
      BY <1>4, <2>2 DEF IncreasingAssumption
  <2>4. Current' = s
      BY <1>3, <1>4, <1>7, <2>1, <2>2 DEF Current
  <2>5. TypeOK'
      BY <1>2, <1>3, <1>5, <1>6, <1>7, <2>1, <2>2, <2>3 DEF TypeOK
  <2>6. NamesApart'
      BY <1>7, <2>1 DEF NamesApart
  <2> QED
      BY <1>2, <1>5, <1>7, <2>4, <2>5, <2>6 DEF Cutting
<1>8. CASE /\ FALSE \in judge[s] /\ disk' = stored /\ begin' = begin + 1
           /\ kept' = kept \cup {Block(Current, begin, rs)}
           /\ UNCHANGED <<input_path, fail_no, out_file>>
  <2>1. Current' = Current
      BY <1>4, <1>8 DEF Current
  <2>2. TypeOK'
      BY <1>1, <1>2, <1>3, <1>4, <1>5, <1>8 DEF TypeOK
  <2>3. NamesApart'
      BY <1>1, <1>2, <1>8 DEF NamesApart
  <2> QED
      BY <1>2, <1>5, <1>8, <2>1, <2>2, <2>3 DEF Cutting
<1> QED
    BY <1>5, <1>7, <1>8

LEMMA TestStep ==
    ASSUME IncreasingAssumption, IInv, Test
    PROVE  IInv'
<1> DEFINE size == Len(Current)
           s    == Cut(Current, begin, rs, size)
<1>1. /\ TypeOK' /\ NamesApart' /\ Cutting(s)
      /\ BlocksTried /\ SingleBytes /\ OneMinimal /\ pc = "cut"
    BY TestFiles DEF IInv, Test
<1>2. /\ Current \in Candidates /\ Current \in Seq(0 .. 255) /\ size \in Nat
      /\ rs \in Nat \ {0} /\ begin \in Nat /\ begin + rs <= size
      /\ s \in Candidates /\ Len(s) = size - rs
    BY TestedExact
<1>3. pc' = "cut" /\ UNCHANGED <<rs, judge>> /\ (FailsUpwards' <=> FailsUpwards)
    BY <1>1 DEF Cutting, FailsUpwards
<1>4. \A b \in 0 .. begin - 1 : b + rs <= size => Block(Current, b, rs) \in kept
    BY <1>1 DEF BlocksTried
<1>5. rs > 1 /\ FailsUpwards => judge[Cut(Current, begin, 1, size)] # {TRUE}
  <2> SUFFICES ASSUME rs > 1, FailsUpwards
               PROVE  judge[Cut(Current, begin, 1, size)] # {TRUE}
      OBVIOUS
  <2>1. size > 1 /\ begin \in 0 .. size - 1
      BY <1>2
  <2>2. Cut(Current, begin, 1, size) \in Cuts(Current, 1)
      BY <2>1 DEF Cuts
  <2> QED
      BY <1>1, <2>1, <2>2 DEF OneMinimal
<1>6. CASE /\ TRUE \in judge[s] /\ Current' = s
           /\ begin' = Back(begin, rs) /\ kept' = kept
  <2>1. BlocksTried'
    <3> SUFFICES ASSUME NEW b \in 0 .. begin' - 1, b + rs <= Len(s)
                 PROVE  Block(s, b, rs) \in kept
        BY <1>3, <1>6 DEF BlocksTried
    <3>1. b \in 0 .. begin - 1 /\ b + rs <= begin /\ b + rs <= size
        BY <1>2, <1>6 DEF Back, Greater
    <3>2. Block(s, b, rs) = Block(Current, b, rs)
        BY <1>2, <3>1, BlockOfCut
    <3> QED
        BY <1>4, <3>1, <3>2
  <2>2. rs > 1 => ~FailsUpwards
    <3> SUFFICES ASSUME rs > 1, FailsUpwards
                 PROVE  FALSE
        OBVIOUS
    <3> DEFINE first == Cut(Current, begin, 1, size)
    <3>1. begin + 1 <= size /\ 1 \in Nat
        BY <1>2
    <3>2. first \in Candidates /\ Len(first) = size - 1
        BY <1>2, <3>1, EditTypes
    <3>3. s = Cut(first, begin, rs - 1, size - 1)
        BY <1>2, <3>1, CutInTwo
    <3> HIDE DEF first
    <3> DEFINE k == rs - 1
    <3>4. k \in Nat \ {0} /\ begin + k <= Len(first)
        BY <1>2, <3>2
    <3>5. TRUE \in judge[Cut(first, begin, k, Len(first))]
        BY <1>6, <3>2, <3>3
    <3> HIDE DEF k
    <3>6. judge[first] = {TRUE}
        BY <1>2, <3>2, <3>4, <3>5, FailsOneUp
    <3> QED
        BY <1>5, <3>6 DEF first
  <2>3. SingleBytes'
    <3> SUFFICES ASSUME rs = 1, FailsUpwards, NEW b \in 0 .. begin' - 1, b < Len(s)
                 PROVE  judge[Cut(s, b, 1, Len(s))] # {TRUE}
        BY <1>3, <1>6 DEF SingleBytes
    <3> DEFINE first == Cut(Current, b, 1, size)
    <3>1. b \in Nat /\ b < begin /\ b \in 0 .. begin - 1 /\ b < size /\ b + 1 <= size
        BY <1>2, <1>6 DEF Back, Greater
    <3>2. judge[first] # {TRUE}
        BY <1>1, <3>1 DEF SingleBytes
    <3>3. first \in Candidates /\ Len(first) = size - 1
        BY <1>2, <3>1, EditTypes
    <3>4. Cut(s, b, 1, Len(s)) = Cut(first, begin - 1, 1, size - 1)
      <4>1. begin + 1 <= size /\ Len(s) = size - 1
          BY <1>2
      <4>2. Cut(Cut(Current, begin, 1, size), b, 1, size - 1) =
                Cut(first, begin - 1, 1, size - 1)
          BY <1>2, <3>1, <4>1, CutsCommute
      <4> QED
          BY <4>1, <4>2
    <3> HIDE DEF first
    <3>5. begin - 1 \in Nat /\ 1 \in Nat \ {0} /\ (begin - 1) + 1 <= Len(first)
        BY <1>2, <3>1, <3>3
    <3>6. TRUE \notin judge[Cut(first, begin - 1, 1, Len(first))]
        BY <3>2, <3>3, <3>5, FailsOneUp
    <3>7. judge[Cut(s, b, 1, Len(s))] # {TRUE}
        BY <3>3, <3>4, <3>6
    <3> QED
        BY <3>7
  <2>4. OneMinimal'
      BY <1>2, <1>3, <2>2 DEF OneMinimal
  <2> QED
      BY <1>1, <2>1, <2>3, <2>4 DEF IInv
<1>7. CASE /\ FALSE \in judge[s] /\ Current' = Current
           /\ begin' = begin + 1 /\ kept' = kept \cup {Block(Current, begin, rs)}
  <2>1. \A b \in 0 .. begin' - 1 : b \in 0 .. begin - 1 \/ b = begin
      BY <1>2, <1>7
  <2>2. BlocksTried'
    <3>1. \A b \in 0 .. begin' - 1 : b + rs <= size => Block(Current, b, rs) \in kept'
        BY <1>4, <1>7, <2>1
    <3> QED
        BY <1>3, <1>7, <3>1 DEF BlocksTried
  <2>3. SingleBytes'
    <3> SUFFICES ASSUME rs = 1, FailsUpwards, NEW b \in 0 .. begin' - 1, b < size
                 PROVE  judge[Cut(Current, b, 1, size)] # {TRUE}
        BY <1>3, <1>7 DEF SingleBytes
    <3>1. b = begin => judge[Cut(Current, b, 1, size)] # {TRUE}
        BY <1>7
    <3>2. b \in 0 .. begin - 1 => judge[Cut(Current, b, 1, size)] # {TRUE}
        BY <1>1 DEF SingleBytes
    <3> QED
        BY <2>1, <3>1, <3>2
  <2>4. OneMinimal'
      BY <1>1, <1>3, <1>7 DEF OneMinimal
  <2> QED
      BY <1>1, <2>2, <2>3, <2>4 DEF IInv
<1> QED
    BY <1>1, <1>6, <1>7 DEF Cutting

LEMMA EndPassStep ==
    ASSUME IncreasingAssumption, IInv, EndPass
    PROVE  IInv' /\ Current' = Current
<1>1. /\ TypeOK /\ NamesApart /\ BlocksTried /\ SingleBytes /\ OneMinimal
      /\ pc = "cut" /\ begin > Len(Current) - rs /\ rs' = rs + 1 /\ pc' = "size"
      /\ UNCHANGED <<begin, input_path, out_file, fail_no, disk, judge, kept>>
    BY DEF IInv, EndPass, LastBegin, Wider
<1>2. Current' = Current /\ (FailsUpwards' <=> FailsUpwards)
    BY <1>1 DEF Current, FailsUpwards
<1>3. rs \in Nat \ {0} /\ begin \in Nat /\ Len(Current) \in Nat
    BY <1>1 DEF TypeOK, Current, IncreasingAssumption
<1>4. TypeOK' /\ NamesApart' /\ SingleBytes'
    BY <1>1, <1>2, <1>3 DEF TypeOK, NamesApart, SingleBytes
<1>5. BlocksTried'
  <2>1. \A b \in 0 .. Len(Current) - rs : b \in 0 .. begin - 1 /\ b + rs <= Len(Current)
      BY <1>1, <1>3
  <2>2. \A b \in 0 .. Len(Current) - rs : Block(Current, b, rs) \in kept
      BY <1>1, <2>1 DEF BlocksTried
  <2>3. rs' - 1 = rs
      BY <1>1, <1>3
  <2> QED
      BY <1>1, <1>2, <2>2, <2>3 DEF BlocksTried
<1>6. OneMinimal'
  <2> SUFFICES ASSUME Len(Current) > 1, FailsUpwards, NEW s \in Cuts(Current, 1)
               PROVE  judge[s] # {TRUE}
      BY <1>1, <1>2 DEF OneMinimal
  <2>1. PICK b \in 0 .. Len(Current) - 1 : s = Cut(Current, b, 1, Len(Current))
      BY DEF Cuts
  <2>2. CASE rs = 1
    <3>1. b \in 0 .. begin - 1 /\ b < Len(Current)
        BY <1>1, <1>3, <2>2
    <3> QED
        BY <1>1, <2>1, <2>2, <3>1 DEF SingleBytes
  <2>3. CASE rs > 1
      BY <1>1, <2>3, Zenon DEF OneMinimal
  <2>4. rs = 1 \/ rs > 1
      BY <1>3
  <2> QED
      BY <2>2, <2>3, <2>4, Zenon
<1> QED
    BY <1>2, <1>4, <1>5, <1>6 DEF IInv

LEMMA ReturnStep ==
    ASSUME IncreasingAssumption, IInv, Return
    PROVE  IInv' /\ Current' = Current
<1>1. /\ TypeOK /\ NamesApart /\ OneMinimal /\ rs >= Len(Current) /\ pc' = "done"
      /\ UNCHANGED <<rs, begin, input_path, out_file, fail_no, disk, judge, kept>>
    BY DEF IInv, Return
<1>2. Current' = Current /\ (FailsUpwards' <=> FailsUpwards)
    BY <1>1 DEF Current, FailsUpwards
<1>3. rs \in Nat /\ Len(Current) \in Nat
    BY <1>1 DEF TypeOK, Current, IncreasingAssumption
<1>4. Len(Current) > 1 => rs > 1
    BY <1>1, <1>3
<1>5. TypeOK' /\ NamesApart' /\ BlocksTried' /\ SingleBytes' /\ OneMinimal'
    BY <1>1, <1>2, <1>4
    DEF TypeOK, NamesApart, BlocksTried, SingleBytes, OneMinimal
<1> QED
    BY <1>2, <1>5 DEF IInv
-----------------------------------------------------------------------------
LEMMA IInvStep == IncreasingAssumption /\ IInv /\ [Next]_vars => IInv'
<1> SUFFICES ASSUME IncreasingAssumption, IInv, [Next]_vars
             PROVE  IInv'
    OBVIOUS
<1>1. CASE UNCHANGED vars
    BY <1>1 DEF vars, IInv, TypeOK, NamesApart, BlocksTried, SingleBytes, OneMinimal,
       FailsUpwards, Current
<1> QED
    BY <1>1, StartPassStep, TestStep, EndPassStep, ReturnStep DEF Next, Step, Ended

(* The inductive invariant holds in every run, whatever the target does.   *)
THEOREM IInvAlways == Spec => []IInv
<1>1. Init => IInv
    BY IncreasingAssumption, InitIInv
<1>2. IInv /\ [Next]_vars => IInv'
    BY IncreasingAssumption, IInvStep
<1> QED
    BY <1>1, <1>2, PTL DEF Spec

(* Going back by rs - 1 bytes after a success, and no further, is enough:  *)
(* no block of rs bytes is left untried when rs grows.                     *)
THEOREM BlocksAlwaysTried == Spec => []BlocksTried
<1>1. IInv => BlocksTried
    BY DEF IInv
<1> QED
    BY <1>1, IInvAlways, PTL

(* For a target that keeps failing when bytes are added, the file is       *)
(* 1-minimal after the pass with single bytes, and so is what is returned. *)
THEOREM ResultOneMinimal == Spec => []OneMinimal
<1>1. IInv => OneMinimal
    BY DEF IInv
<1> QED
    BY <1>1, IInvAlways, PTL

LEMMA StepReduces ==
    ASSUME IncreasingAssumption, IInv, [Next]_vars
    PROVE  [Promise!Reduce]_Current
<1>1. CASE Test
  <2> DEFINE s == Cut(Current, begin, rs, Len(Current))
  <2>1. Cutting(s)
      BY <1>1, TestFiles
  <2>2. /\ Current \in Seq(0 .. 255) /\ begin \in Nat /\ rs \in Nat \ {0}
        /\ begin + rs <= Len(Current) /\ Len(Current) \in Nat
        /\ s \in Candidates /\ Len(s) = Len(Current) - rs
      BY <1>1, TestedExact
  <2>3. IsSubsequence(s, Current)
      BY <2>2, CutSubsequence
  <2> HIDE DEF s
  <2>4. pc = "cut" /\ pc' = "cut" /\ judge' = judge
      BY <1>1, <2>1 DEF Test, Cutting
  <2>5. CASE Current' = s /\ TRUE \in judge[s]
    <3>1. DOMAIN judge = Candidates
        BY DEF IInv, TypeOK, IncreasingAssumption
    <3>2. Len(s) < Len(Current)
        BY <2>2
    <3>3. Promise!Reduce
        BY <2>2, <2>3, <2>4, <2>5, <3>1, <3>2
        DEF Promise!Reduce, Promise!MayFail, Promise!IsSubsequence, IsSubsequence
    <3> QED
        BY <3>3
  <2> QED
      BY <2>1, <2>5 DEF Cutting
<1>2. CASE UNCHANGED vars
    BY <1>2 DEF vars, Current
<1> QED
    BY <1>1, <1>2, StartPassStep, EndPassStep, ReturnStep DEF Next, Step, Ended

(* The file is only ever replaced by a shorter subsequence on which the    *)
(* target failed, also when the input has the name of a candidate.         *)
THEOREM Reduces == Spec => OnlyReduces
<1>1. IInv /\ [Next]_vars => [Promise!Reduce]_Current
    BY IncreasingAssumption, StepReduces
<1> QED
    BY <1>1, IInvAlways, PTL DEF Spec, OnlyReduces
=============================================================================
