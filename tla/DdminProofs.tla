---------------------------- MODULE DdminProofs ----------------------------
(***************************************************************************)
(* ddmin() for every input, every target and every sequence of verdicts:   *)
(* its parts always fit the input, and its result is 1-minimal.            *)
(***************************************************************************)
EXTENDS Ddmin, ByteStringsProofs, TLAPS

(* The next part of a rest that has no more parts than bytes: the rest     *)
(* after it has no more parts than bytes either, and the last part is all. *)
LEMMA CeilBounds ==
    ASSUME NEW a \in Nat, NEW b \in Nat, 0 < b, b <= a
    PROVE  /\ Ceil(a, b) \in Nat /\ 0 < Ceil(a, b) /\ Ceil(a, b) <= a - (b - 1)
           /\ b = 1 => Ceil(a, b) = a
           /\ b = a => Ceil(a, b) = 1
           /\ b > 1 => Ceil(a, b) < a
<1> DEFINE q == (a + b - 1) \div b
           r == (a + b - 1) % b
<1>1. q \in Int /\ r \in 0 .. b - 1 /\ a + b - 1 = b * q + r
    OBVIOUS
<1> HIDE DEF q, r
<1>2. q > 0
  <2> SUFFICES ASSUME q <= 0
               PROVE  FALSE
      BY <1>1
  <2>1. b * q <= 0
      BY <1>1
  <2> QED
      BY <1>1, <2>1
<1>3. q <= a - (b - 1)
  <2> SUFFICES ASSUME q >= a - b + 2
               PROVE  FALSE
      BY <1>1
  <2>1. b * q >= b * (a - b + 2)
      BY <1>1
  <2>2. b * (a - b + 2) = (a - b) * (b - 1) + (a - b) + 2 * b
      OBVIOUS
  <2>3. (a - b) * (b - 1) >= 0
      OBVIOUS
  <2> QED
      BY <1>1, <2>1, <2>2, <2>3
<1>4. ASSUME b = 1
      PROVE  q = a
    BY <1>1, <1>4
<1>5. ASSUME b = a
      PROVE  q = 1
    BY <1>2, <1>3, <1>5, <1>1
<1> QED
    BY <1>1, <1>2, <1>3, <1>4, <1>5 DEF Ceil, q

(* Blocks and cuts of candidates.                                          *)
LEMMA EditTypes ==
    ASSUME DdminAssumption, NEW s \in Candidates, NEW b \in Nat, NEW k \in Nat,
           b + k <= Len(s)
    PROVE  /\ s \in Seq(0 .. 255) /\ Len(s) \in Nat
           /\ Block(s, b, k) \in Candidates /\ Len(Block(s, b, k)) = k
           /\ Cut(s, b, k, Len(s)) \in Candidates
           /\ Len(Cut(s, b, k, Len(s))) = Len(s) - k
<1>1. s \in Seq(0 .. 255) /\ Len(s) \in Nat
    BY DEF DdminAssumption
<1>2. b \in 0 .. Len(s) /\ k \in 0 .. Len(s)
    BY <1>1
<1>3. Block(s, b, k) \in Candidates /\ Cut(s, b, k, Len(s)) \in Candidates
    BY <1>2 DEF DdminAssumption
<1>4. Len(Block(s, b, k)) = k
    BY <1>1 DEF Block
<1> QED
    BY <1>1, <1>3, <1>4, CutType

(* A test writes the candidate to out_file and reports a verdict on it.    *)
LEMMA TestedExact ==
    ASSUME DdminAssumption, TypeOK, NEW s \in Candidates, NEW failed, Tested(s, failed)
    PROVE  /\ disk' = [disk EXCEPT ![out_file] = s]
           /\ executed' = executed + 1
           /\ failed \in judge[s]
<1>1. disk[out_file] \in Seq(0 .. 255) /\ s \in Seq(0 .. 255)
    BY DEF TypeOK, DdminAssumption
<1>2. Truncated(Overwritten(disk[out_file], s), Len(s)) = s
    BY <1>1, TruncatedExact
<1> QED
    BY <1>2 DEF Tested

LEMMA InitIInv == DdminAssumption /\ Init => IInv
<1> SUFFICES ASSUME DdminAssumption, Init
             PROVE  IInv
    OBVIOUS
<1>1. PICK name \in InputNames, s \in Inputs :
          minimized_fname = name /\ disk = [m \in {name} |-> s]
    BY DEF Init
<1>2. name \in Names /\ s \in Candidates /\ s \in Seq(0 .. 255)
    BY DEF DdminAssumption
<1>3. TypeOK
    BY <1>1, <1>2 DEF Init, TypeOK
<1>4. PartsFit
    BY <1>1, <1>2 DEF Init, PartsFit, InRound, Current
<1> QED
    BY <1>3, <1>4 DEF Init, IInv, SizesCurrent, BytesTested, OneMinimal

LEMMA StartRoundStep ==
    ASSUME DdminAssumption, IInv, StartRound
    PROVE  IInv'
<1>1. TypeOK /\ PartsFit
    BY DEF IInv
<1>2. /\ disk \in [DOMAIN disk -> Candidates] /\ DOMAIN disk \subseteq Names
      /\ minimized_fname \in DOMAIN disk /\ file_no \in Nat /\ n \in Nat
    BY <1>1 DEF TypeOK
<1>3. Current \in Candidates /\ Current \in Seq(0 .. 255) /\ Len(Current) \in Nat
    BY <1>2 DEF Current, DdminAssumption
<1>4. <<>> \in Candidates
  <2>1. Block(Current, 0, 0) \in Candidates /\ Len(Block(Current, 0, 0)) = 0
      BY <1>3, EditTypes
  <2>2. Block(Current, 0, 0) = <<>>
      BY <1>3 DEF Block
  <2> QED
      BY <2>1, <2>2
<1>5. /\ out_file' = <<"part", file_no>> /\ out_file' \in Names
      /\ minimized_fname' = minimized_fname /\ pc' = "subset"
      /\ f_size' = Len(Current) /\ _f_size' = Len(Current) /\ _n' = n /\ n' = n
      /\ Len(Current) > 1 /\ pc = "loop"
    BY <1>2 DEF StartRound, PartPath, Names
<1>6. /\ DOMAIN disk' = DOMAIN disk \cup {out_file'}
      /\ \A m \in DOMAIN disk' : disk'[m] = IF m = out_file' THEN <<>> ELSE disk[m]
    BY DEF StartRound, PartPath
<1>7. TypeOK'
  <2>1. disk' \in [DOMAIN disk' -> Candidates]
    <3>1. disk' = [m \in DOMAIN disk' |-> disk'[m]]
        BY DEF StartRound, PartPath
    <3>2. \A m \in DOMAIN disk' : disk'[m] \in Candidates
        BY <1>2, <1>4, <1>6
    <3> QED
        BY <3>1, <3>2
  <2>2. file_no' \in Nat
      BY <1>2 DEF StartRound, PartPath
  <2> QED
      BY <1>1, <1>2, <1>3, <1>5, <1>6, <2>1, <2>2 DEF StartRound, PartPath, TypeOK
<1>8. PartsFit'
    BY <1>1, <1>3, <1>5 DEF PartsFit, InRound
<1>9. SizesCurrent'
    BY <1>2, <1>5, <1>6 DEF SizesCurrent, Current
<1> QED
    BY <1>5, <1>7, <1>8, <1>9 DEF IInv, BytesTested, OneMinimal

(* The current file stays, or a shorter failing one takes its place.       *)
Shrinks ==
    \/ Current' = Current
    \/ /\ Current' \in Candidates /\ Len(Current') < Len(Current)
       /\ IsSubsequence(Current', Current) /\ TRUE \in judge[Current']

LEMMA TestSubsetStep ==
    ASSUME DdminAssumption, IInv, TestSubset
    PROVE  IInv' /\ Shrinks
<1> DEFINE part_size == Ceil(_f_size, _n)
           part      == Block(Current, f_size - _f_size, part_size)
<1>1. TypeOK /\ PartsFit /\ SizesCurrent /\ pc = "subset" /\ Len(Current) >= f_size
    BY DEF IInv, TestSubset
<1>2. /\ disk \in [DOMAIN disk -> Candidates] /\ DOMAIN disk \subseteq Names
      /\ minimized_fname \in DOMAIN disk /\ out_file \in DOMAIN disk
      /\ f_size \in Nat /\ _f_size \in Nat /\ _n \in Nat /\ n \in Nat /\ executed \in Nat
      /\ Current \in Candidates /\ Current \in Seq(0 .. 255)
    BY <1>1 DEF TypeOK, Current, DdminAssumption
<1>3. /\ _n \in 1 .. n /\ _n <= _f_size /\ n - _n <= f_size - _f_size /\ n \in 2 .. f_size
      /\ minimized_fname # out_file /\ Len(Current) = f_size
    BY <1>1, <1>2 DEF PartsFit, SizesCurrent, InRound
<1>4. /\ part_size \in Nat /\ 0 < part_size /\ part_size <= _f_size - (_n - 1)
      /\ _n = 1 => part_size = _f_size
    BY <1>2, <1>3, CeilBounds
<1> HIDE DEF part_size
<1>5. /\ part \in Candidates /\ Len(part) = part_size /\ part_size < f_size
      /\ IsSubsequence(part, Current)
  <2>1. f_size - _f_size \in Nat /\ (f_size - _f_size) + part_size <= Len(Current)
      BY <1>2, <1>3, <1>4
  <2> QED
      BY <1>2, <1>3, <1>4, <2>1, EditTypes, BlockSubsequence
<1> HIDE DEF part
<1>6. PICK failed \in BOOLEAN :
          /\ Tested(part, failed)
          /\ IF failed
             THEN /\ n' = 2
                  /\ minimized_fname' = out_file
                  /\ pc' = "loop"
                  /\ UNCHANGED <<_f_size, _n, c_start>>
             ELSE /\ _f_size' = _f_size - part_size
                  /\ IF _n - 1 > 0
                     THEN _n' = _n - 1 /\ UNCHANGED <<pc, c_start>>
                     ELSE _n' = n /\ c_start' = 0 /\ pc' = "complement"
                  /\ UNCHANGED <<n, minimized_fname>>
    BY DEF TestSubset, part, part_size
<1>7. /\ disk' = [disk EXCEPT ![out_file] = part] /\ executed' \in Nat
      /\ failed \in judge[part]
      /\ UNCHANGED <<out_file, f_size, file_no, judge>>
    BY <1>1, <1>2, <1>5, <1>6, TestedExact DEF TestSubset
<1>8. /\ disk' \in [DOMAIN disk -> Candidates] /\ DOMAIN disk' = DOMAIN disk
      /\ disk'[out_file] = part /\ disk'[minimized_fname] = Current
    BY <1>2, <1>3, <1>5, <1>7 DEF Current
<1>9. CASE failed
  <2>1. Current' = part
      BY <1>6, <1>8, <1>9 DEF Current
  <2>2. TypeOK'
      BY <1>1, <1>2, <1>6, <1>7, <1>8, <1>9 DEF TypeOK
  <2>3. PartsFit'
      BY <1>4, <1>5, <1>6, <1>9, <2>1 DEF PartsFit, InRound
  <2>4. IInv'
      BY <1>6, <1>9, <2>2, <2>3 DEF IInv, SizesCurrent, BytesTested, OneMinimal
  <2>5. Shrinks
      BY <1>3, <1>5, <1>7, <1>9, <2>1 DEF Shrinks
  <2> QED
      BY <2>4, <2>5
<1>10. CASE ~failed
  <2>1. Current' = Current /\ minimized_fname' = minimized_fname /\ n' = n
      BY <1>6, <1>8, <1>10 DEF Current
  <2>2. TypeOK'
    <3>1. _f_size' \in Nat /\ _n' \in Nat /\ c_start' \in Nat
        BY <1>1, <1>2, <1>3, <1>4, <1>6, <1>10 DEF TypeOK
    <3> QED
        BY <1>1, <1>2, <1>6, <1>7, <1>8, <1>10, <2>1, <3>1 DEF TypeOK
  <2>3. CASE _n - 1 > 0
    <3>1. pc' = "subset" /\ _n' = _n - 1 /\ _f_size' = _f_size - part_size
        BY <1>1, <1>6, <1>10, <2>3
    <3>2. /\ n \in 2 .. f_size /\ _n' \in 1 .. n /\ _n' <= _f_size'
          /\ n - _n' <= f_size - _f_size'
        BY <1>2, <1>3, <1>4, <2>3, <3>1
    <3>3. PartsFit'
        BY <1>7, <2>1, <3>1, <3>2 DEF PartsFit, InRound
    <3>4. SizesCurrent'
        BY <1>3, <1>7, <2>1, <3>1 DEF SizesCurrent
    <3> QED
        BY <2>1, <2>2, <3>1, <3>3, <3>4 DEF IInv, BytesTested, OneMinimal, Shrinks
  <2>4. CASE ~(_n - 1 > 0)
    <3>1. pc' = "complement" /\ _n' = n /\ c_start' = 0
        BY <1>6, <1>10, <2>4
    <3>2. PartsFit'
        BY <1>2, <1>3, <1>7, <2>1, <3>1 DEF PartsFit, InRound
    <3>3. SizesCurrent'
        BY <1>3, <1>7, <2>1, <3>1 DEF SizesCurrent
    <3>4. BytesTested'
        BY <1>2, <1>7, <2>1, <3>1 DEF BytesTested
    <3> QED
        BY <2>1, <2>2, <3>1, <3>2, <3>3, <3>4 DEF IInv, OneMinimal, Shrinks
  <2> QED
      BY <2>3, <2>4
<1> QED
    BY <1>9, <1>10

LEMMA TestComplementStep ==
    ASSUME DdminAssumption, IInv, TestComplement
    PROVE  IInv' /\ Shrinks
<1> DEFINE part_size  == Ceil(f_size - c_start, _n)
           complement == Cut(Current, c_start, part_size, f_size)
<1>1. TypeOK /\ PartsFit /\ SizesCurrent /\ BytesTested /\ pc = "complement"
    BY DEF IInv, TestComplement
<1>2. /\ disk \in [DOMAIN disk -> Candidates] /\ DOMAIN disk \subseteq Names
      /\ minimized_fname \in DOMAIN disk /\ out_file \in DOMAIN disk
      /\ f_size \in Nat /\ c_start \in Nat /\ _n \in Nat /\ n \in Nat /\ executed \in Nat
      /\ Current \in Candidates /\ Current \in Seq(0 .. 255)
    BY <1>1 DEF TypeOK, Current, DdminAssumption
<1>3. /\ _n \in 1 .. n /\ _n <= f_size - c_start /\ n - _n <= c_start /\ n \in 2 .. f_size
      /\ minimized_fname # out_file /\ Len(Current) = f_size
    BY <1>1 DEF PartsFit, SizesCurrent, InRound
<1>4. /\ part_size \in Nat /\ 0 < part_size
      /\ part_size <= f_size - c_start - (_n - 1)
      /\ _n = 1 => part_size = f_size - c_start
      /\ _n = f_size - c_start => part_size = 1
  <2>1. f_size - c_start \in Nat
      BY <1>2, <1>3
  <2> QED
      BY <1>2, <1>3, <2>1, CeilBounds
<1>5. c_start + part_size <= f_size
    BY <1>2, <1>3, <1>4
<1> HIDE DEF part_size
<1>6. /\ complement \in Candidates /\ Len(complement) = f_size - part_size
      /\ IsSubsequence(complement, Current)
    BY <1>2, <1>3, <1>4, <1>5, EditTypes, CutSubsequence
<1>7. PICK failed \in BOOLEAN :
          /\ Tested(complement, failed)
          /\ IF failed
             THEN /\ n' = Coarser(n)
                  /\ minimized_fname' = out_file
                  /\ pc' = "loop"
                  /\ c_start' = 0
                  /\ UNCHANGED _n
             ELSE /\ c_start' = c_start + part_size
                  /\ _n' = _n - 1
                  /\ pc' = IF c_start + part_size < f_size THEN "complement" ELSE "refine"
                  /\ UNCHANGED <<n, minimized_fname>>
    BY DEF TestComplement, part_size
<1> HIDE DEF complement
<1>8. /\ disk' = [disk EXCEPT ![out_file] = complement] /\ executed' \in Nat
      /\ failed \in judge[complement]
      /\ UNCHANGED <<out_file, f_size, _f_size, file_no, judge>>
    BY <1>1, <1>2, <1>6, <1>7, TestedExact DEF TestComplement
<1>9. /\ disk' \in [DOMAIN disk -> Candidates] /\ DOMAIN disk' = DOMAIN disk
      /\ disk'[out_file] = complement /\ disk'[minimized_fname] = Current
    BY <1>2, <1>3, <1>6, <1>8 DEF Current
<1>10. CASE failed
  <2>1. Current' = complement
      BY <1>7, <1>9, <1>10 DEF Current
  <2>2. n' \in Nat /\ n' >= 2 /\ n' <= Greater(n - 1, 2)
      BY <1>2, <1>3, <1>7, <1>10 DEF Coarser, Greater
  <2>3. TypeOK'
      BY <1>1, <1>2, <1>7, <1>8, <1>9, <1>10, <2>2 DEF TypeOK
  <2>4. Len(complement) > 1 => n' <= Len(complement)
    <3>1. n - 1 <= f_size - part_size
        BY <1>2, <1>3, <1>4
    <3> QED
        BY <1>2, <1>3, <1>4, <1>6, <2>2, <3>1 DEF Greater
  <2>5. PartsFit'
      BY <1>2, <1>4, <1>6, <1>7, <1>10, <2>1, <2>2, <2>4 DEF PartsFit, InRound
  <2>6. IInv'
      BY <1>7, <1>10, <2>3, <2>5 DEF IInv, SizesCurrent, BytesTested, OneMinimal
  <2>7. Shrinks
    <3>1. TRUE \in judge[complement]
        BY <1>8, <1>10
    <3>2. Len(complement) < Len(Current)
        BY <1>2, <1>3, <1>4, <1>6
    <3> QED
        BY <1>6, <2>1, <3>1, <3>2 DEF Shrinks
  <2> QED
      BY <2>6, <2>7
<1>11. CASE ~failed
  <2>1. Current' = Current /\ minimized_fname' = minimized_fname /\ n' = n
      BY <1>7, <1>9, <1>11 DEF Current
  <2>2. TypeOK'
    <3>1. /\ pc' \in {"complement", "refine"}
          /\ _n' \in Nat /\ c_start' \in Nat
        BY <1>2, <1>3, <1>4, <1>7, <1>11
    <3> QED
        BY <1>1, <1>2, <1>8, <1>9, <2>1, <3>1 DEF TypeOK
  <2>3. /\ pc' \in {"complement", "refine"} /\ _n' = _n - 1
        /\ c_start' = c_start + part_size
        /\ pc' = "complement" <=> c_start' < f_size
      BY <1>7, <1>11
  <2>4. PartsFit'
    <3>1. ASSUME pc' = "complement"
          PROVE  _n' \in 1 .. n /\ _n' <= f_size - c_start' /\ n - _n' <= c_start'
      <4>1. _n # 1
          BY <1>2, <1>4, <2>3, <3>1
      <4>2. _n' \in 1 .. n
          BY <1>2, <1>3, <2>3, <4>1
      <4>3. c_start' \in Nat /\ _n - 1 <= f_size - c_start'
          BY <1>2, <1>3, <1>4, <2>3
      <4>4. n - (_n - 1) <= c_start'
          BY <1>2, <1>3, <1>4, <2>3
      <4> QED
          BY <2>3, <4>2, <4>3, <4>4
    <3>2. ASSUME pc' = "refine"
          PROVE  _n' = 0 /\ c_start' = f_size
        BY <1>2, <1>3, <1>4, <1>5, <2>3, <3>2
    <3> QED
        BY <1>3, <1>8, <2>1, <2>3, <3>1, <3>2 DEF PartsFit, InRound
  <2>5. SizesCurrent'
      BY <1>3, <1>8, <2>1, <2>3 DEF SizesCurrent
  <2>6. BytesTested'
    <3> SUFFICES ASSUME n = f_size
                 PROVE  /\ _n' = f_size - c_start'
                        /\ \A b \in 0 .. c_start' - 1 :
                              judge[Cut(Current, b, 1, f_size)] # {TRUE}
        BY <1>8, <2>1 DEF BytesTested
    <3>1. _n = f_size - c_start /\ part_size = 1
        BY <1>1, <1>4 DEF BytesTested
    <3>2. judge[Cut(Current, c_start, 1, f_size)] # {TRUE}
        BY <1>8, <1>11, <3>1 DEF complement
    <3>3. \A b \in 0 .. c_start - 1 : judge[Cut(Current, b, 1, f_size)] # {TRUE}
        BY <1>1 DEF BytesTested
    <3>4. \A b \in 0 .. c_start' - 1 : b \in 0 .. c_start - 1 \/ b = c_start
        BY <1>2, <2>3, <3>1
    <3>5. _n' = f_size - c_start'
        BY <1>2, <2>3, <3>1
    <3> QED
        BY <3>2, <3>3, <3>4, <3>5
  <2> QED
      BY <2>1, <2>2, <2>3, <2>4, <2>5, <2>6 DEF IInv, OneMinimal, Shrinks
<1> QED
    BY <1>10, <1>11

LEMMA RefineStep ==
    ASSUME DdminAssumption, IInv, Refine
    PROVE  IInv'
<1>1. TypeOK /\ PartsFit /\ SizesCurrent
    BY DEF IInv
<1>2. /\ pc = "refine" /\ pc' = "loop" /\ n' = Finer(n, f_size) /\ ~(f_size <= n)
      /\ UNCHANGED <<minimized_fname, out_file, f_size, _f_size, _n, c_start, file_no,
                      executed, disk, judge>>
    BY DEF Refine, Exhausted
<1>3. n \in 2 .. f_size /\ f_size \in Nat /\ Len(Current) = f_size
    BY <1>1, <1>2 DEF TypeOK, PartsFit, SizesCurrent, InRound
<1>4. n' \in 2 .. f_size
    BY <1>2, <1>3 DEF Finer, Lesser
<1>5. TypeOK'
    BY <1>1, <1>2, <1>4 DEF TypeOK
<1>6. PartsFit'
    BY <1>2, <1>3, <1>4 DEF PartsFit, InRound, Current
<1> QED
    BY <1>2, <1>5, <1>6 DEF IInv, SizesCurrent, BytesTested, OneMinimal

LEMMA ReturnStep ==
    ASSUME DdminAssumption, IInv, Return
    PROVE  IInv'
<1>1. TypeOK /\ PartsFit /\ SizesCurrent /\ BytesTested
    BY DEF IInv
<1>2. /\ pc' = "done"
      /\ \/ pc = "refine" /\ f_size <= n
         \/ pc = "loop" /\ Len(Current) <= 1
      /\ UNCHANGED <<minimized_fname, out_file, loopVars, file_no, executed, disk, judge>>
    BY DEF Return, Exhausted
<1>3. UNCHANGED <<Current, f_size, n, _f_size, _n, c_start>>
    BY <1>2 DEF Current, loopVars
<1>4. TypeOK' /\ PartsFit' /\ SizesCurrent' /\ BytesTested'
    BY <1>1, <1>2, <1>3 DEF TypeOK, PartsFit, SizesCurrent, BytesTested, InRound
<1>5. OneMinimal'
  <2>1. CASE pc = "loop" /\ Len(Current) <= 1
    <3>1. Current \in Seq(0 .. 255)
        BY <1>1 DEF TypeOK, Current, DdminAssumption
    <3> QED
        BY <1>3, <2>1, <3>1 DEF OneMinimal
  <2>2. CASE pc = "refine" /\ f_size <= n
    <3>1. n = f_size /\ c_start = f_size /\ Len(Current) = f_size /\ f_size \in Nat
        BY <1>1, <2>2 DEF TypeOK, PartsFit, SizesCurrent, InRound
    <3>2. \A b \in 0 .. f_size - 1 : judge[Cut(Current, b, 1, f_size)] # {TRUE}
        BY <1>1, <2>2, <3>1 DEF BytesTested
    <3>3. \A s \in Cuts(Current, 1) : judge[s] # {TRUE}
        BY <3>1, <3>2 DEF Cuts
    <3> QED
        BY <1>2, <1>3, <3>3 DEF OneMinimal
  <2> QED
      BY <1>2, <2>1, <2>2
<1> QED
    BY <1>4, <1>5 DEF IInv

LEMMA IInvStep == DdminAssumption /\ IInv /\ [Next]_vars => IInv'
<1> SUFFICES ASSUME DdminAssumption, IInv, [Next]_vars
             PROVE  IInv'
    OBVIOUS
<1>1. CASE StartRound
    BY <1>1, StartRoundStep
<1>2. CASE TestSubset
    BY <1>2, TestSubsetStep
<1>3. CASE TestComplement
    BY <1>3, TestComplementStep
<1>4. CASE Refine
    BY <1>4, RefineStep
<1>5. CASE Return
    BY <1>5, ReturnStep
<1>6. CASE UNCHANGED vars
    BY <1>6 DEF vars, loopVars, IInv, TypeOK, PartsFit, SizesCurrent, BytesTested,
       OneMinimal, InRound, Current
<1> QED
    BY <1>1, <1>2, <1>3, <1>4, <1>5, <1>6 DEF Next, Step, Ended

(* The inductive invariant holds in every run, whatever the target does.   *)
THEOREM IInvAlways == Spec => []IInv
<1>1. Init => IInv
    BY DdminAssumption, InitIInv
<1>2. IInv /\ [Next]_vars => IInv'
    BY DdminAssumption, IInvStep
<1> QED
    BY <1>1, <1>2, PTL DEF Spec

(* ddmin() keeps its types: only candidates are ever written.              *)
THEOREM TypeCorrect == Spec => []TypeOK
<1>1. IInv => TypeOK
    BY DEF IInv
<1> QED
    BY <1>1, IInvAlways, PTL

(* No part is empty, nothing is divided by zero, and both loops of a round *)
(* end exactly at the end of the input.                                    *)
THEOREM PartsAlwaysFit == Spec => []PartsFit
<1>1. IInv => PartsFit
    BY DEF IInv
<1> QED
    BY <1>1, IInvAlways, PTL

(* In a round over single bytes, every byte before c_start was removed in a*)
(* test of the current file, and the file without it may pass.             *)
THEOREM BytesAlwaysTested == Spec => []BytesTested
<1>1. IInv => BytesTested
    BY DEF IInv
<1> QED
    BY <1>1, IInvAlways, PTL

(* Whatever the input and the target, and even if verdicts differ from     *)
(* test to test, the target does not surely fail on what ddmin() returns   *)
(* less any one byte.                                                      *)
THEOREM ResultOneMinimal == Spec => []OneMinimal
<1>1. IInv => OneMinimal
    BY DEF IInv
<1> QED
    BY <1>1, IInvAlways, PTL
-----------------------------------------------------------------------------
(* ddmin() implements Minimiser.                                           *)

FreshInput == \A name \in InputNames : name[1] # "part"

LEMMA NamesFreshInit == DdminAssumption /\ FreshInput /\ Init => NamesFresh
BY DEF FreshInput, Init, NamesFresh, InRound

LEMMA NamesFreshStep == IInv /\ NamesFresh /\ [Next]_vars => NamesFresh'
<1> SUFFICES ASSUME IInv, NamesFresh, [Next]_vars
             PROVE  NamesFresh'
    OBVIOUS
<1>1. file_no \in Nat
    BY DEF IInv, TypeOK
<1>2. CASE StartRound
  <2>1. /\ minimized_fname' = minimized_fname /\ file_no' = file_no + 1
        /\ out_file' = <<"part", file_no>> /\ pc' = "subset"
      BY <1>2 DEF StartRound, PartPath
  <2>2. minimized_fname # <<"part", file_no>>
      BY <1>1 DEF NamesFresh
  <2>3. file_no' - 1 = file_no
      BY <1>1, <2>1
  <2>4. minimized_fname[1] = "part" => minimized_fname[2] < file_no + 1
    <3> SUFFICES ASSUME minimized_fname[1] = "part"
                 PROVE  minimized_fname[2] < file_no + 1
        OBVIOUS
    <3>1. minimized_fname[2] \in Nat
        BY DEF IInv, TypeOK, Names
    <3>2. minimized_fname[2] < file_no
        BY DEF NamesFresh
    <3> QED
        BY <1>1, <3>1, <3>2
  <2> QED
      BY <2>1, <2>2, <2>3, <2>4 DEF NamesFresh
<1>3. CASE TestSubset \/ TestComplement
  <2>1. /\ out_file = <<"part", file_no - 1>> /\ UNCHANGED <<out_file, file_no>>
        /\ \/ minimized_fname' = out_file /\ pc' = "loop"
           \/ minimized_fname' = minimized_fname
      BY <1>3 DEF TestSubset, TestComplement, NamesFresh, InRound
  <2>2. minimized_fname' = out_file => minimized_fname'[2] < file_no
      BY <1>1, <2>1
  <2>3. NamesFresh'
      BY <1>3, <2>1, <2>2 DEF NamesFresh, InRound, TestSubset, TestComplement
  <2> QED
      BY <2>3
<1>4. CASE Refine \/ Return
    BY <1>4 DEF Refine, Return, NamesFresh, InRound
<1>5. CASE UNCHANGED vars
    BY <1>5 DEF vars, NamesFresh, InRound
<1> QED
    BY <1>2, <1>3, <1>4, <1>5 DEF Next, Step, Ended

LEMMA StepShrinks ==
    ASSUME DdminAssumption, IInv, NamesFresh, Next
    PROVE  Shrinks
<1>1. CASE StartRound
  <2>1. minimized_fname' = minimized_fname /\ minimized_fname # <<"part", file_no>>
      BY <1>1 DEF StartRound, PartPath, NamesFresh, IInv, TypeOK
  <2>2. minimized_fname \in DOMAIN disk
      BY DEF IInv, TypeOK
  <2> QED
      BY <1>1, <2>1, <2>2 DEF StartRound, PartPath, Shrinks, Current
<1>2. CASE TestSubset \/ TestComplement
    BY <1>2, TestSubsetStep, TestComplementStep
<1>3. CASE Refine \/ Return \/ Ended
    BY <1>3 DEF Refine, Return, Ended, vars, Shrinks, Current
<1> QED
    BY <1>1, <1>2, <1>3 DEF Next, Step

LEMMA StepSimulation ==
    ASSUME DdminAssumption, IInv, NamesFresh, [Next]_vars
    PROVE  [Promise!Next]_(Promise!vars)
<1>1. CASE Return
  <2>1. pc # "done" /\ pc' = "done" /\ Current' = Current /\ judge' = judge
      BY <1>1 DEF Return, Current
  <2>2. OneMinimal'
      BY <1>1, ReturnStep DEF IInv
  <2>3. Len(Current) > 1 => \A s \in Cuts(Current, 1) : judge[s] # {TRUE}
      BY <2>1, <2>2 DEF OneMinimal
  <2>4. Len(Current) \in Nat
      BY DEF IInv, TypeOK, Current, DdminAssumption
  <2>5. Len(Current) <= 1 \/ Len(Current) > 1
      BY <2>4
  <2>6. Promise!Cuts(Current, 1) = Cuts(Current, 1)
      BY DEF Promise!Cuts, Promise!Cut, Cuts, Cut
  <2>7. Promise!Return
      BY <2>1, <2>3, <2>5, <2>6 DEF Promise!Return, Promise!MustFail
  <2> QED
      BY <2>7 DEF Promise!Next
<1>2. CASE Next /\ ~Return
  <2>1. (pc = "done") = (pc' = "done") /\ judge' = judge
      BY <1>2 DEF Next, Step, StartRound, TestSubset, TestComplement,
         Refine, Ended, vars
  <2>2. CASE Current' = Current
      BY <2>1, <2>2 DEF Promise!vars
  <2>3. CASE Current' # Current
    <3>1. pc # "done"
        BY <1>2, <2>3 DEF Next, Step, StartRound, TestSubset,
           TestComplement, Refine, Ended, vars, Current
    <3>2. DOMAIN judge = Candidates
        BY DEF IInv, TypeOK, DdminAssumption
    <3>3. Promise!Reduce
        BY <1>2, <2>1, <2>3, <3>1, <3>2, StepShrinks
        DEF Shrinks, Promise!Reduce, Promise!MayFail, Promise!IsSubsequence,
            IsSubsequence
    <3> QED
        BY <3>3 DEF Promise!Next
  <2> QED
      BY <2>2, <2>3
<1>3. CASE UNCHANGED vars
    BY <1>3 DEF vars, Promise!vars, Current
<1> QED
    BY <1>1, <1>2, <1>3

(* On an input whose name ddmin() does not use itself, every run of ddmin()*)
(* is a run of the abstract minimiser: from one failing string to a shorter*)
(* one, a subsequence of it, and back only with a 1-minimal one.           *)
THEOREM Implementation == FreshInput => (Spec => ImplementsMinimiser)
<1> SUFFICES ASSUME FreshInput
             PROVE  Spec => ImplementsMinimiser
    OBVIOUS
<1>1. Init => Promise!Init
  <2> SUFFICES ASSUME Init
               PROVE  Promise!Init
      OBVIOUS
  <2>1. Current \in Inputs /\ judge \in Judges /\ pc # "done"
      BY DEF Init, Current
  <2> QED
      BY <2>1 DEF Promise!Init
<1>2. Init => NamesFresh
    BY DdminAssumption, NamesFreshInit
<1>3. IInv /\ NamesFresh /\ [Next]_vars => NamesFresh'
    BY NamesFreshStep
<1>4. IInv /\ NamesFresh /\ [Next]_vars => [Promise!Next]_(Promise!vars)
    BY DdminAssumption, StepSimulation
<1> QED
    BY <1>1, <1>2, <1>3, <1>4, IInvAlways, PTL
    DEF Spec, ImplementsMinimiser, Promise!Spec
=============================================================================
