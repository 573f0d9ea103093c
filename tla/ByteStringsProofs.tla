-------------------------- MODULE ByteStringsProofs --------------------------
(***************************************************************************)
(* Lemmas about keeping a block of a byte string and removing one.         *)
(***************************************************************************)
EXTENDS ByteStrings, SequenceTheorems, TLAPS

(* Removing k bytes that are there makes a string k bytes shorter.         *)
LEMMA CutType ==
    ASSUME NEW S, NEW s \in Seq(S), NEW b \in Nat, NEW k \in Nat, b + k <= Len(s)
    PROVE  /\ Cut(s, b, k, Len(s)) \in Seq(S)
           /\ Len(Cut(s, b, k, Len(s))) = Len(s) - k
<1>1. Len(s) \in Nat
    OBVIOUS
<1>2. SubSeq(s, 1, b) \in Seq(S) /\ Len(SubSeq(s, 1, b)) = b
  <2>1. \A i \in 1 .. b : i \in 1 .. Len(s)
      BY <1>1
  <2>2. \A i \in 1 .. b : s[i] \in S
      BY <2>1, ElementOfSeq
  <2> QED
      BY <1>1, <2>2, SubSeqProperties
<1>3. /\ SubSeq(s, b + k + 1, Len(s)) \in Seq(S)
      /\ Len(SubSeq(s, b + k + 1, Len(s))) = Len(s) - b - k
  <2>1. \A i \in b + k + 1 .. Len(s) : i \in 1 .. Len(s)
      BY <1>1
  <2>2. \A i \in b + k + 1 .. Len(s) : s[i] \in S
      BY <2>1, ElementOfSeq
  <2> QED
      BY <1>1, <2>2, SubSeqProperties
<1>4. b + (Len(s) - b - k) = Len(s) - k
    BY <1>1
<1> QED
    BY <1>2, <1>3, <1>4, ConcatProperties DEF Cut

(* Keeping a block, or removing one, leaves a subsequence.                 *)
LEMMA BlockSubsequence ==
    ASSUME NEW S, NEW s \in Seq(S), NEW b \in Nat, NEW k \in Nat, b + k <= Len(s)
    PROVE  IsSubsequence(Block(s, b, k), s)
<1>1. /\ Len(Block(s, b, k)) = k /\ Len(s) \in Nat
      /\ \A i \in 1 .. k : Block(s, b, k)[i] = s[i + b]
    BY DEF Block
<1> DEFINE f == [i \in 1 .. k |-> i + b]
<1>2. f \in [1 .. k -> 1 .. Len(s)]
    BY <1>1
<1>3. \A i, j \in 1 .. k : i < j => f[i] < f[j]
    OBVIOUS
<1>4. \A i \in 1 .. k : Block(s, b, k)[i] = s[f[i]]
    BY <1>1
<1> HIDE DEF f
<1> QED
    BY <1>1, <1>2, <1>3, <1>4 DEF IsSubsequence

(* What a string without k of its bytes holds at each place.               *)
LEMMA CutElements ==
    ASSUME NEW S, NEW s \in Seq(S), NEW b \in Nat, NEW k \in Nat, b + k <= Len(s)
    PROVE  /\ Len(s) \in Nat
           /\ Cut(s, b, k, Len(s)) \in Seq(S)
           /\ Len(Cut(s, b, k, Len(s))) = Len(s) - k
           /\ \A i \in 1 .. Len(s) - k :
                 Cut(s, b, k, Len(s))[i] = IF i <= b THEN s[i] ELSE s[i + k]
<1> DEFINE left  == SubSeq(s, 1, b)
           right == SubSeq(s, b + k + 1, Len(s))
           size  == Len(s) - k
<1>1. Len(s) \in Nat /\ size \in Nat /\ b <= size
    OBVIOUS
<1>2. left \in Seq(S) /\ Len(left) = b /\ \A i \in 1 .. b : left[i] = s[i]
    OBVIOUS
<1>3. /\ right \in Seq(S) /\ Len(right) = size - b
      /\ \A i \in 1 .. size - b : right[i] = s[i + b + k]
  <2>1. \A i \in b + k + 1 .. Len(s) : s[i] \in S
    <3>1. \A i \in b + k + 1 .. Len(s) : i \in 1 .. Len(s)
        BY <1>1
    <3> QED
        BY <3>1, ElementOfSeq
  <2>2. /\ right \in Seq(S)
        /\ Len(right) = IF b + k + 1 <= Len(s) THEN Len(s) - (b + k + 1) + 1 ELSE 0
        /\ \A i \in 1 .. Len(s) - (b + k + 1) + 1 : right[i] = s[(b + k + 1) + i - 1]
      BY <1>1, <2>1, SubSeqProperties
  <2> QED
      BY <1>1, <2>2
<1>4. Cut(s, b, k, Len(s)) = left \o right
    BY DEF Cut
<1> HIDE DEF left, right
<1>5. /\ Len(left \o right) = size
      /\ \A i \in 1 .. size :
            (left \o right)[i] = IF i <= b THEN left[i] ELSE right[i - b]
    BY <1>1, <1>2, <1>3
<1>6. \A i \in 1 .. size : (left \o right)[i] = IF i <= b THEN s[i] ELSE s[i + k]
  <2> TAKE i \in 1 .. size
  <2>1. CASE i <= b
      BY <1>1, <1>2, <1>5, <2>1
  <2>2. CASE ~(i <= b)
    <3>1. i - b \in 1 .. size - b /\ (i - b) + b + k = i + k
        BY <1>1, <2>2
    <3>2. right[i - b] = s[i + k]
        BY <1>3, <3>1
    <3> QED
        BY <1>5, <2>2, <3>2
  <2> QED
      BY <2>1, <2>2
<1> QED
    BY <1>1, <1>4, <1>5, <1>6, CutType

LEMMA CutSubsequence ==
    ASSUME NEW S, NEW s \in Seq(S), NEW b \in Nat, NEW k \in Nat, b + k <= Len(s)
    PROVE  IsSubsequence(Cut(s, b, k, Len(s)), s)
<1> DEFINE cut  == Cut(s, b, k, Len(s))
           size == Len(s) - k
           f    == [i \in 1 .. size |-> IF i <= b THEN i ELSE i + k]
<1>1. /\ Len(s) \in Nat /\ size \in Nat /\ b <= size /\ Len(cut) = size
      /\ \A i \in 1 .. size : cut[i] = IF i <= b THEN s[i] ELSE s[i + k]
    BY CutElements
<1> HIDE DEF cut
<1>2. f \in [1 .. size -> 1 .. Len(s)]
    BY <1>1
<1>3. \A i, j \in 1 .. size : i < j => f[i] < f[j]
    BY <1>1
<1>4. \A i \in 1 .. size : cut[i] = s[f[i]]
    BY <1>1
<1> HIDE DEF f, size
<1>5. IsSubsequence(cut, s)
    BY <1>1, <1>2, <1>3, <1>4 DEF IsSubsequence
<1> QED
    BY <1>5 DEF cut

(* A block in front of a cut is not touched by it.                         *)
LEMMA BlockOfCut ==
    ASSUME NEW S, NEW s \in Seq(S), NEW c \in Nat, NEW k \in Nat, c + k <= Len(s),
           NEW b \in Nat, NEW m \in Nat, b + m <= c
    PROVE  Block(Cut(s, c, k, Len(s)), b, m) = Block(s, b, m)
<1> DEFINE cut == Cut(s, c, k, Len(s))
<1>1. /\ Len(s) \in Nat /\ Len(cut) = Len(s) - k
      /\ \A i \in 1 .. Len(s) - k : cut[i] = IF i <= c THEN s[i] ELSE s[i + k]
    BY CutElements
<1> HIDE DEF cut
<1>2. Block(cut, b, m) = [i \in 1 .. m |-> cut[i + b]]
    BY DEF Block
<1>3. Block(s, b, m) = [i \in 1 .. m |-> s[i + b]]
    BY DEF Block
<1>4. \A i \in 1 .. m : cut[i + b] = s[i + b]
    BY <1>1
<1> QED
    BY <1>2, <1>3, <1>4 DEF cut

(* Removing two single bytes in one order or the other.                    *)
LEMMA CutsCommute ==
    ASSUME NEW S, NEW s \in Seq(S), NEW b \in Nat, NEW c \in Nat, b < c, c + 1 <= Len(s)
    PROVE  Cut(Cut(s, c, 1, Len(s)), b, 1, Len(s) - 1) =
               Cut(Cut(s, b, 1, Len(s)), c - 1, 1, Len(s) - 1)
<1> DEFINE cutC == Cut(s, c, 1, Len(s))
           cutB == Cut(s, b, 1, Len(s))
           one  == Cut(cutC, b, 1, Len(cutC))
           two  == Cut(cutB, c - 1, 1, Len(cutB))
<1>1. /\ Len(s) \in Nat /\ cutC \in Seq(S) /\ Len(cutC) = Len(s) - 1
      /\ \A i \in 1 .. Len(s) - 1 : cutC[i] = IF i <= c THEN s[i] ELSE s[i + 1]
    BY CutElements
<1>2. /\ cutB \in Seq(S) /\ Len(cutB) = Len(s) - 1
      /\ \A i \in 1 .. Len(s) - 1 : cutB[i] = IF i <= b THEN s[i] ELSE s[i + 1]
  <2>1. b + 1 <= Len(s)
      BY <1>1
  <2> QED
      BY <2>1, CutElements
<1> HIDE DEF cutC, cutB
<1>3. /\ 1 \in Nat /\ c - 1 \in Nat
      /\ b + 1 <= Len(cutC) /\ (c - 1) + 1 <= Len(cutB)
      /\ Len(cutC) - 1 = Len(s) - 2 /\ Len(cutB) - 1 = Len(s) - 2
    BY <1>1, <1>2
<1>4. /\ one \in Seq(S) /\ Len(one) = Len(cutC) - 1
      /\ \A i \in 1 .. Len(cutC) - 1 : one[i] = IF i <= b THEN cutC[i] ELSE cutC[i + 1]
  <2>1. ASSUME NEW t \in Seq(S), b + 1 <= Len(t)
        PROVE  /\ Cut(t, b, 1, Len(t)) \in Seq(S)
               /\ Len(Cut(t, b, 1, Len(t))) = Len(t) - 1
               /\ \A i \in 1 .. Len(t) - 1 :
                     Cut(t, b, 1, Len(t))[i] = IF i <= b THEN t[i] ELSE t[i + 1]
      BY <2>1, CutElements
  <2> QED
      BY <1>1, <1>3, <2>1, Zenon
<1>5. /\ two \in Seq(S) /\ Len(two) = Len(cutB) - 1
      /\ \A i \in 1 .. Len(cutB) - 1 : two[i] = IF i <= c - 1 THEN cutB[i] ELSE cutB[i + 1]
  <2>1. ASSUME NEW t \in Seq(S), NEW d \in Nat, d + 1 <= Len(t)
        PROVE  /\ Cut(t, d, 1, Len(t)) \in Seq(S)
               /\ Len(Cut(t, d, 1, Len(t))) = Len(t) - 1
               /\ \A i \in 1 .. Len(t) - 1 :
                     Cut(t, d, 1, Len(t))[i] = IF i <= d THEN t[i] ELSE t[i + 1]
      BY <2>1, CutElements
  <2> QED
      BY <1>2, <1>3, <2>1, Zenon
<1> HIDE DEF one, two
<1>6. \A i \in 1 .. Len(s) - 2 : one[i] = two[i]
  <2> TAKE i \in 1 .. Len(s) - 2
  <2>1. /\ i \in 1 .. Len(s) - 1 /\ i + 1 \in 1 .. Len(s) - 1
        /\ i \in 1 .. Len(cutC) - 1 /\ i \in 1 .. Len(cutB) - 1
      BY <1>1, <1>3
  <2>2. one[i] = IF i <= b THEN cutC[i] ELSE cutC[i + 1]
      BY <1>4, <2>1
  <2>3. two[i] = IF i <= c - 1 THEN cutB[i] ELSE cutB[i + 1]
      BY <1>5, <2>1
  <2> QED
      BY <1>1, <1>2, <2>1, <2>2, <2>3
<1>7. one = two
    BY <1>1, <1>3, <1>4, <1>5, <1>6, SeqEqual
<1> QED
    BY <1>1, <1>2, <1>7 DEF one, two, cutB, cutC

(* Removing a block is removing its first byte and then the others.        *)
LEMMA CutInTwo ==
    ASSUME NEW S, NEW s \in Seq(S), NEW b \in Nat, NEW k \in Nat \ {0}, b + k <= Len(s)
    PROVE  Cut(s, b, k, Len(s)) = Cut(Cut(s, b, 1, Len(s)), b, k - 1, Len(s) - 1)
<1> DEFINE cut   == Cut(s, b, k, Len(s))
           first == Cut(s, b, 1, Len(s))
           two   == Cut(first, b, k - 1, Len(first))
<1>1. /\ Len(s) \in Nat /\ cut \in Seq(S) /\ Len(cut) = Len(s) - k
      /\ \A i \in 1 .. Len(s) - k : cut[i] = IF i <= b THEN s[i] ELSE s[i + k]
    BY CutElements
<1>2. /\ first \in Seq(S) /\ Len(first) = Len(s) - 1
      /\ \A i \in 1 .. Len(s) - 1 : first[i] = IF i <= b THEN s[i] ELSE s[i + 1]
  <2>1. b + 1 <= Len(s)
      BY <1>1
  <2> QED
      BY <2>1, CutElements
<1> HIDE DEF cut, first
<1>3. k - 1 \in Nat /\ b + (k - 1) <= Len(first) /\ Len(first) - (k - 1) = Len(s) - k
    BY <1>1, <1>2
<1>4. /\ two \in Seq(S) /\ Len(two) = Len(first) - (k - 1)
      /\ \A i \in 1 .. Len(first) - (k - 1) :
            two[i] = IF i <= b THEN first[i] ELSE first[i + (k - 1)]
  <2>1. ASSUME NEW t \in Seq(S), NEW d \in Nat, b + d <= Len(t)
        PROVE  /\ Cut(t, b, d, Len(t)) \in Seq(S)
               /\ Len(Cut(t, b, d, Len(t))) = Len(t) - d
               /\ \A i \in 1 .. Len(t) - d :
                     Cut(t, b, d, Len(t))[i] =
                         IF i <= b THEN t[i] ELSE t[i + d]
      BY <2>1, CutElements
  <2> QED
      BY <1>2, <1>3, <2>1, Zenon
<1> HIDE DEF two
<1>5. \A i \in 1 .. Len(s) - k : cut[i] = two[i]
  <2> TAKE i \in 1 .. Len(s) - k
  <2>1. /\ i \in 1 .. Len(s) - 1 /\ i + (k - 1) \in 1 .. Len(s) - 1
        /\ i \in 1 .. Len(first) - (k - 1) /\ (i + (k - 1)) + 1 = i + k
      BY <1>1, <1>3
  <2>2. two[i] = IF i <= b THEN first[i] ELSE first[i + (k - 1)]
      BY <1>4, <2>1
  <2>3. cut[i] = IF i <= b THEN s[i] ELSE s[i + k]
      BY <1>1
  <2> QED
      BY <1>1, <1>2, <2>1, <2>2, <2>3
<1>6. cut = two
    BY <1>1, <1>3, <1>4, <1>5, SeqEqual
<1> QED
    BY <1>2, <1>6 DEF cut, first, two

(* Writing a shorter string over a longer one and truncating leaves the    *)
(* shorter one.                                                            *)
LEMMA TruncatedExact ==
    ASSUME NEW S, NEW old \in Seq(S), NEW s \in Seq(S)
    PROVE  Truncated(Overwritten(old, s), Len(s)) = s
<1> DEFINE rest == SubSeq(old, Len(s) + 1, Len(old))
<1>1. rest \in Seq(S) /\ Len(s) \in Nat
    OBVIOUS
<1> HIDE DEF rest
<1>2. s \o rest \in Seq(S) /\ Len(s \o rest) = Len(s) + Len(rest)
    BY <1>1
<1>3. SubSeq(s \o rest, 1, Len(s)) = s
    BY <1>1, <1>2
<1> QED
    BY <1>3 DEF Truncated, Overwritten, rest
=============================================================================
