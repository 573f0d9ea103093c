---------------------------- MODULE ByteStrings ----------------------------
(***************************************************************************)
(* Byte strings, and the edits the minimisers of the repository make:      *)
(* keep one block of the input, or remove one.                             *)
(***************************************************************************)
EXTENDS Integers, Sequences

(* b bytes to the output, k bytes to /dev/null, then the output again up   *)
(* to the position "size" the caller believes to be the end of the input.  *)
Cut(s, b, k, size) == SubSeq(s, 1, b) \o SubSeq(s, b + k + 1, size)

(* Every string obtained by removing k consecutive bytes.                  *)
Cuts(s, k) == {Cut(s, b, k, Len(s)) : b \in 0 .. Len(s) - k}

(* The k bytes after the first b.                                          *)
Block(s, b, k) == SubSeq(s, b + 1, b + k)

(* s is t without some of its bytes.                                       *)
IsSubsequence(s, t) ==
    \E f \in [1 .. Len(s) -> 1 .. Len(t)] :
        /\ \A i, j \in 1 .. Len(s) : i < j => f[i] < f[j]
        /\ \A i \in 1 .. Len(s) : s[i] = t[f[i]]

(* s is written from the start of a file that held old, and the file is    *)
(* truncated.                                                              *)
Overwritten(old, s)   == s \o SubSeq(old, Len(s) + 1, Len(old))
MutTruncated(s, size) == SubSeq(s, 1, size - 1)
Truncated(s, size)    == SubSeq(s, 1, size)

Lesser(a, b)  == IF a < b THEN a ELSE b
Greater(a, b) == IF a > b THEN a ELSE b
=============================================================================
