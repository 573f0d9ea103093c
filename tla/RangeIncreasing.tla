--------------------------- MODULE RangeIncreasing ---------------------------
(***************************************************************************)
(* range_increasing() of src/range.c: one thread cuts every block of rs    *)
(* bytes out of the current file, goes on with the first file the target   *)
(* fails on, and takes larger blocks once no block of rs bytes is left to  *)
(* try.  It never goes back to smaller ones.                               *)
(***************************************************************************)
EXTENDS ByteStrings

CONSTANTS Candidates,  (* the byte strings the target may be run on        *)
          Inputs,      (* contents of the input file                       *)
          InputNames,  (* names of the input file                          *)
          Judges       (* targets: the verdicts a test of a string may give*)

(* "./<k>.part" is <<"part", k>>, any other name <<"input", 0>>.           *)
Names == {"input", "part"} \X Nat

IncreasingAssumption ==
    /\ Inputs \subseteq Candidates
    /\ InputNames \subseteq Names
    /\ \A s \in Candidates :
          /\ s \in Seq(0 .. 255)
          /\ \A b, k \in 0 .. Len(s) :
                b + k <= Len(s) => Cut(s, b, k, Len(s)) \in Candidates
    /\ <<>> \in Candidates
    /\ \A j \in Judges : j \in [Candidates -> (SUBSET BOOLEAN) \ {{}}]

ASSUME IncreasingAssumption

VARIABLES
    pc,          (* "size" is the head of the outer loop, "cut" of the inner *)
    rs, begin,
    input_path, out_file,
    fail_no,     (* global counter, for the names of the files             *)
    disk, judge,
    kept         (* history: blocks whose removal passed, in this pass     *)

vars == <<pc, rs, begin, input_path, out_file, fail_no, disk, judge, kept>>

Current == disk[input_path]
-----------------------------------------------------------------------------
MutLastBegin(size, k) == size - k - 1
LastBegin(size, k)    == size - k

(* Where the search goes on after the block of k bytes at b was removed:   *)
(* at the first block that holds bytes from both sides of the cut.         *)
MutBack(b, k)    == b
MutNoFloor(b, k) == b - k + 1
Back(b, k)       == Greater(b - k + 1, 0)

MutFailPath(k) == <<"part", 1>>
FailPath(k)    == <<"part", k>>

MutWider(k) == k
Wider(k)    == k + 1

(* fopen(path, "wb") makes the file, or empties it.                        *)
Emptied(files, path) ==
    [m \in DOMAIN files \cup {path} |-> IF m = path THEN <<>> ELSE files[m]]

Init ==
    /\ \E name \in InputNames, s \in Inputs :
          /\ input_path = name
          /\ disk = Emptied([m \in {name} |-> s], FailPath(1))
    /\ judge \in Judges
    /\ pc = "size" /\ rs = 1 /\ begin = 0
    /\ fail_no = 1 /\ out_file = FailPath(1)
    /\ kept = {}

StartPass ==
    /\ pc = "size"
    /\ rs < Len(Current)
    /\ begin' = 0
    /\ kept' = {}
    /\ pc' = "cut"
    /\ UNCHANGED <<rs, input_path, out_file, fail_no, disk, judge>>

(* One trip through the inner loop: the candidate is written over the last *)
(* one and tested.  A failing one becomes the input.                       *)
Test ==
    /\ pc = "cut"
    /\ begin <= LastBegin(Len(Current), rs)
    /\ LET s       == Cut(Current, begin, rs, Len(Current))
           written == Truncated(Overwritten(disk[out_file], s), Len(s))
           stored  == [disk EXCEPT ![out_file] = written]
       IN \/ /\ TRUE \in judge[written]
             /\ input_path' = out_file
             /\ fail_no' = fail_no + 1
             /\ out_file' = FailPath(fail_no')
             /\ disk' = Emptied(stored, out_file')
             /\ begin' = Back(begin, rs)
             /\ UNCHANGED kept
          \/ /\ FALSE \in judge[written]
             /\ disk' = stored
             /\ begin' = begin + 1
             /\ kept' = kept \cup {Block(Current, begin, rs)}
             /\ UNCHANGED <<input_path, fail_no, out_file>>
    /\ UNCHANGED <<pc, rs, judge>>

EndPass ==
    /\ pc = "cut"
    /\ begin > LastBegin(Len(Current), rs)
    /\ rs' = Wider(rs)
    /\ pc' = "size"
    /\ UNCHANGED <<begin, input_path, out_file, fail_no, disk, judge, kept>>

Return ==
    /\ pc = "size"
    /\ rs >= Len(Current)
    /\ pc' = "done"
    /\ UNCHANGED <<rs, begin, input_path, out_file, fail_no, disk, judge, kept>>

Step == StartPass \/ Test \/ EndPass \/ Return

Ended == pc = "done" /\ UNCHANGED vars

Next == Step \/ Ended

Spec == Init /\ [][Next]_vars

(* The only thread runs, and every run of the target ends.                 *)
FairSpec == Spec /\ WF_vars(Step)
-----------------------------------------------------------------------------
TypeOK ==
    /\ pc \in {"size", "cut", "done"}
    /\ rs \in Nat \ {0} /\ begin \in Nat /\ fail_no \in Nat
    /\ input_path \in DOMAIN disk /\ out_file \in DOMAIN disk
    /\ DOMAIN disk \subseteq Names /\ disk \in [DOMAIN disk -> Candidates]
    /\ judge \in Judges

(* No block of rs bytes is skipped although a success moves the search back*)
(* and shifts the bytes behind it: every block before begin, and at the end*)
(* of the pass every block of the file, was cut out in a test that passed. *)
BlocksTried ==
    /\ pc = "cut" =>
          \A b \in 0 .. begin - 1 :
              b + rs <= Len(Current) => Block(Current, b, rs) \in kept
    /\ pc = "size" /\ rs > 1 =>
          \A b \in 0 .. Len(Current) - (rs - 1) : Block(Current, b, rs - 1) \in kept

(* A target that keeps failing when a block of bytes is inserted.          *)
FailsUpwards ==
    \A t \in Candidates : \A k \in 1 .. Len(t) : \A s \in Cuts(t, k) :
        TRUE \in judge[s] => judge[t] = {TRUE}

(* For such a target the first pass already leaves a string from which no  *)
(* single byte can be removed, and what is returned is one.                *)
OneMinimal ==
    (pc = "done" \/ rs > 1) /\ Len(Current) > 1 /\ FailsUpwards =>
        \A s \in Cuts(Current, 1) : judge[s] # {TRUE}

(* While the first pass runs this is so for the bytes before begin.        *)
SingleBytes ==
    pc = "cut" /\ rs = 1 /\ FailsUpwards =>
        \A b \in 0 .. begin - 1 :
            b < Len(Current) => judge[Cut(Current, b, 1, Len(Current))] # {TRUE}

(* The current file is never written, except by the first fopen() when it  *)
(* has the name of the first candidate; then it is empty from the start.   *)
NamesApart ==
    /\ out_file = FailPath(fail_no)
    /\ input_path = out_file => pc # "cut" /\ Current = <<>>

(* The inductive invariant behind BlocksTried and OneMinimal.              *)
IInv == TypeOK /\ NamesApart /\ BlocksTried /\ SingleBytes /\ OneMinimal

(* The file only ever changes to a shorter subsequence on which the target *)
(* was seen to fail: half of what the tool promises.  The other half, a    *)
(* 1-minimal result for every target, range_increasing() does not keep.    *)
Promise == INSTANCE Minimiser WITH current <- Current, returned <- pc = "done"
OnlyReduces == [][Promise!Reduce]_Current

Terminates == <>(pc = "done")
=============================================================================
