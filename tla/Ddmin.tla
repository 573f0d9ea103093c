------------------------------- MODULE Ddmin -------------------------------
(***************************************************************************)
(* ddmin() of src/ddmin.c: delta debugging of one input file, in a single  *)
(* thread.  Each round cuts the current file into n parts of nearly equal  *)
(* size and tests every part, then everything but one part; the first      *)
(* string that fails becomes the current file.                             *)
(*                                                                         *)
(* One action is one trip through a loop: the candidate is written to      *)
(* out_file and the target is run on it.  Sizes stay far below 2^24, where *)
(* ceilf() of the quotient of two floats is the exact ceiling.             *)
(***************************************************************************)
EXTENDS ByteStrings

CONSTANTS Candidates,  (* the byte strings the target may be run on        *)
          Inputs,      (* contents of the input file                       *)
          InputNames,  (* names of the input file                          *)
          Judges       (* targets: the verdicts a test of a string may give*)

(* "./<k>.part" is <<"part", k>>, any other name <<"input", 0>>.           *)
Names == {"input", "part"} \X Nat

DdminAssumption ==
    /\ Inputs \subseteq Candidates
    /\ InputNames \subseteq Names
    /\ \A s \in Candidates :
          /\ s \in Seq(0 .. 255)
          /\ \A b, k \in 0 .. Len(s) :
                b + k <= Len(s) =>
                    Block(s, b, k) \in Candidates /\ Cut(s, b, k, Len(s)) \in Candidates
    /\ \A j \in Judges : j \in [Candidates -> (SUBSET BOOLEAN) \ {{}}]

ASSUME DdminAssumption

VARIABLES
    pc,                (* "loop" is the head of the loop over rounds       *)
    minimized_fname,   (* the file minimised so far                        *)
    out_file,          (* the file of this round's candidates              *)
    f_size, n,
    _f_size, _n,       (* bytes and parts of the round left to test        *)
    c_start,
    file_no,           (* global counter, for the names of the files       *)
    executed,          (* runs of the target, which no variable counts     *)
    disk, judge

loopVars == <<f_size, n, _f_size, _n, c_start>>
vars == <<pc, minimized_fname, out_file, loopVars, file_no, executed, disk, judge>>
-----------------------------------------------------------------------------
Ceil(a, b) == (a + b - 1) \div b

(* n after a part was found to fail without its complement...              *)
MutCoarser(k) == k
Coarser(k)    == Greater(k - 1, 2)

(* ...and after a round in which nothing failed.                           *)
MutFiner(k, size) == k * 2
Finer(k, size)    == Lesser(k * 2, size)

(* Every part is one byte.                                                 *)
MutExhausted(size, k) == size <= k * 2
Exhausted(size, k)    == size <= k

(* The name of a round's candidates.                                       *)
MutPartPath(k) == <<"part", 0>>
PartPath(k)    == <<"part", k>>

Current == disk[minimized_fname]

(* The file at out_file gets s, and the target is run on it: "failed" is   *)
(* what test_buffer_overflow() reports.                                    *)
Tested(s, failed) ==
    LET written == Truncated(Overwritten(disk[out_file], s), Len(s)) IN
    /\ disk' = [disk EXCEPT ![out_file] = written]
    /\ executed' = executed + 1
    /\ failed \in judge[written]

Init ==
    /\ \E name \in InputNames, s \in Inputs :
          /\ minimized_fname = name
          /\ disk = [m \in {name} |-> s]
    /\ judge \in Judges
    /\ pc = "loop" /\ n = 2 /\ file_no = 0 /\ executed = 0
    /\ out_file = minimized_fname
    /\ f_size = 0 /\ _f_size = 0 /\ _n = 0 /\ c_start = 0

(* The head of the loop: out_file is created, or emptied if it exists.     *)
StartRound ==
    /\ pc = "loop"
    /\ Len(Current) > 1
    /\ f_size' = Len(Current) /\ _f_size' = f_size' /\ _n' = n
    /\ out_file' = PartPath(file_no)
    /\ file_no' = file_no + 1
    /\ disk' = [m \in DOMAIN disk \cup {out_file'} |->
                   IF m = out_file' THEN <<>> ELSE disk[m]]
    /\ pc' = "subset"
    /\ UNCHANGED <<minimized_fname, n, c_start, executed, judge>>

(* One part is tested.                                                     *)
TestSubset ==
    /\ pc = "subset"
    /\ Len(Current) >= f_size
    /\ LET part_size == Ceil(_f_size, _n) IN
       \E failed \in BOOLEAN :
          /\ Tested(Block(Current, f_size - _f_size, part_size), failed)
          /\ IF failed
             THEN /\ n' = 2
                  /\ minimized_fname' = out_file
                  /\ pc' = "loop"
                  /\ UNCHANGED <<_f_size, _n, c_start>>
             ELSE /\ _f_size' = _f_size - part_size
                  /\ IF _n - 1 > 0
                     THEN _n' = _n - 1 /\ UNCHANGED <<pc, c_start>>
                     ELSE _n' = n /\ c_start' = 0 /\ pc' = "complement"
                  /\ UNCHANGED <<n, minimized_fname>>
    /\ UNCHANGED <<out_file, f_size, file_no, judge>>

(* Everything but one part is tested.                                      *)
TestComplement ==
    /\ pc = "complement"
    /\ LET part_size == Ceil(f_size - c_start, _n)
           c_end     == c_start + part_size IN
       \E failed \in BOOLEAN :
          /\ Tested(Cut(Current, c_start, part_size, f_size), failed)
          /\ IF failed
             THEN /\ n' = Coarser(n)
                  /\ minimized_fname' = out_file
                  /\ pc' = "loop"
                  /\ c_start' = 0
                  /\ UNCHANGED _n
             ELSE /\ c_start' = c_end
                  /\ _n' = _n - 1
                  /\ pc' = IF c_end < f_size THEN "complement" ELSE "refine"
                  /\ UNCHANGED <<n, minimized_fname>>
    /\ UNCHANGED <<out_file, f_size, _f_size, file_no, judge>>

(* Nothing failed: more and smaller parts, unless they are bytes already.  *)
Refine ==
    /\ pc = "refine"
    /\ ~Exhausted(f_size, n)
    /\ n' = Finer(n, f_size)
    /\ pc' = "loop"
    /\ UNCHANGED <<minimized_fname, out_file, f_size, _f_size, _n, c_start, file_no,
                    executed, disk, judge>>

Return ==
    /\ \/ pc = "refine" /\ Exhausted(f_size, n)
       \/ pc = "loop" /\ Len(Current) <= 1
    /\ pc' = "done"
    /\ UNCHANGED <<minimized_fname, out_file, loopVars, file_no, executed, disk, judge>>

(* ddmin() has returned, or fread() gives nothing and the loop around it    *)
(* never ends: out_file is the current file itself, emptied when the round *)
(* started.                                                                *)
ReadsNothing == pc = "subset" /\ Len(Current) < f_size
Over  == pc = "done" \/ ReadsNothing
Ended == Over /\ UNCHANGED vars

Step == StartRound \/ TestSubset \/ TestComplement \/ Refine \/ Return

Next == Step \/ Ended

Spec == Init /\ [][Next]_vars

(* The only thread runs, and every run of the target ends.                 *)
FairSpec == Spec /\ WF_vars(Step)
-----------------------------------------------------------------------------
InRound == pc \in {"subset", "complement", "refine"}

TypeOK ==
    /\ pc \in {"loop", "subset", "complement", "refine", "done"}
    /\ minimized_fname \in DOMAIN disk /\ out_file \in DOMAIN disk
    /\ f_size \in Nat /\ n \in Nat /\ _f_size \in Nat /\ _n \in Nat /\ c_start \in Nat
    /\ file_no \in Nat /\ executed \in Nat
    /\ DOMAIN disk \subseteq Names /\ disk \in [DOMAIN disk -> Candidates]
    /\ judge \in Judges

(* A round never has more parts than bytes, and while it runs the parts    *)
(* that are left fit the bytes that are left: no part is empty, _n is never*)
(* 0 in a division, no part is the whole input, and both loops, one bounded*)
(* by _n and the other by c_start, end exactly at the end of the input.    *)
PartsFit ==
    /\ pc = "loop" /\ Len(Current) > 1 => n \in 2 .. Len(Current)
    /\ InRound => n \in 2 .. f_size
    /\ pc = "subset" => _n \in 1 .. n /\ _n <= _f_size /\ n - _n <= f_size - _f_size
    /\ pc = "complement" => _n \in 1 .. n /\ _n <= f_size - c_start /\ n - _n <= c_start
    /\ pc = "refine" => _n = 0 /\ c_start = f_size

(* No single byte can be removed from the file ddmin() returns such that   *)
(* the target surely still fails.                                          *)
OneMinimal ==
    pc = "done" /\ Len(Current) > 1 =>
        \A s \in Cuts(Current, 1) : judge[s] # {TRUE}

(* In the last round every part is one byte, and the complements tested so *)
(* far did not fail.                                                       *)
BytesTested ==
    pc \in {"complement", "refine"} /\ n = f_size =>
        /\ _n = f_size - c_start
        /\ \A b \in 0 .. c_start - 1 : judge[Cut(Current, b, 1, f_size)] # {TRUE}

(* f_size is the size of the current file, unless StartRound emptied it.   *)
SizesCurrent ==
    /\ pc = "subset" =>
          IF minimized_fname = out_file THEN Current = <<>> ELSE Len(Current) = f_size
    /\ pc \in {"complement", "refine"} =>
          minimized_fname # out_file /\ Len(Current) = f_size

(* The inductive invariant behind OneMinimal.                              *)
IInv == TypeOK /\ PartsFit /\ SizesCurrent /\ BytesTested /\ OneMinimal

(* The files of the candidates are new, if the input's name is of another  *)
(* kind.                                                                   *)
NamesFresh ==
    /\ minimized_fname[1] = "part" => minimized_fname[2] < file_no
    /\ InRound => minimized_fname # out_file /\ out_file = <<"part", file_no - 1>>

(* ddmin() implements the promise of the tool.                             *)
Promise == INSTANCE Minimiser WITH current <- Current, returned <- pc = "done"
ImplementsMinimiser == Promise!Spec

(* ddmin() returns the path of what it found.                              *)
Terminates == <>(pc = "done")

(* The number of executions main() reports for ddmin, file_no-1, is the    *)
(* number of times the target was executed.                                *)
ExecutionsReported == pc = "done" => executed = file_no - 1
=============================================================================
