------------------------------ MODULE MCRunner ------------------------------
(***************************************************************************)
(* Runner for one caller, as in ddmin() and range_increasing(), and for    *)
(* two, as among the workers of range().                                   *)
(***************************************************************************)
EXTENDS Runner

Tests(n)     == [w \in {0} |-> n]
Tests2(n, m) == [w \in {0, 1} |-> IF w = 0 THEN n ELSE m]

AtMostOne == {F \in SUBSET Faults : Cardinality(F) <= 1}

Calls ==
    [calls : {Tests(3)}, faults : SUBSET Faults]
        \cup [calls : {Tests2(1, 1)}, faults : AtMostOne]
        \cup [calls : {Tests2(2, 1)}, faults : {{}}]

MayHang  == [calls : {Tests(1)}, faults : {{"hang"}}]
NoFaults == [calls : {Tests2(2, 2)}, faults : {{}}]
=============================================================================
