------------------------- MODULE RangeRecordsProofs -------------------------
(***************************************************************************)
(* What range() records: RecordsInv is preserved, one conjunct after the   *)
(* other, by every step from a state that also has IInv and GrowsAlone, and*)
(* from such states the rounds are those of RangeReduction.  Module        *)
(* RangeResultProofs says when every state has GrowsAlone, and concludes.  *)
(***************************************************************************)
EXTENDS RangeProofs, ByteStringsProofs

(* No two failures of any workers are written under the same name.         *)
LEMMA PartNameInjective ==
    ASSUME THREAD_N \in Nat \ {0}, NEW v \in Workers, NEW w \in Workers,
           NEW k \in Nat, NEW l \in Nat, PartName(v, k) = PartName(w, l)
    PROVE  v = w /\ k = l
<1>1. /\ v \in Nat /\ w \in Nat /\ v < THREAD_N /\ w < THREAD_N
    BY DEF Workers
<1>2. /\ v + THREAD_N * k = w + THREAD_N * l
      /\ k = 0 <=> l = 0
    BY DEF PartName
<1>3. ASSUME NEW a \in Nat, NEW b \in Nat, a < b
      PROVE  THREAD_N * a + THREAD_N <= THREAD_N * b
  <2>1. b = a + 1 + (b - a - 1) /\ b - a - 1 \in Nat
      BY <1>3
  <2>2. PICK d \in Nat : b = a + 1 + d
      BY <2>1
  <2>3. THREAD_N * (a + 1 + d) = THREAD_N * a + THREAD_N + THREAD_N * d
      OBVIOUS
  <2>4. THREAD_N * d \in Nat /\ THREAD_N * a \in Nat
      OBVIOUS
  <2> QED
      BY <2>2, <2>3, <2>4
<1>4. THREAD_N * k \in Nat /\ THREAD_N * l \in Nat
    OBVIOUS
<1>5. ~(k < l)
    BY <1>1, <1>2, <1>3, <1>4
<1>6. ~(l < k)
    BY <1>1, <1>2, <1>3, <1>4
<1>7. k = l
    BY <1>5, <1>6
<1> QED
    BY <1>1, <1>2, <1>4, <1>7

(* The sizes of the array realloc() gives, and what it keeps.              *)
LEMMA EnlargedKeeps ==
    ASSUME NEW S, NEW arr \in Seq(S), NEW n \in Nat, NEW k \in Nat,
           k < Len(arr), k < n
    PROVE  Len(Enlarged(arr, n)) = n /\ Enlarged(arr, n)[k + 1] = arr[k + 1]
BY DEF Enlarged

(* Checking is finite and leaves out every worker that is elsewhere.       *)
LEMMA CheckingFinite ==
    ASSUME THREAD_N \in Nat \ {0}
    PROVE  /\ IsFiniteSet(Checking) /\ Cardinality(Checking) \in Nat
           /\ \A w \in Workers : w \notin Checking => Cardinality(Checking) < THREAD_N
<1>1. IsFiniteSet(Workers) /\ Cardinality(Workers) = THREAD_N
    BY FS_Interval DEF Workers
<1>2. Checking \subseteq Workers
    BY DEF Checking
<1>3. IsFiniteSet(Checking) /\ Cardinality(Checking) \in Nat
    BY <1>1, <1>2, FS_Subset, FS_CardinalityType
<1>4. ASSUME NEW w \in Workers, w \notin Checking
      PROVE  Cardinality(Checking) < THREAD_N
  <2>1. Checking \subseteq Workers \ {w}
      BY <1>2, <1>4
  <2>2. IsFiniteSet(Workers \ {w}) /\ Cardinality(Workers \ {w}) = THREAD_N - 1
      BY <1>1, FS_RemoveElement
  <2>3. Cardinality(Checking) <= THREAD_N - 1
      BY <2>1, <2>2, FS_Subset
  <2> QED
      BY <1>3, <2>3
<1> QED
    BY <1>3, <1>4
-----------------------------------------------------------------------------
(* The block in use.                                                       *)

(* Where workers are between taking an index and storing to it.            *)
InFailArr == {"check", "double", "doubled", "size", "realloc", "assign", "store"}

(* Steps of workers that have nothing to do with fail_arr.                 *)
LEMMA BlockFrame ==
    ASSUME BlockInUse, UNCHANGED <<failVars, read_max, grown, fail_idx>>,
           \A w \in Workers :
              at'[w] = at[w] \/ {at[w], at'[w]} \cap InFailArr = {}
    PROVE  BlockInUse' /\ Recording' = Recording
<1>1. Recording' = Recording /\ Checking' = Checking
    BY DEF Recording, Checking, InFailArr
<1>2. \A w \in Workers : /\ at'[w] = "assign" <=> at[w] = "assign"
                         /\ at'[w] = "realloc" <=> at[w] = "realloc"
                         /\ at'[w] = "size" <=> at[w] = "size"
                         /\ at'[w] = "doubled" <=> at[w] = "doubled"
    BY DEF InFailArr
<1> QED
    BY <1>1, <1>2 DEF BlockInUse, Records, failVars

LEMMA InitBlock == RangeAssumption /\ RoomAssumption /\ Init => BlockInUse
<1> SUFFICES ASSUME RangeAssumption, RoomAssumption, Init
             PROVE  BlockInUse
    OBVIOUS
<1>1. Checking = {} /\ Recording = {} /\ Cardinality(Checking) = 0
    BY FS_EmptySet DEF Init, Checking, Recording
<1>2. Len(heap) = 1 /\ heap[1].live /\ Len(heap[1].arr) = FAIL_MAX
    BY DEF Init, RangeAssumption
<1> QED
    BY <1>1, <1>2 DEF Init, BlockInUse, Records, RangeAssumption, RoomAssumption

LEMMA BlockMain ==
    ASSUME RangeAssumption, IInv, BlockInUse, MainStep
    PROVE  BlockInUse'
<1>1. CASE StartRound
  <2>1. existing = 0 /\ main # "exit"
      BY <1>1, IdleOutsideRound DEF StartRound
  <2>2. Holding = {}
      BY <2>1, NothingLeft
  <2>3. Recording = {} /\ Checking = {} /\ Cardinality(Checking) = 0
      BY <2>2, FS_EmptySet DEF Holding, Recording, Checking
  <2>4. Recording' = {} /\ Checking' = Checking
      BY <1>1, <2>3 DEF StartRound, Recording, Checking
  <2>5. fail_max \in Nat /\ THREAD_N \in Nat
      BY DEF IInv, TypeOK, FailTypeOK, RangeAssumption
  <2> QED
      BY <1>1, <2>3, <2>4, <2>5 DEF StartRound, BlockInUse, Records, localVars
<1>2. CASE ~StartRound
  <2>1. UNCHANGED <<failVars, read_max, grown, fail_idx, at>>
      BY <1>2 DEF MainStep, CopyInput, CopyRefused, Push, Post, AwaitEnd, Select,
         NextRange, Return, localVars
  <2> QED
      BY <2>1, BlockFrame
<1> QED
    BY <1>1, <1>2

(* While a worker grows fail_arr, or stores, alone: the array it works on  *)
(* is the one in use, and its index is inside.                             *)
LEMMA LastBlock ==
    ASSUME RangeAssumption, IInv, BlockInUse
    PROVE  /\ Len(heap) \in Nat \ {0}
           /\ heap[Len(heap)] \in [live : BOOLEAN, arr : Seq(Names \cup {Unset})]
           /\ Records \in Seq(Names \cup {Unset}) /\ Len(Records) \in Nat
<1> DEFINE HeapBlock == [live : BOOLEAN, arr : Seq(Names \cup {Unset})]
<1>1. heap \in Seq(HeapBlock) /\ fail_arr \in 1 .. Len(heap)
    BY DEF IInv, TypeOK, FailTypeOK
<1>2. Len(heap) \in Nat \ {0} /\ Len(heap) \in 1 .. Len(heap)
    BY <1>1
<1>3. heap[Len(heap)] \in HeapBlock
    BY <1>1, <1>2, ElementOfSeq
<1> QED
    BY <1>2, <1>3 DEF Records

LEMMA StoreEffect ==
    ASSUME RangeAssumption, IInv, BlockInUse, GrowsAlone,
           NEW w \in Workers, Store(w)
    PROVE  /\ UNCHANGED main /\ Len(heap') = Len(heap) /\ heap'[Len(heap')].live
           /\ fail_idx[w] + 1 \in 1 .. Len(Records) /\ Len(Records') = Len(Records)
           /\ Records' = [Records EXCEPT ![fail_idx[w] + 1] = out_files[w]]
<1> DEFINE HeapBlock == [live : BOOLEAN, arr : Seq(Names \cup {Unset})]
           slot   == fail_idx[w] + 1
           stored == [heap[Len(heap)] EXCEPT !.arr[slot] = out_files[w]]
<1>1. /\ FailTypeOK /\ WorkerTypeOK /\ THREAD_N \in Nat \ {0} /\ at[w] = "store"
      /\ fail_n \in Nat /\ fail_max \in Nat /\ fail_idx[w] \in Nat
    BY DEF IInv, TypeOK, FailTypeOK, WorkerTypeOK, RangeAssumption, Store, At
<1>2. \A v \in Workers : at[v] \notin {"doubled", "size", "realloc", "assign"}
    BY <1>1 DEF GrowsAlone, Growing
<1>3. fail_arr = Len(heap) /\ Len(Records) = fail_max /\ heap[Len(heap)].live
    BY <1>2 DEF BlockInUse
<1>4. slot \in 1 .. Len(Records)
  <2>1. w \in Recording /\ w \notin Checking
      BY <1>1 DEF Recording, Checking
  <2>2. /\ Cardinality(Checking) \in Nat /\ Cardinality(Checking) < THREAD_N
        /\ fail_idx[w] < fail_n /\ fail_n + THREAD_N <= fail_max + Cardinality(Checking)
      BY <1>1, <2>1, CheckingFinite DEF BlockInUse
  <2> QED
      BY <1>1, <1>3, <2>2
<1>5. heap' = [heap EXCEPT ![Len(heap)] = stored] /\ UNCHANGED main
    BY <1>3, <1>4 DEF Store, Records
<1>6. /\ heap \in Seq(HeapBlock) /\ Len(heap) \in 1 .. Len(heap)
      /\ heap[Len(heap)] \in HeapBlock
    BY <1>1, LastBlock DEF FailTypeOK
<1>7. stored.live /\ stored.arr = [Records EXCEPT ![slot] = out_files[w]]
    BY <1>3, <1>6 DEF Records
<1> HIDE DEF HeapBlock, stored
<1>8. Len(heap') = Len(heap) /\ heap'[Len(heap)] = stored
    BY <1>5, <1>6
<1>9. Len([Records EXCEPT ![slot] = out_files[w]]) = Len(Records)
    BY <1>4, LastBlock
<1> QED
    BY <1>4, <1>5, <1>7, <1>8, <1>9 DEF Records

LEMMA ReallocEffect ==
    ASSUME RangeAssumption, IInv, BlockInUse, GrowsAlone,
           NEW w \in Workers, Realloc(w)
    PROVE  /\ UNCHANGED main /\ at' = [at EXCEPT ![w] = "assign"]
           /\ heap'[Len(heap')].live /\ Records' = Enlarged(Records, fail_max)
           /\ grown' = [grown EXCEPT ![w] = Len(heap')]
<1> DEFINE HeapBlock == [live : BOOLEAN, arr : Seq(Names \cup {Unset})]
           more  == [live |-> TRUE, arr |-> Enlarged(Records, fail_max)]
           moved == [heap EXCEPT ![Len(heap)].live = FALSE]
<1>1. /\ FailTypeOK /\ WorkerTypeOK /\ fail_max \in Nat /\ at[w] = "realloc"
    BY DEF IInv, TypeOK, FailTypeOK, Realloc, At
<1>2. \A v \in Workers : at[v] # "assign"
    BY <1>1 DEF GrowsAlone, Growing
<1>3. fail_arr = Len(heap) /\ heap[Len(heap)].live /\ read_max[w] = fail_max
    BY <1>1, <1>2 DEF BlockInUse
<1>4. /\ UNCHANGED main /\ at' = [at EXCEPT ![w] = "assign"]
      /\ \/ /\ heap' = [heap EXCEPT ![Len(heap)] = more]
            /\ grown' = [grown EXCEPT ![w] = Len(heap)]
         \/ /\ heap' = Append(moved, more)
            /\ grown' = [grown EXCEPT ![w] = Len(heap) + 1]
    BY <1>3 DEF Realloc, Records, Goto
<1>5. /\ heap \in Seq(HeapBlock) /\ Len(heap) \in 1 .. Len(heap)
      /\ heap[Len(heap)] \in HeapBlock /\ Records \in Seq(Names \cup {Unset})
    BY <1>1, LastBlock DEF FailTypeOK
<1>6. more \in HeapBlock /\ [heap[Len(heap)] EXCEPT !.live = FALSE] \in HeapBlock
    BY <1>1, <1>5, EnlargedType
<1>7. moved \in Seq(HeapBlock) /\ Len(moved) = Len(heap)
    BY <1>5, <1>6, ExceptSeq
<1>8. more.live /\ more.arr = Enlarged(Records, fail_max)
    OBVIOUS
<1> HIDE DEF HeapBlock, more, moved
<1>9. CASE /\ heap' = [heap EXCEPT ![Len(heap)] = more]
           /\ grown' = [grown EXCEPT ![w] = Len(heap)]
  <2>1. Len(heap') = Len(heap) /\ heap'[Len(heap)] = more
      BY <1>5, <1>9
  <2> QED
      BY <1>4, <1>8, <1>9, <2>1 DEF Records
<1>10. CASE /\ heap' = Append(moved, more)
            /\ grown' = [grown EXCEPT ![w] = Len(heap) + 1]
  <2>1. Len(heap') = Len(heap) + 1 /\ heap'[Len(heap) + 1] = more
      BY <1>5, <1>6, <1>7, <1>10
  <2> QED
      BY <1>4, <1>8, <1>10, <2>1 DEF Records
<1> QED
    BY <1>4, <1>9, <1>10

(* The steps of a worker between taking an index and storing to it.        *)
LEMMA BlockWorker ==
    ASSUME RangeAssumption, IInv, BlockInUse, GrowsAlone,
           NEW w \in Workers, WorkerStep(w)
    PROVE  BlockInUse'
<1>1. /\ FailTypeOK /\ WorkerTypeOK /\ THREAD_N \in Nat \ {0}
      /\ fail_n \in Nat /\ fail_max \in Nat
    BY DEF IInv, TypeOK, FailTypeOK, RangeAssumption
<1>2. /\ IsFiniteSet(Checking) /\ Cardinality(Checking) \in Nat
      /\ at \in [Workers -> Locations] /\ Len(heap) \in Nat
    BY <1>1, CheckingFinite DEF WorkerTypeOK, FailTypeOK
<1>3. CASE TakeToken(w) \/ Pop(w) \/ WriteCut(w) \/ Test(w)
  <2>1. UNCHANGED <<failVars, read_max, grown, fail_idx>>
      BY <1>3 DEF TakeToken, Pop, WriteCut, Test, localVars
  <2>2. /\ \A v \in Workers : v # w => at'[v] = at[v]
        /\ at[w] \in {"idle", "pop", "cut", "test"}
        /\ at'[w] \in {"idle", "pop", "cut", "test", "record", "close"}
      BY <1>2, <1>3 DEF TakeToken, Pop, WriteCut, Test, At, Goto
  <2>3. \A v \in Workers :
          at'[v] = at[v] \/ {at[v], at'[v]} \cap InFailArr = {}
      BY <2>2 DEF InFailArr
  <2> QED
      BY <2>1, <2>3, BlockFrame
<1>4. CASE Close(w) \/ Unlock(w)
  <2>1. UNCHANGED <<failVars, read_max, grown, fail_idx>>
      BY <1>4 DEF Close, Unlock, localVars
  <2>2. /\ \A v \in Workers : v # w => at'[v] = at[v]
        /\ at[w] \in {"close", "unlock"} /\ at'[w] \in {"unlock", "idle"}
      BY <1>2, <1>4 DEF Close, Unlock, At, Goto
  <2>3. \A v \in Workers :
          at'[v] = at[v] \/ {at[v], at'[v]} \cap InFailArr = {}
      BY <2>2 DEF InFailArr
  <2> QED
      BY <2>1, <2>3, BlockFrame
<1>5. CASE TakeIndex(w)
  <2>1. /\ at[w] = "record" /\ at' = [at EXCEPT ![w] = "check"]
        /\ fail_idx' = [fail_idx EXCEPT ![w] = fail_n] /\ fail_n' = fail_n + 1
        /\ UNCHANGED <<fail_max, fail_arr, heap, read_max, grown>>
      BY <1>5 DEF TakeIndex, At, Goto
  <2>2. w \notin Checking /\ Checking' = Checking \cup {w}
        /\ w \notin Recording /\ Recording' = Recording \cup {w}
      BY <1>2, <2>1 DEF Checking, Recording
  <2>3. Cardinality(Checking') = Cardinality(Checking) + 1
      BY <1>2, <2>2, FS_AddElement
  <2>4. fail_n' + THREAD_N <= fail_max' + Cardinality(Checking')
      BY <1>1, <1>2, <2>1, <2>3 DEF BlockInUse
  <2>5. fail_idx \in [Workers -> Nat] /\ Recording \subseteq Workers
      BY <1>1 DEF WorkerTypeOK, Recording
  <2>6. \A v \in Recording : fail_idx'[v] = fail_idx[v] /\ fail_idx[v] < fail_n
      BY <2>1, <2>2, <2>5 DEF BlockInUse
  <2>7. fail_idx'[w] = fail_n
      BY <2>1, <2>5
  <2>8. \A v \in Recording' : fail_idx'[v] < fail_n'
      BY <1>1, <2>1, <2>2, <2>5, <2>6, <2>7
  <2>9. \A v, u \in Recording' : fail_idx'[v] = fail_idx'[u] => v = u
      BY <1>1, <2>2, <2>5, <2>6, <2>7 DEF BlockInUse
  <2>10. \A v \in Workers : /\ at'[v] = "assign" <=> at[v] = "assign"
                            /\ at'[v] = "realloc" <=> at[v] = "realloc"
                            /\ at'[v] = "size" <=> at[v] = "size"
                            /\ at'[v] = "doubled" <=> at[v] = "doubled"
      BY <1>2, <2>1
  <2> QED
      BY <2>1, <2>4, <2>8, <2>9, <2>10 DEF BlockInUse, Records
<1>6. CASE CheckRoom(w)
  <2>1. /\ at[w] = "check" /\ UNCHANGED <<failVars, read_max, grown, fail_idx>>
        /\ at' = [at EXCEPT ![w] = IF fail_n >= fail_max - THREAD_N THEN "double" ELSE "store"]
      BY <1>6 DEF CheckRoom, At, Goto, localVars
  <2>2. Recording' = Recording /\ w \in Checking
      BY <1>2, <2>1 DEF Recording, Checking
  <2>3. fail_n + THREAD_N <= fail_max + Cardinality(Checking')
    <3>1. CASE fail_n >= fail_max - THREAD_N
      <4>1. Checking' = Checking
          BY <1>2, <2>1, <3>1 DEF Checking
      <4> QED
          BY <4>1 DEF BlockInUse
    <3>2. CASE ~(fail_n >= fail_max - THREAD_N)
      <4>1. Checking' = Checking \ {w}
          BY <1>2, <2>1, <3>2 DEF Checking
      <4>2. Cardinality(Checking') \in Nat
          BY <1>2, <4>1, FS_RemoveElement, FS_CardinalityType
      <4> QED
          BY <1>1, <3>2, <4>2
    <3> QED
        BY <3>1, <3>2
  <2>4. \A v \in Workers : /\ at'[v] = "assign" <=> at[v] = "assign"
                           /\ at'[v] = "realloc" <=> at[v] = "realloc"
                           /\ at'[v] = "size" <=> at[v] = "size"
                           /\ at'[v] = "doubled" <=> at[v] = "doubled"
      BY <1>2, <2>1
  <2> QED
      BY <2>1, <2>2, <2>3, <2>4 DEF BlockInUse, Records, failVars
<1>7. CASE Double(w)
  <2>1. /\ at[w] = "doubled" /\ at' = [at EXCEPT ![w] = "size"]
        /\ fail_max' = read_max[w] * 2
        /\ UNCHANGED <<fail_n, fail_arr, heap, read_max, grown, fail_idx>>
      BY <1>7 DEF Double, Doubled, At, Goto, localVars
  <2>2. Recording' = Recording /\ w \in Checking /\ Checking' = Checking \ {w}
      BY <1>2, <2>1 DEF Recording, Checking
  <2>3. Cardinality(Checking') = Cardinality(Checking) - 1
      BY <1>2, <2>2, FS_RemoveElement
  <2>4. fail_n + THREAD_N <= fail_max' + Cardinality(Checking') /\ fail_max' >= THREAD_N
    <3>1. fail_max' = fail_max * 2
        BY <2>1 DEF BlockInUse
    <3> QED
        BY <1>1, <1>2, <2>1, <2>3, <3>1 DEF BlockInUse
  <2>5. \A v \in Workers : v # w => at[v] \notin {"doubled", "realloc"}
      BY <2>1 DEF GrowsAlone, Growing
  <2>6. /\ at'[w] = "size" /\ \A v \in Workers : at'[v] = "assign" <=> at[v] = "assign"
        /\ \A v \in Workers : at'[v] \notin {"doubled", "realloc"}
      BY <1>2, <2>1, <2>5
  <2> QED
      BY <2>1, <2>2, <2>4, <2>6 DEF BlockInUse, Records
<1>8. CASE ReadMax(w)
  <2>1. /\ at[w] = "double" /\ at' = [at EXCEPT ![w] = "doubled"]
        /\ read_max' = [read_max EXCEPT ![w] = fail_max]
        /\ UNCHANGED <<failVars, grown, fail_idx>>
      BY <1>8 DEF ReadMax, At, Goto
  <2>2. Recording' = Recording /\ Checking' = Checking
      BY <1>2, <2>1 DEF Recording, Checking
  <2>3. \A v \in Workers : /\ at'[v] = "assign" <=> at[v] = "assign"
                           /\ at'[v] = "realloc" <=> at[v] = "realloc"
                           /\ at'[v] = "size" <=> at[v] = "size"
                           /\ at'[v] = "doubled" => v = w \/ at[v] = "doubled"
      BY <1>2, <2>1
  <2>4. read_max'[w] = fail_max /\ \A v \in Workers : v # w => read_max'[v] = read_max[v]
      BY <1>1, <2>1 DEF FailTypeOK
  <2> QED
      BY <2>1, <2>2, <2>3, <2>4 DEF BlockInUse, Records, failVars
<1>9. CASE ReadSize(w)
  <2>1. /\ at[w] = "size" /\ at' = [at EXCEPT ![w] = "realloc"]
        /\ read_max' = [read_max EXCEPT ![w] = fail_max]
        /\ UNCHANGED <<failVars, grown, fail_idx>>
      BY <1>9 DEF ReadSize, At, Goto
  <2>2. Recording' = Recording /\ Checking' = Checking
      BY <1>2, <2>1 DEF Recording, Checking
  <2>3. /\ at'[w] = "realloc"
        /\ \A v \in Workers : /\ at'[v] = "assign" <=> at[v] = "assign"
                              /\ at'[v] \in {"doubled", "realloc"} =>
                                    v = w \/ at[v] = at'[v]
      BY <1>2, <2>1
  <2>4. read_max'[w] = fail_max /\ \A v \in Workers : v # w => read_max'[v] = read_max[v]
      BY <1>1, <2>1 DEF FailTypeOK
  <2> QED
      BY <2>1, <2>2, <2>3, <2>4 DEF BlockInUse, Records, failVars
<1>10. CASE Assign(w)
  <2>1. /\ at[w] = "assign" /\ at' = [at EXCEPT ![w] = "store"] /\ fail_arr' = grown[w]
        /\ UNCHANGED <<fail_n, fail_max, heap, read_max, grown, fail_idx>>
      BY <1>10 DEF Assign, At, Goto, localVars
  <2>2. Recording' = Recording /\ Checking' = Checking
      BY <1>2, <2>1 DEF Recording, Checking
  <2>3. \A v \in Workers : /\ at'[v] = "assign" => at[v] = "assign"
                           /\ at'[v] = "realloc" <=> at[v] = "realloc"
                           /\ at'[v] = "size" <=> at[v] = "size"
                           /\ at'[v] = "doubled" <=> at[v] = "doubled"
      BY <1>2, <2>1
  <2> QED
      BY <2>1, <2>2, <2>3 DEF BlockInUse, Records
<1>11. CASE Store(w)
  <2>1. /\ at[w] = "store" /\ at' = [at EXCEPT ![w] = "close"]
        /\ UNCHANGED <<fail_n, fail_max, fail_arr, read_max, grown, fail_idx>>
        /\ \/ UNCHANGED heap
           \/ heap' = [heap EXCEPT ![fail_arr].arr[fail_idx[w] + 1] = out_files[w]]
      BY <1>11 DEF Store, At, Goto, localVars
  <2>2. Len(heap') = Len(heap) /\ heap'[Len(heap')].live /\ Len(Records') = Len(Records)
      BY <1>11, StoreEffect
  <2>3. Recording' \subseteq Recording /\ Checking' = Checking
      BY <1>2, <2>1 DEF Recording, Checking
  <2>4. \A v \in Workers : /\ at'[v] = "assign" <=> at[v] = "assign"
                           /\ at'[v] = "realloc" <=> at[v] = "realloc"
                           /\ at'[v] = "size" <=> at[v] = "size"
                           /\ at'[v] = "doubled" <=> at[v] = "doubled"
      BY <1>2, <2>1
  <2> QED
      BY <2>1, <2>2, <2>3, <2>4 DEF BlockInUse, Records
<1>12. CASE Realloc(w)
  <2>1. /\ at[w] = "realloc" /\ at' = [at EXCEPT ![w] = "assign"]
        /\ UNCHANGED <<fail_n, fail_max, fail_arr, read_max, fail_idx>>
        /\ heap'[Len(heap')].live /\ Records' = Enlarged(Records, fail_max)
        /\ grown' = [grown EXCEPT ![w] = Len(heap')]
      BY <1>12, ReallocEffect DEF Realloc, At
  <2>2. Recording' = Recording /\ Checking' = Checking
      BY <1>2, <2>1 DEF Recording, Checking
  <2>3. \A v \in Workers : v # w => v \notin Growing
      BY <2>1 DEF GrowsAlone, Growing
  <2>4. \A v \in Workers : /\ at'[v] = "assign" => v = w
                           /\ at'[v] \notin {"doubled", "size", "realloc"}
      BY <1>2, <2>1, <2>3 DEF Growing
  <2>5. at'[w] = "assign" /\ grown'[w] = Len(heap')
      BY <1>1, <1>2, <2>1 DEF FailTypeOK
  <2>6. Len(Records') = fail_max
    <3>1. Records \in Seq(Names \cup {Unset})
        BY LastBlock
    <3> QED
        BY <1>1, <2>1 DEF Enlarged
  <2> QED
      BY <2>1, <2>2, <2>4, <2>5, <2>6 DEF BlockInUse
<1> QED
    BY <1>3, <1>4, <1>5, <1>6, <1>7, <1>8, <1>9, <1>10, <1>11, <1>12 DEF WorkerStep
-----------------------------------------------------------------------------
(* The files of the workers.                                               *)

(* The length of what is left of a string by a cut.                        *)
LEMMA CutsLength ==
    ASSUME RangeAssumption, NEW s \in Candidates, NEW k \in Nat, k <= Len(s),
           NEW c \in Cuts(s, k)
    PROVE  Len(s) \in Nat /\ Len(c) = Len(s) - k
<1>1. s \in Seq(0 .. 255) /\ Len(s) \in Nat
    BY DEF RangeAssumption
<1>2. PICK b \in 0 .. Len(s) - k : c = Cut(s, b, k, Len(s))
    BY DEF Cuts
<1>3. b \in Nat /\ b + k <= Len(s)
    BY <1>1
<1>4. Len(Cut(s, b, k, Len(s))) = Len(s) - k
    BY <1>1, <1>3, CutType
<1> QED
    BY <1>1, <1>2, <1>4

(* When the main thread selects, every worker has stored what it recorded, *)
(* and fail_arr is the block they stored to.                               *)
LEMMA AllStored ==
    ASSUME RangeAssumption, IInv, BlockInUse, IndexesFilled, main = "select",
           NEW k \in 0 .. fail_n - 1
    PROVE  /\ ~Pending(k) /\ Stored(k)
           /\ Recorded(k) = Records[k + 1] /\ Slot(k) = Records[k + 1]
<1>1. Holding = {}
    BY IdleOutsideRound, NothingLeft
<1>2. Recording = {} /\ \A w \in Workers : at[w] # "assign"
    BY <1>1 DEF Holding, Recording
<1>3. ~Pending(k) /\ Stored(k)
    BY <1>2 DEF Pending, IndexesFilled
<1>4. fail_arr = Len(heap) /\ heap[Len(heap)].live
    BY <1>2 DEF BlockInUse
<1> QED
    BY <1>3, <1>4 DEF Stored, Recorded, Slot, Records

LEMMA CutsFrame ==
    ASSUME CutsWritten, UNCHANGED <<input_size, input_path, rs, disk, judge, outVars>>,
           Wrote' \subseteq Wrote, SawFailure' \subseteq SawFailure,
           \A w \in Wrote' : task'[w] = task[w]
    PROVE  CutsWritten'
BY DEF CutsWritten, ShowsFailure, outVars

LEMMA InitCuts == RangeAssumption /\ Init => CutsWritten
<1> SUFFICES ASSUME RangeAssumption, Init
             PROVE  CutsWritten
    OBVIOUS
<1>1. Wrote = {} /\ SawFailure = {}
    BY DEF Init, Wrote, SawFailure, Recording
<1>2. input_size = Len(disk[input_path])
    BY DEF Init
<1> QED
    BY <1>1, <1>2 DEF Init, CutsWritten

(* The main thread changes the files when no worker has one.               *)
LEMMA CutsMain ==
    ASSUME RangeAssumption, IInv, RecordsInv, MainStep
    PROVE  CutsWritten'
<1>1. CutsWritten /\ BlockInUse /\ IndexesFilled
    BY DEF RecordsInv
<1>2. Wrote' = Wrote /\ SawFailure' = SawFailure /\ UNCHANGED <<at, task, outVars, judge>>
    BY DEF MainStep, CopyInput, CopyRefused, StartRound, Push, Post, AwaitEnd, Select,
       NextRange, Return, localVars, Wrote, SawFailure, Recording
<1>3. ASSUME main \in {"copy", "round", "select", "done"}
      PROVE  Wrote = {} /\ SawFailure = {}
  <2>1. Holding = {}
      BY <1>3, IdleOutsideRound, NothingLeft
  <2> QED
      BY <2>1 DEF Holding, Wrote, SawFailure, Recording
<1>4. CASE StartRound
    BY <1>1, <1>2, <1>3, <1>4 DEF StartRound, CutsWritten, outVars, fileVars
<1>5. CASE Select
  <2>1. PICK k \in 0 .. fail_n - 1 : \E found \in {Recorded(k), Slot(k)} :
          \/ /\ found \in DOMAIN disk
             /\ disk' = Renamed(disk, found, FailPath(total_fail_n + 1))
             /\ input_path' = FailPath(total_fail_n + 1)
             /\ input_size' = input_size - rs
          \/ UNCHANGED <<disk, input_path, input_size>>
      BY <1>5 DEF Select
  <2>2. input_size' = Len(disk'[input_path'])
    <3>1. ASSUME NEW found \in {Recorded(k), Slot(k)},
                 found \in DOMAIN disk,
                 disk' = Renamed(disk, found, FailPath(total_fail_n + 1)),
                 input_path' = FailPath(total_fail_n + 1),
                 input_size' = input_size - rs
          PROVE  input_size' = Len(disk'[input_path'])
      <4>1. disk'[input_path'] = disk[found]
          BY <3>1 DEF Renamed
      <4>2. found = Records[k + 1] /\ Stored(k)
          BY <1>1, <1>5, <3>1, AllStored DEF Select
      <4>3. disk[found] \in Cuts(disk[input_path], rs)
          BY <4>2 DEF Stored, ShowsFailure
      <4>4. /\ disk[input_path] \in Candidates /\ rs \in Nat
            /\ rs <= Len(disk[input_path]) /\ input_size = Len(disk[input_path])
          BY <1>1, <1>5 DEF IInv, TypeOK, FileTypeOK, MainTypeOK, RoundBounds, Select,
             CutsWritten
      <4> QED
          BY <3>1, <4>1, <4>3, <4>4, CutsLength
    <3>2. CASE UNCHANGED <<disk, input_path, input_size>>
        BY <1>1, <3>2 DEF CutsWritten
    <3> QED
        BY <2>1, <3>1, <3>2
  <2>3. Wrote = {} /\ SawFailure = {}
      BY <1>3, <1>5 DEF Select
  <2> QED
      BY <1>1, <1>2, <2>2, <2>3 DEF CutsWritten, outVars
<1>6. CASE ~(StartRound \/ Select)
  <2>1. UNCHANGED <<input_size, input_path, rs, disk>>
      BY <1>6 DEF MainStep, CopyInput, CopyRefused, Push, Post, AwaitEnd, NextRange,
         Return, inputVars, fileVars
  <2> QED
      BY <1>1, <1>2, <2>1, CutsFrame
<1> QED
    BY <1>4, <1>5, <1>6

(* A worker writes its own file and no other.                              *)
LEMMA WriteEffect ==
    ASSUME RangeAssumption, IInv, CutsWritten, NEW w \in Workers, WriteCut(w)
    PROVE  /\ DOMAIN disk' = DOMAIN disk \cup {out_files[w]}
           /\ disk'[out_files[w]] = Cut(disk[input_path], task[w].begin, rs, input_size)
           /\ disk'[input_path] = disk[input_path]
           /\ \A m \in DOMAIN disk : m # out_files[w] => disk'[m] = disk[m]
           /\ \A v \in Workers : v # w => out_files[v] # out_files[w]
<1>1. w \in Holding /\ main # "exit"
    BY DEF WriteCut, At, Running, Holding
<1>2. /\ FileTypeOK /\ WorkerTypeOK /\ THREAD_N \in Nat \ {0} /\ NamesApart
      /\ copies[w] = disk[input_path]
    BY <1>1 DEF IInv, TypeOK, RangeAssumption, TasksCurrent
<1>3. disk' = Written(disk, out_files[w], Cut(disk[input_path], task[w].begin, rs, input_size))
    BY <1>2 DEF WriteCut
<1>4. out_files[w] # input_path
    BY <1>2 DEF NamesApart
<1>5. \A v \in Workers : v # w => out_files[v] # out_files[w]
  <2>1. \A v \in Workers : out_files[v] = PartName(v, fail_stack[v]) /\ fail_stack[v] \in Nat
      BY <1>2 DEF CutsWritten, WorkerTypeOK
  <2> QED
      BY <1>2, <2>1, PartNameInjective
<1> QED
    BY <1>2, <1>3, <1>4, <1>5 DEF Written, FileTypeOK

LEMMA CutsWorker ==
    ASSUME RangeAssumption, IInv, CutsWritten, NEW w \in Workers, WorkerStep(w)
    PROVE  CutsWritten'
<1>1. /\ WorkerTypeOK /\ FileTypeOK /\ MainTypeOK /\ THREAD_N \in Nat \ {0}
      /\ at \in [Workers -> Locations]
    BY DEF IInv, TypeOK, WorkerTypeOK, RangeAssumption
<1>2. CASE WriteCut(w)
  <2>1. /\ at[w] = "cut" /\ at' = [at EXCEPT ![w] = "test"]
        /\ UNCHANGED <<input_size, input_path, rs, judge, out_files, fail_stack, task>>
      BY <1>2 DEF WriteCut, At, Goto, inputVars, localVars, outVars
  <2>2. Wrote' = Wrote \cup {w} /\ SawFailure' = SawFailure /\ w \notin SawFailure
      BY <1>1, <2>1 DEF Wrote, SawFailure, Recording
  <2>3. Wrote \subseteq Workers /\ SawFailure \subseteq Workers
      BY DEF Wrote, SawFailure, Recording
  <2>4. \A v \in Wrote \ {w} : out_files[v] \in DOMAIN disk' /\ disk'[out_files[v]] = disk[out_files[v]]
      BY <1>2, <2>3, WriteEffect DEF CutsWritten
  <2>5. \A v \in SawFailure : ShowsFailure(out_files[v])'
    <3> TAKE v \in SawFailure
    <3>1. v # w /\ v \in Workers /\ ShowsFailure(out_files[v])
        BY <2>2, <2>3 DEF CutsWritten
    <3>2. out_files[v] \in DOMAIN disk' /\ disk'[out_files[v]] = disk[out_files[v]]
        BY <1>2, <3>1, WriteEffect DEF ShowsFailure
    <3>3. disk'[input_path] = disk[input_path]
        BY <1>2, WriteEffect
    <3> QED
        BY <2>1, <3>1, <3>2, <3>3 DEF ShowsFailure
  <2>6. \A v \in Wrote' :
          /\ out_files[v] \in DOMAIN disk'
          /\ disk'[out_files[v]] = Cut(disk[input_path], task[v].begin, rs, input_size)
    <3> TAKE v \in Wrote'
    <3>1. CASE v = w
        BY <1>2, <3>1, WriteEffect
    <3>2. CASE v # w
      <4>1. v \in Wrote \ {w}
          BY <2>2, <3>2
      <4>2. disk[out_files[v]] = Cut(disk[input_path], task[v].begin, rs, input_size)
          BY <4>1 DEF CutsWritten
      <4> QED
          BY <2>4, <4>1, <4>2
    <3> QED
        BY <3>1, <3>2
  <2>7. disk'[input_path] = disk[input_path]
      BY <1>2, WriteEffect
  <2> QED
      BY <2>1, <2>2, <2>5, <2>6, <2>7 DEF CutsWritten
<1>3. CASE Test(w)
  <2>1. /\ at[w] = "test" /\ main # "exit"
        /\ UNCHANGED <<input_size, input_path, rs, disk, judge, out_files, fail_stack, task>>
        /\ \A v \in Workers : v # w => at'[v] = at[v]
        /\ \/ at'[w] = "close"
           \/ at'[w] = "record" /\ TRUE \in judge[disk[out_files[w]]]
      BY <1>1, <1>3 DEF Test, At, Running, Goto, inputVars, localVars, outVars, fileVars
  <2>2. Wrote' \subseteq Wrote /\ w \in Wrote /\ w \in Holding
      BY <2>1 DEF Wrote, Recording, Holding
  <2>3. \A v \in SawFailure' : v = w \/ v \in SawFailure
      BY <2>1 DEF SawFailure, Recording
  <2>4. ASSUME at'[w] = "record"
        PROVE  ShowsFailure(out_files[w])
    <3>1. /\ out_files[w] \in DOMAIN disk
          /\ disk[out_files[w]] = Cut(disk[input_path], task[w].begin, rs, input_size)
        BY <2>2 DEF CutsWritten
    <3>2. input_size = Len(disk[input_path])
        BY DEF CutsWritten
    <3>3. task[w].begin \in 0 .. input_size - rs
      <4>1. task[w].begin \in Nat /\ rs \in Nat /\ input_size \in Nat
          BY <1>1 DEF WorkerTypeOK, MainTypeOK
      <4>2. task[w].begin + rs <= input_size
          BY <2>1, <2>2 DEF IInv, TasksCurrent
      <4> QED
          BY <4>1, <4>2
    <3>4. TRUE \in judge[disk[out_files[w]]]
        BY <2>1, <2>4
    <3> QED
        BY <3>1, <3>2, <3>3, <3>4 DEF ShowsFailure, Cuts
  <2>5. \A v \in SawFailure' : ShowsFailure(out_files[v])
    <3> TAKE v \in SawFailure'
    <3>1. CASE v \in SawFailure
        BY <3>1 DEF CutsWritten
    <3>2. CASE v = w /\ v \notin SawFailure
      <4>1. at'[w] = "record"
          BY <2>1, <3>2 DEF SawFailure, Recording
      <4> QED
          BY <2>4, <3>2, <4>1
    <3> QED
        BY <2>3, <3>1, <3>2
  <2> QED
      BY <2>1, <2>2, <2>5 DEF CutsWritten, ShowsFailure
<1>4. CASE Store(w)
  <2>1. /\ at[w] = "store" /\ at' = [at EXCEPT ![w] = "close"]
        /\ UNCHANGED <<input_size, input_path, rs, disk, judge, task>>
        /\ fail_stack' = [fail_stack EXCEPT ![w] = @ + 1]
        /\ out_files' = [out_files EXCEPT ![w] = PartName(w, fail_stack[w] + 1)]
      BY <1>4 DEF Store, At, Goto, inputVars, localVars, fileVars
  <2>2. Wrote' \subseteq Wrote \ {w} /\ SawFailure' \subseteq SawFailure \ {w}
      BY <1>1, <2>1 DEF Wrote, SawFailure, Recording
  <2>3. \A v \in Wrote' \cup SawFailure' : out_files'[v] = out_files[v]
      BY <1>1, <2>1, <2>2 DEF WorkerTypeOK
  <2>4. \A v \in Workers : out_files'[v] = PartName(v, fail_stack'[v])
      BY <1>1, <2>1 DEF CutsWritten, WorkerTypeOK
  <2> QED
      BY <2>1, <2>2, <2>3, <2>4 DEF CutsWritten, ShowsFailure
<1>5. CASE ~(WriteCut(w) \/ Test(w) \/ Store(w))
  <2>1. UNCHANGED <<input_size, input_path, rs, disk, judge, outVars>>
      BY <1>5 DEF WorkerStep, TakeToken, Pop, TakeIndex, CheckRoom, ReadMax, Double,
         ReadSize, Realloc,
         Assign, Close, Unlock, inputVars, fileVars
  <2>2. /\ \A v \in Workers : v # w => at'[v] = at[v] /\ task'[v] = task[v]
        /\ \/ at'[w] = at[w] /\ task'[w] = task[w]
           \/ at'[w] \in {"idle", "pop", "cut", "close", "unlock"}
           \/ /\ at[w] \in {"record", "check", "double", "doubled", "size", "realloc", "assign"}
              /\ at'[w] \in {"check", "double", "doubled", "size", "realloc", "assign", "store"}
              /\ task' = task
    <3> USE DEF At, Goto, localVars, WorkerTypeOK
    <3>1. CASE TakeToken(w) \/ Pop(w) \/ Close(w) \/ Unlock(w)
        BY <1>1, <3>1 DEF TakeToken, Pop, Close, Unlock
    <3>2. CASE TakeIndex(w) \/ CheckRoom(w) \/ ReadMax(w) \/ Double(w) \/ ReadSize(w)
        BY <1>1, <3>2 DEF TakeIndex, CheckRoom, ReadMax, Double, ReadSize
    <3>3. CASE Realloc(w) \/ Assign(w)
        BY <1>1, <3>3 DEF Realloc, Assign
    <3> QED
        BY <1>5, <3>1, <3>2, <3>3 DEF WorkerStep
  <2>3. /\ Wrote' \subseteq Wrote /\ SawFailure' \subseteq SawFailure
        /\ \A v \in Wrote' : task'[v] = task[v]
      BY <2>2 DEF Wrote, SawFailure, Recording
  <2> QED
      BY <2>1, <2>3, CutsFrame
<1> QED
    BY <1>2, <1>3, <1>4, <1>5
-----------------------------------------------------------------------------
(* The indexes of fail_arr.                                                *)
LEMMA IndexesFrame ==
    ASSUME IndexesFilled, Records' = Records, Recording' = Recording,
           UNCHANGED <<disk, input_path, rs, judge, fail_n, fail_idx, fail_stack>>,
           main' \in {"push", "post", "wait", "select"} =>
              main \in {"push", "post", "wait", "select"}
    PROVE  IndexesFilled'
<1>1. \A k : (Pending(k)' <=> Pending(k)) /\ (Stored(k)' <=> Stored(k))
    BY DEF Pending, Stored, ShowsFailure
<1> QED
    BY <1>1 DEF IndexesFilled, InRound

LEMMA IndexesMain ==
    ASSUME RangeAssumption, IInv, IndexesFilled, MainStep
    PROVE  IndexesFilled'
<1>1. CASE StartRound
  <2>1. 0 .. fail_n' - 1 = {}
      BY <1>1 DEF StartRound
  <2> QED
      BY <2>1 DEF IndexesFilled
<1>2. CASE Push \/ Post \/ AwaitEnd
  <2>1. /\ main \in {"push", "post", "wait", "select"}
        /\ UNCHANGED <<disk, input_path, rs, judge, fail_n, fail_idx, fail_stack>>
        /\ UNCHANGED <<heap, at>>
      BY <1>2 DEF Push, Post, AwaitEnd, inputVars, failVars, localVars, outVars, fileVars
  <2>2. Records' = Records /\ Recording' = Recording
      BY <2>1 DEF Records, Recording
  <2> QED
      BY <2>1, <2>2, IndexesFrame
<1>3. CASE CopyInput \/ CopyRefused \/ Select \/ NextRange \/ Return
  <2>1. main' \notin {"push", "post", "wait", "select"}
      BY <1>3 DEF CopyInput, CopyRefused, Select, NextRange, Return
  <2> QED
      BY <2>1 DEF IndexesFilled, InRound
<1> QED
    BY <1>1, <1>2, <1>3 DEF MainStep

(* A name recorded before is not the name any worker writes to now.        *)
LEMMA StoredApart ==
    ASSUME RangeAssumption, IInv, CutsWritten, NEW w \in Workers, NEW k \in Nat, Stored(k)
    PROVE  Records[k + 1] # out_files[w]
<1>1. /\ THREAD_N \in Nat \ {0} /\ fail_stack \in [Workers -> Nat]
      /\ out_files[w] = PartName(w, fail_stack[w])
    BY DEF IInv, TypeOK, WorkerTypeOK, RangeAssumption, CutsWritten
<1>2. PICK u \in Workers : \E j \in 0 .. fail_stack[u] - 1 : Records[k + 1] = PartName(u, j)
    BY DEF Stored
<1>3. PICK j \in 0 .. fail_stack[u] - 1 : Records[k + 1] = PartName(u, j)
    BY <1>2
<1>4. fail_stack[u] \in Nat /\ fail_stack[w] \in Nat
    BY <1>1
<1>5. j \in Nat /\ j < fail_stack[u]
    BY <1>3, <1>4
<1>6. ASSUME PartName(u, j) = PartName(w, fail_stack[w])
      PROVE  FALSE
  <2>1. u = w /\ j = fail_stack[w]
      BY <1>1, <1>4, <1>5, <1>6, PartNameInjective
  <2> QED
      BY <1>4, <1>5, <2>1
<1> QED
    BY <1>1, <1>3, <1>6

LEMMA IndexesWorker ==
    ASSUME RangeAssumption, IInv, BlockInUse, CutsWritten, IndexesFilled, GrowsAlone,
           NEW w \in Workers, WorkerStep(w)
    PROVE  IndexesFilled'
<1>1. /\ WorkerTypeOK /\ FailTypeOK /\ THREAD_N \in Nat \ {0} /\ fail_n \in Nat
      /\ at \in [Workers -> Locations] /\ fail_idx \in [Workers -> Nat]
      /\ fail_max \in Nat /\ fail_stack \in [Workers -> Nat]
      /\ Records \in Seq(Names \cup {Unset}) /\ Len(Records) \in Nat
    BY LastBlock DEF IInv, TypeOK, WorkerTypeOK, FailTypeOK, RangeAssumption
<1>2. main' \in {main, "exit"} /\ UNCHANGED <<input_path, rs, judge>>
    BY DEF WorkerStep, TakeToken, Pop, WriteCut, Test, TakeIndex, CheckRoom, ReadMax,
       Double,
       ReadSize, Realloc, Assign, Store, Close, Unlock, mainVars, inputVars
<1> SUFFICES ASSUME main \in {"push", "post", "wait", "select"}, UNCHANGED main
             PROVE  IndexesFilled'
  <2>1. CASE main' \notin {"push", "post", "wait", "select"}
      BY <2>1 DEF IndexesFilled, InRound
  <2>2. CASE main' \in {"push", "post", "wait", "select"}
      BY <1>2, <2>2
  <2> QED
      BY <2>1, <2>2
<1>3. /\ \A k \in 0 .. fail_n - 1 : Pending(k) \/ Stored(k)
      /\ \A k, l \in 0 .. fail_n - 1 :
            ~Pending(k) /\ ~Pending(l) /\ Records[k + 1] = Records[l + 1] => k = l
    BY DEF IndexesFilled, InRound
<1>4. Recording \subseteq Workers
    BY DEF Recording
<1>5. CASE TakeToken(w) \/ Pop(w) \/ Test(w) \/ Close(w) \/ Unlock(w)
  <2>1. /\ UNCHANGED <<disk, fail_n, fail_idx, fail_stack, heap>>
        /\ \A v \in Workers : v # w => at'[v] = at[v]
        /\ at[w] \in {"idle", "pop", "test", "close", "unlock"}
        /\ at'[w] \in {"idle", "pop", "cut", "record", "close", "unlock"}
      BY <1>1, <1>5 DEF TakeToken, Pop, Test, Close, Unlock, At, Goto, localVars,
         failVars, outVars, fileVars
  <2>2. Records' = Records /\ Recording' = Recording
      BY <2>1 DEF Records, Recording
  <2> QED
      BY <1>2, <2>1, <2>2, IndexesFrame
<1>6. CASE CheckRoom(w) \/ ReadMax(w) \/ Double(w) \/ ReadSize(w) \/ Assign(w)
  <2>1. /\ UNCHANGED <<disk, fail_n, fail_idx, fail_stack, heap>>
        /\ \A v \in Workers : v # w => at'[v] = at[v]
        /\ at[w] \in {"check", "double", "doubled", "size", "assign"}
        /\ at'[w] \in {"double", "doubled", "size", "realloc", "store"}
      BY <1>1, <1>6 DEF CheckRoom, ReadMax, Double, ReadSize, Assign, At, Goto,
         localVars, failVars,
         outVars, fileVars
  <2>2. Records' = Records /\ Recording' = Recording
      BY <2>1 DEF Records, Recording
  <2> QED
      BY <1>2, <2>1, <2>2, IndexesFrame
<1>7. CASE WriteCut(w)
  <2>1. /\ UNCHANGED <<fail_n, fail_idx, fail_stack, heap>>
        /\ at[w] = "cut" /\ at' = [at EXCEPT ![w] = "test"]
      BY <1>7 DEF WriteCut, At, Goto, localVars, failVars, outVars
  <2>2. Records' = Records /\ Recording' = Recording
      BY <1>1, <2>1 DEF Records, Recording
  <2>3. \A k : Pending(k)' <=> Pending(k)
      BY <2>1, <2>2 DEF Pending
  <2>4. ASSUME NEW k \in 0 .. fail_n - 1, Stored(k)
        PROVE  Stored(k)'
    <3>1. k \in Nat
        BY <1>1
    <3>2. Records[k + 1] # out_files[w] /\ Records[k + 1] \in DOMAIN disk
        BY <2>4, <3>1, StoredApart DEF Stored, ShowsFailure
    <3>3. /\ Records[k + 1] \in DOMAIN disk' /\ disk'[Records[k + 1]] = disk[Records[k + 1]]
          /\ disk'[input_path] = disk[input_path]
        BY <1>7, <3>2, WriteEffect
    <3> QED
        BY <1>2, <2>1, <2>2, <2>4, <3>3 DEF Stored, ShowsFailure
  <2> QED
      BY <1>3, <2>1, <2>2, <2>3, <2>4 DEF IndexesFilled
<1>8. CASE TakeIndex(w)
  <2>1. /\ UNCHANGED <<disk, fail_stack, heap>> /\ fail_n' = fail_n + 1
        /\ fail_idx' = [fail_idx EXCEPT ![w] = fail_n]
        /\ at[w] = "record" /\ at' = [at EXCEPT ![w] = "check"]
      BY <1>8 DEF TakeIndex, At, Goto, outVars, fileVars
  <2>2. Records' = Records /\ w \notin Recording /\ Recording' = Recording \cup {w}
      BY <1>1, <2>1 DEF Records, Recording
  <2>3. \A k : k = fail_n \/ Pending(k) => Pending(k)'
      BY <1>1, <1>4, <2>1, <2>2 DEF Pending
  <2>4. \A k : Stored(k) => Stored(k)'
      BY <1>2, <2>1, <2>2 DEF Stored, ShowsFailure
  <2>5. \A k \in 0 .. fail_n' - 1 : k \in 0 .. fail_n - 1 \/ k = fail_n
      BY <1>1, <2>1
  <2>6. \A k \in 0 .. fail_n' - 1 : Pending(k)' \/ Stored(k)'
      BY <1>3, <2>3, <2>4, <2>5
  <2>7. \A k, l \in 0 .. fail_n' - 1 :
            ~Pending(k)' /\ ~Pending(l)' /\ Records'[k + 1] = Records'[l + 1] => k = l
      BY <1>3, <2>2, <2>3, <2>5
  <2> QED
      BY <2>6, <2>7 DEF IndexesFilled
<1>9. CASE Realloc(w)
  <2>1. /\ UNCHANGED <<disk, fail_n, fail_idx, fail_stack, fail_max>>
        /\ at[w] = "realloc" /\ at' = [at EXCEPT ![w] = "assign"]
        /\ Records' = Enlarged(Records, fail_max)
      BY <1>9, ReallocEffect DEF Realloc, At, outVars, fileVars
  <2>2. Recording' = Recording /\ w \notin Checking
      BY <1>1, <2>1 DEF Recording, Checking
  <2>3. \A k : Pending(k)' <=> Pending(k)
      BY <2>1, <2>2 DEF Pending
  <2>4. fail_n <= fail_max
    <3>1. Cardinality(Checking) \in Nat /\ Cardinality(Checking) < THREAD_N
        BY <1>1, <2>2, CheckingFinite
    <3> QED
        BY <1>1, <3>1 DEF BlockInUse
  <2>5. ASSUME NEW k \in 0 .. fail_n - 1, Stored(k)
        PROVE  Stored(k)' /\ Records'[k + 1] = Records[k + 1]
    <3>1. k \in Nat /\ k < Len(Records) /\ k < fail_max
        BY <1>1, <2>4, <2>5 DEF Stored
    <3>2. Len(Records') = fail_max /\ Records'[k + 1] = Records[k + 1]
        BY <1>1, <2>1, <3>1, EnlargedKeeps
    <3> QED
        BY <1>2, <2>1, <2>5, <3>1, <3>2 DEF Stored, ShowsFailure
  <2>6. \A k \in 0 .. fail_n - 1 : Pending(k)' \/ Stored(k)'
      BY <1>3, <2>3, <2>5
  <2>7. \A k, l \in 0 .. fail_n - 1 :
            ~Pending(k)' /\ ~Pending(l)' /\ Records'[k + 1] = Records'[l + 1] => k = l
      BY <1>3, <2>3, <2>5
  <2> QED
      BY <2>1, <2>6, <2>7 DEF IndexesFilled
<1>10. CASE Store(w)
  <2>1. /\ UNCHANGED <<disk, fail_n, fail_idx>>
        /\ at[w] = "store" /\ at' = [at EXCEPT ![w] = "close"]
        /\ fail_stack' = [fail_stack EXCEPT ![w] = @ + 1]
      BY <1>10 DEF Store, At, Goto, localVars, fileVars
  <2>2. PICK i \in Nat : i = fail_idx[w]
      BY <1>1
  <2>3. /\ Len(Records') = Len(Records) /\ i + 1 \in 1 .. Len(Records)
        /\ Records' = [Records EXCEPT ![i + 1] = out_files[w]]
      BY <1>10, <2>2, StoreEffect
  <2>4. i \in Nat /\ i < fail_n /\ w \in Recording /\ Recording' = Recording \ {w}
      BY <1>1, <2>1, <2>2 DEF Recording, BlockInUse
  <2>5. \A v \in Recording : v # w => fail_idx[v] # i
      BY <2>2, <2>4 DEF BlockInUse
  <2>6. \A k : k # i => (Pending(k)' <=> Pending(k))
      BY <2>1, <2>2, <2>3, <2>4 DEF Pending
  <2>7. ~Pending(i)'
      BY <2>1, <2>2, <2>3, <2>4, <2>5 DEF Pending
  <2>8. Records'[i + 1] = out_files[w]
      BY <1>1, <2>1, <2>2, <2>3
  <2>9. \A k \in 0 .. fail_n - 1 : k # i => Records'[k + 1] = Records[k + 1]
      BY <1>1, <2>1, <2>2, <2>3, <2>4
  <2>10. Stored(i)'
    <3>1. w \in SawFailure
        BY <2>4 DEF SawFailure
    <3>2. ShowsFailure(out_files[w]) /\ out_files[w] = PartName(w, fail_stack[w])
        BY <3>1 DEF CutsWritten
    <3>3. fail_stack[w] \in 0 .. fail_stack'[w] - 1
        BY <1>1, <2>1
    <3>4. ShowsFailure(Records[i + 1])'
        BY <1>2, <2>1, <2>8, <3>2 DEF ShowsFailure
    <3>5. i < Len(Records')
        BY <1>1, <2>2, <2>3
    <3>6. \E u \in Workers : \E j \in 0 .. fail_stack'[u] - 1 : Records'[i + 1] = PartName(u, j)
        BY <2>8, <3>2, <3>3
    <3> QED
        BY <3>4, <3>5, <3>6 DEF Stored
  <2>11. ASSUME NEW k \in 0 .. fail_n - 1, k # i, Stored(k)
        PROVE  Stored(k)' /\ Records'[k + 1] # Records'[i + 1]
    <3>1. \A u \in Workers : fail_stack[u] \in Nat /\ fail_stack'[u] >= fail_stack[u]
                             /\ fail_stack'[u] \in Nat
        BY <1>1, <2>1
    <3>2. \A u \in Workers : 0 .. fail_stack[u] - 1 \subseteq 0 .. fail_stack'[u] - 1
        BY <3>1
    <3>3. Stored(k)'
        BY <1>2, <2>1, <2>3, <2>9, <2>11, <3>2 DEF Stored, ShowsFailure
    <3>4. k \in Nat
        BY <1>1
    <3> QED
        BY <2>8, <2>9, <2>11, <3>3, <3>4, StoredApart
  <2>12. \A k \in 0 .. fail_n - 1 : Pending(k)' \/ Stored(k)'
      BY <1>3, <2>6, <2>10, <2>11
  <2>13. \A k, l \in 0 .. fail_n - 1 :
            ~Pending(k)' /\ ~Pending(l)' /\ Records'[k + 1] = Records'[l + 1] => k = l
      BY <1>3, <2>6, <2>9, <2>11
  <2> QED
      BY <2>1, <2>12, <2>13 DEF IndexesFilled
<1> QED
    BY <1>5, <1>6, <1>7, <1>8, <1>9, <1>10 DEF WorkerStep
-----------------------------------------------------------------------------
(* The block positions.                                                    *)
LEMMA CoveredFrame ==
    ASSUME EveryCutTested,
           UNCHANGED <<main, begin, queue, judge, rs, input_size, input_path, task, fail_n>>,
           disk'[input_path] = disk[input_path],
           \A w \in Workers :
              at[w] \in {"cut", "test", "record"} => at'[w] \in {"cut", "test", "record"}
    PROVE  EveryCutTested'
<1>1. \A b : Covered(b) => Covered(b)'
    BY DEF Covered
<1> QED
    BY <1>1 DEF EveryCutTested, InRound

LEMMA CoveredMain ==
    ASSUME RangeAssumption, IInv, EveryCutTested, MainStep
    PROVE  EveryCutTested'
<1>1. /\ MainTypeOK /\ SyncTypeOK /\ RoundBounds /\ begin \in Nat
      /\ input_size \in Nat /\ rs \in Nat /\ r_size \in Int
    BY DEF IInv, TypeOK, MainTypeOK
<1>2. CASE StartRound
  <2>1. main' = "push" /\ begin' = 0
      BY <1>1, <1>2 DEF StartRound, PushOrWait, LastBegin, RoundBounds
  <2>2. \A b \in 0 .. LastBegin(input_size', rs') : b >= 0
      BY <1>1, <1>2 DEF StartRound, LastBegin
  <2> QED
      BY <2>1, <2>2 DEF EveryCutTested, Covered
<1>3. CASE Push
  <2>1. /\ main = "push" /\ main' = "post" /\ queue \in Seq([rs : Nat, begin : Nat])
        /\ queue' = Append(queue, [rs |-> r_size, begin |-> begin])
        /\ UNCHANGED <<begin, judge, rs, input_size, input_path, disk, at, task, fail_n>>
      BY <1>1, <1>3 DEF Push, SyncTypeOK, inputVars, failVars, localVars, fileVars
  <2>2. /\ Len(queue') = Len(queue) + 1 /\ Len(queue) \in Nat
        /\ queue'[Len(queue) + 1].begin = begin
        /\ \A i \in 1 .. Len(queue) : queue'[i] = queue[i]
      BY <2>1
  <2>3. ASSUME NEW b \in 0 .. LastBegin(input_size, rs), Covered(b)
        PROVE  Covered(b)'
    <3>1. b \in Nat
        BY <1>1 DEF LastBegin
    <3>2. CASE b >= begin
      <4>1. CASE b = begin
        <5>1. queue'[Len(queue) + 1].begin = b /\ Len(queue) + 1 \in 1 .. Len(queue')
            BY <2>2, <4>1
        <5> QED
            BY <5>1 DEF Covered
      <4>2. CASE b # begin
        <5>1. main' = "post" /\ b > begin'
            BY <1>1, <2>1, <3>1, <3>2, <4>2
        <5> QED
            BY <5>1 DEF Covered
      <4> QED
          BY <4>1, <4>2
    <3>3. CASE \E i \in 1 .. Len(queue) : queue[i].begin = b
      <4>1. PICK i \in 1 .. Len(queue) : queue[i].begin = b
          BY <3>3
      <4>2. i \in 1 .. Len(queue') /\ queue'[i].begin = b
          BY <2>2, <4>1
      <4> QED
          BY <4>2 DEF Covered
    <3>4. CASE ~(b >= begin) /\ ~\E i \in 1 .. Len(queue) : queue[i].begin = b
        BY <2>1, <2>3, <3>4 DEF Covered
    <3> QED
        BY <3>2, <3>3, <3>4
  <2> QED
      BY <2>1, <2>3 DEF EveryCutTested, InRound
<1>4. CASE Post
  <2>1. /\ main = "post" /\ rs = r_size /\ begin' = begin + 1
        /\ main' = IF begin + 1 <= LastBegin(input_size, rs) THEN "push" ELSE "wait"
        /\ UNCHANGED <<queue, judge, rs, input_size, input_path, disk, at, task, fail_n>>
      BY <1>1, <1>4 DEF Post, PushOrWait, RoundBounds, InRound, inputVars, failVars,
         localVars, fileVars
  <2>2. ASSUME NEW b \in 0 .. LastBegin(input_size, rs), Covered(b)
        PROVE  Covered(b)'
    <3>1. LastBegin(input_size, rs) \in Int /\ b \in Nat
        BY <1>1 DEF LastBegin
    <3>2. CASE b > begin
      <4>1. main' = "push" /\ b >= begin'
          BY <1>1, <2>1, <3>1, <3>2
      <4> QED
          BY <4>1 DEF Covered
    <3>3. CASE ~(b > begin)
        BY <2>1, <2>2, <3>3 DEF Covered
    <3> QED
        BY <3>2, <3>3
  <2> QED
      BY <2>1, <2>2 DEF EveryCutTested, InRound
<1>5. CASE AwaitEnd
  <2>1. /\ main = "wait" /\ main' = "select"
        /\ UNCHANGED <<queue, judge, rs, input_size, input_path, disk, at, task, fail_n>>
      BY <1>5 DEF AwaitEnd, inputVars, queueVars, failVars, localVars, fileVars
  <2>2. \A b : Covered(b) => Covered(b)'
      BY <2>1 DEF Covered
  <2> QED
      BY <2>1, <2>2 DEF EveryCutTested, InRound
<1>6. CASE CopyInput \/ CopyRefused \/ Select \/ NextRange \/ Return
  <2>1. main' \notin {"push", "post", "wait", "select"}
      BY <1>6 DEF CopyInput, CopyRefused, Select, NextRange, Return
  <2> QED
      BY <2>1 DEF EveryCutTested, InRound
<1> QED
    BY <1>2, <1>3, <1>4, <1>5, <1>6 DEF MainStep

LEMMA CoveredWorker ==
    ASSUME RangeAssumption, IInv, CutsWritten, EveryCutTested,
           NEW w \in Workers, WorkerStep(w)
    PROVE  EveryCutTested'
<1>1. /\ WorkerTypeOK /\ SyncTypeOK /\ FailTypeOK /\ fail_n \in Nat
      /\ at \in [Workers -> Locations] /\ task \in [Workers -> [rs : Nat, begin : Nat]]
    BY DEF IInv, TypeOK, WorkerTypeOK, FailTypeOK
<1>2. main' \in {main, "exit"} /\ UNCHANGED <<begin, input_size, input_path, rs, judge>>
    BY DEF WorkerStep, TakeToken, Pop, WriteCut, Test, TakeIndex, CheckRoom, ReadMax,
       Double,
       ReadSize, Realloc, Assign, Store, Close, Unlock, mainVars, inputVars
<1> SUFFICES ASSUME UNCHANGED main
             PROVE  EveryCutTested'
    BY <1>2 DEF EveryCutTested, InRound
<1>3. CASE TakeToken(w) \/ Close(w) \/ Unlock(w)
  <2>1. /\ UNCHANGED <<queue, disk, task, fail_n>>
        /\ at[w] \in {"idle", "close", "unlock"}
        /\ \A v \in Workers : v # w => at'[v] = at[v]
      BY <1>1, <1>3 DEF TakeToken, Close, Unlock, At, Goto, queueVars, localVars,
         failVars, fileVars
  <2> QED
      BY <1>2, <2>1, CoveredFrame
<1>4. CASE \/ CheckRoom(w) \/ ReadMax(w) \/ Double(w) \/ ReadSize(w)
           \/ Realloc(w) \/ Assign(w) \/ Store(w)
  <2>1. /\ UNCHANGED <<queue, disk, task, fail_n>>
        /\ at[w] \in {"check", "double", "doubled", "size", "realloc", "assign", "store"}
        /\ \A v \in Workers : v # w => at'[v] = at[v]
      BY <1>1, <1>4 DEF CheckRoom, ReadMax, Double, ReadSize, Realloc, Assign, Store, At,
         Goto, queueVars,
         localVars, failVars, fileVars
  <2> QED
      BY <1>2, <2>1, CoveredFrame
<1>5. CASE WriteCut(w)
  <2>1. /\ UNCHANGED <<queue, task, fail_n>> /\ at' = [at EXCEPT ![w] = "test"]
        /\ disk'[input_path] = disk[input_path]
      BY <1>5, WriteEffect DEF WriteCut, Goto, queueVars, localVars, failVars
  <2>2. \A v \in Workers :
           at[v] \in {"cut", "test", "record"} => at'[v] \in {"cut", "test", "record"}
      BY <1>1, <2>1
  <2> QED
      BY <1>2, <2>1, <2>2, CoveredFrame
<1>6. CASE Pop(w)
  <2>1. CASE queue = <<>>
    <3>1. main' = "exit"
        BY <1>6, <2>1 DEF Pop
    <3> QED
        BY <3>1 DEF EveryCutTested, InRound
  <2>2. CASE queue # <<>>
    <3>1. /\ queue' = Tail(queue) /\ task' = [task EXCEPT ![w] = queue[1]]
          /\ at[w] = "pop" /\ at' = [at EXCEPT ![w] = "cut"]
          /\ UNCHANGED <<fail_n, disk>>
        BY <1>1, <1>6, <2>2 DEF Pop, Popped, At, Goto, SyncTypeOK, failVars, fileVars
    <3>2. /\ Len(queue) \in Nat /\ Len(queue') = Len(queue) - 1
          /\ \A i \in 1 .. Len(queue') : queue'[i] = queue[i + 1]
        BY <1>1, <2>2, <3>1, HeadTailProperties DEF SyncTypeOK
    <3>3. ASSUME NEW b, Covered(b)
          PROVE  Covered(b)'
      <4>1. CASE \E i \in 1 .. Len(queue) : queue[i].begin = b
        <5>1. PICK i \in 1 .. Len(queue) : queue[i].begin = b
            BY <4>1
        <5>2. CASE i = 1
          <6>1. task'[w].begin = b /\ at'[w] = "cut"
              BY <1>1, <3>1, <5>1, <5>2
          <6> QED
              BY <6>1 DEF Covered
        <5>3. CASE i # 1
          <6>1. i - 1 \in 1 .. Len(queue') /\ queue'[i - 1].begin = b
              BY <3>2, <5>1, <5>3
          <6> QED
              BY <6>1 DEF Covered
        <5> QED
            BY <5>2, <5>3
      <4>2. CASE \E v \in Workers : at[v] \in {"cut", "test", "record"} /\ task[v].begin = b
        <5>1. PICK v \in Workers : at[v] \in {"cut", "test", "record"} /\ task[v].begin = b
            BY <4>2
        <5>2. at'[v] \in {"cut", "test", "record"} /\ task'[v].begin = b
            BY <1>1, <3>1, <5>1
        <5> QED
            BY <5>2 DEF Covered
      <4>3. CASE /\ ~\E i \in 1 .. Len(queue) : queue[i].begin = b
                 /\ ~\E v \in Workers : /\ at[v] \in {"cut", "test", "record"}
                                        /\ task[v].begin = b
          BY <1>2, <3>1, <3>3, <4>3 DEF Covered
      <4> QED
          BY <4>1, <4>2, <4>3
    <3> QED
        BY <1>2, <3>1, <3>3 DEF EveryCutTested, InRound
  <2> QED
      BY <2>1, <2>2
<1>7. CASE Test(w)
  <2>1. PICK failed \in judge[disk[out_files[w]]] :
          at' = [at EXCEPT ![w] = IF failed THEN "record" ELSE "close"]
      BY <1>7 DEF Test, Goto
  <2>2. at[w] = "test" /\ UNCHANGED <<queue, disk, task, fail_n>>
      BY <1>7 DEF Test, At, queueVars, localVars, failVars, fileVars
  <2>3. CASE failed = TRUE
    <3>1. \A v \in Workers :
             at[v] \in {"cut", "test", "record"} => at'[v] \in {"cut", "test", "record"}
        BY <1>1, <2>1, <2>3
    <3> QED
        BY <1>2, <2>2, <3>1, CoveredFrame
  <2>4. CASE failed # TRUE
    <3>1. disk[out_files[w]] = Cut(disk[input_path], task[w].begin, rs, input_size)
        BY <2>2 DEF CutsWritten, Wrote
    <3>2. judge[disk[out_files[w]]] # {TRUE}
        BY <2>1, <2>4
    <3>3. \A v \in Workers : v # w => at'[v] = at[v]
        BY <1>1, <2>1
    <3>4. ASSUME NEW b, Covered(b)
          PROVE  Covered(b)'
      <4>1. CASE task[w].begin = b
          BY <1>2, <2>2, <3>1, <3>2, <4>1 DEF Covered
      <4>2. CASE task[w].begin # b
          BY <1>2, <2>2, <3>3, <3>4, <4>2 DEF Covered
      <4> QED
          BY <4>1, <4>2
    <3> QED
        BY <1>2, <2>2, <3>4 DEF EveryCutTested, InRound
  <2> QED
      BY <2>3, <2>4
<1>8. CASE TakeIndex(w)
  <2>1. fail_n' # 0
      BY <1>1, <1>8 DEF TakeIndex
  <2> QED
      BY <2>1 DEF EveryCutTested
<1> QED
    BY <1>3, <1>4, <1>5, <1>6, <1>7, <1>8 DEF WorkerStep
-----------------------------------------------------------------------------
(* The rounds.                                                             *)

(* A selected file is a step of the abstract rounds.                       *)
LEMMA SelectReduces ==
    ASSUME RangeAssumption, IInv, RecordsInv, Select
    PROVE  Reduction!Reduce \/ UNCHANGED Reduction!vars
<1>1. /\ BlockInUse /\ IndexesFilled /\ main = "select" /\ rs = r_size /\ r_size > 0
      /\ input_size = Len(disk[input_path]) /\ judge' = judge /\ main' # "done"
      /\ disk[input_path] \in Candidates /\ rs \in Nat /\ rs <= Len(disk[input_path])
    BY DEF RecordsInv, CutsWritten, Select, IInv, RoundBounds, TypeOK, MainTypeOK,
       FileTypeOK
<1>2. PICK k \in 0 .. fail_n - 1 : \E found \in {Recorded(k), Slot(k)} :
        \/ /\ found \in DOMAIN disk
           /\ disk' = Renamed(disk, found, FailPath(total_fail_n + 1))
           /\ input_path' = FailPath(total_fail_n + 1)
           /\ r_size' = NextSize(rs, input_size)
        \/ UNCHANGED <<disk, input_path, r_size>>
    BY DEF Select
<1>3. Stored(k) /\ Recorded(k) = Records[k + 1] /\ Slot(k) = Records[k + 1]
    BY <1>1, AllStored
<1>4. CASE /\ disk' = Renamed(disk, Records[k + 1], FailPath(total_fail_n + 1))
           /\ input_path' = FailPath(total_fail_n + 1)
           /\ r_size' = NextSize(rs, input_size)
  <2> DEFINE s == disk[Records[k + 1]]
  <2>1. disk'[input_path'] = s
      BY <1>4 DEF Renamed
  <2>2. s \in Cuts(disk[input_path], r_size) /\ TRUE \in judge[s]
      BY <1>1, <1>3 DEF Stored, ShowsFailure
  <2>3. s \in Reduction!Cuts(disk[input_path], r_size)
      BY <2>2 DEF Cuts, Cut, Reduction!Cuts, Reduction!Cut
  <2> HIDE DEF s
  <2>4. Len(disk[input_path]) \in Nat /\ Len(s) = Len(disk[input_path]) - r_size
      BY <1>1, <2>2, CutsLength
  <2>5. r_size' = Reduction!NextSize(r_size, Len(s))
      BY <1>1, <1>4, <2>4 DEF NextSize, Lesser, Reduction!NextSize, Reduction!Lesser
  <2> QED
      BY <1>1, <2>1, <2>2, <2>3, <2>5 DEF Reduction!Reduce, Reduction!MayFail
<1>5. CASE UNCHANGED <<disk, input_path, r_size>>
    BY <1>1, <1>5 DEF Reduction!vars
<1> QED
    BY <1>2, <1>3, <1>4, <1>5

(* A round without a record has tested every cut.                          *)
LEMMA NextRangeNarrows ==
    ASSUME RangeAssumption, IInv, RecordsInv, NextRange
    PROVE  Reduction!Narrow
<1>1. /\ EveryCutTested /\ main = "select" /\ fail_n = 0 /\ rs = r_size /\ r_size > 0
      /\ input_size = Len(disk[input_path]) /\ r_size' = r_size - 1
      /\ UNCHANGED <<judge, disk, input_path>> /\ main' = "round"
    BY DEF RecordsInv, CutsWritten, NextRange, Smaller, IInv, RoundBounds, inputVars,
       fileVars
<1>2. Holding = {} /\ queue = <<>>
    BY <1>1, IdleOutsideRound, NothingLeft
<1>3. \A b \in 0 .. input_size - rs : judge[Cut(disk[input_path], b, rs, input_size)] # {TRUE}
  <2> TAKE b \in 0 .. input_size - rs
  <2>1. Covered(b)
      BY <1>1 DEF EveryCutTested, LastBegin
  <2>2. 1 .. Len(queue) = {}
      BY <1>2
  <2>3. \A w \in Workers : at[w] \notin {"cut", "test", "record"}
      BY <1>2 DEF Holding
  <2> QED
      BY <1>1, <2>1, <2>2, <2>3 DEF Covered
<1>4. \A s \in Reduction!Cuts(disk[input_path], r_size) : ~Reduction!MustFail(s)
    BY <1>1, <1>3 DEF Cut, Reduction!Cuts, Reduction!Cut, Reduction!MustFail
<1> QED
    BY <1>1, <1>4 DEF Reduction!Narrow, Reduction!Smaller

LEMMA RoundSimulation ==
    ASSUME RangeAssumption, IInv, RecordsInv, [Next]_vars
    PROVE  [Reduction!Next]_(Reduction!vars)
<1>1. CASE Select
    BY <1>1, SelectReduces DEF Reduction!Next
<1>2. CASE NextRange
    BY <1>2, NextRangeNarrows DEF Reduction!Next
<1>3. CASE Return
    BY <1>3 DEF Return, inputVars, Reduction!Next, Reduction!Return
<1>4. CASE CopyInput \/ CopyRefused \/ StartRound \/ Push \/ Post \/ AwaitEnd
  <2>1. main # "done" /\ main' # "done" /\ UNCHANGED <<disk, input_path, r_size, judge>>
      BY <1>4 DEF CopyInput, CopyRefused, StartRound, Push, Post, AwaitEnd, PushOrWait,
         inputVars, fileVars
  <2> QED
      BY <2>1 DEF Reduction!vars
<1>5. ASSUME NEW w \in Workers, WorkerStep(w)
      PROVE  UNCHANGED Reduction!vars
  <2>1. /\ main # "done" /\ main' \in {main, "exit"}
        /\ UNCHANGED <<input_path, r_size, judge>>
      BY <1>5 DEF WorkerStep, TakeToken, Pop, WriteCut, Test, TakeIndex, CheckRoom,
         ReadMax, Double,
         ReadSize, Realloc, Assign, Store, Close, Unlock, At, Running, mainVars, inputVars
  <2>2. disk'[input_path] = disk[input_path]
    <3>1. CASE WriteCut(w)
        BY <3>1, WriteEffect DEF RecordsInv
    <3>2. CASE ~WriteCut(w)
        BY <1>5, <3>2 DEF WorkerStep, TakeToken, Pop, Test, TakeIndex, CheckRoom,
           ReadMax, Double,
           ReadSize, Realloc, Assign, Store, Close, Unlock, fileVars
    <3> QED
        BY <3>1, <3>2
  <2> QED
      BY <2>1, <2>2 DEF Reduction!vars
<1>6. CASE UNCHANGED vars
    BY <1>6 DEF vars, mainVars, inputVars, fileVars, Reduction!vars
<1> QED
    BY <1>1, <1>2, <1>3, <1>4, <1>5, <1>6 DEF Next, MainStep, Ended

(* A block size is given up only when every cut of that size was tested,   *)
(* and a failure leaves a size for every cut the new input still has.      *)
LEMMA SizesStep ==
    ASSUME RangeAssumption, IInv, RecordsInv, [Next]_vars
    PROVE  SizesTried'
<1>1. /\ SizesTried /\ disk[input_path] \in Candidates /\ r_size \in Int
      /\ r_size < Len(disk[input_path]) /\ Len(disk[input_path]) \in Nat
    BY DEF RecordsInv, CutsWritten, IInv, RoundBounds, TypeOK, MainTypeOK, FileTypeOK,
       RangeAssumption
<1>2. \A s, k : Reduction!Cuts(s, k) = Cuts(s, k)
    BY DEF Reduction!Cuts, Reduction!Cut, Cuts, Cut
<1>3. [Reduction!Next]_(Reduction!vars)
    BY RoundSimulation
<1>4. CASE Reduction!Reduce
  <2>1. PICK s \in Cuts(disk[input_path], r_size) :
          /\ disk'[input_path'] = s
          /\ r_size' = Reduction!NextSize(r_size, Len(s))
      BY <1>2, <1>4 DEF Reduction!Reduce
  <2>2. r_size > 0 /\ main' # "done"
      BY <1>1, <1>4 DEF Reduction!Reduce, SizesTried
  <2>3. Len(s) \in Nat
    <3>1. r_size \in Nat /\ r_size <= Len(disk[input_path])
        BY <1>1, <2>2
    <3>2. Len(s) = Len(disk[input_path]) - r_size
        BY <1>1, <3>1, CutsLength
    <3> QED
        BY <1>1, <3>1, <3>2
  <2>4. r_size' <= 0 => Len(s) <= 1
      BY <1>1, <2>1, <2>2, <2>3 DEF Reduction!NextSize, Reduction!Lesser
  <2> QED
      BY <2>1, <2>2, <2>4 DEF SizesTried
<1>5. CASE Reduction!Narrow
  <2>1. /\ r_size > 0 /\ r_size' = r_size - 1 /\ judge' = judge
        /\ disk'[input_path'] = disk[input_path]
        /\ (main' = "done") = (main = "done")
      BY <1>5 DEF Reduction!Narrow, Reduction!Smaller
  <2>2. \A s \in Cuts(disk[input_path], r_size) : judge[s] # {TRUE}
      BY <1>2, <1>5 DEF Reduction!Narrow, Reduction!MustFail
  <2>3. main' # "done"
      BY <1>1, <2>1 DEF SizesTried
  <2>4. r_size' <= 0 => r_size = 1
      BY <1>1, <2>1
  <2> QED
      BY <2>1, <2>2, <2>3, <2>4 DEF SizesTried
<1>6. CASE Reduction!Return
  <2>1. /\ r_size <= 0 /\ r_size' = r_size /\ judge' = judge
        /\ disk'[input_path'] = disk[input_path]
      BY <1>6 DEF Reduction!Return
  <2> QED
      BY <1>1, <2>1 DEF SizesTried
<1>7. CASE UNCHANGED Reduction!vars
  <2>1. /\ disk'[input_path'] = disk[input_path] /\ r_size' = r_size /\ judge' = judge
        /\ (main' = "done") = (main = "done")
      BY <1>7 DEF Reduction!vars
  <2>2. main' = "done" => r_size' <= 0
      BY <1>1, <2>1 DEF SizesTried
  <2> QED
      BY <1>1, <2>1, <2>2 DEF SizesTried
<1> QED
    BY <1>3, <1>4, <1>5, <1>6, <1>7 DEF Reduction!Next
-----------------------------------------------------------------------------
(* RecordsInv is inductive relative to IInv and GrowsAlone.                *)
LEMMA RecordsInit == RangeAssumption /\ RoomAssumption /\ Init => RecordsInv
<1> SUFFICES ASSUME RangeAssumption, RoomAssumption, Init
             PROVE  RecordsInv
    OBVIOUS
<1>1. main = "copy"
    BY DEF Init
<1>2. SizesTried
  <2>1. Len(disk[input_path]) \in Nat /\ r_size = Len(disk[input_path]) - 1
      BY DEF Init, RangeAssumption
  <2>2. r_size <= 0 => Len(disk[input_path]) <= 1
      BY <2>1
  <2> QED
      BY <1>1, <2>2 DEF SizesTried
<1> QED
    BY <1>1, <1>2, InitBlock, InitCuts
    DEF RecordsInv, IndexesFilled, EveryCutTested, InRound

LEMMA RecordsStep ==
    RangeAssumption /\ IInv /\ RecordsInv /\ GrowsAlone /\ [Next]_vars => RecordsInv'
<1> SUFFICES ASSUME RangeAssumption, IInv, RecordsInv, GrowsAlone, [Next]_vars
             PROVE  RecordsInv'
    OBVIOUS
<1>0. SizesTried'
    BY SizesStep
<1>1. CASE MainStep
    BY <1>0, <1>1, BlockMain, CutsMain, IndexesMain, CoveredMain DEF RecordsInv
<1>2. ASSUME NEW w \in Workers, WorkerStep(w)
      PROVE  RecordsInv'
    BY <1>0, <1>2, BlockWorker, CutsWorker, IndexesWorker, CoveredWorker DEF RecordsInv
<1>3. CASE UNCHANGED vars
  <2> USE <1>3 DEF vars, mainVars, inputVars, queueVars, failVars, localVars, outVars,
                   fileVars
  <2>1. Wrote' = Wrote /\ SawFailure' = SawFailure /\ Records' = Records
      BY DEF Wrote, SawFailure, Recording, Records
  <2>2. BlockInUse' /\ Recording' = Recording
      BY BlockFrame DEF RecordsInv
  <2>3. CutsWritten'
      BY <2>1, CutsFrame DEF RecordsInv
  <2>4. IndexesFilled'
      BY <2>1, <2>2, IndexesFrame DEF RecordsInv
  <2>5. EveryCutTested'
      BY CoveredFrame DEF RecordsInv
  <2> QED
      BY <1>0, <2>2, <2>3, <2>4, <2>5 DEF RecordsInv
<1> QED
    BY <1>1, <1>2, <1>3 DEF Next, Ended

(* The recorded files, their indexes and the block positions of the round  *)
(* stay in step as long as no worker uses fail_arr while another one grows *)
(* it.                                                                     *)
LEMMA RecordsWhileAlone == Spec /\ []GrowsAlone => []RecordsInv
<1>1. Init => RecordsInv
    BY RangeAssumption, RoomAssumption, RecordsInit
<1>2. IInv /\ RecordsInv /\ GrowsAlone /\ [Next]_vars => RecordsInv'
    BY RangeAssumption, RecordsStep
<1> QED
    BY <1>1, <1>2, IInvAlways, PTL DEF Spec

(* From RecordsInv to what the main thread finds in fail_arr, and to the   *)
(* result.                                                                 *)
LEMMA KeptFromRecords == RangeAssumption /\ IInv /\ RecordsInv => FailuresKept
<1> SUFFICES ASSUME RangeAssumption, IInv, RecordsInv, main = "select"
             PROVE  /\ \A k \in 0 .. fail_n - 1 :
                          /\ Recorded(k) \in DOMAIN disk
                          /\ disk[Recorded(k)] \in Cuts(disk[input_path], rs)
                          /\ TRUE \in judge[disk[Recorded(k)]]
                    /\ \A k, l \in 0 .. fail_n - 1 : Recorded(k) = Recorded(l) => k = l
                    /\ input_size = Len(disk[input_path])
    BY DEF FailuresKept
<1>1. \A k \in 0 .. fail_n - 1 :
         ~Pending(k) /\ Stored(k) /\ Recorded(k) = Records[k + 1]
    BY AllStored DEF RecordsInv
<1>2. \A k \in 0 .. fail_n - 1 :
         /\ Recorded(k) \in DOMAIN disk
         /\ disk[Recorded(k)] \in Cuts(disk[input_path], rs)
         /\ TRUE \in judge[disk[Recorded(k)]]
    BY <1>1 DEF Stored, ShowsFailure
<1>3. \A k, l \in 0 .. fail_n - 1 : Recorded(k) = Recorded(l) => k = l
    BY <1>1 DEF RecordsInv, IndexesFilled
<1> QED
    BY <1>2, <1>3 DEF RecordsInv, CutsWritten

LEMMA OneMinimalFromRecords == RangeAssumption /\ IInv /\ RecordsInv => ResultOneMinimal
<1> SUFFICES ASSUME RangeAssumption, IInv, RecordsInv, main = "done", Len(disk[input_path]) > 1
             PROVE  \A s \in Cuts(disk[input_path], 1) : judge[s] # {TRUE}
    BY DEF ResultOneMinimal
<1>1. Len(disk[input_path]) \in Nat
    BY DEF IInv, TypeOK, FileTypeOK, RangeAssumption
<1>2. ~(Len(disk[input_path]) <= 1)
    BY <1>1
<1> QED
    BY <1>2 DEF RecordsInv, SizesTried
=============================================================================
