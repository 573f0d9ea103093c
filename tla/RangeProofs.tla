---------------------------- MODULE RangeProofs ----------------------------
(***************************************************************************)
(* The protocol of range() for every number of workers, every input and    *)
(* every target: the inductive invariant IInv of module Range and what     *)
(* follows from it.                                                        *)
(***************************************************************************)
EXTENDS Range, FiniteSetTheorems, SequenceTheorems, TLAPS

(* The file names are pairs of a kind and a number.                        *)
LEMMA PartNameType ==
    ASSUME THREAD_N \in Nat \ {0}, NEW w \in Workers, NEW k \in Nat
    PROVE  /\ PartName(w, k) \in Names
           /\ PartName(w, k)[1] \in {"thread", "thread.part"}
<1>1. w + THREAD_N * k \in Nat
    BY DEF Workers
<1> QED
    BY <1>1 DEF PartName, Names

(* Renaming keeps the file system a function of names to strings.          *)
LEMMA RenamedType ==
    ASSUME NEW files, DOMAIN files \subseteq Names, files \in [DOMAIN files -> Candidates],
           NEW from \in DOMAIN files, NEW to \in Names
    PROVE  /\ DOMAIN Renamed(files, from, to) = (DOMAIN files \ {from}) \cup {to}
           /\ Renamed(files, from, to) \in [DOMAIN Renamed(files, from, to) -> Candidates]
BY DEF Renamed

(* realloc() gives an array of recorded names again.                       *)
LEMMA EnlargedType ==
    ASSUME NEW S, NEW arr \in Seq(S), NEW n \in Nat, Unset \in S
    PROVE  Enlarged(arr, n) \in Seq(S)
<1>1. \A i \in 1 .. n : (IF i <= Len(arr) THEN arr[i] ELSE Unset) \in S
    OBVIOUS
<1>2. Enlarged(arr, n) \in [1 .. n -> S]
    BY <1>1 DEF Enlarged
<1> QED
    BY <1>2

(* Popping and Holding are finite.                                         *)
LEMMA SetsFinite ==
    ASSUME THREAD_N \in Nat \ {0}
    PROVE  /\ IsFiniteSet(Workers) /\ IsFiniteSet(Popping) /\ IsFiniteSet(Holding)
           /\ Cardinality(Popping) \in Nat /\ Cardinality(Holding) \in Nat
<1>1. IsFiniteSet(Workers)
    BY FS_Interval DEF Workers
<1>2. IsFiniteSet(Popping) /\ IsFiniteSet(Holding)
    BY <1>1, FS_Subset DEF Popping, Holding
<1> QED
    BY <1>1, <1>2, FS_CardinalityType
-----------------------------------------------------------------------------
(* Type correctness is preserved by every step.                            *)
LEMMA InitType == RangeAssumption /\ Init => TypeOK
<1> SUFFICES ASSUME RangeAssumption, Init
             PROVE  TypeOK
    OBVIOUS
<1>1. PICK s \in Inputs : /\ disk = [m \in {<<"input", 0>>} |-> s]
                          /\ input_size = Len(s)
                          /\ r_size = Len(s) - 1
    BY DEF Init
<1>2. s \in Candidates /\ Len(s) \in Nat
    BY DEF RangeAssumption
<1>3. <<"input", 0>> \in Names
    BY DEF Names
<1>4. /\ DOMAIN disk \subseteq Names /\ disk \in [DOMAIN disk -> Candidates]
      /\ input_path \in DOMAIN disk /\ input_size \in Nat /\ r_size \in Int
    BY <1>1, <1>2, <1>3 DEF Init
<1>5. heap \in Seq([live : BOOLEAN, arr : Seq(Names \cup {Unset})]) /\ Len(heap) = 1
  <2>1. [i \in 1 .. FAIL_MAX |-> Unset] \in Seq(Names \cup {Unset})
      BY DEF RangeAssumption
  <2> QED
      BY <2>1 DEF Init
<1>6. out_files \in [Workers -> Names]
    BY PartNameType DEF Init, RangeAssumption
<1>7. /\ DOMAIN copies \subseteq Workers /\ copies \in [DOMAIN copies -> Candidates]
      /\ judge \in Judges
    BY DEF Init, RangeAssumption
<1>8. /\ at \in [Workers -> Locations]
      /\ task \in [Workers -> [rs : Nat, begin : Nat]]
      /\ fail_idx \in [Workers -> Nat] /\ read_max \in [Workers -> Nat]
      /\ grown \in [Workers -> 0 .. Len(heap)]
      /\ fail_stack \in [Workers -> Nat]
    BY <1>5 DEF Init, Locations
<1>9. end_mt \in Workers \cup {NoOne}
    BY DEF Init
<1> QED
    BY <1>4, <1>5, <1>6, <1>7, <1>8, <1>9 DEF Init, RangeAssumption,
       TypeOK, MainTypeOK, SyncTypeOK, FailTypeOK, WorkerTypeOK, FileTypeOK

(* A step that leaves the variables of one part of TypeOK alone.           *)
LEMMA TypeUnchanged ==
    /\ MainTypeOK /\ UNCHANGED <<mainVars, inputVars>> => MainTypeOK'
    /\ SyncTypeOK /\ UNCHANGED <<endVars, queueVars>> => SyncTypeOK'
    /\ FailTypeOK /\ UNCHANGED <<failVars, read_max, grown>> => FailTypeOK'
    /\ WorkerTypeOK /\ UNCHANGED <<at, task, fail_idx, outVars>> => WorkerTypeOK'
    /\ FileTypeOK /\ UNCHANGED <<input_path, fileVars>> => FileTypeOK'
<1>1. MainTypeOK /\ UNCHANGED <<mainVars, inputVars>> => MainTypeOK'
    BY DEF MainTypeOK, mainVars, inputVars
<1>2. SyncTypeOK /\ UNCHANGED <<endVars, queueVars>> => SyncTypeOK'
    BY DEF SyncTypeOK, endVars, queueVars
<1>3. FailTypeOK /\ UNCHANGED <<failVars, read_max, grown>> => FailTypeOK'
    BY DEF FailTypeOK, failVars
<1>4. WorkerTypeOK /\ UNCHANGED <<at, task, fail_idx, outVars>> => WorkerTypeOK'
    BY DEF WorkerTypeOK, outVars
<1>5. FileTypeOK /\ UNCHANGED <<input_path, fileVars>> => FileTypeOK'
    BY DEF FileTypeOK, fileVars
<1> QED
    BY <1>1, <1>2, <1>3, <1>4, <1>5

LEMMA MainType ==
    ASSUME RangeAssumption, IInv, MainStep
    PROVE  TypeOK'
<1>1. /\ MainTypeOK /\ SyncTypeOK /\ FailTypeOK /\ WorkerTypeOK /\ FileTypeOK
      /\ judge \in Judges /\ RoundBounds
    BY DEF IInv, TypeOK
<1>2. FailTypeOK' /\ judge' \in Judges
  <2>1. CASE StartRound
      BY <1>1, <2>1 DEF StartRound, localVars, FailTypeOK
  <2>2. CASE ~StartRound
    <3>1. UNCHANGED <<failVars, localVars, judge>>
        BY <2>2 DEF MainStep, CopyInput, CopyRefused, Push, Post, AwaitEnd, Select,
           NextRange, Return
    <3> QED
        BY <1>1, <3>1, TypeUnchanged DEF localVars
  <2> QED
      BY <1>1, <2>1, <2>2 DEF StartRound
<1>3. WorkerTypeOK'
  <2>1. UNCHANGED <<at, localVars, outVars>>
      BY DEF MainStep, CopyInput, CopyRefused, StartRound, Push, Post, AwaitEnd,
         Select, NextRange, Return
  <2> QED
      BY <1>1, <2>1, TypeUnchanged DEF localVars
<1>4. SyncTypeOK'
  <2>1. CASE StartRound
    <3>1. NumTasks(input_size, r_size) \in Nat
        BY <1>1, <2>1 DEF StartRound, RoundBounds, NumTasks, MainTypeOK
    <3> QED
        BY <1>1, <2>1, <3>1 DEF StartRound, SyncTypeOK, queueVars
  <2>2. CASE Push
    <3>1. r_size \in Nat /\ begin \in Nat
        BY <1>1, <2>2 DEF Push, RoundBounds, InRound, MainTypeOK
    <3> QED
        BY <1>1, <2>2, <3>1 DEF Push, SyncTypeOK, endVars
  <2>3. CASE Post
      BY <1>1, <2>3 DEF Post, SyncTypeOK, endVars
  <2>4. CASE AwaitEnd
      BY <1>1, <2>4 DEF AwaitEnd, SyncTypeOK, queueVars
  <2>5. CASE ~(StartRound \/ Push \/ Post \/ AwaitEnd)
    <3>1. UNCHANGED <<endVars, queueVars>>
        BY <2>5 DEF MainStep, CopyInput, CopyRefused, Select, NextRange, Return
    <3> QED
        BY <1>1, <3>1, TypeUnchanged
  <2> QED
      BY <2>1, <2>2, <2>3, <2>4, <2>5
<1>5. FileTypeOK'
  <2>1. CASE CopyInput
      BY <1>1, <2>1 DEF CopyInput, FileTypeOK, inputVars
  <2>2. CASE CopyRefused
    <3>1. PICK first \in DOMAIN copies :
              copies' = [w \in DOMAIN copies \cup 0 .. first - 1 |->
                            IF w < first THEN disk[input_path] ELSE copies[w]]
        BY <2>2 DEF CopyRefused
    <3>2. \A w \in 0 .. first - 1 : w \in Workers /\ w < first
      <4>1. THREAD_N \in Nat
          BY DEF RangeAssumption
      <4>2. first \in 0 .. THREAD_N - 1
          BY <1>1 DEF Workers, FileTypeOK
      <4> QED
          BY <4>1, <4>2 DEF Workers
    <3>3. \A w \in DOMAIN copies \cup 0 .. first - 1 :
              /\ w \in Workers
              /\ (IF w < first THEN disk[input_path] ELSE copies[w]) \in Candidates
        BY <1>1, <3>2 DEF FileTypeOK
    <3>4. DOMAIN copies' \subseteq Workers /\ copies' \in [DOMAIN copies' -> Candidates]
        BY <3>1, <3>3
    <3> QED
        BY <1>1, <2>2, <3>4 DEF CopyRefused, FileTypeOK, inputVars
  <2>3. CASE Select
    <3> DEFINE fail_path == FailPath(total_fail_n + 1)
    <3>1. \/ /\ copies' = NoCopies /\ input_path' = fail_path
             /\ \E found \in DOMAIN disk : disk' = Renamed(disk, found, fail_path)
          \/ UNCHANGED <<disk, copies, input_path>>
        BY <2>3 DEF Select
    <3>2. fail_path \in Names
        BY <1>1 DEF FailPath, Names, MainTypeOK
    <3>3. DOMAIN NoCopies = {} /\ NoCopies \in [DOMAIN NoCopies -> Candidates]
        BY DEF NoCopies
    <3>4. CASE /\ copies' = NoCopies /\ input_path' = fail_path
               /\ \E found \in DOMAIN disk : disk' = Renamed(disk, found, fail_path)
      <4>1. PICK found \in DOMAIN disk : disk' = Renamed(disk, found, fail_path)
          BY <3>4
      <4> HIDE DEF fail_path
      <4>2. DOMAIN disk \subseteq Names /\ disk \in [DOMAIN disk -> Candidates]
          BY <1>1 DEF FileTypeOK
      <4>3. /\ DOMAIN Renamed(disk, found, fail_path)
                 = (DOMAIN disk \ {found}) \cup {fail_path}
            /\ Renamed(disk, found, fail_path)
                 \in [DOMAIN Renamed(disk, found, fail_path) -> Candidates]
          BY <3>2, <4>2, RenamedType
      <4> QED
          BY <3>2, <3>3, <3>4, <4>1, <4>2, <4>3 DEF FileTypeOK
    <3>5. CASE UNCHANGED <<disk, copies, input_path>>
        BY <1>1, <3>5, TypeUnchanged DEF fileVars
    <3> QED
        BY <3>1, <3>4, <3>5
  <2>4. CASE Return
      BY <1>1, <2>4 DEF Return, FileTypeOK, inputVars, NoCopies
  <2>5. CASE ~(CopyInput \/ CopyRefused \/ Select \/ Return)
    <3>1. UNCHANGED <<input_path, fileVars>>
        BY <2>5 DEF MainStep, StartRound, Push, Post, AwaitEnd, NextRange, inputVars
    <3> QED
        BY <1>1, <3>1, TypeUnchanged
  <2> QED
      BY <2>1, <2>2, <2>3, <2>4, <2>5
<1>6. MainTypeOK'
  <2>1. CASE StartRound
      BY <1>1, <2>1 DEF StartRound, PushOrWait, MainTypeOK
  <2>2. CASE Post
      BY <1>1, <2>2 DEF Post, PushOrWait, MainTypeOK, inputVars
  <2>3. CASE Select
    <3>1. input_size - rs \in Nat /\ NextSize(rs, input_size) \in Int
        BY <1>1, <2>3 DEF Select, RoundBounds, NextSize, Lesser, MainTypeOK
    <3> QED
        BY <1>1, <2>3, <3>1 DEF Select, MainTypeOK
  <2>4. CASE CopyInput \/ CopyRefused \/ Push \/ AwaitEnd \/ Return
      BY <1>1, <2>4 DEF CopyInput, CopyRefused, Push, AwaitEnd, Return, MainTypeOK,
         inputVars
  <2>5. CASE NextRange
      BY <1>1, <2>5 DEF NextRange, Smaller, MainTypeOK, inputVars
  <2> QED
      BY <2>1, <2>2, <2>3, <2>4, <2>5 DEF MainStep
<1> QED
    BY <1>2, <1>3, <1>4, <1>5, <1>6 DEF TypeOK

(* A block cut out of a copy leaves a candidate.                           *)
LEMMA CutCandidate ==
    ASSUME RangeAssumption, NEW s \in Candidates,
           NEW b \in Nat, NEW k \in Nat, NEW n \in Nat, b + k <= n, n <= Len(s)
    PROVE  Cut(s, b, k, n) \in Candidates
<1>1. s \in Seq(0 .. 255)
    BY DEF RangeAssumption
<1>2. b \in 0 .. Len(s) /\ k \in 0 .. Len(s) /\ n \in 0 .. Len(s)
    BY <1>1
<1> QED
    BY <1>2 DEF RangeAssumption

LEMMA WorkerType ==
    ASSUME RangeAssumption, IInv, NEW w \in Workers, WorkerStep(w)
    PROVE  TypeOK'
<1>1. /\ MainTypeOK /\ SyncTypeOK /\ FailTypeOK /\ WorkerTypeOK /\ FileTypeOK
      /\ judge \in Judges /\ THREAD_N \in Nat \ {0} /\ at[w] \in Locations
    BY DEF IInv, TypeOK, WorkerTypeOK, RangeAssumption
<1>2. judge' \in Judges
    BY <1>1 DEF WorkerStep, TakeToken, Pop, WriteCut, Test, TakeIndex, CheckRoom,
       ReadMax, Double, ReadSize, Realloc, Assign, Store, Close, Unlock
<1>3. MainTypeOK'
  <2>1. UNCHANGED <<r_size, begin, inputVars>> /\ main' \in {main, "exit"}
      BY DEF WorkerStep, TakeToken, Pop, WriteCut, Test, TakeIndex, CheckRoom,
         ReadMax, Double, ReadSize, Realloc, Assign, Store, Close, Unlock, mainVars
  <2> QED
      BY <1>1, <2>1 DEF MainTypeOK, inputVars
<1>4. SyncTypeOK'
  <2>1. CASE TakeToken(w)
      BY <1>1, <2>1 DEF TakeToken, SyncTypeOK, endVars
  <2>2. CASE Pop(w)
    <3>1. queue # <<>> => Tail(queue) \in Seq([rs : Nat, begin : Nat])
        BY <1>1, HeadTailProperties DEF SyncTypeOK
    <3> QED
        BY <1>1, <2>2, <3>1 DEF Pop, Popped, SyncTypeOK, endVars
  <2>3. CASE Close(w)
    <3>1. w \in Holding /\ main # "exit"
        BY <2>3 DEF Close, At, Running, Holding
    <3>2. Cardinality(Holding) # 0 /\ Cardinality(Holding) \in Nat
        BY <1>1, <3>1, SetsFinite, FS_EmptySet
    <3>3. existing = ToPush + Len(queue) + Cardinality(Holding)
        BY <3>1 DEF IInv, ExistingCountsTasks
    <3>4. ToPush \in Nat
        BY <1>1, <3>1 DEF ToPush, IInv, RoundBounds, NumTasks, LastBegin, MainTypeOK
    <3>5. existing - 1 \in Nat
        BY <1>1, <3>2, <3>3, <3>4 DEF SyncTypeOK
    <3> QED
        BY <1>1, <2>3, <3>5 DEF Close, EndSignal, SyncTypeOK, queueVars
  <2>4. CASE Unlock(w)
      BY <1>1, <2>4 DEF Unlock, SyncTypeOK, queueVars
  <2>5. CASE ~(TakeToken(w) \/ Pop(w) \/ Close(w) \/ Unlock(w))
    <3>1. UNCHANGED <<endVars, queueVars>>
        BY <2>5 DEF WorkerStep, WriteCut, Test, TakeIndex, CheckRoom, ReadMax, Double,
           ReadSize, Realloc,
           Assign, Store
    <3> QED
        BY <1>1, <3>1, TypeUnchanged
  <2> QED
      BY <2>1, <2>2, <2>3, <2>4, <2>5
<1>5. FailTypeOK'
  <2>1. CASE TakeIndex(w)
      BY <1>1, <2>1 DEF TakeIndex, FailTypeOK
  <2>2. CASE Double(w)
      BY <1>1, <2>2 DEF Double, Doubled, FailTypeOK, localVars
  <2>3. CASE Realloc(w)
    <3> DEFINE HeapBlock == [live : BOOLEAN, arr : Seq(Names \cup {Unset})]
               more  == [live |-> TRUE, arr |-> Enlarged(heap[fail_arr].arr, read_max[w])]
    <3>1. heap[fail_arr] \in HeapBlock /\ more \in HeapBlock
      <4>1. heap \in Seq(HeapBlock) /\ fail_arr \in 1 .. Len(heap) /\ read_max[w] \in Nat
          BY <1>1 DEF FailTypeOK
      <4>2. heap[fail_arr] \in HeapBlock
          BY <4>1, ElementOfSeq
      <4>3. heap[fail_arr].arr \in Seq(Names \cup {Unset}) /\ Unset \in Names \cup {Unset}
          BY <4>2
      <4>4. Enlarged(heap[fail_arr].arr, read_max[w]) \in Seq(Names \cup {Unset})
          BY <4>1, <4>3, EnlargedType
      <4> QED
          BY <4>2, <4>4
    <3>2. [heap[fail_arr] EXCEPT !.live = FALSE] \in HeapBlock
        BY <3>1
    <3>3. heap \in Seq(HeapBlock) /\ fail_arr \in 1 .. Len(heap)
          /\ grown \in [Workers -> 0 .. Len(heap)]
        BY <1>1 DEF FailTypeOK
    <3>4. \/ /\ heap' = [heap EXCEPT ![fail_arr] = more]
             /\ grown' = [grown EXCEPT ![w] = fail_arr]
          \/ /\ heap' = Append([heap EXCEPT ![fail_arr].live = FALSE], more)
             /\ grown' = [grown EXCEPT ![w] = Len(heap) + 1]
          \/ heap' = heap /\ grown' = grown
        BY <2>3 DEF Realloc
    <3>5. /\ heap' \in Seq(HeapBlock) /\ Len(heap') >= Len(heap)
          /\ grown' \in [Workers -> 0 .. Len(heap')]
      <4>1. CASE /\ heap' = [heap EXCEPT ![fail_arr] = more]
                 /\ grown' = [grown EXCEPT ![w] = fail_arr]
          BY <3>1, <3>3, <4>1, ExceptSeq
      <4>2. CASE /\ heap' = Append([heap EXCEPT ![fail_arr].live = FALSE], more)
                 /\ grown' = [grown EXCEPT ![w] = Len(heap) + 1]
        <5> DEFINE moved == [heap EXCEPT ![fail_arr].live = FALSE]
        <5>1. moved \in Seq(HeapBlock) /\ Len(moved) = Len(heap)
            BY <3>2, <3>3, ExceptSeq
        <5> HIDE DEF HeapBlock, more, moved
        <5>2. heap' \in Seq(HeapBlock) /\ Len(heap') = Len(heap) + 1
            BY <3>1, <4>2, <5>1, AppendProperties DEF moved
        <5>3. Len(heap) + 1 \in 0 .. Len(heap') /\ 0 .. Len(heap) \subseteq 0 .. Len(heap')
            BY <3>3, <5>2
        <5> QED
            BY <3>3, <4>2, <5>2, <5>3
      <4>3. CASE heap' = heap /\ grown' = grown
          BY <3>3, <4>3
      <4> QED
          BY <3>4, <4>1, <4>2, <4>3
    <3> QED
        BY <1>1, <2>3, <3>5 DEF Realloc, FailTypeOK
  <2>4. CASE Assign(w)
    <3>1. grown[w] \in 1 .. Len(heap)
        BY <1>1, <2>4 DEF Assign, At, IInv, WorkerLocals, FailTypeOK
    <3> QED
        BY <1>1, <2>4, <3>1 DEF Assign, FailTypeOK, localVars
  <2>5. CASE Store(w)
    <3> DEFINE HeapBlock == [live : BOOLEAN, arr : Seq(Names \cup {Unset})]
               slot  == fail_idx[w] + 1
               block == heap[fail_arr]
    <3>1. /\ out_files[w] \in Names \cup {Unset} /\ slot \in Nat \ {0}
        BY <1>1 DEF WorkerTypeOK
    <3>2. heap \in Seq(HeapBlock) /\ fail_arr \in 1 .. Len(heap) /\ block \in HeapBlock
        BY <1>1, ElementOfSeq DEF FailTypeOK
    <3>3. \/ heap' = heap
          \/ /\ slot <= Len(block.arr)
             /\ heap' = [heap EXCEPT ![fail_arr].arr[slot] = out_files[w]]
        BY <2>5 DEF Store
    <3>4. ASSUME slot <= Len(block.arr)
          PROVE  [block EXCEPT !.arr[slot] = out_files[w]] \in HeapBlock
      <4>1. block.arr \in Seq(Names \cup {Unset}) /\ slot \in 1 .. Len(block.arr)
          BY <3>1, <3>2, <3>4
      <4>2. [block.arr EXCEPT ![slot] = out_files[w]] \in Seq(Names \cup {Unset})
          BY <3>1, <4>1, ExceptSeq
      <4> QED
          BY <3>2, <4>2
    <3>5. heap' \in Seq(HeapBlock) /\ Len(heap') = Len(heap)
      <4> DEFINE stored == [block EXCEPT !.arr[slot] = out_files[w]]
      <4>1. CASE slot <= Len(block.arr) /\ heap' = [heap EXCEPT ![fail_arr] = stored]
        <5>1. stored \in HeapBlock
            BY <3>4, <4>1
        <5> HIDE DEF stored, HeapBlock
        <5> QED
            BY <3>2, <4>1, <5>1, ExceptSeq
      <4>2. CASE heap' = heap
          BY <3>2, <4>2
      <4> QED
          BY <3>3, <4>1, <4>2
    <3> QED
        BY <1>1, <2>5, <3>5 DEF Store, FailTypeOK, localVars
  <2>6. CASE ReadMax(w) \/ ReadSize(w)
      BY <1>1, <2>6 DEF ReadMax, ReadSize, FailTypeOK, failVars
  <2>7. CASE ~(TakeIndex(w) \/ ReadMax(w) \/ Double(w) \/ ReadSize(w) \/ Realloc(w)
               \/ Assign(w) \/ Store(w))
    <3>1. UNCHANGED <<failVars, read_max, grown>>
        BY <2>7 DEF WorkerStep, TakeToken, Pop, WriteCut, Test, CheckRoom, Close,
           Unlock, localVars
    <3> QED
        BY <1>1, <3>1, TypeUnchanged
  <2> QED
      BY <2>1, <2>2, <2>3, <2>4, <2>5, <2>6, <2>7
<1>6. FileTypeOK'
  <2>1. CASE WriteCut(w)
    <3> DEFINE cut == Cut(copies[w], task[w].begin, rs, input_size)
    <3>1. w \in Holding /\ main # "exit"
        BY <2>1 DEF WriteCut, At, Running, Holding
    <3>2. task[w].begin + rs <= input_size
        BY <3>1 DEF IInv, TasksCurrent
    <3>3. /\ copies[w] \in Candidates /\ input_size <= Len(copies[w])
          /\ out_files[w] \in Names
        BY <1>1, <2>1 DEF WriteCut, FileTypeOK, WorkerTypeOK
    <3>4. task[w].begin \in Nat /\ rs \in Nat /\ input_size \in Nat
        BY <1>1 DEF MainTypeOK, WorkerTypeOK
    <3>5. cut \in Candidates
        BY <3>2, <3>3, <3>4, CutCandidate
    <3>6. disk' = Written(disk, out_files[w], cut)
        BY <2>1 DEF WriteCut
    <3>7. /\ DOMAIN disk' = DOMAIN disk \cup {out_files[w]}
          /\ disk' \in [DOMAIN disk \cup {out_files[w]} -> Candidates]
      <4>1. DOMAIN disk \subseteq Names /\ disk \in [DOMAIN disk -> Candidates]
          BY <1>1 DEF FileTypeOK
      <4>2. out_files[w] \in Names /\ cut \in Candidates
          BY <3>3, <3>5
      <4> HIDE DEF cut
      <4>3. /\ DOMAIN Written(disk, out_files[w], cut) = DOMAIN disk \cup {out_files[w]}
            /\ Written(disk, out_files[w], cut)
                  \in [DOMAIN disk \cup {out_files[w]} -> Candidates]
          BY <4>1, <4>2 DEF Written
      <4> QED
          BY <3>6, <4>3
    <3> HIDE DEF cut
    <3> QED
        BY <1>1, <2>1, <3>3, <3>7 DEF WriteCut, FileTypeOK, inputVars
  <2>2. CASE ~WriteCut(w)
    <3>1. UNCHANGED <<input_path, fileVars>>
        BY <2>2 DEF WorkerStep, TakeToken, Pop, Test, TakeIndex, CheckRoom, ReadMax, Double,
           ReadSize, Realloc, Assign, Store, Close, Unlock, inputVars
    <3> QED
        BY <1>1, <3>1, TypeUnchanged
  <2> QED
      BY <2>1, <2>2
<1>7. WorkerTypeOK'
  <2>1. at' \in [Workers -> Locations]
    <3>1. at' = at \/ \E there \in Locations : at' = [at EXCEPT ![w] = there]
        BY DEF WorkerStep, TakeToken, Pop, WriteCut, Test, TakeIndex, CheckRoom,
           ReadMax, Double, ReadSize, Realloc, Assign, Store, Close, Unlock, Goto, Locations
    <3> QED
        BY <1>1, <3>1 DEF WorkerTypeOK
  <2>2. task' \in [Workers -> [rs : Nat, begin : Nat]]
    <3>1. CASE Pop(w)
      <4>1. queue # <<>> => Head(queue) \in [rs : Nat, begin : Nat]
          BY <1>1, HeadTailProperties DEF SyncTypeOK
      <4> QED
          BY <1>1, <3>1, <4>1 DEF Pop, WorkerTypeOK
    <3>2. CASE ~Pop(w)
        BY <1>1, <3>2 DEF WorkerStep, TakeToken, WriteCut, Test, TakeIndex, CheckRoom,
           ReadMax, Double, ReadSize, Realloc, Assign, Store, Close, Unlock, localVars,
           WorkerTypeOK
    <3> QED
        BY <3>1, <3>2
  <2>3. fail_idx' \in [Workers -> Nat]
    <3>1. CASE TakeIndex(w)
        BY <1>1, <3>1 DEF TakeIndex, WorkerTypeOK, FailTypeOK
    <3>2. CASE ~TakeIndex(w)
        BY <1>1, <3>2 DEF WorkerStep, TakeToken, Pop, WriteCut, Test, CheckRoom,
           ReadMax, Double, ReadSize, Realloc, Assign, Store, Close, Unlock, localVars,
           WorkerTypeOK
    <3> QED
        BY <3>1, <3>2
  <2>4. fail_stack' \in [Workers -> Nat] /\ out_files' \in [Workers -> Names]
    <3>1. CASE Store(w)
      <4>1. fail_stack[w] + 1 \in Nat
          BY <1>1 DEF WorkerTypeOK
      <4>2. PartName(w, fail_stack[w] + 1) \in Names
          BY <1>1, <4>1, PartNameType
      <4> QED
          BY <1>1, <3>1, <4>1, <4>2 DEF Store, WorkerTypeOK
    <3>2. CASE ~Store(w)
        BY <1>1, <3>2 DEF WorkerStep, TakeToken, Pop, WriteCut, Test, TakeIndex,
           CheckRoom, ReadMax, Double, ReadSize, Realloc, Assign, Close, Unlock, outVars,
           WorkerTypeOK
    <3> QED
        BY <3>1, <3>2
  <2> QED
      BY <2>1, <2>2, <2>3, <2>4 DEF WorkerTypeOK
<1> QED
    BY <1>2, <1>3, <1>4, <1>5, <1>6, <1>7 DEF TypeOK
-----------------------------------------------------------------------------
(* Counting.                                                               *)

(* When no task of the round is left, nothing is queued, held or awaited.  *)
LEMMA NothingLeft ==
    ASSUME RangeAssumption, IInv, main # "exit", existing = 0
    PROVE  /\ queue = <<>> /\ q_sem = 0 /\ Popping = {} /\ Holding = {}
           /\ main \notin {"push", "post"}
<1>1. /\ MainTypeOK /\ SyncTypeOK /\ THREAD_N \in Nat \ {0}
      /\ TokensMatchTasks /\ ExistingCountsTasks /\ RoundBounds
    BY DEF IInv, TypeOK, RangeAssumption
<1>2. /\ Cardinality(Popping) \in Nat /\ Cardinality(Holding) \in Nat
      /\ IsFiniteSet(Popping) /\ IsFiniteSet(Holding) /\ Len(queue) \in Nat
    BY <1>1, SetsFinite DEF SyncTypeOK
<1>3. CASE main = "push"
  <2>1. ToPush \in Nat \ {0}
      BY <1>1, <1>3 DEF ToPush, RoundBounds, NumTasks, LastBegin, MainTypeOK
  <2> QED
      BY <1>1, <1>2, <2>1 DEF ExistingCountsTasks
<1>4. CASE main = "post"
  <2>1. ToPush \in Nat
      BY <1>1, <1>4 DEF ToPush, RoundBounds, NumTasks, LastBegin, MainTypeOK
  <2>2. Len(queue) > 0
      BY <1>1, <1>2, <1>4 DEF TokensMatchTasks, SyncTypeOK
  <2> QED
      BY <1>1, <1>2, <2>1, <2>2 DEF ExistingCountsTasks
<1>5. CASE main \notin {"push", "post"}
  <2>1. ToPush = 0
      BY <1>5 DEF ToPush
  <2>2. Len(queue) = 0 /\ Cardinality(Holding) = 0
      BY <1>1, <1>2, <2>1 DEF ExistingCountsTasks, SyncTypeOK
  <2>3. q_sem = 0 /\ Cardinality(Popping) = 0
      BY <1>1, <1>2, <1>5, <2>2 DEF TokensMatchTasks, SyncTypeOK
  <2> QED
      BY <1>1, <1>2, <1>5, <2>2, <2>3, FS_EmptySet DEF SyncTypeOK
<1> QED
    BY <1>3, <1>4, <1>5

(* Outside a round no task is left.                                        *)
LEMMA IdleOutsideRound ==
    ASSUME RangeAssumption, IInv, main \in {"copy", "round", "select", "done"}
    PROVE  existing = 0 /\ terminated_sem = 0
BY DEF IInv, RoundBounds, SignalOncePerRound

(* What a worker's step does to the sets the counts are about.             *)
LEMMA SetsStep ==
    ASSUME WorkerTypeOK, NEW w \in Workers, WorkerStep(w), main' # "exit"
    PROVE  \/ /\ TakeToken(w)
              /\ w \notin Popping /\ Popping' = Popping \cup {w} /\ Holding' = Holding
           \/ /\ Pop(w)
              /\ w \in Popping /\ Popping' = Popping \ {w}
              /\ w \notin Holding /\ Holding' = Holding \cup {w}
           \/ /\ Close(w)
              /\ Popping' = Popping /\ w \in Holding /\ Holding' = Holding \ {w}
           \/ /\ UNCHANGED <<endVars, queueVars>> \/ Unlock(w)
              /\ Popping' = Popping /\ Holding' = Holding
<1> USE DEF At, Goto, Popping, Holding, WorkerTypeOK
<1>1. CASE TakeToken(w)
    BY <1>1 DEF TakeToken
<1>2. CASE Pop(w)
    BY <1>2 DEF Pop
<1>3. CASE Close(w)
    BY <1>3 DEF Close
<1>4. CASE Unlock(w)
    BY <1>4 DEF Unlock
<1>5. CASE WriteCut(w) \/ Test(w) \/ TakeIndex(w)
    BY <1>5 DEF WriteCut, Test, TakeIndex
<1>6. CASE CheckRoom(w) \/ ReadMax(w) \/ Double(w) \/ ReadSize(w) \/ Assign(w)
    BY <1>6 DEF CheckRoom, ReadMax, Double, ReadSize, Assign
<1>7. CASE Realloc(w) \/ Store(w)
    BY <1>7 DEF Realloc, Store
<1> QED
    BY <1>1, <1>2, <1>3, <1>4, <1>5, <1>6, <1>7 DEF WorkerStep

LEMMA WorkerCounts ==
    ASSUME RangeAssumption, IInv, NEW w \in Workers, WorkerStep(w)
    PROVE  TokensMatchTasks' /\ ExistingCountsTasks' /\ SignalOncePerRound'
<1> SUFFICES ASSUME main' # "exit"
             PROVE  TokensMatchTasks' /\ ExistingCountsTasks' /\ SignalOncePerRound'
    BY DEF TokensMatchTasks, ExistingCountsTasks, SignalOncePerRound
<1>1. /\ MainTypeOK /\ SyncTypeOK /\ WorkerTypeOK /\ THREAD_N \in Nat \ {0}
      /\ RoundBounds /\ TokensMatchTasks /\ ExistingCountsTasks /\ SignalOncePerRound
    BY DEF IInv, TypeOK, RangeAssumption
<1>2. /\ IsFiniteSet(Popping) /\ Cardinality(Popping) \in Nat
      /\ IsFiniteSet(Holding) /\ Cardinality(Holding) \in Nat
      /\ Len(queue) \in Nat /\ q_sem \in Nat /\ existing \in Nat
    BY <1>1, SetsFinite DEF SyncTypeOK
<1>3. main # "exit" /\ UNCHANGED <<mainVars, inputVars>>
    BY DEF WorkerStep, TakeToken, Pop, WriteCut, Test, TakeIndex, CheckRoom, ReadMax,
       Double,
       ReadSize, Realloc, Assign, Store, Close, Unlock, mainVars, At, Running
<1>4. ToPush' = ToPush /\ ToPush \in Nat
    BY <1>1, <1>3 DEF ToPush, mainVars, inputVars, RoundBounds, NumTasks, LastBegin,
       MainTypeOK
<1>5. CASE /\ TakeToken(w)
           /\ w \notin Popping /\ Popping' = Popping \cup {w} /\ Holding' = Holding
  <2>1. Cardinality(Popping') = Cardinality(Popping) + 1
      BY <1>2, <1>5, FS_AddElement
  <2> QED
      BY <1>1, <1>2, <1>3, <1>4, <1>5, <2>1
      DEF TakeToken, endVars, mainVars, TokensMatchTasks, ExistingCountsTasks,
          SignalOncePerRound
<1>6. CASE /\ Pop(w)
           /\ w \in Popping /\ Popping' = Popping \ {w}
           /\ w \notin Holding /\ Holding' = Holding \cup {w}
  <2>1. /\ Cardinality(Popping') = Cardinality(Popping) - 1
        /\ Cardinality(Holding') = Cardinality(Holding) + 1
      BY <1>2, <1>6, FS_AddElement, FS_RemoveElement
  <2>2. Len(queue') = Len(queue) - 1
      BY <1>1, <1>6, HeadTailProperties DEF Pop, Popped, SyncTypeOK
  <2>3. main' = main /\ q_sem' = q_sem /\ UNCHANGED endVars
      BY <1>3, <1>6 DEF Pop, mainVars
  <2>4. TokensMatchTasks'
    <3>1. Len(queue) = q_sem + Cardinality(Popping) + (IF main = "post" THEN 1 ELSE 0)
        BY <1>1, <1>3 DEF TokensMatchTasks
    <3>2. Len(queue') =
            q_sem' + Cardinality(Popping') + (IF main' = "post" THEN 1 ELSE 0)
        BY <1>2, <2>1, <2>2, <2>3, <3>1
    <3> QED
        BY <3>2 DEF TokensMatchTasks
  <2>5. ExistingCountsTasks'
    <3>1. existing = ToPush + Len(queue) + Cardinality(Holding)
        BY <1>1, <1>3 DEF ExistingCountsTasks
    <3>2. existing' = ToPush' + Len(queue') + Cardinality(Holding')
        BY <1>2, <1>4, <2>1, <2>2, <2>3, <3>1 DEF endVars
    <3> QED
        BY <3>2 DEF ExistingCountsTasks
  <2>6. SignalOncePerRound'
      BY <1>1, <2>3 DEF SignalOncePerRound, endVars
  <2> QED
      BY <2>4, <2>5, <2>6
<1>7. CASE /\ Close(w)
           /\ Popping' = Popping /\ w \in Holding /\ Holding' = Holding \ {w}
  <2>1. Cardinality(Holding') = Cardinality(Holding) - 1
      BY <1>2, <1>7, FS_RemoveElement
  <2>2. Cardinality(Holding) # 0
      BY <1>2, <1>7, FS_EmptySet
  <2>3. TokensMatchTasks' /\ ExistingCountsTasks'
      BY <1>1, <1>2, <1>3, <1>4, <1>7, <2>1
      DEF Close, queueVars, mainVars, TokensMatchTasks, ExistingCountsTasks
  <2>4. existing > 0
      BY <1>1, <1>2, <1>3, <1>4, <2>2 DEF ExistingCountsTasks
  <2>5. terminated_sem = 0
      BY <1>1, <1>3, <2>4 DEF SignalOncePerRound
  <2>6. ASSUME existing = 1
        PROVE  main = "wait"
    <3>1. ToPush = 0 /\ Len(queue) = 0
        BY <1>1, <1>2, <1>3, <1>4, <2>2, <2>6 DEF ExistingCountsTasks
    <3>2. main # "post"
        BY <1>1, <1>2, <3>1 DEF TokensMatchTasks
    <3>3. main # "push"
        BY <1>1, <3>1 DEF ToPush, RoundBounds, NumTasks, LastBegin, MainTypeOK
    <3> QED
        BY <1>1, <1>3, <2>6, <3>2, <3>3 DEF RoundBounds, MainTypeOK
  <2>7. SignalOncePerRound'
      BY <1>2, <1>3, <1>7, <2>4, <2>5, <2>6
      DEF Close, EndSignal, SignalOncePerRound, mainVars
  <2> QED
      BY <2>3, <2>7
<1>8. CASE /\ UNCHANGED <<endVars, queueVars>> \/ Unlock(w)
           /\ Popping' = Popping /\ Holding' = Holding
    BY <1>1, <1>3, <1>4, <1>8
    DEF Unlock, endVars, queueVars, mainVars, TokensMatchTasks, ExistingCountsTasks,
        SignalOncePerRound
<1> QED
    BY <1>1, <1>5, <1>6, <1>7, <1>8, SetsStep

LEMMA MainCounts ==
    ASSUME RangeAssumption, IInv, MainStep
    PROVE  TokensMatchTasks' /\ ExistingCountsTasks' /\ SignalOncePerRound'
<1>1. /\ MainTypeOK /\ SyncTypeOK /\ THREAD_N \in Nat \ {0}
      /\ RoundBounds /\ TokensMatchTasks /\ ExistingCountsTasks /\ SignalOncePerRound
    BY DEF IInv, TypeOK, RangeAssumption
<1>2. UNCHANGED at
    BY DEF MainStep, CopyInput, CopyRefused, StartRound, Push, Post, AwaitEnd, Select,
       NextRange, Return
<1>3. /\ Popping' = Popping /\ Cardinality(Popping) \in Nat
      /\ Holding' = Holding /\ Cardinality(Holding) \in Nat
      /\ Len(queue) \in Nat /\ q_sem \in Nat /\ existing \in Nat
    BY <1>1, <1>2, SetsFinite DEF Popping, Holding, SyncTypeOK
<1>4. CASE StartRound
  <2>1. existing = 0 /\ terminated_sem = 0 /\ main # "exit"
      BY <1>1, <1>4 DEF StartRound, RoundBounds, SignalOncePerRound
  <2>2. queue = <<>> /\ q_sem = 0 /\ Popping = {} /\ Holding = {}
      BY <2>1, NothingLeft
  <2>3. main' = "push" /\ begin' = 0
      BY <1>1, <1>4 DEF StartRound, PushOrWait, LastBegin, RoundBounds, MainTypeOK
  <2>4. existing' = ToPush'
      BY <1>1, <1>4, <2>3 DEF StartRound, ToPush, NumTasks, MainTypeOK
  <2>5. existing' \in Nat /\ Cardinality({}) = 0
      BY <1>1, <1>4, FS_EmptySet DEF StartRound, NumTasks, RoundBounds, MainTypeOK
  <2> QED
      BY <1>3, <1>4, <2>1, <2>2, <2>3, <2>4, <2>5
      DEF StartRound, queueVars, TokensMatchTasks, ExistingCountsTasks, SignalOncePerRound
<1>5. CASE Push
  <2>1. Len(queue') = Len(queue) + 1
      BY <1>1, <1>5 DEF Push, SyncTypeOK
  <2>2. ToPush' = ToPush - 1 /\ ToPush \in Nat
      BY <1>1, <1>5 DEF Push, ToPush, NumTasks, inputVars, MainTypeOK, RoundBounds,
         LastBegin
  <2> QED
      BY <1>1, <1>3, <1>5, <2>1, <2>2
      DEF Push, endVars, TokensMatchTasks, ExistingCountsTasks, SignalOncePerRound
<1>6. CASE Post
  <2>1. existing # 0
      BY <1>6, NothingLeft DEF Post
  <2>2. ToPush' = ToPush /\ ToPush \in Nat /\ main' \in {"push", "wait"}
      BY <1>1, <1>6 DEF Post, ToPush, PushOrWait, NumTasks, LastBegin, inputVars,
         MainTypeOK, RoundBounds, InRound
  <2> QED
      BY <1>1, <1>3, <1>6, <2>1, <2>2
      DEF Post, endVars, TokensMatchTasks, ExistingCountsTasks, SignalOncePerRound
<1>7. CASE AwaitEnd
    BY <1>1, <1>3, <1>7
    DEF AwaitEnd, ToPush, queueVars, TokensMatchTasks, ExistingCountsTasks,
        SignalOncePerRound, SyncTypeOK
<1>8. CASE CopyInput \/ CopyRefused \/ Select \/ NextRange \/ Return
  <2>1. /\ main \in {"copy", "round", "select"}
        /\ main' \in {"copy", "round", "select", "done", "exit"}
        /\ UNCHANGED <<endVars, queueVars>>
      BY <1>8 DEF CopyInput, CopyRefused, Select, NextRange, Return
  <2>2. ToPush = 0 /\ ToPush' = 0
      BY <2>1 DEF ToPush
  <2> QED
      BY <1>1, <1>3, <2>1, <2>2
      DEF endVars, queueVars, TokensMatchTasks, ExistingCountsTasks, SignalOncePerRound
<1> QED
    BY <1>4, <1>5, <1>6, <1>7, <1>8 DEF MainStep
-----------------------------------------------------------------------------
(* What the workers read is current.                                       *)
LEMMA InitIInv == RangeAssumption /\ Init => IInv
<1> SUFFICES ASSUME RangeAssumption, Init
             PROVE  IInv
    OBVIOUS
<1>1. TypeOK
    BY InitType
<1>2. Popping = {} /\ Holding = {} /\ Cardinality({}) = 0
    BY FS_EmptySet DEF Init, Popping, Holding
<1>3. TokensMatchTasks /\ ExistingCountsTasks /\ SignalOncePerRound
    BY <1>2 DEF Init, TokensMatchTasks, ExistingCountsTasks, SignalOncePerRound, ToPush
<1>4. TasksCurrent
    BY <1>2 DEF Init, TasksCurrent
<1>5. RoundBounds
  <2>1. input_size \in Nat /\ r_size = input_size - 1
      BY <1>1 DEF Init, TypeOK, MainTypeOK
  <2> QED
      BY <2>1 DEF Init, RoundBounds, InRound
<1>6. WorkerLocals /\ CopiesCurrent
    BY DEF Init, WorkerLocals, CopiesCurrent
<1>7. NamesApart
    BY PartNameType DEF Init, NamesApart, RangeAssumption
<1> QED
    BY <1>1, <1>3, <1>4, <1>5, <1>6, <1>7 DEF IInv

LEMMA MainCurrent ==
    ASSUME RangeAssumption, IInv, MainStep
    PROVE  TasksCurrent' /\ RoundBounds' /\ WorkerLocals' /\ CopiesCurrent' /\ NamesApart'
<1>1. /\ MainTypeOK /\ SyncTypeOK /\ THREAD_N \in Nat \ {0}
      /\ TasksCurrent /\ RoundBounds /\ WorkerLocals /\ CopiesCurrent /\ NamesApart
    BY DEF IInv, TypeOK, RangeAssumption
<1>2. UNCHANGED <<at, localVars, outVars, end_mt>>
    BY DEF MainStep, CopyInput, CopyRefused, StartRound, Push, Post, AwaitEnd, Select,
       NextRange, Return, endVars
<1>3. WorkerLocals'
    BY <1>1, <1>2 DEF WorkerLocals, localVars
<1>4. Holding' = Holding
    BY <1>2 DEF Holding
<1>5. NamesApart'
  <2>1. input_path' = input_path \/ input_path' = FailPath(total_fail_n + 1)
      BY DEF MainStep, CopyInput, CopyRefused, StartRound, Push, Post, AwaitEnd,
         Select, NextRange, Return, inputVars
  <2> QED
      BY <1>1, <1>2, <2>1 DEF NamesApart, outVars, FailPath
<1>6. RoundBounds'
  <2>1. CASE StartRound
      BY <1>1, <2>1 DEF StartRound, PushOrWait, RoundBounds, LastBegin, InRound, MainTypeOK
  <2>2. CASE Post
      BY <1>1, <2>2
      DEF Post, PushOrWait, RoundBounds, LastBegin, InRound, inputVars, MainTypeOK
  <2>3. CASE Push
      BY <1>1, <2>3 DEF Push, RoundBounds, InRound, inputVars, endVars
  <2>4. CASE AwaitEnd
    <3>1. existing = 0
        BY <1>1, <2>4 DEF AwaitEnd, IInv, SignalOncePerRound
    <3> QED
        BY <1>1, <2>4, <3>1 DEF AwaitEnd, RoundBounds, InRound, inputVars
  <2>5. CASE Select
    <3>1. rs \in Nat \ {0} /\ rs < input_size /\ input_size \in Nat
        BY <1>1, <2>5 DEF Select, RoundBounds, MainTypeOK
    <3>2. NextSize(rs, input_size) < input_size - rs
        BY <3>1 DEF NextSize, Lesser
    <3>3. /\ main' \in {"copy", "exit"} /\ UNCHANGED endVars
          /\ \/ input_size' = input_size - rs /\ r_size' = NextSize(rs, input_size)
             \/ UNCHANGED <<input_size, r_size>>
        BY <2>5 DEF Select
    <3> QED
        BY <1>1, <2>5, <3>1, <3>2, <3>3 DEF Select, RoundBounds, InRound, endVars
  <2>6. CASE NextRange
      BY <1>1, <2>6 DEF NextRange, Smaller, RoundBounds, InRound, inputVars, endVars,
         MainTypeOK
  <2>7. CASE CopyInput \/ CopyRefused \/ Return
      BY <1>1, <2>7
      DEF CopyInput, CopyRefused, Return, RoundBounds, InRound, inputVars, endVars
  <2> QED
      BY <2>1, <2>2, <2>3, <2>4, <2>5, <2>6, <2>7 DEF MainStep
<1>7. CopiesCurrent'
  <2>1. CASE CopyInput
      BY <2>1 DEF CopyInput, CopiesCurrent, inputVars
  <2>2. CASE StartRound \/ Push \/ Post \/ AwaitEnd \/ NextRange
    <3>1. /\ main \in {"round", "push", "post", "wait", "select"}
          /\ UNCHANGED <<input_path, fileVars>>
        BY <2>2 DEF StartRound, Push, Post, AwaitEnd, NextRange, inputVars
    <3> QED
        BY <1>1, <3>1 DEF CopiesCurrent, fileVars
  <2>3. CASE CopyRefused \/ Select \/ Return
      BY <2>3 DEF CopyRefused, Select, Return, CopiesCurrent
  <2> QED
      BY <2>1, <2>2, <2>3 DEF MainStep
<1>8. TasksCurrent'
  <2>1. CASE Push
    <3>1. rs = r_size /\ begin + rs <= input_size
        BY <1>1, <2>1 DEF Push, RoundBounds, InRound, LastBegin, MainTypeOK
    <3>2. \A i \in 1 .. Len(queue') :
              queue'[i].rs = rs /\ queue'[i].begin + rs <= input_size
        BY <1>1, <2>1, <3>1 DEF Push, TasksCurrent, SyncTypeOK
    <3>3. main # "exit" /\ UNCHANGED <<inputVars, task, fileVars>>
        BY <2>1 DEF Push, localVars
    <3> QED
        BY <1>1, <1>4, <3>2, <3>3 DEF TasksCurrent, inputVars, fileVars
  <2>2. CASE Post \/ AwaitEnd
    <3>1. main # "exit" /\ UNCHANGED <<inputVars, queue, task, fileVars>>
        BY <2>2 DEF Post, AwaitEnd, queueVars, localVars
    <3> QED
        BY <1>1, <1>4, <3>1 DEF TasksCurrent, inputVars, fileVars
  <2>3. CASE ~(Push \/ Post \/ AwaitEnd)
    <3>1. /\ main \in {"copy", "round", "select"} /\ UNCHANGED queue
        BY <2>3 DEF MainStep, CopyInput, CopyRefused, StartRound, Select, NextRange,
           Return, queueVars
    <3>2. queue = <<>> /\ Holding = {}
        BY <3>1, IdleOutsideRound, NothingLeft
    <3> QED
        BY <1>4, <3>1, <3>2 DEF TasksCurrent
  <2> QED
      BY <2>1, <2>2, <2>3
<1> QED
    BY <1>3, <1>5, <1>6, <1>7, <1>8

LEMMA WorkerCurrent ==
    ASSUME RangeAssumption, IInv, NEW w \in Workers, WorkerStep(w)
    PROVE  TasksCurrent' /\ RoundBounds' /\ WorkerLocals' /\ CopiesCurrent' /\ NamesApart'
<1>1. /\ MainTypeOK /\ SyncTypeOK /\ FailTypeOK /\ WorkerTypeOK /\ FileTypeOK
      /\ THREAD_N \in Nat \ {0}
      /\ TasksCurrent /\ RoundBounds /\ WorkerLocals /\ CopiesCurrent /\ NamesApart
    BY DEF IInv, TypeOK, RangeAssumption
<1>2. /\ main' \in {main, "exit"} /\ main \notin {"done", "exit"}
      /\ UNCHANGED <<r_size, begin, inputVars, copies>>
    BY DEF WorkerStep, TakeToken, Pop, WriteCut, Test, TakeIndex, CheckRoom, ReadMax,
       Double,
       ReadSize, Realloc, Assign, Store, Close, Unlock, mainVars, fileVars, At, Running
<1>3. disk'[input_path] = disk[input_path]
  <2>1. CASE WriteCut(w)
    <3>1. out_files[w] # input_path
        BY <1>1 DEF NamesApart
    <3> QED
        BY <1>1, <2>1, <3>1 DEF WriteCut, Written, FileTypeOK
  <2>2. CASE ~WriteCut(w)
      BY <2>2 DEF WorkerStep, TakeToken, Pop, Test, TakeIndex, CheckRoom, ReadMax, Double,
         ReadSize, Realloc, Assign, Store, Close, Unlock, fileVars
  <2> QED
      BY <2>1, <2>2
<1>4. CopiesCurrent'
    BY <1>1, <1>2, <1>3 DEF CopiesCurrent, inputVars
<1>5. NamesApart'
  <2>1. CASE Store(w)
    <3>1. PartName(w, fail_stack[w] + 1)[1] \in {"thread", "thread.part"}
        BY <1>1, PartNameType DEF WorkerTypeOK
    <3> QED
        BY <1>1, <1>2, <2>1, <3>1 DEF Store, NamesApart, inputVars, WorkerTypeOK
  <2>2. CASE ~Store(w)
      BY <1>1, <1>2, <2>2 DEF WorkerStep, TakeToken, Pop, WriteCut, Test, TakeIndex,
         CheckRoom, ReadMax, Double, ReadSize, Realloc, Assign, Close, Unlock,
         NamesApart, inputVars, outVars
  <2> QED
      BY <2>1, <2>2
<1>6. RoundBounds'
  <2>1. CASE Close(w)
    <3>1. w \in Holding
        BY <2>1 DEF Close, At, Holding
    <3>2. existing # 0
        BY <1>2, <3>1, NothingLeft
    <3> QED
        BY <1>1, <1>2, <2>1, <3>2 DEF RoundBounds, InRound, inputVars
  <2>2. CASE ~Close(w)
    <3>1. UNCHANGED existing
        BY <2>2 DEF WorkerStep, TakeToken, Pop, WriteCut, Test, TakeIndex, CheckRoom,
           ReadMax, Double, ReadSize, Realloc, Assign, Store, Unlock, endVars
    <3> QED
        BY <1>1, <1>2, <3>1 DEF RoundBounds, InRound, inputVars
  <2> QED
      BY <2>1, <2>2
<1>7. WorkerLocals'
  <2> USE DEF WorkerTypeOK, WorkerLocals, Goto, At
  <2>1. CASE Close(w)
    <3>1. \A v \in Workers : at[v] # "unlock"
        BY <1>1, <2>1 DEF Close, NoOne, Workers
    <3> QED
        BY <1>1, <2>1, <3>1 DEF Close, localVars
  <2>2. CASE Unlock(w)
    <3>1. \A v \in Workers : v # w => at[v] # "unlock"
        BY <1>1, <2>2 DEF Unlock
    <3> QED
        BY <1>1, <2>2, <3>1 DEF Unlock, localVars
  <2>3. CASE Realloc(w)
    <3>1. /\ at[w] = "realloc" /\ UNCHANGED endVars
          /\ \/ UNCHANGED <<at, grown>>
             \/ /\ at' = [at EXCEPT ![w] = "assign"]
                /\ \/ grown' = [grown EXCEPT ![w] = fail_arr]
                   \/ grown' = [grown EXCEPT ![w] = Len(heap) + 1]
        BY <2>3 DEF Realloc
    <3>2. /\ fail_arr \in Nat \ {0} /\ Len(heap) + 1 \in Nat \ {0}
          /\ grown \in [Workers -> 0 .. Len(heap)]
        BY <1>1 DEF FailTypeOK
    <3> QED
        BY <1>1, <3>1, <3>2 DEF endVars
  <2>4. CASE TakeToken(w) \/ Pop(w) \/ WriteCut(w) \/ Test(w)
      BY <1>1, <2>4 DEF TakeToken, Pop, WriteCut, Test, endVars, localVars
  <2>5. CASE TakeIndex(w) \/ CheckRoom(w) \/ ReadMax(w) \/ Double(w) \/ ReadSize(w)
      BY <1>1, <2>5 DEF TakeIndex, CheckRoom, ReadMax, Double, ReadSize, endVars, localVars
  <2>6. CASE Assign(w) \/ Store(w)
      BY <1>1, <2>6 DEF Assign, Store, endVars, localVars
  <2> QED
      BY <2>1, <2>2, <2>3, <2>4, <2>5, <2>6 DEF WorkerStep
<1>8. TasksCurrent'
  <2> SUFFICES ASSUME main' # "exit"
               PROVE  TasksCurrent'
      BY DEF TasksCurrent
  <2>1. CASE Pop(w)
    <3>1. /\ queue # <<>> /\ queue' = Tail(queue)
          /\ task' = [task EXCEPT ![w] = queue[1]]
          /\ UNCHANGED fileVars
        BY <1>1, <2>1 DEF Pop, Popped, SyncTypeOK
    <3>2. /\ Len(queue') = Len(queue) - 1 /\ 1 \in 1 .. Len(queue)
          /\ \A i \in 1 .. Len(queue') : queue'[i] = queue[i + 1] /\ i + 1 \in 1 .. Len(queue)
        BY <1>1, <3>1, HeadTailProperties DEF SyncTypeOK
    <3>3. /\ \A i \in 1 .. Len(queue) :
                queue[i].rs = rs /\ queue[i].begin + rs <= input_size
          /\ \A v \in Holding :
                task[v].rs = rs /\ task[v].begin + rs <= input_size
        BY <1>1, <1>2 DEF TasksCurrent
    <3>4. main \in {"push", "post", "wait"}
        BY <1>1, <1>2, <3>1, IdleOutsideRound, NothingLeft DEF MainTypeOK
    <3>5. copies = [v \in Workers |-> disk[input_path]]
        BY <1>1, <3>4 DEF CopiesCurrent
    <3>6. Holding' \subseteq Holding \cup {w}
        BY <1>1, <2>1, SetsStep DEF Pop, Goto, Holding, WorkerTypeOK
    <3>7. \A v \in Holding' :
              /\ task'[v].rs = rs /\ task'[v].begin + rs <= input_size
              /\ v \in DOMAIN copies /\ copies[v] = disk[input_path]
        BY <1>1, <3>1, <3>2, <3>3, <3>5, <3>6 DEF Holding, WorkerTypeOK
    <3> QED
        BY <1>2, <1>3, <3>1, <3>2, <3>3, <3>7 DEF TasksCurrent, inputVars, fileVars
  <2>2. CASE ~Pop(w)
    <3>1. UNCHANGED <<queue, task>>
        BY <2>2 DEF WorkerStep, TakeToken, WriteCut, Test, TakeIndex, CheckRoom, ReadMax,
           Double,
           ReadSize, Realloc, Assign, Store, Close, Unlock, queueVars, localVars
    <3>2. Holding' \subseteq Holding
        BY <1>1, <2>2, SetsStep
    <3> QED
        BY <1>1, <1>2, <1>3, <3>1, <3>2 DEF TasksCurrent, inputVars
  <2> QED
      BY <2>1, <2>2
<1> QED
    BY <1>4, <1>5, <1>6, <1>7, <1>8
-----------------------------------------------------------------------------
(* IInv is inductive.                                                      *)
LEMMA IInvStep == RangeAssumption /\ IInv /\ [Next]_vars => IInv'
<1> SUFFICES ASSUME RangeAssumption, IInv, [Next]_vars
             PROVE  IInv'
    OBVIOUS
<1>1. CASE MainStep
    BY <1>1, MainType, MainCounts, MainCurrent DEF IInv
<1>2. ASSUME NEW w \in Workers, WorkerStep(w)
      PROVE  IInv'
    BY <1>2, WorkerType, WorkerCounts, WorkerCurrent DEF IInv
<1>3. CASE UNCHANGED vars
  <2> USE <1>3 DEF vars, mainVars, inputVars, endVars, queueVars, failVars, localVars,
                   outVars, fileVars
  <2>1. TypeOK'
      BY TypeUnchanged DEF IInv, TypeOK
  <2>2. TokensMatchTasks' /\ ExistingCountsTasks' /\ SignalOncePerRound'
      BY DEF IInv, TokensMatchTasks, ExistingCountsTasks, SignalOncePerRound, Popping,
         Holding, ToPush
  <2>3. TasksCurrent' /\ RoundBounds'
      BY DEF IInv, TasksCurrent, RoundBounds, Holding, InRound
  <2>4. WorkerLocals' /\ CopiesCurrent' /\ NamesApart'
      BY DEF IInv, WorkerLocals, CopiesCurrent, NamesApart
  <2> QED
      BY <2>1, <2>2, <2>3, <2>4 DEF IInv
<1> QED
    BY <1>1, <1>2, <1>3 DEF Next, Ended

(* The inductive invariant of the protocol holds for every number of       *)
(* workers, whatever happens to fail_arr.                                  *)
THEOREM IInvAlways == Spec => []IInv
<1>1. Init => IInv
    BY RangeAssumption, InitIInv
<1>2. IInv /\ [Next]_vars => IInv'
    BY RangeAssumption, IInvStep
<1> QED
    BY <1>1, <1>2, PTL DEF Spec

(* Every variable of range() and its workers keeps its type: in particular *)
(* existing never falls below 0, and only candidates are ever written.     *)
THEOREM TypeCorrect == Spec => []TypeOK
<1>1. IInv => TypeOK
    BY DEF IInv
<1> QED
    BY <1>1, IInvAlways, PTL

(* sem_wait(&q_sem) lets a worker through only if a task is queued for it: *)
(* pop_queue() never meets an empty queue.                                 *)
THEOREM TokensAlwaysMatch == Spec => []TokensMatchTasks
<1>1. IInv => TokensMatchTasks
    BY DEF IInv
<1> QED
    BY <1>1, IInvAlways, PTL

(* existing counts the unfinished tasks of the round.                      *)
THEOREM ExistingAlwaysCounts == Spec => []ExistingCountsTasks
<1>1. IInv => ExistingCountsTasks
    BY DEF IInv
<1> QED
    BY <1>1, IInvAlways, PTL

(* The main thread is woken once per round, and never for the next one.    *)
THEOREM SignalAlwaysOnce == Spec => []SignalOncePerRound
<1>1. IInv => SignalOncePerRound
    BY DEF IInv
<1> QED
    BY <1>1, IInvAlways, PTL

(* The main thread is woken only when every task of the round has ended.   *)
THEOREM SignalAlwaysIdle == Spec => []SignalMeansIdle
<1>1. IInv => SignalMeansIdle
  <2> SUFFICES ASSUME IInv,
                      \/ main \in {"copy", "round", "select", "done"}
                      \/ main # "exit" /\ terminated_sem > 0
               PROVE  /\ queue = <<>> /\ q_sem = 0
                      /\ \A w \in Workers :
                            at[w] = "idle" \/ (at[w] = "unlock" /\ end_mt = w)
      BY DEF SignalMeansIdle
  <2>1. main # "exit" /\ existing = 0
      BY IdleOutsideRound, RangeAssumption DEF IInv, SignalOncePerRound
  <2>2. queue = <<>> /\ q_sem = 0 /\ Popping = {} /\ Holding = {}
      BY <2>1, NothingLeft, RangeAssumption
  <2>3. \A w \in Workers : at[w] \in {"idle", "unlock"}
      BY <2>2 DEF IInv, TypeOK, WorkerTypeOK, Locations, Popping, Holding
  <2> QED
      BY <2>2, <2>3 DEF IInv, WorkerLocals
<1> QED
    BY <1>1, IInvAlways, PTL

(* A worker cuts the block it was asked to cut, out of the current input,  *)
(* although it reads rs, input_size and its copy after it took the task.   *)
THEOREM TasksAlwaysCurrent == Spec => []TasksCurrent
<1>1. IInv => TasksCurrent
    BY DEF IInv
<1> QED
    BY <1>1, IInvAlways, PTL
=============================================================================
