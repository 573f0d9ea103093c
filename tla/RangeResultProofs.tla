------------------------- MODULE RangeResultProofs -------------------------
(***************************************************************************)
(* The results of range() for every number of workers, every input and     *)
(* every target, as long as nobody races for fail_arr (NoRace): there is a *)
(* single worker, or fail_arr has room for the failures of every round, as *)
(* the input is short or the target fails seldom.  The first sections prove*)
(* that the workers then never race, the last one what follows.            *)
(***************************************************************************)
EXTENDS RangeRecordsProofs

(* Short inputs.                                                           *)
LEMMA UndecidedFinite ==
    ASSUME THREAD_N \in Nat \ {0}
    PROVE  IsFiniteSet(Undecided) /\ Cardinality(Undecided) \in Nat
<1>1. IsFiniteSet(Workers) /\ Undecided \subseteq Workers
    BY FS_Interval DEF Workers, Undecided
<1> QED
    BY <1>1, FS_Subset, FS_CardinalityType

(* Where workers are from finding no room to the assignment of fail_arr.   *)
GrowAt == {"double", "doubled", "size", "realloc", "assign"}

LEMMA RoomInit == RangeAssumption /\ ShortInputs /\ Init => RoomInv
<1> SUFFICES ASSUME RangeAssumption, ShortInputs, Init
             PROVE  RoomInv
    OBVIOUS
<1>1. input_size + THREAD_N < FAIL_MAX
    BY DEF Init, ShortInputs
<1> QED
    BY <1>1 DEF Init, RoomInv, NeverGrown, Growing, GrowAt, InRound

LEMMA RoomMain ==
    ASSUME RangeAssumption, IInv, RoomInv, MainStep
    PROVE  RoomInv'
<1>1. /\ MainTypeOK /\ SyncTypeOK /\ RoundBounds /\ THREAD_N \in Nat \ {0} /\ FAIL_MAX \in Nat
      /\ input_size \in Nat /\ rs \in Nat /\ r_size \in Int /\ begin \in Nat
      /\ queue \in Seq([rs : Nat, begin : Nat]) /\ Len(queue) \in Nat /\ fail_n \in Nat
    BY DEF IInv, TypeOK, MainTypeOK, SyncTypeOK, FailTypeOK, RangeAssumption
<1>2. /\ at' = at /\ fail_max' = fail_max
    BY DEF MainStep, CopyInput, CopyRefused, StartRound, Push, Post, AwaitEnd, Select,
       NextRange, Return, failVars
<1>3. /\ Undecided' = Undecided /\ Cardinality(Undecided) \in Nat
      /\ \A w \in Workers : at'[w] \notin GrowAt
    BY <1>1, <1>2, UndecidedFinite DEF Undecided, RoomInv, NeverGrown, Growing, GrowAt
<1>4. input_size' + THREAD_N < FAIL_MAX
  <2>1. input_size' = input_size \/ input_size' = input_size - rs
      BY DEF MainStep, CopyInput, CopyRefused, StartRound, Push, Post, AwaitEnd, Select,
         NextRange, Return, inputVars
  <2> QED
      BY <1>1, <2>1 DEF RoomInv, NeverGrown, Growing, GrowAt
<1>5. CASE StartRound
  <2>1. Holding = {} /\ queue = <<>>
      BY <1>5, IdleOutsideRound, NothingLeft DEF StartRound
  <2>2. Undecided = {} /\ Cardinality(Undecided) = 0 /\ Len(queue) = 0
      BY <2>1, FS_EmptySet DEF Holding, Undecided
  <2>3. /\ fail_n' = 0 /\ queue' = queue /\ rs' = r_size /\ input_size' = input_size
        /\ main' = "push" /\ begin' = 0
      BY <1>1, <1>5 DEF StartRound, PushOrWait, LastBegin, RoundBounds, queueVars
  <2>4. ToPush' = NumTasks(input_size, r_size) /\ NumTasks(input_size, r_size) \in Int
      BY <1>1, <2>3 DEF ToPush, NumTasks
  <2> QED
      BY <1>2, <1>3, <1>4, <2>2, <2>3, <2>4 DEF RoomInv, NeverGrown, Growing, GrowAt
<1>6. CASE Push
  <2>1. /\ main = "push" /\ main' = "post" /\ Len(queue') = Len(queue) + 1
        /\ UNCHANGED <<begin, rs, input_size, fail_n>>
      BY <1>1, <1>6 DEF Push, inputVars, failVars
  <2>2. ToPush' = ToPush - 1 /\ ToPush \in Int
      BY <1>1, <2>1 DEF ToPush, NumTasks
  <2> QED
      BY <1>1, <1>2, <1>3, <1>4, <2>1, <2>2 DEF RoomInv, NeverGrown, Growing, GrowAt,
         InRound
<1>7. CASE Post \/ AwaitEnd
  <2>1. /\ main \in {"post", "wait"} /\ UNCHANGED <<queue, rs, input_size, fail_n>>
      BY <1>7 DEF Post, AwaitEnd, inputVars, queueVars, failVars
  <2>2. ToPush' = ToPush
    <3>1. CASE Post
      <4>1. /\ main = "post" /\ begin' = begin + 1 /\ rs = r_size
            /\ UNCHANGED <<rs, input_size>>
            /\ main' = IF begin + 1 <= input_size - rs THEN "push" ELSE "wait"
            /\ begin <= input_size - rs
          BY <1>1, <3>1 DEF Post, PushOrWait, LastBegin, RoundBounds, InRound, inputVars
      <4>2. ToPush = input_size - rs - begin
          BY <1>1, <4>1 DEF ToPush, NumTasks
      <4>3. CASE main' = "push"
        <5>1. ToPush' = NumTasks(input_size, rs) - (begin + 1)
            BY <4>1, <4>3 DEF ToPush
        <5>2. ToPush' = input_size - rs + 1 - (begin + 1)
            BY <1>1, <5>1 DEF NumTasks
        <5> QED
            BY <1>1, <4>2, <5>2
      <4>4. CASE main' # "push"
        <5>1. main' = "wait" /\ begin = input_size - rs
            BY <1>1, <4>1, <4>4
        <5>2. ToPush' = 0
            BY <5>1 DEF ToPush
        <5> QED
            BY <1>1, <4>2, <5>1, <5>2
      <4> QED
          BY <4>3, <4>4
    <3>2. CASE AwaitEnd
        BY <3>2 DEF AwaitEnd, ToPush
    <3> QED
        BY <1>7, <3>1, <3>2
  <2> QED
      BY <1>2, <1>3, <1>4, <2>1, <2>2 DEF RoomInv, NeverGrown, Growing, GrowAt, InRound
<1>8. CASE CopyInput \/ CopyRefused \/ Select \/ NextRange \/ Return
  <2>1. main' \notin {"push", "post", "wait", "select"}
      BY <1>8 DEF CopyInput, CopyRefused, Select, NextRange, Return
  <2> QED
      BY <1>2, <1>3, <1>4, <2>1 DEF RoomInv, NeverGrown, Growing, GrowAt, InRound
<1> QED
    BY <1>5, <1>6, <1>7, <1>8 DEF MainStep

(* A worker that asks for room finds it: the round has fewer tasks than    *)
(* fail_arr has room for.                                                  *)
LEMMA RoomWorker ==
    ASSUME RangeAssumption, IInv, RoomInv, NEW w \in Workers, WorkerStep(w)
    PROVE  RoomInv'
<1>1. /\ MainTypeOK /\ SyncTypeOK /\ WorkerTypeOK /\ RoundBounds
      /\ THREAD_N \in Nat \ {0} /\ FAIL_MAX \in Nat /\ fail_max \in Nat
      /\ input_size \in Nat /\ rs \in Nat /\ r_size \in Int /\ begin \in Nat
      /\ queue \in Seq([rs : Nat, begin : Nat]) /\ Len(queue) \in Nat /\ fail_n \in Nat
      /\ at \in [Workers -> Locations]
  <2>1. /\ MainTypeOK /\ SyncTypeOK /\ FailTypeOK /\ WorkerTypeOK /\ RoundBounds
        /\ THREAD_N \in Nat \ {0} /\ FAIL_MAX \in Nat
      BY DEF IInv, TypeOK, RangeAssumption
  <2>2. queue \in Seq([rs : Nat, begin : Nat]) /\ Len(queue) \in Nat
      BY <2>1 DEF SyncTypeOK
  <2> QED
      BY <2>1, <2>2 DEF MainTypeOK, FailTypeOK, WorkerTypeOK
<1>2. /\ main' \in {main, "exit"} /\ main \notin {"exit", "done"}
      /\ UNCHANGED <<begin, rs, input_size>>
    BY DEF WorkerStep, TakeToken, Pop, WriteCut, Test, TakeIndex, CheckRoom, ReadMax,
       Double,
       ReadSize, Realloc, Assign, Store, Close, Unlock, mainVars, inputVars, At, Running
<1>3. IsFiniteSet(Undecided) /\ Cardinality(Undecided) \in Nat
    BY <1>1, UndecidedFinite
<1>4. ~(ReadMax(w) \/ Double(w) \/ ReadSize(w) \/ Realloc(w) \/ Assign(w))
    BY DEF RoomInv, NeverGrown, Growing, GrowAt, ReadMax, Double, ReadSize, Realloc,
       Assign, At
<1>5. CASE main' = "exit"
  <2>1. (at' = at /\ fail_max' = fail_max) \/ Store(w)
      BY <1>2, <1>4, <1>5 DEF WorkerStep, TakeToken, Pop, WriteCut, Test, TakeIndex,
         CheckRoom, Store, Close, Unlock, mainVars, failVars
  <2>2. /\ fail_max' = fail_max
        /\ \A v \in Workers : at'[v] \notin GrowAt
      BY <1>1, <2>1 DEF Store, Goto, RoomInv, NeverGrown, Growing, GrowAt
  <2> QED
      BY <1>2, <1>5, <2>2 DEF RoomInv, NeverGrown, Growing, GrowAt, InRound
<1>6. CASE main' # "exit"
  <2>1. main' = main /\ ToPush' = ToPush /\ ToPush \in Int
      BY <1>1, <1>2, <1>6 DEF ToPush, NumTasks
  <2>2. ASSUME main \in {"push", "post", "wait", "select"}
        PROVE  fail_n + ToPush + Len(queue) + Cardinality(Undecided)
                  <= NumTasks(input_size, rs)
      BY <2>2 DEF RoomInv, NeverGrown, Growing, GrowAt, InRound
  <2>3. SUFFICES /\ fail_max' = fail_max
                 /\ at'[w] \notin GrowAt
                 /\ \A v \in Workers : v # w => at'[v] = at[v]
                 /\ main \in {"push", "post", "wait", "select"} =>
                       fail_n' + Len(queue') + Cardinality(Undecided')
                          <= fail_n + Len(queue) + Cardinality(Undecided)
    <3> SUFFICES ASSUME /\ fail_max' = fail_max
                        /\ at'[w] \notin GrowAt
                        /\ \A v \in Workers : v # w => at'[v] = at[v]
                        /\ main \in {"push", "post", "wait", "select"} =>
                              fail_n' + Len(queue') + Cardinality(Undecided')
                                 <= fail_n + Len(queue) + Cardinality(Undecided)
                 PROVE  RoomInv'
        OBVIOUS
    <3>1. \A v \in Workers : at'[v] \notin GrowAt
        BY DEF RoomInv, NeverGrown, Growing, GrowAt
    <3>2. /\ fail_n' \in Int /\ Len(queue') \in Int /\ Cardinality(Undecided') \in Int
      <4>1. IInv'
          BY IInvStep DEF Next
      <4>2. fail_n' \in Nat /\ queue' \in Seq([rs : Nat, begin : Nat])
          BY <4>1 DEF IInv, TypeOK, SyncTypeOK, FailTypeOK
      <4>3. IsFiniteSet(Workers) /\ Undecided' \subseteq Workers
          BY <1>1, FS_Interval DEF Workers, Undecided
      <4>4. Cardinality(Undecided') \in Nat
          BY <4>3, FS_Subset, FS_CardinalityType
      <4> QED
          BY <4>2, <4>4
    <3>3. ASSUME main \in {"push", "post", "wait", "select"}
          PROVE  fail_n' + ToPush' + Len(queue') + Cardinality(Undecided')
                    <= NumTasks(input_size, rs)
      <4>1. NumTasks(input_size, rs) \in Int
          BY <1>1 DEF NumTasks
      <4>2. /\ fail_n + ToPush + Len(queue) + Cardinality(Undecided)
                  <= NumTasks(input_size, rs)
            /\ fail_n' + Len(queue') + Cardinality(Undecided')
                  <= fail_n + Len(queue) + Cardinality(Undecided)
          BY <2>2, <3>3
      <4>3. ToPush' = ToPush /\ ToPush \in Int
          BY <2>1
      <4>4. fail_n \in Int /\ Len(queue) \in Int /\ Cardinality(Undecided) \in Int
          BY <1>1, <1>3
      <4>5. fail_n + Len(queue) + Cardinality(Undecided) + ToPush
                <= NumTasks(input_size, rs)
          BY <4>1, <4>2, <4>3, <4>4
      <4>6. fail_n' + Len(queue') + Cardinality(Undecided') + ToPush
                <= NumTasks(input_size, rs)
          BY <3>2, <4>1, <4>2, <4>3, <4>4, <4>5
      <4> QED
          BY <3>2, <4>3, <4>6
    <3> QED
        BY <1>2, <2>1, <3>1, <3>3 DEF RoomInv, NeverGrown, Growing, GrowAt, InRound
  <2>4. CASE TakeToken(w) \/ WriteCut(w) \/ Close(w) \/ Unlock(w) \/ Store(w)
    <3>1. /\ UNCHANGED <<queue, fail_n, fail_max>>
          /\ at'[w] \notin GrowAt
          /\ \A v \in Workers : v # w => at'[v] = at[v]
          /\ at[w] \in {"cut", "test", "record"} <=> at'[w] \in {"cut", "test", "record"}
        BY <1>1, <2>4 DEF GrowAt, TakeToken, WriteCut, Close, Unlock, Store, At, Goto, queueVars,
           failVars
    <3>2. Undecided' = Undecided
        BY <3>1 DEF Undecided
    <3> QED
        BY <1>1, <1>3, <3>1, <3>2
  <2>5. CASE Pop(w)
    <3>1. /\ queue # <<>> /\ queue' = Tail(queue) /\ UNCHANGED <<fail_n, fail_max>>
          /\ at[w] = "pop" /\ at' = [at EXCEPT ![w] = "cut"]
        BY <1>6, <2>5 DEF Pop, Popped, At, Goto, failVars
    <3>2. Len(queue') = Len(queue) - 1
        BY <1>1, <3>1, HeadTailProperties
    <3>3. w \notin Undecided /\ Undecided' = Undecided \cup {w}
        BY <1>1, <3>1 DEF Undecided
    <3>4. Cardinality(Undecided') = Cardinality(Undecided) + 1
        BY <1>3, <3>3, FS_AddElement
    <3> QED
        BY <1>1, <1>3, <3>1, <3>2, <3>4 DEF GrowAt
  <2>6. CASE Test(w)
    <3>1. /\ UNCHANGED <<queue, fail_n, fail_max>> /\ at[w] = "test"
          /\ at'[w] \in {"record", "close"} /\ \A v \in Workers : v # w => at'[v] = at[v]
        BY <1>1, <2>6 DEF Test, At, Goto, queueVars, failVars
    <3>2. Undecided' \subseteq Undecided
        BY <3>1 DEF Undecided
    <3>3. Cardinality(Undecided') <= Cardinality(Undecided)
        BY <1>3, <3>2, FS_Subset
    <3>4. Cardinality(Undecided') \in Nat
        BY <1>3, <3>2, FS_Subset, FS_CardinalityType
    <3> QED
        BY <1>1, <1>3, <3>1, <3>3, <3>4 DEF GrowAt
  <2>7. CASE TakeIndex(w)
    <3>1. /\ UNCHANGED <<queue, fail_max>> /\ fail_n' = fail_n + 1
          /\ at[w] = "record" /\ at' = [at EXCEPT ![w] = "check"]
        BY <2>7 DEF TakeIndex, At, Goto, queueVars
    <3>2. w \in Undecided /\ Undecided' = Undecided \ {w}
        BY <1>1, <3>1 DEF Undecided
    <3>3. Cardinality(Undecided') = Cardinality(Undecided) - 1
        BY <1>3, <3>2, FS_RemoveElement
    <3> QED
        BY <1>1, <1>3, <3>1, <3>3 DEF GrowAt
  <2>8. CASE CheckRoom(w)
    <3>1. main \in {"push", "post", "wait"}
      <4>1. w \in Holding
          BY <2>8 DEF CheckRoom, At, Holding
      <4>2. existing # 0
          BY <1>2, <4>1, NothingLeft
      <4> QED
          BY <1>1, <1>2, <4>2, IdleOutsideRound DEF MainTypeOK
    <3>2. ToPush \in Nat
      <4>1. main \in {"push", "post"} => begin <= input_size - rs
          BY <1>1 DEF RoundBounds, LastBegin
      <4> QED
          BY <1>1, <3>1, <4>1 DEF ToPush, NumTasks
    <3>3. fail_n <= NumTasks(input_size, rs)
        BY <1>1, <1>3, <2>2, <3>1, <3>2 DEF NumTasks
    <3>4. fail_n < fail_max - THREAD_N
        BY <1>1, <3>1, <3>3 DEF RoundBounds, InRound, NumTasks, RoomInv, NeverGrown
    <3>5. /\ UNCHANGED <<queue, fail_n, fail_max>>
          /\ at[w] = "check" /\ at' = [at EXCEPT ![w] = "store"]
      <4>1. ~(fail_n >= fail_max - THREAD_N)
          BY <1>1, <3>4
      <4> QED
          BY <2>8, <4>1 DEF CheckRoom, At, Goto, queueVars, failVars
    <3>6. Undecided' = Undecided
        BY <1>1, <3>5 DEF Undecided
    <3> QED
        BY <1>1, <1>3, <3>5, <3>6 DEF GrowAt
  <2> QED
      BY <1>4, <2>4, <2>5, <2>6, <2>7, <2>8 DEF WorkerStep
<1> QED
    BY <1>5, <1>6

(* On an input shorter than the room fail_arr starts with, no worker ever  *)
(* grows it.                                                               *)
THEOREM ShortInputsFit == Spec /\ ShortInputs => []RoomInv
<1>1. ShortInputs /\ Init => RoomInv
    BY RangeAssumption, RoomInit
<1>2. IInv /\ RoomInv /\ [Next]_vars => RoomInv'
  <2> SUFFICES ASSUME IInv, RoomInv, [Next]_vars
               PROVE  RoomInv'
      OBVIOUS
  <2>1. CASE UNCHANGED vars
      BY <2>1 DEF vars, mainVars, inputVars, queueVars, failVars, RoomInv, NeverGrown,
         Growing, GrowAt, InRound, ToPush,
         Undecided
  <2> QED
      BY <2>1, RangeAssumption, RoomMain, RoomWorker DEF Next, Ended
<1> QED
    BY <1>1, <1>2, IInvAlways, PTL DEF Spec

-----------------------------------------------------------------------------
(* No block is tested twice in a round.                                    *)
LEMMA ApartMain ==
    ASSUME RangeAssumption, IInv, TasksApart, MainStep
    PROVE  TasksApart'
<1>1. /\ MainTypeOK /\ SyncTypeOK /\ WorkerTypeOK /\ begin \in Nat
      /\ queue \in Seq([rs : Nat, begin : Nat]) /\ Len(queue) \in Nat
      /\ \A i \in 1 .. Len(queue) : queue[i].begin \in Nat
      /\ \A w \in Workers : task[w].begin \in Nat
  <2>1. MainTypeOK /\ SyncTypeOK /\ WorkerTypeOK
      BY DEF IInv, TypeOK
  <2>2. queue \in Seq([rs : Nat, begin : Nat])
      BY <2>1 DEF SyncTypeOK
  <2>3. \A i \in 1 .. Len(queue) : queue[i] \in [rs : Nat, begin : Nat]
      BY <2>2, ElementOfSeq
  <2> QED
      BY <2>1, <2>2, <2>3 DEF MainTypeOK, WorkerTypeOK
<1>2. Undecided' = Undecided /\ HeldNow' = HeldNow /\ UNCHANGED <<at, task>>
    BY DEF MainStep, CopyInput, CopyRefused, StartRound, Push, Post, AwaitEnd, Select,
       NextRange, Return, localVars, Undecided, HeldNow
<1>3. CASE StartRound
  <2>1. queue = <<>> /\ Holding = {} /\ queue' = queue
      BY <1>3, IdleOutsideRound, NothingLeft DEF StartRound, queueVars
  <2>2. Undecided' = {} /\ Queued' = {} /\ HeldNow' = {} /\ Len(queue') = 0
      BY <1>2, <2>1 DEF Holding, Undecided, Queued, HeldNow
  <2> QED
      BY <2>2 DEF TasksApart
<1>4. CASE Push
  <2>1. /\ main = "push" /\ main' = "post" /\ begin' = begin
        /\ queue' = Append(queue, [rs |-> r_size, begin |-> begin])
      BY <1>4 DEF Push
  <2>2. /\ Len(queue') = Len(queue) + 1 /\ queue'[Len(queue) + 1].begin = begin
        /\ \A i \in 1 .. Len(queue) : queue'[i] = queue[i]
      BY <1>1, <2>1
  <2>3. Queued' = Queued \cup {begin}
    <3>1. 1 .. Len(queue') = (1 .. Len(queue)) \cup {Len(queue) + 1}
        BY <1>1, <2>2
    <3> QED
        BY <2>2, <3>1 DEF Queued
  <2>4. \A b \in Queued \cup HeldNow : b < begin
      BY <2>1 DEF TasksApart, InRound
  <2>5. \A i \in 1 .. Len(queue) : queue[i].begin # begin
    <3> TAKE i \in 1 .. Len(queue)
    <3>1. queue[i].begin \in Queued
        BY DEF Queued
    <3> QED
        BY <1>1, <2>4, <3>1
  <2>6. /\ \A i, j \in 1 .. Len(queue') : queue'[i].begin = queue'[j].begin => i = j
        /\ begin \notin HeldNow
    <3>1. \A i, j \in 1 .. Len(queue) : queue[i].begin = queue[j].begin => i = j
        BY <2>1 DEF TasksApart, InRound
    <3>2. \A i \in 1 .. Len(queue') : i \in 1 .. Len(queue) \/ i = Len(queue) + 1
        BY <1>1, <2>2
    <3>3. begin \notin HeldNow
        BY <1>1, <2>4
    <3> QED
        BY <2>2, <2>5, <3>1, <3>2, <3>3
  <2> QED
      BY <1>2, <2>1, <2>3, <2>4, <2>6 DEF TasksApart, InRound
<1>5. CASE Post
  <2>1. main = "post" /\ begin' = begin + 1 /\ queue' = queue /\ Queued' = Queued
      BY <1>5 DEF Post, Queued
  <2>2. \A b \in Queued \cup HeldNow : b \in Nat
      BY <1>1 DEF Queued, HeldNow, Undecided
  <2>3. \A b \in Queued \cup HeldNow : b < begin'
      BY <1>1, <2>1, <2>2 DEF TasksApart, InRound
  <2> QED
      BY <1>2, <2>1, <2>3 DEF TasksApart, InRound
<1>6. CASE CopyInput \/ CopyRefused \/ AwaitEnd \/ Select \/ NextRange \/ Return
    BY <1>6 DEF CopyInput, CopyRefused, AwaitEnd, Select, NextRange, Return, TasksApart,
       InRound
<1> QED
    BY <1>3, <1>4, <1>5, <1>6 DEF MainStep

(* What a worker's step does to the tasks queued and held.                 *)
LEMMA TasksStep ==
    ASSUME RangeAssumption, IInv, TasksApart, InRound, NEW w \in Workers, WorkerStep(w),
           main' # "exit"
    PROVE  /\ UNCHANGED <<main, begin, rs, judge, input_path>>
           /\ TasksApart'
           /\ Queued' \cup HeldNow' \subseteq Queued \cup HeldNow
<1>1. /\ SyncTypeOK /\ WorkerTypeOK /\ at \in [Workers -> Locations]
      /\ queue \in Seq([rs : Nat, begin : Nat]) /\ Len(queue) \in Nat
    BY DEF IInv, TypeOK, SyncTypeOK, WorkerTypeOK
<1>2. UNCHANGED <<main, begin, rs, judge, input_path>>
    BY DEF WorkerStep, TakeToken, Pop, WriteCut, Test, TakeIndex, CheckRoom, ReadMax, Double,
       ReadSize, Realloc, Assign, Store, Close, Unlock, mainVars, inputVars
<1>3. /\ \A i, j \in 1 .. Len(queue) : queue[i].begin = queue[j].begin => i = j
      /\ \A v, u \in Undecided : task[v].begin = task[u].begin => v = u
      /\ Queued \cap HeldNow = {}
      /\ \A b \in Queued \cup HeldNow : b < begin \/ (main = "post" /\ b = begin)
    BY DEF TasksApart
<1>4. CASE Pop(w)
  <2>1. /\ queue # <<>> /\ queue' = Tail(queue) /\ at[w] = "pop"
        /\ at' = [at EXCEPT ![w] = "cut"] /\ task' = [task EXCEPT ![w] = queue[1]]
      BY <1>1, <1>4 DEF Pop, Popped, At, Goto
  <2>2. /\ Len(queue') = Len(queue) - 1 /\ 1 \in 1 .. Len(queue)
        /\ \A i \in 1 .. Len(queue') : queue'[i] = queue[i + 1] /\ i + 1 \in 2 .. Len(queue)
      BY <1>1, <2>1, HeadTailProperties
  <2>3. w \notin Undecided /\ Undecided' = Undecided \cup {w} /\ Undecided \subseteq Workers
      BY <1>1, <2>1 DEF Undecided
  <2>4. task'[w] = queue[1] /\ \A v \in Undecided : task'[v] = task[v]
      BY <1>1, <2>1, <2>3 DEF WorkerTypeOK
  <2>5. queue[1].begin \in Queued /\ Queued' \subseteq Queued \ {queue[1].begin}
    <3>1. ASSUME NEW i \in 1 .. Len(queue')
          PROVE  queue'[i].begin \in Queued /\ queue'[i].begin # queue[1].begin
      <4>1. queue'[i] = queue[i + 1] /\ i + 1 \in 1 .. Len(queue) /\ i + 1 # 1
          BY <1>1, <2>2
      <4> QED
          BY <1>3, <2>2, <4>1 DEF Queued
    <3> QED
        BY <2>2, <3>1 DEF Queued
  <2>6. HeldNow' = HeldNow \cup {queue[1].begin}
      BY <2>3, <2>4 DEF HeldNow
  <2>7. \A i, j \in 1 .. Len(queue') : queue'[i].begin = queue'[j].begin => i = j
    <3> TAKE i, j \in 1 .. Len(queue')
    <3>1. i + 1 \in 1 .. Len(queue) /\ j + 1 \in 1 .. Len(queue) /\ i \in Nat /\ j \in Nat
        BY <1>1, <2>2
    <3> QED
        BY <1>3, <2>2, <3>1
  <2>8. \A v, u \in Undecided' : task'[v].begin = task'[u].begin => v = u
    <3>1. \A v \in Undecided : task[v].begin # queue[1].begin
        BY <1>3, <2>5 DEF HeldNow
    <3> QED
        BY <1>3, <2>3, <2>4, <3>1
  <2>9. Queued' \cap HeldNow' = {}
      BY <1>3, <2>5, <2>6
  <2>10. Queued' \cup HeldNow' \subseteq Queued \cup HeldNow
      BY <2>5, <2>6
  <2> QED
      BY <1>2, <1>3, <2>7, <2>8, <2>9, <2>10 DEF TasksApart
<1>5. CASE ~Pop(w)
  <2>1. UNCHANGED <<queue, task>> /\ Queued' = Queued
      BY <1>5 DEF WorkerStep, TakeToken, WriteCut, Test, TakeIndex, CheckRoom, ReadMax,
         Double, ReadSize, Realloc, Assign, Store, Close, Unlock, queueVars, localVars,
         Queued
  <2>2. Undecided' \subseteq Undecided
    <3>1. \A v \in Workers : v # w => at'[v] = at[v]
        BY <1>1 DEF WorkerStep, TakeToken, Pop, WriteCut, Test, TakeIndex, CheckRoom,
           ReadMax, Double, ReadSize, Realloc, Assign, Store, Close, Unlock, Goto
    <3>2. at'[w] \in {"cut", "test", "record"} => at[w] \in {"cut", "test", "record"}
      <4>1. CASE TakeToken(w) \/ WriteCut(w) \/ Test(w) \/ TakeIndex(w) \/ CheckRoom(w)
          BY <1>1, <4>1 DEF TakeToken, WriteCut, Test, TakeIndex, CheckRoom, At, Goto
      <4>2. CASE \/ ReadMax(w) \/ Double(w) \/ ReadSize(w) \/ Realloc(w) \/ Assign(w)
                 \/ Store(w) \/ Close(w) \/ Unlock(w)
          BY <1>1, <4>2 DEF ReadMax, Double, ReadSize, Realloc, Assign, Store, Close,
             Unlock, At, Goto
      <4> QED
          BY <1>5, <4>1, <4>2 DEF WorkerStep
    <3> QED
        BY <3>1, <3>2 DEF Undecided
  <2>3. HeldNow' \subseteq HeldNow
      BY <2>1, <2>2 DEF HeldNow
  <2> QED
      BY <1>2, <1>3, <2>1, <2>2, <2>3 DEF TasksApart
<1> QED
    BY <1>2, <1>4, <1>5

LEMMA ApartWorker ==
    ASSUME RangeAssumption, IInv, TasksApart, NEW w \in Workers, WorkerStep(w)
    PROVE  TasksApart'
<1>1. CASE InRound /\ main' # "exit"
    BY <1>1, TasksStep
<1>2. CASE ~InRound \/ main' = "exit"
  <2>1. main' \in {main, "exit"}
      BY DEF WorkerStep, TakeToken, Pop, WriteCut, Test, TakeIndex, CheckRoom, ReadMax,
         Double, ReadSize, Realloc, Assign, Store, Close, Unlock, mainVars
  <2> QED
      BY <1>2, <2>1 DEF TasksApart, InRound
<1> QED
    BY <1>1, <1>2

LEMMA ApartStep == RangeAssumption /\ IInv /\ TasksApart /\ [Next]_vars => TasksApart'
<1> SUFFICES ASSUME RangeAssumption, IInv, TasksApart, [Next]_vars
             PROVE  TasksApart'
    OBVIOUS
<1>1. CASE UNCHANGED vars
  <2>1. UNCHANGED <<main, begin, queue, at, task>>
      BY <1>1 DEF vars, mainVars, queueVars, localVars
  <2>2. Undecided' = Undecided /\ Queued' = Queued /\ HeldNow' = HeldNow
      BY <2>1 DEF Queued, HeldNow, Undecided
  <2> QED
      BY <2>1, <2>2 DEF TasksApart, InRound
<1> QED
    BY <1>1, ApartMain, ApartWorker DEF Next, Ended

(* No block is given to two workers in a round, nor twice to the same one, *)
(* for every number of workers.                                            *)
THEOREM TasksAlwaysApart == Spec => []TasksApart
<1>1. Init => TasksApart
    BY DEF Init, TasksApart, InRound
<1>2. IInv /\ TasksApart /\ [Next]_vars => TasksApart'
    BY RangeAssumption, ApartStep
<1> QED
    BY <1>1, <1>2, IInvAlways, PTL DEF Spec
-----------------------------------------------------------------------------
(* The failures of a round.                                                *)
LEMMA PositionsFinite ==
    ASSUME RangeAssumption, NEW j, NEW s \in Candidates, NEW k \in Nat,
           NEW D, D \subseteq MayFailAt(j, s, k)
    PROVE  /\ IsFiniteSet(D) /\ Cardinality(D) \in Nat
           /\ Cardinality(MayFailAt(j, s, k)) \in Nat
           /\ Cardinality(D) <= Cardinality(MayFailAt(j, s, k))
<1>1. Len(s) \in Nat
    BY DEF RangeAssumption
<1>2. IsFiniteSet(0 .. Len(s) - k)
    BY <1>1, FS_Interval
<1>3. MayFailAt(j, s, k) \subseteq 0 .. Len(s) - k
    BY DEF MayFailAt
<1>4. IsFiniteSet(MayFailAt(j, s, k))
    BY <1>2, <1>3, FS_Subset
<1> QED
    BY <1>4, FS_Subset, FS_CardinalityType

LEMMA DecidedFinite ==
    ASSUME RangeAssumption, IInv
    PROVE  /\ IsFiniteSet(Decided) /\ Cardinality(Decided) \in Nat
           /\ Cardinality(MayFailAt(judge, disk[input_path], rs)) \in Nat
           /\ Cardinality(Decided) <= Cardinality(MayFailAt(judge, disk[input_path], rs))
<1>1. disk[input_path] \in Candidates /\ rs \in Nat
    BY DEF IInv, TypeOK, MainTypeOK, FileTypeOK
<1>2. Decided \subseteq MayFailAt(judge, disk[input_path], rs)
    BY DEF Decided
<1> QED
    BY <1>1, <1>2, PositionsFinite

LEMMA DecidedFiniteNext ==
    ASSUME RangeAssumption, IInv'
    PROVE  IsFiniteSet(Decided') /\ Cardinality(Decided') \in Nat
<1>1. disk'[input_path'] \in Candidates /\ rs' \in Nat
    BY DEF IInv, TypeOK, MainTypeOK, FileTypeOK
<1>2. Decided' \subseteq MayFailAt(judge', disk'[input_path'], rs')
    BY DEF Decided, MayFailAt
<1> QED
    BY <1>1, <1>2, PositionsFinite

(* Steps that open no block position.                                      *)
LEMMA DecidedFrame ==
    ASSUME RangeAssumption, IInv, IInv', FailuresCounted, InRound, fail_n' = fail_n,
           judge' = judge, rs' = rs, disk'[input_path'] = disk[input_path],
           \A b \in Nat : Open(b)' => Open(b)
    PROVE  FailuresCounted'
<1>1. Decided \subseteq Decided'
  <2>1. \A b \in MayFailAt(judge, disk[input_path], rs) : b \in Nat
      BY DEF MayFailAt
  <2> QED
      BY <2>1 DEF Decided, MayFailAt
<1>2. IsFiniteSet(Decided') /\ Cardinality(Decided') \in Nat
    BY DecidedFiniteNext
<1>3. Cardinality(Decided) <= Cardinality(Decided')
    BY <1>1, <1>2, FS_Subset
<1>4. fail_n \in Nat /\ Cardinality(Decided) \in Nat
    BY DecidedFinite DEF IInv, TypeOK, FailTypeOK
<1> QED
    BY <1>2, <1>3, <1>4 DEF FailuresCounted

LEMMA CountedMain ==
    ASSUME RangeAssumption, IInv, FailuresCounted, MainStep
    PROVE  FailuresCounted'
<1>1. IInv'
    BY IInvStep DEF Next
<1>2. /\ SyncTypeOK /\ begin \in Nat /\ queue \in Seq([rs : Nat, begin : Nat])
      /\ Len(queue) \in Nat
    BY DEF IInv, TypeOK, MainTypeOK, SyncTypeOK
<1>3. CASE StartRound
  <2>1. fail_n' = 0
      BY <1>3 DEF StartRound
  <2>2. Cardinality(Decided') \in Nat
      BY <1>1, DecidedFiniteNext
  <2> QED
      BY <2>1, <2>2 DEF FailuresCounted
<1>4. CASE Push \/ Post \/ AwaitEnd
  <2>1. /\ InRound /\ HeldNow' = HeldNow
        /\ UNCHANGED <<fail_n, judge, rs, disk, input_path>>
      BY <1>4 DEF Push, Post, AwaitEnd, InRound, HeldNow, Undecided, inputVars, failVars,
         localVars, fileVars
  <2>2. CASE Push
    <3>1. /\ main = "push" /\ main' = "post" /\ begin' = begin
          /\ queue' = Append(queue, [rs |-> r_size, begin |-> begin])
        BY <2>2 DEF Push
    <3>2. /\ Len(queue') = Len(queue) + 1 /\ queue'[Len(queue) + 1].begin = begin
          /\ \A i \in 1 .. Len(queue) : queue'[i] = queue[i]
        BY <1>2, <3>1
    <3>3. 1 .. Len(queue') = (1 .. Len(queue)) \cup {Len(queue) + 1}
        BY <1>2, <3>2
    <3>4. Queued' = Queued \cup {begin}
        BY <3>2, <3>3 DEF Queued
    <3>5. \A b \in Nat : Open(b)' => Open(b)
        BY <1>2, <2>1, <3>1, <3>4 DEF Open
    <3> QED
        BY <1>1, <2>1, <3>5, DecidedFrame
  <2>3. CASE Post \/ AwaitEnd
    <3>1. Queued' = Queued
        BY <2>3 DEF Post, AwaitEnd, Queued, queueVars
    <3>2. \A b \in Nat : Open(b)' => Open(b)
      <4>1. \/ main = "post" /\ begin' = begin + 1 /\ main' \in {"push", "wait"}
            \/ main' = "select"
          BY <2>3 DEF Post, PushOrWait, AwaitEnd
      <4> QED
          BY <1>2, <2>1, <3>1, <4>1 DEF Open
    <3> QED
        BY <1>1, <2>1, <3>2, DecidedFrame
  <2> QED
      BY <1>4, <2>2, <2>3
<1>5. CASE CopyInput \/ CopyRefused \/ Select \/ NextRange \/ Return
    BY <1>5 DEF CopyInput, CopyRefused, Select, NextRange, Return, FailuresCounted, InRound
<1> QED
    BY <1>3, <1>4, <1>5 DEF MainStep

(* A worker that holds a task finds the main thread in a round.            *)
LEMMA HeldInRound ==
    ASSUME RangeAssumption, IInv, NEW w \in Holding, main # "exit"
    PROVE  InRound
<1>1. existing # 0
    BY NothingLeft
<1> QED
    BY <1>1, IdleOutsideRound DEF IInv, TypeOK, MainTypeOK, InRound

(* A failure is counted when its block is no longer open.                  *)
LEMMA CountedWorker ==
    ASSUME RangeAssumption, IInv, CutsWritten, TasksApart, FailuresCounted,
           NEW w \in Workers, WorkerStep(w)
    PROVE  FailuresCounted'
<1>1. /\ IInv' /\ main \notin {"done", "exit"} /\ main' \in {main, "exit"}
      /\ at \in [Workers -> Locations] /\ input_size = Len(disk[input_path])
  <2>1. IInv'
      BY IInvStep DEF Next
  <2>2. main \notin {"done", "exit"} /\ main' \in {main, "exit"}
      BY DEF WorkerStep, TakeToken, Pop, WriteCut, Test, TakeIndex, CheckRoom, ReadMax,
         Double, ReadSize, Realloc, Assign, Store, Close, Unlock, mainVars, At, Running
  <2> QED
      BY <2>1, <2>2 DEF IInv, TypeOK, WorkerTypeOK, CutsWritten
<1>2. CASE main' = "exit"
    BY <1>2 DEF FailuresCounted, InRound
<1>3. CASE main' # "exit" /\ ~InRound
  <2>1. w \notin Holding
      BY <1>1, <1>3, HeldInRound
  <2>2. UNCHANGED <<fail_n, judge, rs, disk, input_path>> /\ main' = main
    <3>1. TakeToken(w) \/ Pop(w) \/ Unlock(w)
        BY <2>1 DEF WorkerStep, WriteCut, Test, TakeIndex, CheckRoom, ReadMax, Double,
           ReadSize, Realloc, Assign, Store, Close, At, Holding
    <3> QED
        BY <1>1, <1>3, <3>1 DEF TakeToken, Pop, Unlock, inputVars, failVars, fileVars
  <2>3. CASE main # "select"
      BY <1>3, <2>2, <2>3 DEF FailuresCounted, InRound
  <2>4. CASE main = "select"
    <3>1. queue = <<>> /\ Popping = {} /\ Holding = {}
        BY <2>4, IdleOutsideRound, NothingLeft
    <3>2. ~Pop(w)
        BY <3>1 DEF Pop, At, Popping
    <3>3. queue' = queue /\ (\A v \in Workers : v # w => at'[v] = at[v])
          /\ at'[w] \in {"idle", "pop"}
      <4>1. TakeToken(w) \/ Unlock(w)
          BY <2>1, <3>2 DEF WorkerStep, WriteCut, Test, TakeIndex, CheckRoom, ReadMax,
             Double, ReadSize, Realloc, Assign, Store, Close, At, Holding
      <4> QED
          BY <1>1, <4>1 DEF TakeToken, Unlock, Goto, queueVars
    <3>4. Undecided = {} /\ Undecided' = {}
        BY <3>1, <3>3 DEF Undecided, Holding
    <3>5. \A b : ~Open(b) /\ ~Open(b)'
        BY <2>2, <2>4, <3>1, <3>3, <3>4 DEF Open, Queued, HeldNow
    <3>6. Decided' = Decided
        BY <2>2, <3>5 DEF Decided, MayFailAt
    <3> QED
        BY <2>2, <2>4, <3>6 DEF FailuresCounted, InRound
  <2> QED
      BY <2>3, <2>4
<1>4. CASE main' # "exit" /\ InRound
  <2>1. /\ UNCHANGED <<main, begin, rs, judge, input_path>>
        /\ Queued' \cup HeldNow' \subseteq Queued \cup HeldNow
      BY <1>4, TasksStep
  <2>2. disk'[input_path] = disk[input_path]
    <3>1. CASE WriteCut(w)
        BY <3>1, WriteEffect
    <3>2. CASE ~WriteCut(w)
        BY <3>2 DEF WorkerStep, TakeToken, Pop, Test, TakeIndex, CheckRoom, ReadMax, Double,
           ReadSize, Realloc, Assign, Store, Close, Unlock, fileVars
    <3> QED
        BY <3>1, <3>2
  <2>3. \A b \in Nat : Open(b)' => Open(b)
      BY <2>1 DEF Open
  <2>4. CASE ~TakeIndex(w)
    <3>1. fail_n' = fail_n
        BY <2>4 DEF WorkerStep, TakeToken, Pop, WriteCut, Test, CheckRoom, ReadMax, Double,
           ReadSize, Realloc, Assign, Store, Close, Unlock, failVars
    <3> QED
        BY <1>1, <1>4, <2>1, <2>2, <2>3, <3>1, DecidedFrame
  <2>5. CASE TakeIndex(w)
    <3>0. PICK b : b = task[w].begin
        OBVIOUS
    <3>1. /\ at[w] = "record" /\ at' = [at EXCEPT ![w] = "check"] /\ fail_n' = fail_n + 1
          /\ UNCHANGED <<queue, task>>
        BY <2>5 DEF TakeIndex, At, Goto, queueVars
    <3>2. w \in Undecided /\ Undecided' = Undecided \ {w} /\ w \in Holding /\ w \in SawFailure
          /\ w \in Wrote
        BY <1>1, <3>1 DEF Undecided, Holding, SawFailure, Wrote
    <3>3. b \in HeldNow /\ b \in Nat /\ b + rs <= input_size /\ rs \in Nat
          /\ input_size \in Nat /\ begin \in Nat
        BY <1>1, <3>0, <3>2
        DEF HeldNow, IInv, TasksCurrent, TypeOK, WorkerTypeOK, MainTypeOK
    <3>4. b \in MayFailAt(judge, disk[input_path], rs)
      <4>1. TRUE \in judge[Cut(disk[input_path], b, rs, input_size)]
          BY <3>0, <3>2 DEF CutsWritten, ShowsFailure
      <4>2. b \in 0 .. input_size - rs
          BY <3>3
      <4> QED
          BY <1>1, <4>1, <4>2 DEF MayFailAt
    <3>5. Open(b)
        BY <3>3 DEF Open
    <3>6. b < begin \/ (main = "post" /\ b = begin)
        BY <1>4, <3>3 DEF TasksApart
    <3>7. b \notin Queued' /\ b \notin HeldNow'
      <4>1. Queued' = Queued /\ b \notin Queued
          BY <1>4, <3>1, <3>3 DEF TasksApart, Queued
      <4>2. \A v \in Undecided' : task'[v].begin # b
          BY <1>4, <3>0, <3>1, <3>2 DEF TasksApart
      <4> QED
          BY <4>1, <4>2 DEF HeldNow
    <3>8. ~Open(b)'
        BY <2>1, <3>3, <3>6, <3>7 DEF Open
    <3>9. b \notin Decided /\ Decided \cup {b} \subseteq Decided'
      <4>1. \A c \in MayFailAt(judge, disk[input_path], rs) : c \in Nat
          BY DEF MayFailAt
      <4>2. MayFailAt(judge, disk[input_path], rs)' = MayFailAt(judge, disk[input_path], rs)
          BY <2>1, <2>2 DEF MayFailAt
      <4> QED
          BY <2>3, <3>4, <3>5, <3>8, <4>1, <4>2 DEF Decided
    <3>10. /\ IsFiniteSet(Decided) /\ Cardinality(Decided) \in Nat
           /\ IsFiniteSet(Decided') /\ Cardinality(Decided') \in Nat
        BY <1>1, DecidedFinite, DecidedFiniteNext
    <3>11. Cardinality(Decided \cup {b}) = Cardinality(Decided) + 1
        BY <3>9, <3>10, FS_AddElement
    <3>12. Cardinality(Decided \cup {b}) <= Cardinality(Decided')
        BY <3>9, <3>10, FS_Subset
    <3>13. fail_n <= Cardinality(Decided) /\ fail_n \in Nat
        BY <1>4 DEF FailuresCounted, IInv, TypeOK, FailTypeOK
    <3> QED
        BY <3>1, <3>10, <3>11, <3>12, <3>13 DEF FailuresCounted
  <2> QED
      BY <2>4, <2>5
<1> QED
    BY <1>2, <1>3, <1>4

(* A worker that asks for room finds it.                                   *)
LEMMA RoomForFew ==
    ASSUME RangeAssumption, FewFailures, IInv, CutsWritten, FailuresCounted, NeverGrown,
           [Next]_vars
    PROVE  NeverGrown'
<1>1. /\ fail_max = FAIL_MAX /\ THREAD_N \in Nat /\ FAIL_MAX \in Nat /\ fail_n \in Nat
      /\ at \in [Workers -> Locations]
    BY DEF NeverGrown, RangeAssumption, IInv, TypeOK, FailTypeOK, WorkerTypeOK
<1>2. ASSUME NEW w \in Workers, WorkerStep(w)
      PROVE  NeverGrown'
  <2>1. ~(ReadMax(w) \/ Double(w) \/ ReadSize(w) \/ Realloc(w) \/ Assign(w))
      BY DEF NeverGrown, Growing, ReadMax, Double, ReadSize, Realloc, Assign, At
  <2>2. CASE ~CheckRoom(w)
    <3>1. /\ fail_max' = fail_max
          /\ at' = at \/ \E there \in Locations \ GrowAt : at' = [at EXCEPT ![w] = there]
        BY <1>2, <2>1, <2>2 DEF WorkerStep, TakeToken, Pop, WriteCut, Test, TakeIndex,
           Store, Close, Unlock, Goto, Locations, GrowAt, failVars
    <3> QED
        BY <1>1, <3>1 DEF NeverGrown, Growing, GrowAt
  <2>3. CASE CheckRoom(w)
    <3> DEFINE s == disk[input_path]
    <3>1. main # "exit" /\ w \in Holding
        BY <2>3 DEF CheckRoom, At, Running, Holding
    <3>2. InRound
        BY <3>1, HeldInRound
    <3>3. /\ s \in Candidates /\ judge \in Judges /\ Len(s) \in Nat
          /\ rs \in 1 .. Len(s)
      <4>1. s \in Candidates /\ judge \in Judges /\ Len(s) \in Nat
          BY DEF IInv, TypeOK, FileTypeOK, RangeAssumption
      <4>2. rs > 0 /\ rs < Len(s) /\ rs \in Nat
          BY <3>2 DEF IInv, RoundBounds, CutsWritten, TypeOK, MainTypeOK
      <4> QED
          BY <4>1, <4>2
    <3>4. Cardinality(MayFailAt(judge, s, rs)) + THREAD_N < FAIL_MAX
        BY <3>3 DEF FewFailures
    <3>5. /\ fail_n <= Cardinality(Decided) /\ Cardinality(Decided) \in Nat
          /\ Cardinality(Decided) <= Cardinality(MayFailAt(judge, s, rs))
          /\ Cardinality(MayFailAt(judge, s, rs)) \in Nat
        BY <3>2, DecidedFinite DEF FailuresCounted
    <3>6. ~(fail_n >= fail_max - THREAD_N)
        BY <1>1, <3>4, <3>5
    <3>7. at' = [at EXCEPT ![w] = "store"] /\ fail_max' = fail_max
        BY <2>3, <3>6 DEF CheckRoom, Goto, failVars
    <3> QED
        BY <1>1, <3>7 DEF NeverGrown, Growing
  <2> QED
      BY <2>2, <2>3
<1>3. CASE MainStep \/ UNCHANGED vars
  <2>1. at' = at /\ fail_max' = fail_max
      BY <1>3 DEF MainStep, CopyInput, CopyRefused, StartRound, Push, Post, AwaitEnd, Select,
         NextRange, Return, failVars, vars
  <2> QED
      BY <2>1 DEF NeverGrown, Growing
<1> QED
    BY <1>2, <1>3 DEF Next, Ended

LEMMA CountedStep ==
    RangeAssumption /\ IInv /\ CutsWritten /\ TasksApart /\ FailuresCounted /\ [Next]_vars
        => FailuresCounted'
<1> SUFFICES ASSUME RangeAssumption, IInv, CutsWritten, TasksApart, FailuresCounted,
                    [Next]_vars
             PROVE  FailuresCounted'
    OBVIOUS
<1>1. CASE UNCHANGED vars
  <2>1. UNCHANGED <<main, begin, queue, at, task, judge, disk, input_path, rs, fail_n>>
      BY <1>1 DEF vars, mainVars, inputVars, queueVars, failVars, localVars, fileVars
  <2>2. Undecided' = Undecided /\ Queued' = Queued /\ HeldNow' = HeldNow
      BY <2>1 DEF Queued, HeldNow, Undecided
  <2>3. Decided' = Decided
      BY <2>1, <2>2 DEF Decided, MayFailAt, Open
  <2> QED
      BY <2>1, <2>3 DEF FailuresCounted, InRound
<1> QED
    BY <1>1, CountedMain, CountedWorker DEF Next, Ended

(* When the target fails at few places of every input, no worker ever      *)
(* grows fail_arr, however long the input is.                              *)
THEOREM FewFailuresFit ==
    ASSUME FewFailures
    PROVE  Spec => [](NeverGrown /\ RecordsInv /\ FailuresCounted)
<1> DEFINE FewInv == RecordsInv /\ TasksApart /\ FailuresCounted /\ NeverGrown
<1>1. Init => FewInv
  <2>1. Init => TasksApart /\ FailuresCounted /\ NeverGrown
      BY DEF Init, TasksApart, FailuresCounted, InRound, NeverGrown, Growing
  <2> QED
      BY <2>1, RangeAssumption, RoomAssumption, RecordsInit
<1>2. IInv /\ FewInv /\ [Next]_vars => FewInv'
  <2>1. NeverGrown => GrowsAlone
      BY DEF NeverGrown, GrowsAlone, Growing
  <2>2. RecordsInv => CutsWritten
      BY DEF RecordsInv
  <2> QED
      BY <2>1, <2>2, RangeAssumption, RecordsStep, ApartStep, CountedStep, RoomForFew
<1>3. FewInv => NeverGrown /\ RecordsInv /\ FailuresCounted
    OBVIOUS
<1> QED
    BY <1>1, <1>2, <1>3, IInvAlways, PTL DEF Spec

-----------------------------------------------------------------------------
(* The promise of the tool.  What RangeReductionProofs says of the rounds  *)
(* is true of the rounds of the threads.                                   *)
Rounds == INSTANCE RangeReductionProofs
            WITH input <- disk[input_path], returned <- main = "done"

LEMMA RoundsAssumption == RangeAssumption => Rounds!ReductionAssumption
<1> SUFFICES ASSUME RangeAssumption
             PROVE  Rounds!ReductionAssumption
    OBVIOUS
<1>1. ASSUME NEW s \in Candidates
      PROVE  /\ s \in Seq(0 .. 255)
             /\ \A k \in 0 .. Len(s) : Rounds!Cuts(s, k) \subseteq Candidates
  <2>1. s \in Seq(0 .. 255) /\ Len(s) \in Nat
      BY DEF RangeAssumption
  <2>2. ASSUME NEW k \in 0 .. Len(s), NEW b \in 0 .. Len(s) - k
        PROVE  Cut(s, b, k, Len(s)) \in Candidates
      BY <2>1, CutCandidate
  <2> QED
      BY <2>1, <2>2 DEF Rounds!Cuts, Rounds!Cut, Cut
<1> QED
    BY <1>1 DEF Rounds!ReductionAssumption, RangeAssumption

(* Nobody races for fail_arr when there is a single worker or fail_arr has *)
(* room for the failures of every round.                                   *)
THEOREM NobodyRaces ==
    ASSUME NoRace
    PROVE  Spec => []GrowsAlone
<1>1. ASSUME THREAD_N = 1
      PROVE  Spec => []GrowsAlone
  <2>1. GrowsAlone
      BY <1>1 DEF GrowsAlone, Growing, Workers
  <2> QED
      BY <2>1, PTL
<1>2. ASSUME ShortInputs
      PROVE  Spec => []GrowsAlone
  <2>1. RoomInv => GrowsAlone
      BY DEF RoomInv, NeverGrown, GrowsAlone, Growing
  <2> QED
      BY <1>2, <2>1, ShortInputsFit, PTL
<1>3. ASSUME FewFailures
      PROVE  Spec => []GrowsAlone
  <2>1. NeverGrown => GrowsAlone
      BY DEF NeverGrown, GrowsAlone, Growing
  <2> QED
      BY <1>3, <2>1, FewFailuresFit, PTL
<1> QED
    BY <1>1, <1>2, <1>3 DEF NoRace

(* The recorded files, their indexes and the block positions of the round  *)
(* stay in step.                                                           *)
THEOREM RecordsAlways ==
    ASSUME NoRace
    PROVE  Spec => []RecordsInv
BY NobodyRaces, RecordsWhileAlone, PTL

(* No recorded failure is lost: when the main thread selects, every index  *)
(* below fail_n names another file of a failure of the round.              *)
THEOREM FailuresAlwaysKept ==
    ASSUME NoRace
    PROVE  Spec => []FailuresKept
<1>1. IInv /\ RecordsInv => FailuresKept
    BY RangeAssumption, KeptFromRecords
<1> QED
    BY <1>1, IInvAlways, RecordsAlways, PTL

(* The path range() returns names a string from which no single byte can   *)
(* be removed such that the target surely still fails.                     *)
THEOREM ResultAlwaysOneMinimal ==
    ASSUME NoRace
    PROVE  Spec => []ResultOneMinimal
<1>1. IInv /\ RecordsInv => ResultOneMinimal
    BY RangeAssumption, OneMinimalFromRecords
<1> QED
    BY <1>1, IInvAlways, RecordsAlways, PTL

(* The protocol of threads, semaphores, files and fail_arr does what the   *)
(* rounds of RangeReduction do.                                            *)
THEOREM Refinement ==
    ASSUME NoRace
    PROVE  Spec => ImplementsReduction
<1>1. Init => Reduction!Init
    BY DEF Init, Reduction!Init
<1>2. IInv /\ RecordsInv /\ [Next]_vars => [Reduction!Next]_(Reduction!vars)
    BY RangeAssumption, RoundSimulation
<1> QED
    BY <1>1, <1>2, IInvAlways, RecordsAlways, PTL
    DEF Spec, ImplementsReduction, Reduction!Spec

(* range() with its workers keeps the promise of the tool: from one failing*)
(* string to a shorter one, and no return before every single byte was     *)
(* tried.                                                                  *)
THEOREM PromiseKept ==
    ASSUME NoRace
    PROVE  Spec => Rounds!ImplementsMinimiser
<1>1. Reduction!Init => Rounds!Init
    BY DEF Reduction!Init, Rounds!Init
<1>2. [Reduction!Next]_(Reduction!vars) => [Rounds!Next]_(Rounds!vars)
    BY DEF Reduction!Next, Reduction!vars, Reduction!Reduce, Reduction!Narrow,
       Reduction!Return, Reduction!Cuts, Reduction!Cut, Reduction!MayFail,
       Reduction!MustFail, Reduction!NextSize, Reduction!Lesser, Reduction!Smaller,
       Rounds!Next, Rounds!vars, Rounds!Reduce, Rounds!Narrow, Rounds!Return,
       Rounds!Cuts, Rounds!Cut, Rounds!MayFail, Rounds!MustFail, Rounds!NextSize,
       Rounds!Lesser, Rounds!Smaller
<1>3. ImplementsReduction => Rounds!Spec
    BY <1>1, <1>2, PTL DEF ImplementsReduction, Reduction!Spec, Rounds!Spec
<1>4. Rounds!Spec => Rounds!ImplementsMinimiser
    BY RangeAssumption, RoundsAssumption, Rounds!Implementation
<1> QED
    BY <1>3, <1>4, Refinement, PTL
=============================================================================
