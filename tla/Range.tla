------------------------------- MODULE Range -------------------------------
(***************************************************************************)
(* src/range.c: range(), _range() and the THREAD_N workers in test_range().*)
(*                                                                         *)
(* The main thread queues one task per block position and then waits for   *)
(* terminated_sem; the workers take tasks, write the cut file, run the     *)
(* target on it and record the files it failed on.  One action is one      *)
(* critical section or one access to a shared variable outside them.       *)
(* Left out: progress output and file_no, which only feeds it.             *)
(***************************************************************************)
EXTENDS ByteStrings, FiniteSets

CONSTANTS THREAD_N,    (* number of workers (4 in include/range.h)         *)
          FAIL_MAX,    (* first capacity of fail_arr (16 in the code)      *)
          Candidates,  (* the byte strings the target may be run on        *)
          Inputs,      (* contents of the input file                       *)
          Judges,      (* targets: the verdicts a test of a string may give*)
          Leftovers    (* copies of the input an earlier run left behind   *)

Workers == 0 .. THREAD_N - 1
NoOne   == THREAD_N
Unset   == <<"unset", 0>>
Names   == {"input", "thread", "thread.part", "part"} \X Nat

RangeAssumption ==
    /\ THREAD_N \in Nat \ {0}
    /\ FAIL_MAX \in Nat \ {0}
    /\ Inputs \subseteq Candidates
    /\ \A s \in Candidates :
          /\ s \in Seq(0 .. 255)
          /\ \A b, k, n \in 0 .. Len(s) : b + k <= n => Cut(s, b, k, n) \in Candidates
    /\ \A j \in Judges : j \in [Candidates -> (SUBSET BOOLEAN) \ {{}}]
    /\ \A c \in Leftovers : DOMAIN c \subseteq Workers /\ c \in [DOMAIN c -> Candidates]

ASSUME RangeAssumption

(* fail_arr starts with an index for every worker (16 and 4 in the code).  *)
RoomAssumption == THREAD_N <= FAIL_MAX

ASSUME RoomAssumption

VARIABLES
    main,           (* where the main thread is in _range()                *)
    r_size, begin,  (* its locals                                          *)
    input_path, input_size, rs, total_fail_n,
    existing, end_mt, terminated_sem,
    queue, q_sem,
    fail_n, fail_max,
    fail_arr, heap, (* the pointer fail_arr and the blocks realloc() made  *)
    at,             (* where each worker is in test_range()                *)
    task, fail_idx, read_max, grown,  (* workers' locals                   *)
    out_files, fail_stack,
    disk, copies,   (* files; the workers' copies origin_input<i>          *)
    judge

mainVars  == <<main, r_size, begin>>
inputVars == <<input_path, input_size, rs, total_fail_n>>
endVars   == <<existing, end_mt, terminated_sem>>
queueVars == <<queue, q_sem>>
failVars  == <<fail_n, fail_max, fail_arr, heap>>
fileVars  == <<disk, copies>>
outVars   == <<out_files, fail_stack>>
localVars == <<task, fail_idx, read_max, grown>>
vars == <<mainVars, inputVars, endVars, queueVars, failVars, at, localVars,
          outVars, fileVars, judge>>
-----------------------------------------------------------------------------
MutNumTasks(size, k)  == size - k
MutBeyondEnd(size, k) == size - k + 1
MutSkipSize(k, size)  == Lesser(k - 1, size - k - 1)
MutWholeSize(k, size) == Lesser(k, size - k)

NumTasks(size, k)  == size - k + 1
LastBegin(size, k) == size - k
NextSize(k, size)  == Lesser(k, size - k - 1)

MutSmaller(k) == k
Smaller(k)    == k - 1

(* sem_post(&terminated_sem) when "left" tasks are left.                   *)
MutEndSignal(left) == IF left <= 1 THEN 1 ELSE 0
EndSignal(left)    == IF left = 0 THEN 1 ELSE 0

(* The queue without its front.                                            *)
MutPopped(q) == q
Popped(q)    == Tail(q)

(* out_files[w] after its k-th failure: "thread<w>" at first, then         *)
(* "./thread<number>.part".                                                *)
MutPartName(w, k) == <<IF k = 0 THEN "thread" ELSE "thread.part", w + k>>
PartName(w, k)    == <<IF k = 0 THEN "thread" ELSE "thread.part", w + THREAD_N * k>>
FailPath(n)    == <<"part", n>>

(* The file system: a function on the names that exist.                    *)
Written(files, n, s) ==
    [m \in DOMAIN files \cup {n} |-> IF m = n THEN s ELSE files[m]]
Renamed(files, from, to) ==
    [m \in (DOMAIN files \ {from}) \cup {to} |->
        IF m = to THEN files[from] ELSE files[m]]

NoCopies == [w \in {} |-> <<>>]

(* Where the main thread goes once "begin" is b.                           *)
PushOrWait(b, k) == IF b <= LastBegin(input_size, k) THEN "push" ELSE "wait"

Running == main \notin {"done", "exit"}

At(w, here) == Running /\ at[w] = here
Goto(w, there) == at' = [at EXCEPT ![w] = there]
-----------------------------------------------------------------------------
(* range() up to the call of _range(): the threads exist and nothing is    *)
(* queued.                                                                 *)
Init ==
    /\ \E s \in Inputs :
          /\ disk = [m \in {<<"input", 0>>} |-> s]
          /\ input_size = Len(s)
          /\ r_size = Len(s) - 1
    /\ input_path = <<"input", 0>>
    /\ judge \in Judges
    /\ copies \in Leftovers
    /\ main = "copy" /\ begin = 0 /\ rs = 0 /\ total_fail_n = 0
    /\ existing = 0 /\ end_mt = NoOne /\ terminated_sem = 0
    /\ queue = <<>> /\ q_sem = 0
    /\ fail_n = 0 /\ fail_max = FAIL_MAX
    /\ fail_arr = 1
    /\ heap = <<[live |-> TRUE, arr |-> [i \in 1 .. FAIL_MAX |-> Unset]]>>
    /\ at = [w \in Workers |-> "idle"]
    /\ task = [w \in Workers |-> [rs |-> 0, begin |-> 0]]
    /\ fail_idx = [w \in Workers |-> 0]
    /\ read_max = [w \in Workers |-> 0]
    /\ grown = [w \in Workers |-> 0]
    /\ fail_stack = [w \in Workers |-> 0]
    /\ out_files = [w \in Workers |-> PartName(w, 0)]
-----------------------------------------------------------------------------
(* copy() for each worker: it refuses to overwrite a file that exists, and *)
(* then the process ends, the copies made so far staying behind.           *)
CopyInput ==
    /\ main = "copy"
    /\ DOMAIN copies = {}
    /\ copies' = [w \in Workers |-> disk[input_path]]
    /\ main' = "round"
    /\ UNCHANGED <<r_size, begin, inputVars, endVars, queueVars, failVars, at,
                    localVars, outVars, disk, judge>>

CopyRefused ==
    /\ main = "copy"
    /\ \E first \in DOMAIN copies :
          /\ \A w \in DOMAIN copies : first <= w
          /\ copies' = [w \in DOMAIN copies \cup 0 .. first - 1 |->
                          IF w < first THEN disk[input_path] ELSE copies[w]]
    /\ main' = "exit"
    /\ UNCHANGED <<r_size, begin, inputVars, endVars, queueVars, failVars, at,
                    localVars, outVars, disk, judge>>

(* The head of the loop over r_size.                                       *)
StartRound ==
    /\ main = "round"
    /\ r_size > 0
    /\ fail_n' = 0
    /\ rs' = r_size
    /\ existing' = NumTasks(input_size, r_size)
    /\ begin' = 0
    /\ main' = PushOrWait(0, r_size)
    /\ UNCHANGED <<r_size, input_path, input_size, total_fail_n, end_mt,
                    terminated_sem, queueVars, fail_max, fail_arr, heap, at,
                    localVars, outVars, fileVars, judge>>

(* push_queue() under start_mt, then sem_post(&q_sem) outside it.          *)
Push ==
    /\ main = "push"
    /\ queue' = Append(queue, [rs |-> r_size, begin |-> begin])
    /\ main' = "post"
    /\ UNCHANGED <<r_size, begin, inputVars, endVars, q_sem, failVars, at,
                    localVars, outVars, fileVars, judge>>

Post ==
    /\ main = "post"
    /\ q_sem' = q_sem + 1
    /\ begin' = begin + 1
    /\ main' = PushOrWait(begin + 1, r_size)
    /\ UNCHANGED <<r_size, inputVars, endVars, queue, failVars, at, localVars,
                    outVars, fileVars, judge>>

AwaitEnd ==
    /\ main = "wait"
    /\ terminated_sem > 0
    /\ terminated_sem' = terminated_sem - 1
    /\ main' = "select"
    /\ UNCHANGED <<r_size, begin, inputVars, existing, end_mt, queueVars,
                    failVars, at, localVars, outVars, fileVars, judge>>

(* fail_arr[k] as far as the code defines it; reading a block that was     *)
(* moved away from may also give what the block held last.                 *)
Slot(k)     == IF k < Len(heap[fail_arr].arr) THEN heap[fail_arr].arr[k + 1] ELSE Unset
Recorded(k) == IF heap[fail_arr].live THEN Slot(k) ELSE Unset

(* One recorded file, any of them, is renamed and becomes the input of the *)
(* recursive call of _range(); rename() fails on a name with no file.      *)
Select ==
    /\ main = "select"
    /\ fail_n > 0
    /\ \E k \in 0 .. fail_n - 1 : \E found \in {Recorded(k), Slot(k)} :
          IF found \in DOMAIN disk
          THEN /\ total_fail_n' = total_fail_n + 1
               /\ disk' = Renamed(disk, found, FailPath(total_fail_n + 1))
               /\ input_path' = FailPath(total_fail_n + 1)
               /\ input_size' = input_size - rs
               /\ r_size' = NextSize(rs, input_size)
               /\ copies' = NoCopies
               /\ main' = "copy"
          ELSE /\ main' = "exit"
               /\ total_fail_n' = total_fail_n + 1
               /\ UNCHANGED <<disk, copies, input_path, input_size, r_size>>
    /\ UNCHANGED <<begin, rs, endVars, queueVars, failVars, at, localVars,
                    outVars, judge>>

(* The round found nothing: r_size--.                                      *)
NextRange ==
    /\ main = "select"
    /\ fail_n = 0
    /\ r_size' = Smaller(r_size)
    /\ main' = "round"
    /\ UNCHANGED <<begin, inputVars, endVars, queueVars, failVars, at,
                    localVars, outVars, fileVars, judge>>

(* The loop is over: the copies are removed and range() returns.           *)
Return ==
    /\ main = "round"
    /\ r_size <= 0
    /\ copies' = NoCopies
    /\ main' = "done"
    /\ UNCHANGED <<r_size, begin, inputVars, endVars, queueVars, failVars, at,
                    localVars, outVars, disk, judge>>
-----------------------------------------------------------------------------
(* A worker waits for a task...                                            *)
TakeToken(w) ==
    /\ At(w, "idle")
    /\ q_sem > 0
    /\ q_sem' = q_sem - 1
    /\ Goto(w, "pop")
    /\ UNCHANGED <<mainVars, inputVars, endVars, queue, failVars, localVars,
                    outVars, fileVars, judge>>

(* ...and pops it under start_mt; pop_queue() ends the process on an empty *)
(* queue.                                                                  *)
Pop(w) ==
    /\ At(w, "pop")
    /\ IF queue = <<>>
       THEN main' = "exit" /\ UNCHANGED <<queue, task, at>>
       ELSE /\ task' = [task EXCEPT ![w] = Head(queue)]
            /\ queue' = Popped(queue)
            /\ Goto(w, "cut")
            /\ UNCHANGED main
    /\ UNCHANGED <<r_size, begin, inputVars, endVars, q_sem, failVars,
                    fail_idx, read_max, grown, outVars, fileVars, judge>>

(* fopen() to the size check: the block that starts at the task's begin is *)
(* cut out of the worker's copy.  The length of the block is the global    *)
(* rs, not the rs of the task.  On a copy shorter than input_size          *)
(* read_and_write() never leaves its loop.                                 *)
WriteCut(w) ==
    /\ At(w, "cut")
    /\ w \in DOMAIN copies
    /\ Len(copies[w]) >= input_size
    /\ disk' = Written(disk, out_files[w],
                       Cut(copies[w], task[w].begin, rs, input_size))
    /\ Goto(w, "test")
    /\ UNCHANGED <<mainVars, inputVars, endVars, queueVars, failVars,
                    localVars, outVars, copies, judge>>

(* test_buffer_overflow_thread().                                          *)
Test(w) ==
    /\ At(w, "test")
    /\ \E failed \in judge[disk[out_files[w]]] :
          Goto(w, IF failed THEN "record" ELSE "close")
    /\ UNCHANGED <<mainVars, inputVars, endVars, queueVars, failVars,
                    localVars, outVars, fileVars, judge>>

(* Under find_mt.                                                          *)
TakeIndex(w) ==
    /\ At(w, "record")
    /\ fail_idx' = [fail_idx EXCEPT ![w] = fail_n]
    /\ fail_n' = fail_n + 1
    /\ Goto(w, "check")
    /\ UNCHANGED <<mainVars, inputVars, endVars, queueVars, fail_max, fail_arr,
                    heap, task, read_max, grown, outVars, fileVars, judge>>

(* From here to the store no mutex is held.                                *)
CheckRoom(w) ==
    /\ At(w, "check")
    /\ Goto(w, IF fail_n >= fail_max - THREAD_N THEN "double" ELSE "store")
    /\ UNCHANGED <<mainVars, inputVars, endVars, queueVars, failVars,
                    localVars, outVars, fileVars, judge>>

(* fail_max *= 2 is a read and a write...                                  *)
ReadMax(w) ==
    /\ At(w, "double")
    /\ read_max' = [read_max EXCEPT ![w] = fail_max]
    /\ Goto(w, "doubled")
    /\ UNCHANGED <<mainVars, inputVars, endVars, queueVars, failVars, task,
                    fail_idx, grown, outVars, fileVars, judge>>

MutDoubled(n) == n
Doubled(n)    == n * 2

Double(w) ==
    /\ At(w, "doubled")
    /\ fail_max' = Doubled(read_max[w])
    /\ Goto(w, "size")
    /\ UNCHANGED <<mainVars, inputVars, endVars, queueVars, fail_n, fail_arr,
                    heap, localVars, outVars, fileVars, judge>>

(* ...and it is read again for the size the block is to have.              *)
ReadSize(w) ==
    /\ At(w, "size")
    /\ read_max' = [read_max EXCEPT ![w] = fail_max]
    /\ Goto(w, "realloc")
    /\ UNCHANGED <<mainVars, inputVars, endVars, queueVars, failVars, task,
                    fail_idx, grown, outVars, fileVars, judge>>

MutEnlarged(arr, n) == [i \in 1 .. n |-> Unset]
Enlarged(arr, n)    == [i \in 1 .. n |-> IF i <= Len(arr) THEN arr[i] ELSE Unset]

(* realloc() extends the block or moves it to a new one, or cuts it off if *)
(* the size read is stale; a block that was already moved away from makes  *)
(* it abort the process.                                                   *)
Realloc(w) ==
    /\ At(w, "realloc")
    /\ LET block == heap[fail_arr]
           more  == [live |-> TRUE, arr |-> Enlarged(block.arr, read_max[w])]
       IN  \/ /\ block.live
              /\ heap' = [heap EXCEPT ![fail_arr] = more]
              /\ grown' = [grown EXCEPT ![w] = fail_arr]
              /\ Goto(w, "assign")
              /\ UNCHANGED main
           \/ /\ block.live
              /\ heap' = Append([heap EXCEPT ![fail_arr].live = FALSE], more)
              /\ grown' = [grown EXCEPT ![w] = Len(heap) + 1]
              /\ Goto(w, "assign")
              /\ UNCHANGED main
           \/ /\ ~block.live
              /\ main' = "exit"
              /\ UNCHANGED <<heap, grown, at>>
    /\ UNCHANGED <<r_size, begin, inputVars, endVars, queueVars, fail_n,
                    fail_max, fail_arr, task, fail_idx, read_max, outVars,
                    fileVars, judge>>

Assign(w) ==
    /\ At(w, "assign")
    /\ fail_arr' = grown[w]
    /\ Goto(w, "store")
    /\ UNCHANGED <<mainVars, inputVars, endVars, queueVars, fail_n, fail_max,
                    heap, localVars, outVars, fileVars, judge>>

(* fail_arr[fail_idx] = out_files[w], and a new name for the worker.  A    *)
(* store outside the block, or into a block that was moved away from, is   *)
(* undefined: it is lost, or the process dies.                             *)
Store(w) ==
    /\ At(w, "store")
    /\ LET block == heap[fail_arr]
           slot  == fail_idx[w] + 1
           sound == block.live /\ slot <= Len(block.arr)
       IN  \/ /\ sound
              /\ heap' = [heap EXCEPT ![fail_arr].arr[slot] = out_files[w]]
              /\ UNCHANGED main
           \/ ~sound /\ UNCHANGED <<heap, main>>
           \/ ~sound /\ main' = "exit" /\ UNCHANGED heap
    /\ fail_stack' = [fail_stack EXCEPT ![w] = @ + 1]
    /\ out_files' = [out_files EXCEPT ![w] = PartName(w, fail_stack[w] + 1)]
    /\ Goto(w, "close")
    /\ UNCHANGED <<r_size, begin, inputVars, endVars, queueVars, fail_n,
                    fail_max, fail_arr, localVars, fileVars, judge>>

(* Under end_mt, which is released by the next step: the worker that ends  *)
(* the last task of the round wakes the main thread.                       *)
Close(w) ==
    /\ At(w, "close")
    /\ end_mt = NoOne
    /\ end_mt' = w
    /\ existing' = existing - 1
    /\ terminated_sem' = terminated_sem + EndSignal(existing')
    /\ Goto(w, "unlock")
    /\ UNCHANGED <<mainVars, inputVars, queueVars, failVars, localVars, outVars,
                    fileVars, judge>>

Unlock(w) ==
    /\ At(w, "unlock")
    /\ end_mt' = NoOne
    /\ Goto(w, "idle")
    /\ UNCHANGED <<mainVars, inputVars, existing, terminated_sem, queueVars,
                    failVars, localVars, outVars, fileVars, judge>>
-----------------------------------------------------------------------------
MainStep ==
    \/ CopyInput \/ CopyRefused \/ StartRound \/ Push \/ Post \/ AwaitEnd
    \/ Select \/ NextRange \/ Return

WorkerStep(w) ==
    \/ TakeToken(w) \/ Pop(w) \/ WriteCut(w) \/ Test(w) \/ TakeIndex(w)
    \/ CheckRoom(w) \/ ReadMax(w) \/ Double(w) \/ ReadSize(w) \/ Realloc(w)
    \/ Assign(w) \/ Store(w) \/ Close(w) \/ Unlock(w)

(* The process has ended.                                                  *)
Ended == ~Running /\ UNCHANGED vars

Next == MainStep \/ (\E w \in Workers : WorkerStep(w)) \/ Ended

Spec == Init /\ [][Next]_vars

(* The scheduler runs every thread that can run, and every run of the      *)
(* target ends.                                                            *)
FairSpec ==
    /\ Spec
    /\ WF_vars(MainStep)
    /\ \A w \in Workers : WF_vars(WorkerStep(w))
-----------------------------------------------------------------------------
InRound == main \in {"push", "post", "wait"}

Popping == {w \in Workers : at[w] = "pop"}

(* Workers between their pop and existing--.                               *)
Holding == {w \in Workers : at[w] \in {"cut", "test", "record", "check", "double",
                "doubled", "size", "realloc", "assign", "store", "close"}}

(* Tasks of the round the main thread has not queued yet.                  *)
ToPush ==
    CASE main = "push" -> NumTasks(input_size, rs) - begin
      [] main = "post" -> NumTasks(input_size, rs) - begin - 1
      [] OTHER -> 0

Locations == {"idle", "pop", "cut", "test", "record", "check", "double",
              "doubled", "size", "realloc", "assign", "store", "close", "unlock"}

MainTypeOK ==
    /\ main \in {"copy", "round", "push", "post", "wait", "select", "done", "exit"}
    /\ r_size \in Int /\ rs \in Nat /\ begin \in Nat
    /\ input_size \in Nat /\ total_fail_n \in Nat

SyncTypeOK ==
    /\ existing \in Nat /\ terminated_sem \in Nat /\ q_sem \in Nat
    /\ end_mt \in Workers \cup {NoOne}
    /\ queue \in Seq([rs : Nat, begin : Nat])

FailTypeOK ==
    /\ fail_n \in Nat /\ fail_max \in Nat
    /\ heap \in Seq([live : BOOLEAN, arr : Seq(Names \cup {Unset})])
    /\ fail_arr \in 1 .. Len(heap)
    /\ read_max \in [Workers -> Nat]
    /\ grown \in [Workers -> 0 .. Len(heap)]

WorkerTypeOK ==
    /\ at \in [Workers -> Locations]
    /\ task \in [Workers -> [rs : Nat, begin : Nat]]
    /\ fail_idx \in [Workers -> Nat]
    /\ fail_stack \in [Workers -> Nat]
    /\ out_files \in [Workers -> Names]

FileTypeOK ==
    /\ input_path \in DOMAIN disk
    /\ DOMAIN disk \subseteq Names /\ disk \in [DOMAIN disk -> Candidates]
    /\ DOMAIN copies \subseteq Workers /\ copies \in [DOMAIN copies -> Candidates]

TypeOK ==
    /\ MainTypeOK /\ SyncTypeOK /\ FailTypeOK /\ WorkerTypeOK /\ FileTypeOK
    /\ judge \in Judges

(* A worker that got past sem_wait(&q_sem) always finds a task: tokens and *)
(* queued tasks stay in step although push and post are two steps, and so  *)
(* are wait and pop.  ("cannot pop_queue()" is never reached.)             *)
TokensMatchTasks ==
    main # "exit" =>
        Len(queue) =
            q_sem + Cardinality(Popping) + (IF main = "post" THEN 1 ELSE 0)

(* The counter "existing" is the number of tasks of the round that are not *)
(* finished: not queued yet, queued, or held by a worker.                  *)
ExistingCountsTasks ==
    main # "exit" => existing = ToPush + Len(queue) + Cardinality(Holding)

(* The end signal is never early: as soon as terminated_sem is posted, and *)
(* while the main thread is outside a round, no task is queued or held and *)
(* no token is left; only the worker that posted may still hold end_mt.    *)
SignalMeansIdle ==
    \/ main \in {"copy", "round", "select", "done"}
    \/ main # "exit" /\ terminated_sem > 0
    =>  /\ queue = <<>> /\ q_sem = 0
        /\ \A w \in Workers :
              at[w] = "idle" \/ (at[w] = "unlock" /\ end_mt = w)

(* The signal is given once per round: it is never left over for the next. *)
SignalOncePerRound ==
    main # "exit" =>
        terminated_sem = IF main = "wait" /\ existing = 0 THEN 1 ELSE 0

(* A worker's cut is made from the current input with the size and block   *)
(* the task was queued for, although the worker reads the globals rs and   *)
(* input_size and its own copy of the input at a later time.               *)
TasksCurrent ==
    main # "exit" =>
        /\ \A i \in 1 .. Len(queue) :
              queue[i].rs = rs /\ queue[i].begin + rs <= input_size
        /\ \A w \in Holding :
              /\ task[w].rs = rs /\ task[w].begin + rs <= input_size
              /\ w \in DOMAIN copies /\ copies[w] = disk[input_path]

(* When the main thread selects, every index below fail_n names a file     *)
(* that exists and holds a string of this round on which the target was    *)
(* seen to fail, no file is recorded twice, and input_size is right.       *)
FailuresKept ==
    main = "select" =>
        /\ \A k \in 0 .. fail_n - 1 :
              /\ Recorded(k) \in DOMAIN disk
              /\ disk[Recorded(k)] \in Cuts(disk[input_path], rs)
              /\ TRUE \in judge[disk[Recorded(k)]]
        /\ \A k, l \in 0 .. fail_n - 1 : Recorded(k) = Recorded(l) => k = l
        /\ input_size = Len(disk[input_path])

(* The path returned names a string from which no single byte can be       *)
(* removed such that the target surely still fails.                        *)
ResultOneMinimal ==
    main = "done" /\ Len(disk[input_path]) > 1 =>
        \A s \in Cuts(disk[input_path], 1) : judge[s] # {TRUE}

(* What the round looks like to the main thread.                           *)
RoundBounds ==
    /\ r_size < input_size
    /\ InRound \/ main = "select" => rs = r_size /\ r_size > 0
    /\ main \in {"push", "post"} => begin <= LastBegin(input_size, rs)
    /\ main \in {"copy", "round", "select", "done"} => existing = 0

(* Only the worker that left the critical section of end_mt holds it, and  *)
(* a worker about to assign fail_arr has a block.                          *)
WorkerLocals ==
    \A w \in Workers :
        /\ at[w] = "unlock" => end_mt = w
        /\ at[w] = "assign" => grown[w] > 0

(* While a round runs every worker has its copy of the current input.      *)
CopiesCurrent ==
    main \in {"round", "push", "post", "wait", "select"} =>
        copies = [w \in Workers |-> disk[input_path]]

(* No worker ever writes to the current input: its name is of another kind.*)
NamesApart ==
    /\ input_path[1] \in {"input", "part"}
    /\ \A w \in Workers : out_files[w][1] \in {"thread", "thread.part"}

(* The inductive invariant behind the protocol's invariants.               *)
IInv ==
    /\ TypeOK /\ TokensMatchTasks /\ ExistingCountsTasks /\ SignalOncePerRound
    /\ TasksCurrent /\ RoundBounds /\ WorkerLocals /\ CopiesCurrent /\ NamesApart

(* Workers from their read of fail_max, to double it, up to the assignment *)
(* of what realloc() returned.                                             *)
Growing == {w \in Workers : at[w] \in {"doubled", "size", "realloc", "assign"}}

(* No worker stores to fail_arr or grows it while another one grows it.    *)
(* Nothing in the code ensures this (no mutex is held): it holds with a    *)
(* single worker, and as long as fail_arr has room for the failures of a   *)
(* round.                                                                  *)
GrowsAlone ==
    \A v \in Workers, w \in Growing : v # w => v \notin Growing /\ at[v] # "store"

(* Workers with an index of fail_arr they have not stored to yet, and those*)
(* among them that may still find that there is no room.                   *)
Recording == {w \in Workers : at[w] \in {"check", "double", "doubled", "size",
                                          "realloc", "assign", "store"}}
Checking  == {w \in Workers : at[w] \in {"check", "double", "doubled"}}

(* Workers whose file holds the cut of their task, and those that saw the  *)
(* target fail on it.                                                      *)
Wrote      == {w \in Workers : at[w] \in {"test", "record"}} \cup Recording
SawFailure == {w \in Workers : at[w] = "record"} \cup Recording

(* The array recorded in: the last block that realloc() made.              *)
Records == heap[Len(heap)].arr

(* The last block is the one in use, and every index taken is inside it,   *)
(* or its worker has yet to see that there is no room.                     *)
BlockInUse ==
    /\ heap[Len(heap)].live
    /\ \A w \in Workers : at[w] = "assign" => grown[w] = Len(heap)
    /\ (\A w \in Workers : at[w] # "assign") => fail_arr = Len(heap)
    /\ (\A w \in Workers : at[w] \notin {"size", "realloc"}) => Len(Records) = fail_max
    /\ \A w \in Workers : at[w] \in {"doubled", "realloc"} => read_max[w] = fail_max
    /\ fail_max >= THREAD_N
    /\ fail_n + THREAD_N <= fail_max + Cardinality(Checking)
    /\ \A w \in Recording : fail_idx[w] < fail_n
    /\ \A v, w \in Recording : fail_idx[v] = fail_idx[w] => v = w

(* The file holds a string of this round the target may fail on.           *)
ShowsFailure(name) ==
    /\ name \in DOMAIN disk
    /\ disk[name] \in Cuts(disk[input_path], rs)
    /\ TRUE \in judge[disk[name]]

(* The file of a worker that has written it holds the worker's cut, and it *)
(* has a name no worker has recorded before.                               *)
CutsWritten ==
    /\ input_size = Len(disk[input_path])
    /\ \A w \in Workers : out_files[w] = PartName(w, fail_stack[w])
    /\ \A w \in Wrote :
          /\ out_files[w] \in DOMAIN disk
          /\ disk[out_files[w]] = Cut(disk[input_path], task[w].begin, rs, input_size)
    /\ \A w \in SawFailure : ShowsFailure(out_files[w])

(* Every index below fail_n is taken by a worker that will store to it, or *)
(* holds a file recorded before, another one than every other index.       *)
Pending(k) == \E w \in Recording : fail_idx[w] = k
Stored(k)  ==
    /\ k < Len(Records) /\ ShowsFailure(Records[k + 1])
    /\ \E u \in Workers : \E j \in 0 .. fail_stack[u] - 1 : Records[k + 1] = PartName(u, j)
IndexesFilled ==
    InRound \/ main = "select" =>
        /\ \A k \in 0 .. fail_n - 1 : Pending(k) \/ Stored(k)
        /\ \A k, l \in 0 .. fail_n - 1 :
              ~Pending(k) /\ ~Pending(l) /\ Records[k + 1] = Records[l + 1] => k = l

(* As long as a round has no failure, every block position is still to be  *)
(* queued, queued, held by a worker, or was tested without a failure.      *)
Covered(b) ==
    \/ main = "push" /\ b >= begin
    \/ main = "post" /\ b > begin
    \/ \E i \in 1 .. Len(queue) : queue[i].begin = b
    \/ \E w \in Workers : at[w] \in {"cut", "test", "record"} /\ task[w].begin = b
    \/ judge[Cut(disk[input_path], b, rs, input_size)] # {TRUE}
EveryCutTested ==
    (InRound \/ main = "select") /\ fail_n = 0 =>
        \A b \in 0 .. LastBegin(input_size, rs) : Covered(b)

(* When no block size is left, removing any single byte was tried on the   *)
(* current input; range() does not return before.                          *)
SizesTried ==
    /\ r_size <= 0 =>
          \/ Len(disk[input_path]) <= 1
          \/ \A s \in Cuts(disk[input_path], 1) : judge[s] # {TRUE}
    /\ main = "done" => r_size <= 0

(* With GrowsAlone, the inductive invariant behind the results of range(). *)
RecordsInv ==
    BlockInUse /\ CutsWritten /\ IndexesFilled /\ EveryCutTested /\ SizesTried

(* Tasks held whose test has not been recorded.                            *)
Undecided == {w \in Workers : at[w] \in {"cut", "test", "record"}}

(* No block is tested twice in a round: the tasks queued and the tasks held*)
(* before their test is recorded start at different bytes, all of them     *)
(* bytes the main thread has been at.                                      *)
Queued  == {queue[i].begin : i \in 1 .. Len(queue)}
HeldNow == {task[w].begin : w \in Undecided}
TasksApart ==
    InRound =>
        /\ \A i, j \in 1 .. Len(queue) : queue[i].begin = queue[j].begin => i = j
        /\ \A v, w \in Undecided : task[v].begin = task[w].begin => v = w
        /\ Queued \cap HeldNow = {}
        /\ \A b \in Queued \cup HeldNow :
              b < begin \/ (main = "post" /\ b = begin)

(* Block positions of the round whose test is still to come or to be       *)
(* recorded, and the others at which the target may fail.                  *)
Open(b) ==
    \/ main = "push" /\ b >= begin
    \/ main = "post" /\ b > begin
    \/ b \in Queued \cup HeldNow
MayFailAt(j, s, k) == {b \in 0 .. Len(s) - k : TRUE \in j[Cut(s, b, k, Len(s))]}
Decided == {b \in MayFailAt(judge, disk[input_path], rs) : ~Open(b)}

(* A round records no more failures than there are blocks whose test is    *)
(* over and on which the target may fail.                                  *)
FailuresCounted == InRound \/ main = "select" => fail_n <= Cardinality(Decided)

(* fail_arr has the size it started with.                                  *)
NeverGrown ==
    fail_max = FAIL_MAX /\ \A w \in Workers : at[w] # "double" /\ w \notin Growing

(* Inputs so short that fail_arr has room for a failure of every task.     *)
ShortInputs == \A s \in Inputs : Len(s) + THREAD_N < FAIL_MAX

(* With ShortInputs: failures and open tasks are no more than the tasks of *)
(* the round, so fail_arr never grows.                                     *)
RoomInv ==
    /\ input_size + THREAD_N < FAIL_MAX /\ NeverGrown
    /\ InRound \/ main = "select" =>
          fail_n + ToPush + Len(queue) + Cardinality(Undecided) <= NumTasks(input_size, rs)

(* Targets that fail so seldom that fail_arr has room for the failures of  *)
(* every round, on inputs of any length.                                   *)
FewFailures ==
    \A j \in Judges, s \in Candidates : \A k \in 1 .. Len(s) :
        Cardinality(MayFailAt(j, s, k)) + THREAD_N < FAIL_MAX

(* Nobody races for fail_arr: a single worker, or room for every failure.  *)
NoRace == THREAD_N = 1 \/ ShortInputs \/ FewFailures

(* The protocol of threads, semaphores and files implements one round      *)
(* after another of testing every cut.                                     *)
Reduction == INSTANCE RangeReduction
                WITH input <- disk[input_path], returned <- main = "done"
ImplementsReduction == Reduction!Spec

(* range() returns, or refuses to start on left-over copies.               *)
Terminates == <>(main \in {"done", "exit"})
=============================================================================
