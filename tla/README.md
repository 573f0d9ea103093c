# DIY_ddmin in TLA+

DIY_ddmin shrinks an input on which a program fails (its stderr contains a
given message) to a smaller one on which it still fails. This directory holds
TLA+ models of its algorithms, the TLC configurations that check them on small
instances, and proofs of their main properties for instances of any size.

## 1. The system

| Part | Code | State | Operations |
|---|---|---|---|
| threaded range search | `src/src/range.c`: `range`, `_range`, `test_range`, `read_and_write` | globals: `input_size`, `rs`, `existing`, `fail_n`, `fail_max`, `fail_arr`, `out_files`, `fail_stack`, semaphores `q_sem`, `terminated_sem`, mutexes `start_mt`, `find_mt`, `end_mt`; files | main thread: copy, queue a round, wait, select; 4 workers: take a task, cut, test, record, close |
| task queue | `range.c`: `init_queue`, `push_queue`, `pop_queue` | `front`, `rear`, `count` | push, pop (exits when empty) |
| increasing range search | `range.c`: `range_increasing` | locals, `fail_no` | cut, test, restart behind a success |
| delta debugging | `src/src/ddmin.c`: `ddmin` | `n`, `f_size`, `minimized_fname`, `file_no`; files | round, subset, complement, refine |
| delta debugging of a directory | `ddmin.c`: `ddmin_dir` | as `ddmin` | no caller |
| verdict | `ddmin.c`: `test_buffer_overflow(_thread)` | stdout/stderr files of one test | run, look for the message |
| copy of the input | `ddmin.c`: `copy` | files | copy, or exit if the target exists |
| runner | `src/src/runner.c` | global `c_pid`, one alarm per process | fork, exec, wait, kill after 3 s |
| command line | `src/src/main.c` | none | check arguments, dispatch, report |
| tests and examples | `src/test`, `src/example` | none of the tool's | an older threaded search, timing experiments, Python prototypes, runner variants |

`main` calls one of the three searches. A search writes candidate files, calls
the verdict for each, and goes on with a candidate that failed. The verdict
calls `runner`, which runs the target as a child process. Only `range` has
threads: its main thread and its workers meet in the queue (`start_mt`,
`q_sem`), in the failure array (`find_mt`, for the index only) and at the end of
a round (`end_mt`, `existing`, `terminated_sem`). Everything else they share
(`rs`, `input_size`, `fail_max`, `fail_arr`, the copies of the input) is
protected by the order of events alone.

What is hard here, and what would be right:

* *Threads.* No token without a task, one end signal per round and only when
  nothing is left to do, a worker's cut made for the round it was queued in, no
  recorded failure lost or overwritten. The growth of `fail_arr` is outside the
  mutex.
* *Sizes.* Which block size follows a success or a failed round; how many parts
  a round has. A mistake shows only as a result that is not minimal, an
  empty candidate, or a division by zero, on particular lengths.
* *Files.* Candidate files are reused, truncated, renamed, and named by counters
  that restart with every process; files of an earlier run may be there.
* *Targets.* A verdict need not be deterministic.
* *Processes.* One `c_pid` and one alarm for all workers; a timeout measured in
  the parent's processor time.

`PROJECT.json` lists these hazards one by one with their lines.

## 2. Modules

| Module | Models |
|---|---|
| `ByteStrings` | what the read and write loops do to a string: keep a block, cut one out |
| `Minimiser` | the promise of the tool, whichever algorithm runs: from a failing string to a shorter failing subsequence, and back only with a 1-minimal one |
| `RangeReduction` | the rounds of `range()` without threads: `Reduce` (a success), `Narrow` (a round with none), `Return` |
| `Range` | `range()` in full: the main thread, `THREAD_N` workers, queue, semaphores, failure array on a heap, files |
| `Ddmin` | `ddmin()` in full: one action per candidate, the files it writes |
| `RangeIncreasing` | `range_increasing()` in full: one action per candidate, the files it writes |
| `Runner` | `runner()` and its caller `test_buffer_overflow_thread()`: threads that write candidates and test them, their children, the alarm, the stderr files |
| `ByteStringsProofs`, `RangeReductionProofs`, `RangeProofs`, `RangeRecordsProofs`, `RangeResultProofs`, `DdminProofs`, `RangeIncreasingProofs`, `RunnerProofs` | the proofs |
| `MCTargets`, `MCAllTargets` | a short input of different bytes, its subsequences, and targets |
| `MCRange`, `MCRangeAll`, `MCRangeReduction`, `MCRangeIncreasing`, `MCDdmin`, `MCRunner` | instances for TLC |

    Range --ImplementsReduction--> RangeReduction --ImplementsMinimiser--> Minimiser
    Ddmin ------------------------ImplementsMinimiser--------------------> Minimiser
    RangeIncreasing --------------OnlyReduces (steps of Reduce only)-----> Minimiser

The first arrow holds where nobody races for `fail_arr` (`NoRace`, section 4): with a
single worker, with short inputs, or with a target that fails on few blocks.

The constant `Judges` holds the targets. A target maps a string to the set of
verdicts a test of it may give: `{TRUE}` fails always, `{FALSE}` never, and
`BOOLEAN` is a string whose verdict may differ from test to test (timeouts,
nondeterminism). So "1-minimal" reads: no string obtained by removing one byte
*surely* fails.

The searches take a verdict as any that the target allows. `Runner` opens that
choice: it shows when a verdict is the one of the test's own child. With one
calling thread it always is (`VerdictOwn`), and TRUE is said only of a candidate the
target fails on (`FoundHere`), which is what `Ddmin` and `RangeIncreasing` assume, up
to a test that could not be run and counts as a pass. With several it need not be (finding 5); for `Range` that means verdicts
may be wrong in ways its `Judges` only cover as `BOOLEAN`.

### Range and the code

`main` and `at[w]` are program counters of the main thread and the workers; the
other variables have the names of the C variables. `input_size` is the global
that `_range` sets at line 159; `r_size` and `begin` are its loop variables.

* Each critical section is one action, because every access to what it protects
  is in a section of the same mutex: `Push` and `Pop` (`start_mt`), `TakeIndex`
  (`find_mt`). The section of `end_mt` is two actions, `Close` and `Unlock`,
  since the main thread can pass the signal in between.
* Outside the sections (lines 120 to 129) the accesses to shared variables are
  actions of their own: `CheckRoom`, the read and the write of `fail_max *= 2`
  (`ReadMax`, `Double`), the read of it for the size (`ReadSize`), `Realloc`, `Assign`,
  `Store`. A worker that stalls between `ReadMax` and `Double` writes a capacity that
  another one may have doubled since, and `Realloc` then shrinks the block.
* Three of them read more than one shared variable. `CheckRoom` reads `fail_n` and
  `fail_max` at once: an old `fail_n` with a newer `fail_max` needs another worker that
  grows the array in between; the theorems about the results exclude that, and
  those about the protocol do not depend on the array. `Realloc` and `Store` load `fail_arr` and use it at once: a pointer that
  gets stale in between has the outcome of the same step taken between the other
  worker's `Realloc` and `Assign`, when `fail_arr` still names the dead block.
* `WriteCut` covers lines 77 to 103: it reads `rs`, `input_size` and the
  worker's copy at once. That is enough because `TasksCurrent` says they
  keep their values while a task is held.
* `fail_arr` is an index into `heap`, the blocks `realloc` made. A block that was
  moved away from is dead. A store into a dead block or outside a live one is
  undefined behaviour: it is lost or the process dies. `realloc` of a dead block
  aborts. A read of a dead block gives what it last held, or nothing.
* `RoomAssumption` (`THREAD_N <= FAIL_MAX`; 4 and 16 in the code) is what makes
  the growth at `fail_max - THREAD_N` come in time.
* `main = "exit"` stands for `exit(1)` and for a crash. A refusal of `copy()`
  leaves the copies made before it.
* Left out: `file_no` (which only feeds messages in `range`), progress output,
  failures of `fopen` and `malloc`, and what `range()` destroys at its end.

### Ddmin and the code

`pc` is `"loop"` at the head of the `while`, `"subset"` and `"complement"` in the
two inner loops and `"refine"` at line 204. An action is one trip through a
loop: part size, reading, writing, truncating, testing, and the branch taken.
`ReadsNothing` is the `fread` loop of lines 71 to 84 when the current file is
shorter than expected: it never ends. `executed` counts tests; no variable of
the code does. The 2048-byte buffers and the float in `ceilf` are left out: sizes
stay where both are exact.

### RangeIncreasing and the code

`pc` is `"size"` at the outer `while` (line 335) and `"cut"` at the inner one (line
339). `Test` is one trip through the inner loop: cut, truncate, test, and either
make the candidate the current file and step back, or step forward. `Emptied` is
the `fopen(..., "wb")` of the next candidate's file, which comes before it is
needed. `kept` is a history variable: the blocks whose removal passed in the pass
with this `rs`. The bytes behind a cut move, so a position says nothing; the
block's content does.

What `range_increasing()` promises is weaker than `Minimiser`: it only makes steps
of `Reduce`, and stops when every block size was tried once. `OneMinimal` says for
which targets that is enough: those that fail on every string a failing one can
be cut out of (`FailsUpwards`), and for them the pass with single bytes is enough.

### Runner and the code

`caller[w].at` is the place of a calling thread: `"idle"` between tests, `"write"` with
the candidate emptied (`fopen(..., "wb")`, `range.c:82`) and not yet written,
`"ready"` before its stderr file is emptied (`ddmin.c:293`), `"fork"` before line 30,
`"store"` and `"branch"` around the assignment to `c_pid` and its tests, `"wait"` and
`"blocked"` around `waitpid` at line 57, `"read"` behind `runner()`, where the message is
looked for. `c_pid` is read again at each of its uses; whether the test at line 31 does
is the compiler's choice, and so is left open. `child` is indexed by process id:
`"forked"`, `"opened"` (lines 41 to 47), `"runs"` (the target reads its input),
`"wrote"`, `"hangs"`, `"zombie"`, `"reaped"`, or `"astray"` behind a failed `execl`.
`err[w]` is the file at the path of a caller's stderr, `messages` who wrote to each
file: a removed file lives on for a child that has it open, and a child opens it
without emptying it.

`text[w]` says of each candidate file of a caller what a run of the target on it may
come to: `{TRUE}` or `{FALSE}` once it is written, `BOOLEAN` while it is empty or half
written (`Rewrite`, `Written`). A child that still reads the file when it is
rewritten may see a mixture, so what it saw (`saw`) becomes `BOOLEAN` too. When all
workers are idle the main thread may rename a file recorded in the round (`Rename`,
`range.c:197`): a child that opens it later fails to, keeps the stdin of the
tool (path 0), and may do anything. What a target that runs surely does on a
whole candidate is one value per file: flaky targets are the searches' `Judges`.

`Settings` says who calls, how often, and which faults may happen: `fork` or `execl`
fails, the target hangs, or a test is slow, so that the alarm may ring in it. Time is not
modelled: an armed alarm may ring at any moment of a test that can last. `clock()`
counts processor time of the process: with one thread, which waits, it does not
pass (`NO_ERROR` always); with several any answer is possible.

Left out: the stdout files, the exit status (no caller looks at it), reuse of
process ids, and what the search that a failed `execl` starts in the child does to
the candidate files.

## 3. Runs

| Run (`.cfg`) | Asks | Instance |
|---|---|---|
| `RangeResult` | do queue, tokens, counter and signal stay in step, is no block tested twice in a round (`TasksApart`), are failures no more than the decided blocks that may fail (`FailuresCounted`), has `fail_arr` room (`RoomInv`), is no failure lost and no cut left untested (`RecordsInv`), is the result 1-minimal, are the rounds those of `RangeReduction`, and does `range()` come back? | 2 workers, 3 bytes, every deterministic target and flaky ones, a left-over copy or none, with fairness |
| `RangeLonger` | is the next block size right, and does `fail_arr` grow in time and keep its contents, at each step of the growth (`RecordsInv`)? | 1 worker, capacity 2, 5 bytes |
| `RangeGrowRace` | does the protocol survive the race for `fail_arr`? | 2 workers, capacity 3, 3 bytes |
| `RangeLostFailure` | *violated*: `FailuresKept` | 2 workers, capacity 3 |
| `RangeReduction` | do the rounds keep the promise? | 4 bytes, every deterministic target and flaky ones |
| `RangeIncreasing` | is no block skipped after a step back, is the file only ever reduced, is it 1-minimal for targets that fail upwards, and does the search end? | 6 bytes, targets with one or two causes, flaky ones, any verdict, own and foreign file names, with fairness |
| `DdminResult` | do parts and bytes always fit, does `ddmin()` keep the promise, and come back? | 6 bytes, monotone, flaky and single-string targets, any verdict, with fairness |
| `DdminOwnResult` | *violated*: `Terminates` | the input is named `./1.part` |
| `DdminExecutions` | *violated*: `ExecutionsReported` | 4 bytes |
| `Runner` | is a verdict that of the test's own child and true of the candidate, is no child left, does a TRUE verdict of several callers at least come from a child of the same caller (`FoundByOwn`), is the invariant of the proofs one (types included), and does a test end? | 1 caller and 3 tests with every set of faults; 2 callers with one test each and at most one fault, or 2 and 1 tests and none; files rewritten and renamed between tests; with fairness |
| `RunnerTimeout` | *violated*: `NormalExit` | 1 caller, a target that may hang |
| `RunnerLateChild` | *violated*: `FoundFailure` | 2 callers, 2 tests each, no fault |

Bounds. The input is one string of different bytes, so every cut gives another
string and a confusion of two cuts shows. Two workers are the least that
interfere; a round over 3 bytes has 2 or 3 tasks, as many as workers or more.
That the protocol needs no more is proved: the theorems of `RangeProofs` are for
every number of workers. Five bytes are the least at which a success leaves a
block size above 1 that is kept by `MIN(rs, input_size-rs-1)`; one worker is
enough there, for the sizes are the main thread's. Six bytes give `ddmin` uneven
parts (four: 2, 2, 1, 1), `n` capped at an odd size and `n-1` in use, and
`range_increasing` room to step back in passes with blocks of 2 and 3.
`FAIL_MAX` is 16 in the code: 8 or 16 where the array must not grow (rounds have
at most 3 or 5 tasks, and growth starts at `FAIL_MAX - THREAD_N`), 2 or 3 where
it must. In `Runner` three tests of one caller let an alarm of the first ring in the
second or third; a second caller is the least that shares `c_pid`, and a second
test of a caller the least a late child can disturb. The number of tests is
the only bound that is not the code's: inputs only shrink, so all other counters
are finite. No symmetry is used, for the workers are numbered in file names.

The target that may give any verdict at any time includes the runs of every
other target; it is used where a property does not depend on the verdicts.
`CHECK_DEADLOCK` is off in `RangeReduction`, which ends by stopping, and in
`Runner`, where a worker may really wait for ever: when two callers' targets hang,
the one alarm ends only the child forked last. `Range`, `RangeIncreasing` and
`Ddmin` stutter explicitly (`Ended`) after the process ended, so a deadlock there
is a real one.

Fairness. `Range`: weak fairness of the main thread's step and of each worker's
step. They are threads of one process, and it is assumed that every run of
the target ends, so that a test ends: with several workers the one alarm does not
see to it (`Runner`), and a worker that waits for a hanging target for ever keeps
`range()` from returning. No order among waiting workers is assumed, and weak fairness is
enough: a step of a worker at `close`, which another may disable by taking
`end_mt`, need not be strongly fair because each worker takes `end_mt` once per
task and tasks run out. `Ddmin` and `RangeIncreasing`: weak fairness of their only
thread. `Runner`: weak fairness of each caller and of each child, which the system
schedules, and of the alarm once it is armed. `Returns` claims an end of each test
where these are enough: with one caller always, with several if the target ends.

### What the code does differently from what it says

1. `RangeLostFailure`. Two workers that reach line 120 together can both grow
   `fail_arr`: one stores into the block the other has moved away from, or frees
   it twice. Then an index below `fail_n` holds no name, and `rename` fails or the
   process dies. It needs 12 failures in one round with the code's constants.
2. `DdminOwnResult`. `ddmin ./1.part` (the result of an earlier run) may reach the
   round that writes to `./1.part`: `fopen(..., "wb")` empties the file being
   read and the read loop never ends.
3. `DdminExecutions`. The number of executions printed for `ddmin` is the number
   of rounds minus 1.
4. `RunnerTimeout`. A target that hangs is killed after 3 seconds, but
   `runner()` takes the branch marked `// normally exit`: it measures the
   processor time of the parent, which slept. `E_TIMEOUT_KILL` is never returned
   to a search with one thread; what the killed target wrote decides.
5. `RunnerLateChild`. Without any fault: worker 0 forks, worker 1's fork stores its
   pid in `c_pid`, worker 0 waits for that child, returns before its own child has
   run, finds no message and removes the stderr file. Its late child makes the
   file anew and reads the candidate, which worker 0 is already writing the next one
   over; the worker's next test empties the stderr file and starts its own child; the
   late child writes the message. The next candidate, on which the target does not
   fail, is taken for a failing one. The late child may have read the last
   candidate or a half-written one: then it fails on a string nobody meant to test.

Operators named `Mut...` are plausible mistakes in the operator they stand next
to (an early signal, a name that repeats, a skipped size). No specification uses
them. `PROJECT.json` says which property each one breaks when it takes that
operator's place, so every property is known to depend on the code it is about.

## 4. Proofs

All constants are arbitrary under `RangeAssumption`, `RoomAssumption`,
`ReductionAssumption`, `IncreasingAssumption`, `DdminAssumption` and
`RunnerAssumption`: the candidates contain the inputs and are closed under cutting
(and taking blocks), a target gives at least one verdict for each, there is a
worker, the first capacity is positive and has a place for each worker, and the
callers of `runner()` are finitely many. TLC evaluates each of them in a run.

* `RangeProofs`. `IInv` is the inductive invariant: the types; the equations
  `TokensMatchTasks` and `ExistingCountsTasks`; `SignalOncePerRound`;
  `TasksCurrent`; and four supporting facts. `RoundBounds` ties the loop
  variables to `rs` and says `existing` is 0 outside a round. `CopiesCurrent`
  gives every worker the current input while a round runs. `NamesApart` says no
  worker ever writes the current input. `WorkerLocals` says who holds `end_mt`.
  The equations are not inductive alone: that `pop_queue()` finds a task needs
  the count of tokens, that the signal is due needs the count of tasks. The
  argument is counting: each worker step moves one worker between `Popping`,
  `Holding` and neither. `SignalMeansIdle` is no conjunct: it follows, since
  `existing = 0` leaves no summand of `ExistingCountsTasks` positive.
  The theorems hold with the race for `fail_arr` in the model: whatever becomes of
  the array, the protocol is right.
* `RangeRecordsProofs`. What `range()` finds, step by step, from states with
  `GrowsAlone`: while a worker is between its read of `fail_max` at line 121 and the
  assignment to `fail_arr`, no other is there or about to store. No mutex
  ensures this, and without it the results are false (finding 1).
  `RecordsInv` is the inductive invariant, relative to `IInv`:
  `BlockInUse` (the block last made by `realloc` is the one in use, and every index
  handed out is inside it or belongs to a worker that has yet to look:
  `fail_n + THREAD_N <= fail_max + Cardinality(Checking)`), `CutsWritten` (a worker's
  file holds the cut of its task, under a name it has not recorded), `IndexesFilled`
  (each index below `fail_n` is held by a worker or names a failing cut of this
  round, no name twice), `EveryCutTested` (while a round has no failure, each block
  position is still to be queued, queued, held, or tested), and `SizesTried`.
  `FailuresKept` is `IndexesFilled` when no worker is left. `Refinement` is shown step
  by step (`RoundSimulation`): `Select` with a failure is `Reduce`, because
  index 0 names a cut that failed; without one it is `Narrow`, because every position
  is covered and only the last disjunct of `Covered` is left; all else stutters.
  `PartNameInjective` is why files of different workers and tests are never the
  same: `w + THREAD_N * k` determines `w` and `k`.
* `RangeResultProofs`. When `GrowsAlone` holds, and what follows. Its condition,
  `NoRace`, is one on the constants only: a single worker, though the array grows; or
  inputs shorter than `FAIL_MAX - THREAD_N`, 12 bytes in the code (`ShortInputs`); or
  a target that fails, at each block size, on fewer than `FAIL_MAX - THREAD_N` blocks
  of any candidate, whose inputs may have any length (`FewFailures`). Under
  `ShortInputs`, `RoomInv`: failures, queued tasks and undecided ones are together
  at most the tasks of the round. Under `FewFailures` that count is too coarse.
  `FailuresCounted` counts positions instead: `fail_n` is at most the number of blocks
  that are decided and may fail. A worker that takes an index moves its block from
  open to decided, which needs that no other task has the same block: `TasksApart`,
  which is proved without a condition. So either way no worker ever sees a full
  array (`NeverGrown`), and nobody races (`NobodyRaces`). `RecordsAlways`,
  `FailuresAlwaysKept`, `ResultAlwaysOneMinimal` and `Refinement` follow, and
  `PromiseKept` joins the last with the theorem of `RangeReductionProofs`: the threads
  keep the promise of `Minimiser`. Where `NoRace` fails (several workers and a round
  with 12 failures in the code) nothing is claimed of the results, only of the
  protocol.
* `RangeReductionProofs`. Invariant: `r_size < Len(input)`, `BytesTried`, and
  "returned only without a block size". `Reduce` can reach `r_size = 0` only with a
  single byte left, `Narrow` only after testing single bytes. With it each step is
  a step or a stutter of `Minimiser`.
* `DdminProofs`. `IInv` is `TypeOK`, `PartsFit`, `SizesCurrent`, `BytesTested` and
  `OneMinimal`. The core is `CeilBounds`: if `b` parts fit `a` bytes then, after
  a part of `ceil(a/b)`, `b-1` parts fit the rest, and the last part is the rest.
  `Implementation` assumes `FreshInput`, that the input's name is not one
  `ddmin()` uses; without it finding 2 applies. `NamesFresh` is the invariant
  that turns this into "the current file is never written".
* `RangeIncreasingProofs`. `IInv` is `TypeOK`, `NamesApart` (the current file is
  not the one being written), `BlocksTried`, `SingleBytes` and `OneMinimal`. A success
  keeps `kept` although the file changes: a block before the new `begin` lies before
  the cut (`BlockOfCut`), so it is the block it was. `OneMinimal` rests on the pass
  with single bytes: if byte `b` could not be removed before byte `c` was, it cannot
  be removed after, since the two cuts commute (`CutsCommute`) and the target fails
  upwards. In later passes no success is possible, since removing a block is removing
  a byte and then the rest (`CutInTwo`).
* `ByteStringsProofs`. What a cut holds at each place, hence that it has the right
  length and is a subsequence, that cuts commute and compose, and that
  writing over a longer file and truncating leaves what was written.

* `RunnerProofs`. `IInv` is `TypeOK`, `CandidateThere`, `OwnCandidate`, `FilesOwned`,
  `WritersFail`, `FoundByOwn`, `FoundHere`, `OneChild`, `OneFile` and `VerdictOwn`. Two
  arguments meet in it. For any number of callers, `FilesOwned`: a stderr file is one
  caller's, and whoever has it open or wrote to it is a child of that caller, for the
  path has the caller's number in it. `OwnCandidate`: the child of a test in
  progress reads the candidate of that test and nothing else, because no file found to
  fail is written over, only such files are renamed, and a candidate is whole before
  its child is forked. So a message that is found comes from a child of this caller,
  and if the target does not fail on the candidate it is a child of an earlier
  test (`FoundByOwn`), whatever became of `c_pid`. More is not true: finding 5. For one
  caller, `OneChild`: a child that is not reaped is the one this call forked, and `c_pid`
  and `waitpid` name it. A process that has gone astray or was killed is no exception,
  which is why `NoChildLeft` follows. `OneFile` adds that the file was made for this test,
  so no earlier child has it open; with both, the verdict is the one of the test's own
  child (`VerdictOwn`), and with `OwnCandidate` it is right (`FoundHere`). The theorems hold
  for any number of tests, which the run bounds by three.

Only model-checked: liveness (`Terminates` of the searches, `Returns` of
`Runner`), for it needs fairness and ENABLED, which this prover does not handle. Every
safety property of a passing run is proved: without a condition, except
`FailuresKept`, `ResultOneMinimal`, `ImplementsReduction` and `RecordsInv` of `Range`, under
`NoRace`, `RoomInv` under `ShortInputs`, and `FailuresCounted` under `FewFailures`. In
`RangeLonger` the array grows and `NoRace` holds for the single worker; in `RangeResult`
it does not grow.

## 5. Not modelled, and the plan

What is left, in order:

1. Proofs: the measure that `Terminates` of each search rests on, as an action
   property (each round shortens the input, or the block size, or refines `n`),
   which is the part of termination a safety proof reaches; and an interface of
   `Runner` for item 2.
2. `Range` with the verdicts of `Runner` in place of `Judges`. Each has a
   state space near what TLC can do here; the composition needs a smaller
   interface of `Runner` first, proved from it. `FoundByOwn` is half of it.
3. Directories with files of earlier runs: `rename()` replaces an older
   `<k>.part` without a word.

Not modelled: `main()` beyond the count it reports (its hazards are one
uninitialised pointer and a missing argument, with no state to explore);
`ddmin_dir()`, which nothing calls and whose loops are those of `ddmin()`, with the
candidates of one of them copied into a directory; the linked list behind the queue, whose stale `rear` is never
read; the static partition in `src/test/multithread`, an older version of the
search; the buffers of 2048 bytes and the float in `ceilf`, whose limits lie far
above the sizes of an instance; failures of `fopen`, `malloc` and the disk (the
code exits or ignores them); the end of `range()` (destroying a mutex in use is
undefined); the example programs, their variants of `runner.c` and the Python
prototypes, which the tool does not use.
