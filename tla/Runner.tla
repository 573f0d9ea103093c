------------------------------- MODULE Runner -------------------------------
(***************************************************************************)
(* runner() of src/runner.c as test_buffer_overflow_thread() of src/ddmin.c*)
(* calls it: the target is run on one candidate after another in a child   *)
(* process, by several threads at once, and a child that takes too long is *)
(* killed by an alarm.  A verdict is TRUE when the stderr of the target    *)
(* holds the message looked for.                                           *)
(*                                                                         *)
(* Time is left out: an armed alarm may ring at any moment.  Left out too  *)
(* are the stdout files, the exit status, which no caller looks at, and the*)
(* reuse of process ids.                                                   *)
(***************************************************************************)
EXTENDS Integers, Sequences, FiniteSets, Functions

CONSTANT Settings  (* who calls, how many tests each, what may go wrong     *)

(* What may go wrong: fork() and execl() fail, the target never ends, or a *)
(* test lasts until the alarm.  After a failed execl() it may last, too.   *)
Faults == {"fork", "exec", "hang", "slow"}

RunnerAssumption ==
    \A s \in Settings :
        /\ DOMAIN s.calls \subseteq Nat /\ IsFiniteSet(DOMAIN s.calls)
        /\ s.calls \in [DOMAIN s.calls -> Nat]
        /\ s.faults \subseteq Faults

ASSUME RunnerAssumption

VARIABLES
    setting,
    caller,    (* a thread in runner() or its caller, and its locals       *)
    c_pid,     (* global: what fork() returned last                        *)
    timer,     (* the alarm of the process is armed                        *)
    child,     (* the children by process id, and how far they came        *)
    err,       (* the file at the path of a caller's stderr, 0 for none    *)
    messages,  (* who wrote the message to each file                       *)
    text,      (* what a run of the target on a caller's files may come to *)
    recorded,  (* a caller's files of this round found to fail, by index   *)
    renamed,   (* and those that have another name by now                  *)
    alive      (* the process did not exit, nor its group get killed       *)

vars == <<setting, caller, c_pid, timer, child, err, messages, text, recorded,
          renamed, alive>>

Callers == DOMAIN setting.calls
Alone   == Cardinality(Callers) = 1

At(w, here) == alive /\ caller[w].at = here
-----------------------------------------------------------------------------
(* The path of a caller's stderr, as an index of err.                      *)
MutErrPath(w) == CHOOSE v \in Callers : \A u \in Callers : v <= u
ErrPath(w)    == w

(* A caller's candidate files after the next candidate: a new file, or the *)
(* last one again.                                                         *)
MutPlaced(files, new, holds) == [files EXCEPT ![Len(files)] = holds]
Placed(files, new, holds) ==
    IF new THEN Append(files, holds) ELSE [files EXCEPT ![Len(files)] = holds]

(* Children that waitpid(pid) waits for, and that kill(pid) reaches.       *)
MutWaitedFor(pid) == {}
WaitedFor(pid) == IF pid = -1 THEN DOMAIN child ELSE {pid} \cap DOMAIN child

MutKilledBy(pid) == {}
KilledBy(pid) ==
    {c \in WaitedFor(pid) : child[c].state \notin {"zombie", "reaped"}}

(* waitpid() returns for a child that ended, or at once if there is none.  *)
MutNoneLeft(pid) == TRUE
NoneLeft(pid) == \A c \in WaitedFor(pid) : child[c].state = "reaped"

Init ==
    /\ setting \in Settings
    /\ caller = [w \in Callers |->
                    [at |-> "idle", calls |-> 0, ret |-> 0, waiting |-> 0,
                     type |-> "NO_ERROR", verdict |-> TRUE]]
    /\ c_pid = 0 /\ timer = FALSE
    /\ child = <<>> /\ messages = <<>>
    /\ err = [w \in Callers |-> 0]
    /\ text = [w \in Callers |-> <<>>]
    /\ recorded = [w \in Callers |-> {}] /\ renamed = recorded
    /\ alive = TRUE
-----------------------------------------------------------------------------
(* A caller writes its next candidate, over the last one unless the target *)
(* failed on that.  The file is emptied first: until it is written, the    *)
(* target may do anything on it, and so may a target that is reading it.   *)
Rewrite(w) ==
    /\ At(w, "idle")
    /\ caller[w].calls < setting.calls[w]
    /\ text' = [text EXCEPT ![w] = Placed(@, caller[w].verdict, BOOLEAN)]
    /\ child' = [c \in DOMAIN child |->
                    IF /\ child[c].owner = w /\ child[c].state = "runs"
                       /\ child[c].path = Len(text[w]) /\ ~caller[w].verdict
                    THEN [child[c] EXCEPT !.saw = BOOLEAN]
                    ELSE child[c]]
    /\ caller' = [caller EXCEPT ![w].at = "write", ![w].calls = @ + 1,
                                ![w].verdict = FALSE]
    /\ UNCHANGED <<setting, c_pid, timer, err, messages, recorded, renamed, alive>>

Written(w) ==
    /\ At(w, "write")
    /\ \E fails \in BOOLEAN : text' = [text EXCEPT ![w][Len(text[w])] = {fails}]
    /\ caller' = [caller EXCEPT ![w].at = "ready"]
    /\ UNCHANGED <<setting, c_pid, timer, child, err, messages, recorded, renamed, alive>>

(* Then its stderr file is created or emptied.                             *)
Start(w) ==
    /\ At(w, "ready")
    /\ LET file == err[ErrPath(w)] IN
       IF file = 0
       THEN /\ messages' = Append(messages, {})
            /\ err' = [err EXCEPT ![ErrPath(w)] = Len(messages')]
       ELSE messages' = [messages EXCEPT ![file] = {}] /\ UNCHANGED err
    /\ caller' = [caller EXCEPT ![w].at = "fork"]
    /\ UNCHANGED <<setting, c_pid, timer, child, text, recorded, renamed, alive>>

(* fork() may fail...                                                      *)
Fork(w) ==
    /\ At(w, "fork")
    /\ \/ /\ child' = Append(child, [owner |-> w, path |-> Len(text[w]), fd |-> 0,
                                     saw |-> {}, state |-> "forked", killed |-> FALSE])
          /\ caller' = [caller EXCEPT ![w].at = "store", ![w].ret = Len(child')]
       \/ /\ "fork" \in setting.faults
          /\ caller' = [caller EXCEPT ![w].at = "store", ![w].ret = -1]
          /\ UNCHANGED child
    /\ UNCHANGED <<setting, c_pid, timer, err, messages, text, recorded, renamed, alive>>

(* ...and what it returned is stored in a variable all threads share.      *)
StorePid(w) ==
    /\ At(w, "store")
    /\ c_pid' = caller[w].ret
    /\ caller' = [caller EXCEPT ![w].at = "branch"]
    /\ UNCHANGED <<setting, timer, child, err, messages, text, recorded, renamed, alive>>

(* The test for an error may read the variable again or not.  The alarm of *)
(* the process is set, or set anew.                                        *)
Branch(w) ==
    /\ At(w, "branch")
    /\ \E pid \in {caller[w].ret, c_pid} :
          IF pid < 0
          THEN /\ caller' = [caller EXCEPT ![w].at = "read", ![w].type = "E_FORK"]
               /\ UNCHANGED timer
          ELSE /\ caller' = [caller EXCEPT ![w].at = "wait"]
               /\ timer' = TRUE
    /\ UNCHANGED <<setting, c_pid, child, err, messages, text, recorded, renamed, alive>>

CallWait(w) ==
    /\ At(w, "wait")
    /\ caller' = [caller EXCEPT ![w].at = "blocked", ![w].waiting = c_pid]
    /\ UNCHANGED <<setting, c_pid, timer, child, err, messages, text, recorded, renamed, alive>>

(* waitpid() returns.  The time waited is measured with clock(), the       *)
(* processor time of the process, which passes only in other threads.      *)
Reap(w) ==
    /\ At(w, "blocked")
    /\ \/ \E c \in WaitedFor(caller[w].waiting) :
             /\ child[c].state = "zombie"
             /\ child' = [child EXCEPT ![c].state = "reaped"]
       \/ NoneLeft(caller[w].waiting) /\ UNCHANGED child
    /\ \E type \in {"NO_ERROR"} \cup (IF Alone THEN {} ELSE {"E_TIMEOUT_KILL"}) :
          caller' = [caller EXCEPT ![w].at = "read", ![w].type = type, ![w].waiting = 0]
    /\ UNCHANGED <<setting, c_pid, timer, err, messages, text, recorded, renamed, alive>>

(* The message is looked for, and the stderr file removed.  Without a file *)
(* the process exits.                                                      *)
ReadVerdict(w) ==
    /\ At(w, "read")
    /\ LET file == err[ErrPath(w)] IN
       /\ caller' = [caller EXCEPT ![w].at = "idle", ![w].type = "NO_ERROR",
             ![w].verdict = /\ caller[w].type # "E_TIMEOUT_KILL"
                            /\ file # 0 /\ messages[file] # {}]
       /\ alive' = (file # 0 \/ caller[w].type = "E_TIMEOUT_KILL")
    /\ err' = [err EXCEPT ![ErrPath(w)] = 0]
    /\ recorded' = IF caller'[w].verdict
                   THEN [recorded EXCEPT ![w] = @ \cup {Len(text[w])}]
                   ELSE recorded
    /\ UNCHANGED <<setting, c_pid, timer, child, messages, text, renamed>>

(* When the workers have ended their tasks the main thread renames one of  *)
(* the files recorded in the round.                                        *)
Rename ==
    /\ alive /\ \A w \in Callers : caller[w].at = "idle"
    /\ \E w \in Callers : \E found \in recorded[w] :
          renamed' = [renamed EXCEPT ![w] = @ \cup {found}]
    /\ recorded' = [w \in Callers |-> {}]
    /\ UNCHANGED <<setting, caller, c_pid, timer, child, err, messages, text, alive>>

(* kill_child() ends the child forked last, whoever forked it.             *)
Ring ==
    /\ alive /\ timer
    /\ {"slow", "hang", "exec"} \cap setting.faults # {}
    /\ timer' = FALSE
    /\ child' = [c \in DOMAIN child |->
                    IF c \in KilledBy(c_pid)
                    THEN [child[c] EXCEPT !.state = "zombie", !.killed = TRUE]
                    ELSE child[c]]
    /\ UNCHANGED <<setting, caller, c_pid, err, messages, text, recorded, renamed, alive>>
-----------------------------------------------------------------------------
(* The child opens its files, the stderr file without emptying it.  If the *)
(* candidate has another name by now the stdin of the tool stays open (path*)
(* 0)...                                                                   *)
Open(c) ==
    /\ child[c].state = "forked"
    /\ LET path == ErrPath(child[c].owner)
           file == IF err[path] = 0 THEN Len(messages) + 1 ELSE err[path]
       IN  /\ err' = [err EXCEPT ![path] = file]
           /\ messages' = IF err[path] = 0 THEN Append(messages, {}) ELSE messages
           /\ child' = [child EXCEPT ![c].state = "opened", ![c].fd = file,
                   ![c].path = IF @ \in renamed[child[c].owner] THEN 0 ELSE @]
    /\ UNCHANGED <<caller, text, recorded, renamed, alive>>

(* ...becomes the target, which reads the candidate...                     *)
Exec(c) ==
    /\ child[c].state = "opened"
    /\ "exec" \notin setting.faults
    /\ child' = [child EXCEPT ![c].state = "runs",
                   ![c].saw = IF child[c].path = 0 THEN BOOLEAN
                              ELSE text[child[c].owner][child[c].path]]
    /\ UNCHANGED <<caller, err, messages, text, recorded, renamed, alive>>

(* ...writes the message if it fails, and ends or hangs.                   *)
MayFail(c) == TRUE \in child[c].saw

Write(c) ==
    /\ child[c].state = "runs" /\ MayFail(c)
    /\ messages' = [messages EXCEPT ![child[c].fd] = @ \cup {c}]
    /\ child' = [child EXCEPT ![c].state = "wrote"]
    /\ UNCHANGED <<caller, err, text, recorded, renamed, alive>>

Exit(c) ==
    /\ child[c].state = "wrote" \/ (child[c].state = "runs" /\ FALSE \in child[c].saw)
    /\ child' = [child EXCEPT ![c].state = "zombie"]
    /\ UNCHANGED <<caller, err, messages, text, recorded, renamed, alive>>

Hang(c) ==
    /\ "hang" \in setting.faults
    /\ child[c].state \in {"runs", "wrote"}
    /\ child' = [child EXCEPT ![c].state = "hangs"]
    /\ UNCHANGED <<caller, err, messages, text, recorded, renamed, alive>>

(* After a failed execl() the child goes on behind the "if", as the caller *)
(* of a test: it finds no message, removes the stderr file, and is then a  *)
(* search of its own, which may leave an empty stderr file at that path.   *)
(* What else that search does to the files is not followed.                *)
GoAstray(c) ==
    /\ child[c].state = "opened"
    /\ "exec" \in setting.faults
    /\ child' = [child EXCEPT ![c].state = "astray"]
    /\ \/ /\ err' = [err EXCEPT ![ErrPath(child[c].owner)] = 0]
          /\ UNCHANGED messages
       \/ /\ messages' = Append(messages, {})
          /\ err' = [err EXCEPT ![ErrPath(child[c].owner)] = Len(messages')]
    /\ UNCHANGED <<caller, text, recorded, renamed, alive>>

(* That search returns if it has but one thread: of a worker only the      *)
(* thread that forked is there, and waits for tasks for ever.  Its c_pid is*)
(* 0, and its alarm kills the whole process group.                         *)
AstrayReturns(c) ==
    /\ child[c].state = "astray"
    /\ Alone
    /\ child' = [child EXCEPT ![c].state = "zombie"]
    /\ UNCHANGED <<caller, err, messages, text, recorded, renamed, alive>>

AstrayRings(c) ==
    /\ child[c].state = "astray"
    /\ alive' = FALSE
    /\ UNCHANGED <<caller, child, err, messages, text, recorded, renamed>>
-----------------------------------------------------------------------------
CallerStep(w) ==
    \/ Rewrite(w) \/ Written(w) \/ Start(w) \/ Fork(w) \/ StorePid(w) \/ Branch(w)
    \/ CallWait(w) \/ Reap(w) \/ ReadVerdict(w)

ChildStep(c) ==
    /\ alive
    /\ \/ Open(c) \/ Exec(c) \/ Write(c) \/ Exit(c) \/ Hang(c)
       \/ GoAstray(c) \/ AstrayReturns(c) \/ AstrayRings(c)
    /\ UNCHANGED <<setting, c_pid, timer>>

Finished == \A w \in Callers : caller[w].at = "idle" /\ caller[w].calls = setting.calls[w]
Ended == (~alive \/ Finished) /\ UNCHANGED vars

Next ==
    \/ \E w \in Callers : CallerStep(w)
    \/ \E c \in DOMAIN child : ChildStep(c)
    \/ Rename \/ Ring \/ Ended

Spec == Init /\ [][Next]_vars

(* The system runs every thread and every child that can run, and an armed *)
(* alarm rings.                                                            *)
AllCallers  == UNION {DOMAIN s.calls : s \in Settings}
AllChildren == UNION {1 .. SumFunction(s.calls) : s \in Settings}

FairSpec ==
    /\ Spec
    /\ \A w \in AllCallers : WF_vars(w \in Callers /\ CallerStep(w))
    /\ \A c \in AllChildren :
          WF_vars(c \in DOMAIN child /\ ChildStep(c))
    /\ WF_vars(Ring)
-----------------------------------------------------------------------------
Pids  == {-1} \cup 0 .. Len(child)
Texts == {{TRUE}, {FALSE}, BOOLEAN}

CallerStates ==
    [at : {"idle", "write", "ready", "fork", "store", "branch", "wait", "blocked", "read"},
     calls : Nat, ret : Pids, waiting : Pids,
     type : {"NO_ERROR", "E_FORK", "E_TIMEOUT_KILL"}, verdict : BOOLEAN]

ChildStates ==
    [owner : Callers, path : Nat, fd : Nat, saw : SUBSET BOOLEAN, killed : BOOLEAN,
     state : {"forked", "opened", "runs", "wrote", "hangs", "astray", "zombie", "reaped"}]

CallerTypeOK ==
    /\ caller \in [Callers -> CallerStates]
    /\ \A w \in Callers : caller[w].calls <= setting.calls[w]
    /\ c_pid \in Pids /\ timer \in BOOLEAN /\ alive \in BOOLEAN

ChildTypeOK ==
    /\ child \in Seq(ChildStates)
    /\ \A c \in DOMAIN child :
          child[c].path \in 0 .. Len(text[child[c].owner]) /\ child[c].fd <= Len(messages)

FileTypeOK ==
    /\ messages \in Seq(SUBSET DOMAIN child)
    /\ err \in [Callers -> 0 .. Len(messages)]
    /\ text \in [Callers -> Seq(Texts)]
    /\ {recorded, renamed} \subseteq [Callers -> SUBSET (Nat \ {0})]

TypeOK == setting \in Settings /\ CallerTypeOK /\ ChildTypeOK /\ FileTypeOK

Tested(w) == caller[w].at = "idle" /\ caller[w].calls > 0

(* The target fails on the candidate written last.                         *)
FoundRightly(w) == text[w][Len(text[w])] = {TRUE}

(* With one calling thread no child outlives the call that forked it,      *)
(* hanging or not: none can write into the file of a later test.           *)
NoChildLeft ==
    Alone => \A w \in Callers :
                caller[w].at \in {"idle", "write", "ready", "fork"} =>
                    \A c \in DOMAIN child : child[c].state = "reaped"

(* With one calling thread a verdict is about the candidate just tested: it*)
(* is TRUE if and only if the child of this very call wrote the message.   *)
VerdictOwn ==
    Alone => \A w \in Callers :
        Tested(w) =>
            LET c == caller[w].ret IN
            caller[w].verdict <=> c > 0 /\ child[c].fd > 0 /\ c \in messages[child[c].fd]

(* However many threads call, a verdict is TRUE only if a child of the same*)
(* thread wrote the message; the verdict may be wrong only if that child   *)
(* was forked for an earlier test.                                         *)
FoundByOwn ==
    \A w \in Callers :
        Tested(w) /\ caller[w].verdict =>
            \E c \in DOMAIN child :
                /\ child[c].owner = w /\ child[c].fd > 0 /\ c \in messages[child[c].fd]
                /\ FoundRightly(w) \/ c # caller[w].ret

(* "find!": a TRUE verdict means that the target fails on the candidate    *)
(* that was tested.                                                        *)
FoundFailure ==
    \A w \in Callers :
        Tested(w) /\ caller[w].verdict => FoundRightly(w)

(* With one calling thread that is so.                                     *)
FoundHere == Alone => FoundFailure

(* A test has a candidate: the first one is always a new file.             *)
CandidateThere ==
    \A w \in Callers : text[w] = <<>> => caller[w].at = "idle" /\ caller[w].verdict

Forked(w) == caller[w].at \in {"store", "branch", "wait", "blocked"}

(* A test's own child reads the candidate of the test, which is written by *)
(* then and has its name: no file found to fail is written over.           *)
OwnCandidate ==
    \A w \in Callers :
        /\ \A i \in recorded[w] \cup renamed[w] :
              /\ i <= Len(text[w])
              /\ i = Len(text[w]) => caller[w].at = "idle" /\ caller[w].verdict
        /\ caller[w].at \notin {"idle", "write"} => text[w][Len(text[w])] # BOOLEAN
        /\ LET c == caller[w].ret IN
           (Forked(w) \/ caller[w].at = "read") /\ c > 0 =>
               /\ child[c].owner = w /\ child[c].path = Len(text[w])
               /\ child[c].saw \subseteq text[w][Len(text[w])]

(* A stderr file belongs to one caller: whoever has it open, or wrote to   *)
(* it, is a child of that caller.                                          *)
FilesOwned ==
    /\ \A w \in Callers : err[w] # 0 =>
          /\ \A v \in Callers : err[v] = err[w] => v = w
          /\ \A c \in DOMAIN child : child[c].fd = err[w] => child[c].owner = w
    /\ \A f \in DOMAIN messages : \A c \in messages[f] :
          /\ child[c].fd = f
          /\ child[c].state \notin {"forked", "opened", "runs", "astray"}

(* Who wrote the message read something that the target may fail on.       *)
WritersFail ==
    \A f \in DOMAIN messages : \A c \in messages[f] : MayFail(c)

(* With one calling thread there is at most one child that is not reaped:  *)
(* the one this call forked, which c_pid names and waitpid() waits for.    *)
OneChild ==
    Alone => \A w \in Callers :
        /\ caller[w].type # "E_TIMEOUT_KILL"
        /\ \A c \in DOMAIN child :
              child[c].state # "reaped" => Forked(w) /\ caller[w].ret = c
        /\ caller[w].at \in {"branch", "wait", "blocked"} => c_pid = caller[w].ret
        /\ Forked(w) => caller[w].ret = -1 \/ caller[w].ret \in DOMAIN child
        /\ caller[w].at \in {"wait", "blocked"} => caller[w].ret # -1
        /\ caller[w].at = "blocked" => caller[w].waiting = caller[w].ret

(* With one calling thread the stderr file is made for each test anew, is  *)
(* open in that test's child only, and stays unless the child went astray. *)
OneFile ==
    Alone => \A w \in Callers :
        IF caller[w].at \in {"idle", "write", "ready"}
        THEN err[w] = 0
        ELSE /\ \A c \in DOMAIN child :
                   err[w] # 0 /\ child[c].fd = err[w] =>
                       caller[w].at # "fork" /\ caller[w].ret = c
             /\ LET c == caller[w].ret IN
                caller[w].at # "fork" /\ c > 0 /\ child[c].fd \notin {0, err[w]} =>
                    /\ child[c].state \in {"astray", "zombie", "reaped"}
                    /\ c \notin messages[child[c].fd]

(* The inductive invariant behind the verdicts.                            *)
IInv ==
    /\ TypeOK /\ CandidateThere /\ OwnCandidate /\ FilesOwned /\ WritersFail
    /\ FoundByOwn /\ FoundHere
    /\ OneChild /\ OneFile /\ VerdictOwn

(* Every test comes to an end, if there is one calling thread or the target*)
(* always ends: the alarm, set once per call, is enough.                   *)
Returns ==
    \A w \in AllCallers :
        (w \in Callers /\ caller[w].at # "idle" /\ (Alone \/ "hang" \notin setting.faults))
            ~> (~alive \/ (w \in Callers => caller[w].at = "idle"))

(* "normally exit": a call that returns NO_ERROR waited for its own child, *)
(* and that child was not killed.                                          *)
NormalExit ==
    \A w \in Callers :
        caller[w].at = "read" /\ caller[w].type = "NO_ERROR" =>
            LET c == caller[w].ret IN
            c > 0 /\ child[c].state = "reaped" /\ ~child[c].killed
=============================================================================
