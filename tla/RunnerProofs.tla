---------------------------- MODULE RunnerProofs ----------------------------
(***************************************************************************)
(* The verdicts of runner() for every number of callers, tests and faults: *)
(* the inductive invariant IInv of module Runner and what follows from it. *)
(***************************************************************************)
EXTENDS Runner, FiniteSetTheorems, SequenceTheorems, TLAPS

(* One calling thread is the only one.                                     *)
LEMMA AloneOnly ==
    ASSUME RunnerAssumption, setting \in Settings, Alone,
           NEW v \in Callers, NEW w \in Callers
    PROVE  v = w
<1>1. IsFiniteSet(Callers)
    BY DEF RunnerAssumption, Callers
<1> QED
    BY <1>1, FS_Singleton DEF Alone

(* Who calls does not change.                                              *)
LEMMA SameCallers ==
    ASSUME [Next]_vars
    PROVE  setting' = setting /\ Callers' = Callers /\ Alone' = Alone
<1>1. setting' = setting
    BY DEF Next, CallerStep, ChildStep, Rewrite, Written, Start, Fork, StorePid, Branch,
       CallWait, Reap, ReadVerdict, Rename, Ring, Ended, vars
<1> QED
    BY <1>1 DEF Callers, Alone

(* It holds when nobody has called yet.                                    *)
LEMMA InitIInv == RunnerAssumption /\ Init => IInv
<1> SUFFICES ASSUME RunnerAssumption, Init
             PROVE  IInv
    OBVIOUS
<1>1. setting \in Settings /\ \A w \in Callers : 0 <= setting.calls[w]
    BY DEF Init, RunnerAssumption, Callers
<1>2. CallerTypeOK
  <2>1. Len(child) = 0 /\ 0 \in Pids
      BY DEF Init, Pids
  <2>2. \A w \in Callers : caller[w].calls <= setting.calls[w]
      BY <1>1 DEF Init
  <2> QED
      BY <2>1, <2>2 DEF Init, CallerTypeOK, CallerStates
<1>3. ChildTypeOK /\ FileTypeOK
    BY DEF Init, ChildTypeOK, FileTypeOK
<1>4. CandidateThere /\ OwnCandidate /\ FilesOwned /\ WritersFail
    BY DEF Init, CandidateThere, OwnCandidate, Forked, FilesOwned, WritersFail
<1>5. FoundByOwn /\ VerdictOwn /\ FoundHere
    BY DEF Init, FoundByOwn, VerdictOwn, FoundHere, FoundFailure, Tested
<1>6. OneChild /\ OneFile
    BY DEF Init, OneChild, Forked, OneFile
<1> QED
    BY <1>1, <1>2, <1>3, <1>4, <1>5, <1>6 DEF IInv, TypeOK
-----------------------------------------------------------------------------
(* What TypeOK says of one child, and of one file.                         *)
LEMMA ChildFacts ==
    ASSUME TypeOK, NEW c \in DOMAIN child
    PROVE  /\ c \in 1 .. Len(child) /\ c \in Nat /\ Len(child) \in Nat
           /\ child[c] \in ChildStates
           /\ child[c].path \in 0 .. Len(text[child[c].owner])
           /\ child[c].fd \in 0 .. Len(messages)
           /\ err[child[c].owner] \in 0 .. Len(messages) /\ Len(messages) \in Nat
           /\ text[child[c].owner] \in Seq(Texts)
<1>1. child \in Seq(ChildStates)
    BY DEF TypeOK, ChildTypeOK
<1>2. c \in 1 .. Len(child) /\ Len(child) \in Nat /\ child[c] \in ChildStates
    BY <1>1, ElementOfSeq
<1>3. child[c].owner \in Callers /\ child[c].fd \in Nat
    BY <1>2 DEF ChildStates
<1>4. messages \in Seq(SUBSET DOMAIN child) /\ err \in [Callers -> 0 .. Len(messages)]
      /\ text \in [Callers -> Seq(Texts)]
    BY DEF TypeOK, FileTypeOK
<1>5. Len(messages) \in Nat
    BY <1>4
<1>6. child[c].path \in 0 .. Len(text[child[c].owner]) /\ child[c].fd <= Len(messages)
    BY DEF TypeOK, ChildTypeOK
<1> QED
    BY <1>2, <1>3, <1>4, <1>5, <1>6 DEF ChildStates

(* A child that comes further keeps its caller, and its candidate if any.  *)
LEMMA ChildUpdate ==
    ASSUME TypeOK, Callers' = Callers, UNCHANGED text,
           Len(messages') \in Nat, Len(messages) <= Len(messages'),
           NEW c \in DOMAIN child, NEW next \in ChildStates,
           next.owner = child[c].owner, next.path \in {0, child[c].path},
           next.fd <= Len(messages'), child' = [child EXCEPT ![c] = next]
    PROVE  /\ Len(child') = Len(child) /\ DOMAIN child' = DOMAIN child
           /\ child'[c] = next /\ \A d \in DOMAIN child : d # c => child'[d] = child[d]
           /\ ChildTypeOK'
<1>1. child \in Seq(ChildStates) /\ c \in 1 .. Len(child) /\ Len(messages) \in Nat
    BY ChildFacts DEF TypeOK, ChildTypeOK
<1>2. /\ child' \in Seq(ChildStates) /\ Len(child') = Len(child)
      /\ \A d \in 1 .. Len(child) : child'[d] = IF d = c THEN next ELSE child[d]
    BY <1>1, ExceptSeq
<1>3. DOMAIN child = 1 .. Len(child) /\ DOMAIN child' = 1 .. Len(child)
    BY <1>1, <1>2
<1>4. \A d \in DOMAIN child' :
          child'[d].path \in 0 .. Len(text'[child'[d].owner]) /\ child'[d].fd <= Len(messages')
  <2> TAKE d \in DOMAIN child'
  <2>1. /\ child[d].path \in 0 .. Len(text[child[d].owner])
        /\ child[d].fd <= Len(messages) /\ child[d].fd \in Nat
        /\ text[child[d].owner] \in Seq(Texts)
      BY <1>3, ChildFacts
  <2>2. CASE d = c
      BY <1>2, <1>3, <2>1, <2>2
  <2>3. CASE d # c
      BY <1>1, <1>2, <1>3, <2>1, <2>3
  <2> QED
      BY <2>2, <2>3
<1>5. ChildStates' = ChildStates
    BY DEF ChildStates
<1> QED
    BY <1>2, <1>3, <1>4, <1>5 DEF ChildTypeOK

(* Most steps of a child change nothing but how far it is.                 *)
LEMMA ChildStateStep ==
    ASSUME TypeOK, UNCHANGED <<messages, text>>, Callers' = Callers,
           \/ UNCHANGED child
           \/ \E c \in DOMAIN child, s \in {"runs", "wrote", "hangs", "astray", "zombie",
                                          "reaped"} :
                 child' = [child EXCEPT ![c].state = s]
    PROVE  /\ Len(child') = Len(child) /\ DOMAIN child' = DOMAIN child
           /\ \A d \in DOMAIN child :
                 /\ child'[d].owner = child[d].owner /\ child'[d].path = child[d].path
                 /\ child'[d].fd = child[d].fd /\ child'[d].saw = child[d].saw
           /\ ChildTypeOK'
<1>1. CASE UNCHANGED child
    BY <1>1 DEF TypeOK, ChildTypeOK, ChildStates
<1>2. CASE \E c \in DOMAIN child, s \in {"runs", "wrote", "hangs", "astray", "zombie",
                                         "reaped"} :
               child' = [child EXCEPT ![c].state = s]
  <2>1. PICK c \in DOMAIN child, s \in {"runs", "wrote", "hangs", "astray", "zombie",
                                        "reaped"} :
                child' = [child EXCEPT ![c].state = s]
      BY <1>2
  <2> DEFINE next == [child[c] EXCEPT !.state = s]
  <2>2. /\ child[c] \in ChildStates /\ child[c].fd <= Len(messages') /\ Len(messages) \in Nat
      BY ChildFacts
  <2>3. /\ next \in ChildStates /\ next.owner = child[c].owner /\ next.path = child[c].path
        /\ next.fd = child[c].fd /\ next.saw = child[c].saw
      BY <2>2 DEF ChildStates
  <2>4. child' = [child EXCEPT ![c] = next]
      BY <2>1
  <2> HIDE DEF next
  <2>5. /\ Len(messages') \in Nat /\ Len(messages) <= Len(messages')
        /\ next.fd <= Len(messages')
      BY <2>2, <2>3
  <2>6. /\ Len(child') = Len(child) /\ DOMAIN child' = DOMAIN child
        /\ child'[c] = next /\ \A d \in DOMAIN child : d # c => child'[d] = child[d]
        /\ ChildTypeOK'
      BY <2>3, <2>4, <2>5, ChildUpdate
  <2> QED
      BY <2>3, <2>6
<1> QED
    BY <1>1, <1>2

(* A stderr file is made, or emptied.                                      *)
LEMMA NewFile ==
    ASSUME FileTypeOK, messages' = Append(messages, {})
    PROVE  /\ messages' \in Seq(SUBSET DOMAIN child)
           /\ Len(messages') = Len(messages) + 1 /\ Len(messages) \in Nat
           /\ messages'[Len(messages')] = {}
           /\ \A f \in DOMAIN messages : f \in 1 .. Len(messages) /\ messages'[f] = messages[f]
           /\ DOMAIN messages' = 1 .. Len(messages')
<1>1. messages \in Seq(SUBSET DOMAIN child) /\ {} \in SUBSET DOMAIN child
    BY DEF FileTypeOK
<1>2. DOMAIN messages = 1 .. Len(messages)
    BY <1>1
<1> QED
    BY <1>1, <1>2, AppendProperties

(* The candidate files after the next candidate.                           *)
LEMMA PlacedType ==
    ASSUME NEW files \in Seq(Texts), NEW new \in BOOLEAN, NEW holds \in Texts,
           files = <<>> => new
    PROVE  LET placed == Placed(files, new, holds) IN
           /\ placed \in Seq(Texts)
           /\ Len(placed) = (IF new THEN Len(files) + 1 ELSE Len(files))
           /\ placed # <<>>
<1>1. CASE new
    BY <1>1, AppendProperties DEF Placed
<1>2. CASE ~new
  <2>1. [files EXCEPT ![Len(files)] = holds] \in Seq(Texts)
      BY <1>2, ExceptSeq
  <2>2. Len([files EXCEPT ![Len(files)] = holds]) = Len(files) /\ Len(files) > 0
      BY <1>2, ExceptSeq, EmptySeq
  <2> QED
      BY <1>2, <2>1, <2>2 DEF Placed
<1> QED
    BY <1>1, <1>2

(* A file of a caller gets other contents, or a new one is made.           *)
LEMMA TextStep ==
    ASSUME FileTypeOK, Callers' = Callers, NEW w \in Callers, NEW files \in Seq(Texts),
           Len(files) >= Len(text[w]), text' = [text EXCEPT ![w] = files]
    PROVE  /\ text' \in [Callers -> Seq(Texts)] /\ text'[w] = files
           /\ \A v \in Callers :
                 /\ v # w => text'[v] = text[v]
                 /\ Len(text[v]) \in Nat /\ Len(text'[v]) \in Nat
                 /\ Len(text[v]) <= Len(text'[v])
<1>1. text \in [Callers -> Seq(Texts)]
    BY DEF FileTypeOK
<1>2. /\ text' \in [Callers -> Seq(Texts)] /\ text'[w] = files
      /\ \A v \in Callers : v # w => text'[v] = text[v]
    BY <1>1
<1> QED
    BY <1>1, <1>2

(* A caller goes on, and no child is forked.                               *)
LEMMA CallerUpdate ==
    ASSUME CallerTypeOK, setting' = setting, Callers' = Callers, Pids' = Pids,
           NEW w \in Callers, NEW new \in CallerStates, new.calls = caller[w].calls,
           caller' = [caller EXCEPT ![w] = new],
           c_pid' \in Pids, timer' \in BOOLEAN, alive' \in BOOLEAN
    PROVE  /\ CallerTypeOK'
           /\ caller'[w] = new /\ \A v \in Callers : v # w => caller'[v] = caller[v]
<1>1. caller \in [Callers -> CallerStates] /\ CallerStates' = CallerStates
    BY DEF CallerTypeOK, CallerStates
<1>2. /\ caller' \in [Callers -> CallerStates]
      /\ caller'[w] = new /\ \A v \in Callers : v # w => caller'[v] = caller[v]
    BY <1>1
<1>3. \A v \in Callers : caller'[v].calls <= setting'.calls[v]
    BY <1>2 DEF CallerTypeOK
<1> QED
    BY <1>1, <1>2, <1>3 DEF CallerTypeOK

(* A candidate that is written over may do anything to who reads it.       *)
LEMMA RewriteChildren ==
    ASSUME TypeOK, NEW w \in Callers, Rewrite(w)
    PROVE  /\ child' \in Seq(ChildStates) /\ DOMAIN child' = DOMAIN child
           /\ \A d \in DOMAIN child :
                 /\ child'[d].owner = child[d].owner /\ child'[d].path = child[d].path
                 /\ child'[d].fd = child[d].fd /\ child'[d].state = child[d].state
                 /\ child[d].saw \subseteq child'[d].saw
                 /\ child[d].owner # w => child'[d] = child[d]
<1> DEFINE torn(d) == /\ child[d].owner = w /\ child[d].state = "runs"
                      /\ child[d].path = Len(text[w]) /\ ~caller[w].verdict
           next(d) == IF torn(d) THEN [child[d] EXCEPT !.saw = BOOLEAN] ELSE child[d]
<1>1. child \in Seq(ChildStates) /\ Len(child) \in Nat /\ DOMAIN child = 1 .. Len(child)
    BY DEF TypeOK, ChildTypeOK
<1>2. ASSUME NEW d \in DOMAIN child
      PROVE  /\ next(d) \in ChildStates
             /\ next(d).owner = child[d].owner /\ next(d).path = child[d].path
             /\ next(d).fd = child[d].fd /\ next(d).state = child[d].state
             /\ child[d].saw \subseteq next(d).saw
             /\ child[d].owner # w => next(d) = child[d]
  <2>1. child[d] \in ChildStates
      BY ChildFacts
  <2>2. CASE torn(d)
    <3>1. next(d) = [child[d] EXCEPT !.saw = BOOLEAN] /\ child[d].owner = w
        BY <2>2
    <3> QED
        BY <2>1, <3>1 DEF ChildStates
  <2>3. CASE ~torn(d)
    <3>1. next(d) = child[d]
        BY <2>3
    <3> QED
        BY <2>1, <3>1
  <2> QED
      BY <2>2, <2>3
<1>3. child' = [d \in DOMAIN child |-> next(d)]
    BY DEF Rewrite
<1> HIDE DEF next
<1>4. child' \in [1 .. Len(child) -> ChildStates] /\ DOMAIN child' = DOMAIN child
    BY <1>1, <1>2, <1>3
<1>5. child' \in Seq(ChildStates)
    BY <1>1, <1>4
<1> QED
    BY <1>2, <1>3, <1>4, <1>5

(* Type correctness is preserved by every step.                            *)
LEMMA CallerType ==
    ASSUME RunnerAssumption, TypeOK, CandidateThere, NEW w \in Callers, CallerStep(w),
           setting' = setting, Callers' = Callers
    PROVE  TypeOK' /\ CandidateThere'
<1>1. /\ setting \in Settings /\ CallerTypeOK /\ ChildTypeOK /\ FileTypeOK
      /\ caller[w].calls \in Nat
    BY DEF TypeOK, CallerTypeOK, CallerStates
<1>2. CASE Rewrite(w)
  <2> DEFINE files == Placed(text[w], caller[w].verdict, BOOLEAN)
  <2>1. /\ text[w] \in Seq(Texts) /\ caller[w].verdict \in BOOLEAN /\ BOOLEAN \in Texts
        /\ text[w] = <<>> => caller[w].verdict
      BY <1>1 DEF FileTypeOK, CallerTypeOK, CallerStates, Texts, CandidateThere
  <2>2. files \in Seq(Texts) /\ Len(files) >= Len(text[w]) /\ files # <<>>
    <3>1. /\ files \in Seq(Texts) /\ files # <<>>
          /\ Len(files) = IF caller[w].verdict THEN Len(text[w]) + 1 ELSE Len(text[w])
        BY <2>1, PlacedType
    <3>2. Len(text[w]) \in Nat
        BY <2>1
    <3> QED
        BY <3>1, <3>2
  <2>3. text' = [text EXCEPT ![w] = files]
      BY <1>2 DEF Rewrite
  <2> HIDE DEF files
  <2>4. /\ text' \in [Callers -> Seq(Texts)] /\ text'[w] = files
        /\ \A v \in Callers :
              /\ v # w => text'[v] = text[v]
              /\ Len(text[v]) \in Nat /\ Len(text'[v]) \in Nat
              /\ Len(text[v]) <= Len(text'[v])
      BY <1>1, <2>2, <2>3, TextStep
  <2>5. /\ child' \in Seq(ChildStates) /\ DOMAIN child' = DOMAIN child
        /\ \A d \in DOMAIN child : child'[d].owner = child[d].owner
              /\ child'[d].path = child[d].path /\ child'[d].fd = child[d].fd
      BY <1>2, RewriteChildren
  <2>6. Len(child') = Len(child)
      BY <1>1, <2>5 DEF ChildTypeOK
  <2>7. CallerTypeOK'
    <3>1. setting.calls[w] \in Nat
        BY <1>1 DEF RunnerAssumption, Callers
    <3>2. /\ caller' = [caller EXCEPT ![w].at = "write", ![w].calls = @ + 1, ![w].verdict = FALSE]
          /\ UNCHANGED <<c_pid, timer, alive>> /\ caller[w].calls < setting.calls[w]
        BY <1>2 DEF Rewrite
    <3>3. Pids' = Pids
        BY <2>6 DEF Pids
    <3> QED
        BY <1>1, <3>1, <3>2, <3>3 DEF CallerTypeOK, CallerStates
  <2>8. ChildTypeOK'
    <3> SUFFICES ASSUME NEW d \in DOMAIN child
                 PROVE  /\ child[d].path \in 0 .. Len(text'[child[d].owner])
                        /\ child[d].fd <= Len(messages')
        BY <1>1, <2>5 DEF ChildTypeOK, ChildStates
    <3>1. /\ child[d].owner \in Callers /\ child[d].path \in 0 .. Len(text[child[d].owner])
          /\ child[d].fd \in 0 .. Len(messages) /\ Len(messages) \in Nat
        BY ChildFacts DEF ChildStates
    <3> QED
        BY <1>2, <2>4, <3>1 DEF Rewrite
  <2>9. FileTypeOK'
      BY <1>1, <1>2, <2>4, <2>5 DEF Rewrite, FileTypeOK
  <2>10. CandidateThere'
    <3>1. \A v \in Callers : v # w => caller'[v] = caller[v]
        BY <1>1, <1>2 DEF Rewrite, CallerTypeOK
    <3> QED
        BY <2>2, <2>4, <3>1 DEF CandidateThere
  <2> QED
      BY <1>1, <2>7, <2>8, <2>9, <2>10 DEF TypeOK
<1>3. CASE Written(w)
  <2>1. PICK fails \in BOOLEAN : text' = [text EXCEPT ![w][Len(text[w])] = {fails}]
      BY <1>3 DEF Written
  <2> DEFINE files == [text[w] EXCEPT ![Len(text[w])] = {fails}]
  <2>2. text[w] \in Seq(Texts) /\ text[w] # <<>> /\ {fails} \in Texts
    <3>1. text[w] \in Seq(Texts)
        BY <1>1 DEF FileTypeOK
    <3>2. text[w] # <<>>
        BY <1>3 DEF Written, At, CandidateThere
    <3>3. {fails} \in Texts
        BY DEF Texts
    <3> QED
        BY <3>1, <3>2, <3>3
  <2>3. files \in Seq(Texts) /\ Len(files) >= Len(text[w]) /\ files # <<>>
    <3>1. Len(text[w]) \in 1 .. Len(text[w])
        BY <2>2, EmptySeq
    <3>2. files \in Seq(Texts) /\ Len(files) = Len(text[w])
        BY <2>2, <3>1, ExceptSeq
    <3> QED
        BY <3>1, <3>2, EmptySeq
  <2>4. text' = [text EXCEPT ![w] = files]
      BY <2>1
  <2> HIDE DEF files
  <2>5. /\ text' \in [Callers -> Seq(Texts)] /\ text'[w] = files
        /\ \A v \in Callers :
              /\ v # w => text'[v] = text[v]
              /\ Len(text[v]) \in Nat /\ Len(text'[v]) \in Nat
              /\ Len(text[v]) <= Len(text'[v])
      BY <1>1, <2>3, <2>4, TextStep
  <2>6. /\ UNCHANGED <<c_pid, timer, child, err, messages, recorded, renamed, alive>>
        /\ caller' = [caller EXCEPT ![w].at = "ready"]
      BY <1>3 DEF Written
  <2>7. CallerTypeOK'
    <3> DEFINE next == [caller[w] EXCEPT !.at = "ready"]
    <3>1. caller' = [caller EXCEPT ![w] = next] /\ caller[w] \in CallerStates /\ Pids' = Pids
        BY <1>1, <2>6 DEF CallerTypeOK, Pids
    <3>2. next \in CallerStates /\ next.calls = caller[w].calls
        BY <3>1 DEF CallerStates
    <3> HIDE DEF next
    <3>3. c_pid' \in Pids /\ timer' \in BOOLEAN /\ alive' \in BOOLEAN
        BY <1>1, <2>6 DEF CallerTypeOK
    <3> QED
        BY <1>1, <3>1, <3>2, <3>3, CallerUpdate
  <2>8. ChildTypeOK'
    <3> SUFFICES ASSUME NEW d \in DOMAIN child
                 PROVE  /\ child[d].path \in 0 .. Len(text'[child[d].owner])
                        /\ child[d].fd <= Len(messages)
        BY <1>1, <2>6 DEF ChildTypeOK, ChildStates
    <3>1. /\ child[d].owner \in Callers /\ child[d].path \in 0 .. Len(text[child[d].owner])
          /\ child[d].fd \in 0 .. Len(messages) /\ Len(messages) \in Nat
        BY ChildFacts DEF ChildStates
    <3> QED
        BY <2>5, <3>1
  <2>9. FileTypeOK'
      BY <1>1, <2>5, <2>6 DEF FileTypeOK
  <2>10. CandidateThere'
    <3>1. \A v \in Callers : v # w => caller'[v] = caller[v]
        BY <1>1, <2>6 DEF CallerTypeOK
    <3> QED
        BY <2>3, <2>5, <3>1 DEF CandidateThere
  <2> QED
      BY <1>1, <2>7, <2>8, <2>9, <2>10 DEF TypeOK
<1>4. CASE Start(w)
  <2>0. /\ UNCHANGED <<c_pid, timer, child, text, recorded, renamed, alive>>
        /\ caller' = [caller EXCEPT ![w].at = "fork"] /\ caller[w].at = "ready"
      BY <1>4 DEF Start, At
  <2>1. CallerTypeOK'
    <3> DEFINE next == [caller[w] EXCEPT !.at = "fork"]
    <3>1. caller' = [caller EXCEPT ![w] = next] /\ caller[w] \in CallerStates /\ Pids' = Pids
        BY <1>1, <2>0 DEF CallerTypeOK, Pids
    <3>2. next \in CallerStates /\ next.calls = caller[w].calls
        BY <3>1 DEF CallerStates
    <3> HIDE DEF next
    <3>3. c_pid' \in Pids /\ timer' \in BOOLEAN /\ alive' \in BOOLEAN
        BY <1>1, <2>0 DEF CallerTypeOK
    <3> QED
        BY <1>1, <3>1, <3>2, <3>3, CallerUpdate
  <2>2. /\ messages' \in Seq(SUBSET DOMAIN child) /\ Len(messages') >= Len(messages)
        /\ err' \in [Callers -> 0 .. Len(messages')]
    <3>1. messages \in Seq(SUBSET DOMAIN child) /\ {} \in SUBSET DOMAIN child
          /\ err \in [Callers -> 0 .. Len(messages)]
        BY <1>1 DEF FileTypeOK
    <3>2. CASE err[w] = 0
      <4>1. messages' = Append(messages, {}) /\ err' = [err EXCEPT ![w] = Len(messages')]
          BY <1>4, <3>2 DEF Start, ErrPath
      <4> QED
          BY <3>1, <4>1, AppendProperties
    <3>3. CASE err[w] # 0
      <4>1. messages' = [messages EXCEPT ![err[w]] = {}] /\ err' = err
          BY <1>4, <3>3 DEF Start, ErrPath
      <4>2. err[w] \in 1 .. Len(messages)
          BY <3>1, <3>3
      <4>3. messages' \in Seq(SUBSET DOMAIN child) /\ Len(messages') = Len(messages)
          BY <3>1, <4>1, <4>2, ExceptSeq
      <4> QED
          BY <3>1, <4>1, <4>3
    <3> QED
        BY <3>2, <3>3
  <2>3. FileTypeOK'
      BY <1>1, <2>0, <2>2 DEF FileTypeOK
  <2>4. ChildTypeOK'
    <3>1. ASSUME NEW c \in DOMAIN child
          PROVE  child[c].path \in 0 .. Len(text[child[c].owner]) /\ child[c].fd <= Len(messages')
      <4>1. /\ child[c].path \in 0 .. Len(text[child[c].owner])
            /\ child[c].fd \in 0 .. Len(messages) /\ Len(messages) \in Nat
          BY ChildFacts
      <4>2. Len(messages') \in Nat
          BY <2>2
      <4> QED
          BY <2>2, <4>1, <4>2
    <3> QED
        BY <1>1, <2>0, <3>1 DEF ChildTypeOK, ChildStates
  <2>5. CandidateThere'
    <3>1. \A v \in Callers : v # w => caller'[v] = caller[v]
        BY <1>1, <2>0 DEF CallerTypeOK
    <3>2. text[w] # <<>>
        BY <2>0 DEF CandidateThere
    <3> QED
        BY <2>0, <3>1, <3>2 DEF CandidateThere
  <2> QED
      BY <1>1, <2>1, <2>3, <2>4, <2>5 DEF TypeOK
<1>5. CASE Fork(w)
  <2>1. UNCHANGED <<setting, c_pid, timer, err, messages, text, recorded, renamed, alive>>
      BY <1>5 DEF Fork
  <2>2. CASE UNCHANGED child /\ caller' = [caller EXCEPT ![w].at = "store", ![w].ret = -1]
    <3>2. CallerTypeOK'
      <4> DEFINE failed == [caller[w] EXCEPT !.at = "store", !.ret = -1]
      <4>1. caller' = [caller EXCEPT ![w] = failed]
          BY <2>2
      <4>2. Pids' = Pids /\ caller[w] \in CallerStates
          BY <1>1, <2>2 DEF Pids, CallerTypeOK
      <4>3. failed \in CallerStates /\ failed.calls = caller[w].calls
          BY <4>2 DEF CallerStates, Pids
      <4> HIDE DEF failed
      <4>4. c_pid' \in Pids /\ timer' \in BOOLEAN /\ alive' \in BOOLEAN
          BY <1>1, <2>1 DEF CallerTypeOK
      <4> QED
          BY <1>1, <4>1, <4>2, <4>3, <4>4, CallerUpdate
    <3>3. ChildTypeOK' /\ FileTypeOK'
        BY <1>1, <2>1, <2>2 DEF ChildTypeOK, FileTypeOK, ChildStates
    <3>4. CandidateThere'
        BY <1>1, <1>5, <2>1, <2>2 DEF CandidateThere, CallerTypeOK, Fork, At
    <3> QED
        BY <1>1, <2>1, <3>2, <3>3, <3>4 DEF TypeOK
  <2> DEFINE new == [owner |-> w, path |-> Len(text[w]), fd |-> 0,
                     saw |-> {}, state |-> "forked", killed |-> FALSE]
  <2>3. CASE /\ child' = Append(child, new)
             /\ caller' = [caller EXCEPT ![w].at = "store", ![w].ret = Len(child')]
    <3>1. caller' = [caller EXCEPT ![w].at = "store", ![w].ret = Len(child')]
        BY <2>3
    <3>2. text[w] \in Seq(Texts) /\ text[w] # <<>>
        BY <1>1, <1>5 DEF Fork, At, CandidateThere, FileTypeOK
    <3>3. Len(text[w]) \in Nat \ {0}
        BY <3>2, EmptySeq
    <3>4. child \in Seq(ChildStates) /\ new \in ChildStates
        BY <1>1, <3>3 DEF ChildTypeOK, ChildStates
    <3>5. new.owner = w /\ new.path = Len(text[w]) /\ new.fd = 0
        OBVIOUS
    <3> HIDE DEF new
    <3>6. /\ child' \in Seq(ChildStates) /\ Len(child') = Len(child) + 1 /\ Len(child) \in Nat
          /\ \A c \in 1 .. Len(child) : child'[c] = child[c]
          /\ child'[Len(child')] = new
        BY <2>3, <3>4, AppendProperties
    <3>7. DOMAIN child = 1 .. Len(child) /\ DOMAIN child' = 1 .. Len(child')
        BY <3>4, <3>6
    <3>8. CallerTypeOK'
      <4>1. Pids \subseteq Pids' /\ Len(child') \in Pids'
          BY <3>6 DEF Pids
      <4> DEFINE next == [caller[w] EXCEPT !.at = "store", !.ret = Len(child')]
      <4>2. caller' = [caller EXCEPT ![w] = next]
          BY <3>1
      <4> HIDE DEF Pids
      <4>3. caller[w] \in CallerStates /\ CallerStates \subseteq CallerStates'
          BY <1>1, <4>1 DEF CallerTypeOK, CallerStates
      <4>4. next \in CallerStates' /\ next.calls = caller[w].calls
          BY <4>1, <4>3 DEF CallerStates
      <4> HIDE DEF next
      <4>5. caller' \in [Callers -> CallerStates']
          BY <1>1, <2>1, <4>2, <4>3, <4>4 DEF CallerTypeOK
      <4>6. \A v \in Callers : caller'[v].calls <= setting.calls[v]
          BY <1>1, <4>2, <4>4 DEF CallerTypeOK
      <4> QED
          BY <1>1, <2>1, <4>1, <4>5, <4>6 DEF CallerTypeOK
    <3>9. FileTypeOK'
      <4>1. messages \in Seq(SUBSET DOMAIN child')
        <5>1. SUBSET DOMAIN child \subseteq SUBSET DOMAIN child'
            BY <3>6, <3>7
        <5> QED
            BY <1>1, <5>1, SeqMonotonic DEF FileTypeOK
      <4> QED
          BY <1>1, <2>1, <4>1 DEF FileTypeOK
    <3>10. \A c \in DOMAIN child' : /\ child'[c].path \in 0 .. Len(text[child'[c].owner])
                                     /\ child'[c].fd <= Len(messages)
      <4> TAKE c \in DOMAIN child'
      <4>1. CASE c = Len(child')
        <5>1. Len(messages) \in Nat
            BY <1>1 DEF FileTypeOK
        <5> QED
            BY <3>3, <3>5, <3>6, <4>1, <5>1
      <4>2. CASE c # Len(child')
        <5>1. c \in DOMAIN child /\ child'[c] = child[c]
            BY <3>6, <3>7, <4>2
        <5> QED
            BY <1>1, <5>1 DEF ChildTypeOK
      <4> QED
          BY <4>1, <4>2
    <3>11. CandidateThere'
        BY <1>1, <1>5, <2>1, <3>1 DEF CandidateThere, CallerTypeOK, Fork, At
    <3> QED
        BY <1>1, <2>1, <3>6, <3>8, <3>9, <3>10, <3>11 DEF TypeOK, ChildTypeOK, ChildStates
  <2> QED
      BY <1>5, <2>2, <2>3 DEF Fork
<1>6. CASE StorePid(w) \/ Branch(w) \/ CallWait(w)
  <2>1. UNCHANGED <<setting, child, err, messages, text, recorded, renamed, alive>>
      BY <1>6 DEF StorePid, Branch, CallWait
  <2>0. Pids' = Pids /\ c_pid \in Pids /\ caller[w] \in CallerStates
      BY <1>1, <2>1 DEF Pids, CallerTypeOK
  <2>2. CallerTypeOK'
    <3>1. CASE StorePid(w)
      <4>1. /\ caller' = [caller EXCEPT ![w].at = "branch"] /\ c_pid' = caller[w].ret
            /\ UNCHANGED <<timer, alive>>
          BY <3>1 DEF StorePid
      <4>2. caller[w].ret \in Pids /\ c_pid' \in Pids'
          BY <2>0, <4>1 DEF CallerStates
      <4> HIDE DEF Pids
      <4> QED
          BY <1>1, <2>0, <2>1, <4>1, <4>2 DEF CallerTypeOK, CallerStates
    <3>2. CASE Branch(w)
      <4>1. /\ timer' \in BOOLEAN /\ UNCHANGED <<c_pid, child, alive>>
            /\ \/ caller' = [caller EXCEPT ![w].at = "read", ![w].type = "E_FORK"]
               \/ caller' = [caller EXCEPT ![w].at = "wait"]
          BY <1>1, <3>2 DEF Branch, CallerTypeOK
      <4> DEFINE failed == [caller[w] EXCEPT !.at = "read", !.type = "E_FORK"]
                 waits  == [caller[w] EXCEPT !.at = "wait"]
      <4>2. \/ caller' = [caller EXCEPT ![w] = failed]
            \/ caller' = [caller EXCEPT ![w] = waits]
          BY <4>1
      <4>3. failed \in CallerStates /\ waits \in CallerStates
            /\ failed.calls = caller[w].calls /\ waits.calls = caller[w].calls
          BY <2>0 DEF CallerStates
      <4> HIDE DEF failed, waits
      <4>4. c_pid' \in Pids /\ alive' \in BOOLEAN
          BY <1>1, <4>1 DEF CallerTypeOK
      <4> QED
          BY <1>1, <2>0, <4>1, <4>2, <4>3, <4>4, CallerUpdate
    <3>3. CASE CallWait(w)
      <4> DEFINE blocked == [caller[w] EXCEPT !.at = "blocked", !.waiting = c_pid]
      <4>1. caller' = [caller EXCEPT ![w] = blocked]
          BY <3>3 DEF CallWait
      <4>2. blocked \in CallerStates /\ blocked.calls = caller[w].calls
          BY <2>0 DEF CallerStates
      <4> HIDE DEF blocked
      <4>3. c_pid' \in Pids /\ timer' \in BOOLEAN /\ alive' \in BOOLEAN
          BY <1>1, <3>3 DEF CallWait, CallerTypeOK
      <4> QED
          BY <1>1, <2>0, <4>1, <4>2, <4>3, CallerUpdate
    <3> QED
        BY <1>6, <3>1, <3>2, <3>3
  <2>3. CandidateThere'
      BY <1>1, <1>6 DEF StorePid, Branch, CallWait, CandidateThere, CallerTypeOK, At
  <2> QED
      BY <1>1, <2>1, <2>2, <2>3 DEF TypeOK, ChildTypeOK, FileTypeOK, ChildStates
<1>7. CASE Reap(w)
  <2>1. UNCHANGED <<setting, c_pid, timer, err, messages, text, recorded, renamed, alive>>
      BY <1>7 DEF Reap
  <2>2. \/ UNCHANGED child
        \/ \E c \in DOMAIN child : child' = [child EXCEPT ![c].state = "reaped"]
      BY <1>7 DEF Reap, WaitedFor
  <2>3. /\ Len(child') = Len(child) /\ DOMAIN child' = DOMAIN child
        /\ ChildTypeOK'
      BY <1>1, <2>1, <2>2, ChildStateStep
  <2>4. PICK type \in {"NO_ERROR", "E_TIMEOUT_KILL"} :
            caller' = [caller EXCEPT ![w].at = "read", ![w].type = type, ![w].waiting = 0]
      BY <1>7 DEF Reap
  <2>5. CallerTypeOK'
    <3>1. Pids' = Pids /\ 0 \in Pids
        BY <1>1, <2>3 DEF Pids, ChildTypeOK
    <3> DEFINE reader == [caller[w] EXCEPT !.at = "read", !.type = type, !.waiting = 0]
    <3>2. caller[w] \in CallerStates
        BY <1>1 DEF CallerTypeOK
    <3>3. caller' = [caller EXCEPT ![w] = reader]
        BY <2>4
    <3>4. reader \in CallerStates /\ reader.calls = caller[w].calls
        BY <3>1, <3>2 DEF CallerStates
    <3> HIDE DEF reader
    <3>5. c_pid' \in Pids /\ timer' \in BOOLEAN /\ alive' \in BOOLEAN
        BY <1>1, <2>1 DEF CallerTypeOK
    <3> QED
        BY <1>1, <3>1, <3>3, <3>4, <3>5, CallerUpdate
  <2>6. FileTypeOK'
      BY <1>1, <2>1, <2>3 DEF FileTypeOK
  <2>7. CandidateThere'
      BY <1>1, <1>7, <2>1, <2>4 DEF Reap, CandidateThere, CallerTypeOK, At
  <2> QED
      BY <1>1, <2>1, <2>3, <2>5, <2>6, <2>7 DEF TypeOK
<1>8. CASE ReadVerdict(w)
  <2>1. UNCHANGED <<setting, c_pid, timer, child, messages, text, renamed>>
      BY <1>8 DEF ReadVerdict
  <2>2. CallerTypeOK'
    <3> DEFINE verdict == /\ caller[w].type # "E_TIMEOUT_KILL"
                          /\ err[ErrPath(w)] # 0 /\ messages[err[ErrPath(w)]] # {}
    <3>1. /\ caller' = [caller EXCEPT ![w].at = "idle", ![w].type = "NO_ERROR",
                                      ![w].verdict = verdict]
          /\ alive' = (err[ErrPath(w)] # 0 \/ caller[w].type = "E_TIMEOUT_KILL")
        BY <1>8 DEF ReadVerdict
    <3>2. verdict \in BOOLEAN /\ alive' \in BOOLEAN
        BY <3>1
    <3> HIDE DEF verdict
    <3> DEFINE new == [caller[w] EXCEPT !.at = "idle", !.type = "NO_ERROR",
                                        !.verdict = verdict]
    <3>3. caller[w] \in CallerStates /\ c_pid' \in Pids /\ timer' \in BOOLEAN /\ Pids' = Pids
        BY <1>1, <2>1 DEF CallerTypeOK, Pids
    <3>4. caller' = [caller EXCEPT ![w] = new]
        BY <3>1
    <3>5. new \in CallerStates /\ new.calls = caller[w].calls
        BY <3>2, <3>3 DEF CallerStates
    <3> HIDE DEF new
    <3> QED
        BY <1>1, <3>2, <3>3, <3>4, <3>5, CallerUpdate
  <2>3. CandidateThere'
      BY <1>1, <1>8 DEF ReadVerdict, CandidateThere, CallerTypeOK, At
  <2>4. FileTypeOK'
    <3>1. err' = [err EXCEPT ![w] = 0]
          /\ (recorded' = [recorded EXCEPT ![w] = @ \cup {Len(text[w])}] \/ UNCHANGED recorded)
        BY <1>8 DEF ReadVerdict, ErrPath
    <3>2. text[w] \in Seq(Texts) /\ text[w] # <<>>
        BY <1>1, <1>8 DEF ReadVerdict, At, CandidateThere, FileTypeOK
    <3>3. Len(text[w]) \in Nat \ {0}
        BY <3>2, EmptySeq
    <3>4. err' \in [Callers -> 0 .. Len(messages)]
        BY <1>1, <3>1 DEF FileTypeOK
    <3>5. recorded' \in [Callers -> SUBSET (Nat \ {0})]
        BY <1>1, <3>1, <3>3 DEF FileTypeOK
    <3> QED
        BY <1>1, <2>1, <3>4, <3>5 DEF FileTypeOK
  <2> QED
      BY <1>1, <2>1, <2>2, <2>3, <2>4 DEF TypeOK, ChildTypeOK, ChildStates
<1> QED
    BY <1>2, <1>3, <1>4, <1>5, <1>6, <1>7, <1>8 DEF CallerStep

(* ...and neither does a step of a child disturb the types.                *)
LEMMA ChildType ==
    ASSUME TypeOK, CandidateThere, NEW c \in DOMAIN child, ChildStep(c),
           setting' = setting, Callers' = Callers
    PROVE  TypeOK' /\ CandidateThere'
<1>1. /\ setting \in Settings /\ CallerTypeOK /\ ChildTypeOK /\ FileTypeOK
    BY DEF TypeOK
<1>2. UNCHANGED <<caller, text, recorded, renamed, c_pid, timer>> /\ alive' \in BOOLEAN
    BY <1>1 DEF ChildStep, Open, Exec, Write, Exit, Hang, GoAstray, AstrayReturns,
       AstrayRings, CallerTypeOK
<1>3. CandidateThere'
    BY <1>2 DEF CandidateThere
<1>4. ASSUME Len(child') = Len(child)
      PROVE  CallerTypeOK'
  <2>1. Pids' = Pids /\ CallerStates' = CallerStates
      BY <1>4 DEF Pids, CallerStates
  <2> QED
      BY <1>1, <1>2, <2>1 DEF CallerTypeOK
<1>5. messages \in Seq(SUBSET DOMAIN child) /\ Len(messages) \in Nat
      /\ err \in [Callers -> 0 .. Len(messages)] /\ child[c] \in ChildStates
      /\ child[c].owner \in Callers /\ child[c].fd \in 0 .. Len(messages)
    BY <1>1, ChildFacts DEF FileTypeOK, ChildStates
<1>6. CASE Open(c)
  <2> DEFINE owner == child[c].owner
             file  == IF err[owner] = 0 THEN Len(messages) + 1 ELSE err[owner]
             path  == IF child[c].path \in renamed[owner] THEN 0 ELSE child[c].path
             next  == [child[c] EXCEPT !.state = "opened", !.fd = file, !.path = path]
  <2>1. /\ child' = [child EXCEPT ![c] = next] /\ err' = [err EXCEPT ![owner] = file]
        /\ messages' = IF err[owner] = 0 THEN Append(messages, {}) ELSE messages
      BY <1>6 DEF Open, ErrPath
  <2>2. /\ messages' \in Seq(SUBSET DOMAIN child) /\ Len(messages') \in Nat
        /\ Len(messages) <= Len(messages') /\ file \in Nat /\ file <= Len(messages')
    <3>1. CASE err[owner] = 0
        BY <1>1, <1>5, <2>1, <3>1, NewFile
    <3>2. CASE err[owner] # 0
        BY <1>5, <2>1, <3>2
    <3> QED
        BY <3>1, <3>2
  <2>6. path \in {0, child[c].path} /\ path \in Nat
      BY <1>5 DEF ChildStates
  <2> HIDE DEF file, path
  <2>3. /\ next \in ChildStates /\ next.owner = owner /\ next.path = path
        /\ next.fd <= Len(messages')
    <3>1. next.owner = owner /\ next.path = path /\ next.fd = file
        BY <1>5 DEF ChildStates
    <3>2. next \in ChildStates
        BY <1>5, <2>2, <2>6 DEF ChildStates
    <3> QED
        BY <2>2, <3>1, <3>2
  <2>4. err' \in [Callers -> 0 .. Len(messages')]
      BY <1>5, <2>1, <2>2
  <2> HIDE DEF next
  <2>5. Len(child') = Len(child) /\ DOMAIN child' = DOMAIN child /\ ChildTypeOK'
      BY <1>2, <2>1, <2>2, <2>3, <2>6, ChildUpdate
  <2> QED
      BY <1>1, <1>2, <1>3, <1>4, <2>2, <2>4, <2>5 DEF TypeOK, FileTypeOK
<1>7. CASE Exec(c)
  <2> DEFINE saw  == IF child[c].path = 0 THEN BOOLEAN ELSE text[child[c].owner][child[c].path]
             next == [child[c] EXCEPT !.state = "runs", !.saw = saw]
  <2>1. child' = [child EXCEPT ![c] = next] /\ UNCHANGED <<err, messages>>
      BY <1>7 DEF Exec
  <2>2. saw \in SUBSET BOOLEAN
    <3>1. CASE child[c].path # 0
      <4>1. /\ text[child[c].owner] \in Seq(Texts)
            /\ child[c].path \in 1 .. Len(text[child[c].owner])
          BY <3>1, ChildFacts
      <4>2. text[child[c].owner][child[c].path] \in Texts
          BY <4>1, ElementOfSeq
      <4> QED
          BY <3>1, <4>2 DEF Texts
    <3> QED
        BY <3>1
  <2> HIDE DEF saw
  <2>3. /\ next \in ChildStates /\ next.owner = child[c].owner /\ next.path = child[c].path
        /\ next.fd = child[c].fd
      BY <1>5, <2>2 DEF ChildStates
  <2> HIDE DEF next
  <2>4. Len(messages') \in Nat /\ Len(messages) <= Len(messages')
        /\ next.fd <= Len(messages')
      BY <1>5, <2>1, <2>3
  <2>5. Len(child') = Len(child) /\ DOMAIN child' = DOMAIN child /\ ChildTypeOK'
      BY <1>2, <2>1, <2>3, <2>4, ChildUpdate
  <2> QED
      BY <1>1, <1>2, <1>3, <1>4, <2>1, <2>5 DEF TypeOK, FileTypeOK
<1>8. CASE Write(c)
  <2> DEFINE next == [child[c] EXCEPT !.state = "wrote"]
  <2>1. /\ child' = [child EXCEPT ![c] = next] /\ UNCHANGED err
        /\ messages' = [messages EXCEPT ![child[c].fd] = @ \cup {c}]
      BY <1>8 DEF Write
  <2>2. messages' \in Seq(SUBSET DOMAIN child) /\ Len(messages') = Len(messages)
    <3>1. CASE child[c].fd = 0
      <4>1. messages' = messages
          BY <1>5, <2>1, <3>1
      <4> QED
          BY <1>5, <4>1
    <3>2. CASE child[c].fd # 0
      <4>1. child[c].fd \in 1 .. Len(messages)
          BY <1>5, <3>2
      <4>2. messages[child[c].fd] \cup {c} \in SUBSET DOMAIN child
          BY <1>5, <4>1, ElementOfSeq
      <4> QED
          BY <1>5, <2>1, <4>1, <4>2, ExceptSeq
    <3> QED
        BY <3>1, <3>2
  <2>3. /\ next \in ChildStates /\ next.owner = child[c].owner /\ next.path = child[c].path
        /\ next.fd = child[c].fd
      BY <1>5, <2>2 DEF ChildStates
  <2> HIDE DEF next
  <2>4. Len(messages') \in Nat /\ Len(messages) <= Len(messages')
        /\ next.fd <= Len(messages')
      BY <1>5, <2>2, <2>3
  <2>5. Len(child') = Len(child) /\ DOMAIN child' = DOMAIN child /\ ChildTypeOK'
      BY <1>2, <2>1, <2>3, <2>4, ChildUpdate
  <2> QED
      BY <1>1, <1>2, <1>3, <1>4, <1>5, <2>1, <2>2, <2>5 DEF TypeOK, FileTypeOK
<1>9. CASE GoAstray(c)
  <2> DEFINE owner == child[c].owner
             next  == [child[c] EXCEPT !.state = "astray"]
  <2>1. /\ child' = [child EXCEPT ![c] = next]
        /\ \/ err' = [err EXCEPT ![owner] = 0] /\ UNCHANGED messages
           \/ /\ messages' = Append(messages, {})
              /\ err' = [err EXCEPT ![owner] = Len(messages')]
      BY <1>9 DEF GoAstray, ErrPath
  <2>2. /\ messages' \in Seq(SUBSET DOMAIN child) /\ Len(messages') \in Nat
        /\ Len(messages) <= Len(messages') /\ err' \in [Callers -> 0 .. Len(messages')]
    <3>1. CASE err' = [err EXCEPT ![owner] = 0] /\ UNCHANGED messages
        BY <1>5, <3>1
    <3>2. CASE /\ messages' = Append(messages, {})
               /\ err' = [err EXCEPT ![owner] = Len(messages')]
        BY <1>1, <1>5, <3>2, NewFile
    <3> QED
        BY <2>1, <3>1, <3>2
  <2>3. /\ next \in ChildStates /\ next.owner = owner /\ next.path = child[c].path
        /\ next.fd <= Len(messages')
    <3>1. /\ next \in ChildStates /\ next.owner = owner /\ next.path = child[c].path
          /\ next.fd = child[c].fd
        BY <1>5 DEF ChildStates
    <3> QED
        BY <1>5, <2>2, <3>1
  <2> HIDE DEF next
  <2>4. Len(child') = Len(child) /\ DOMAIN child' = DOMAIN child /\ ChildTypeOK'
      BY <1>2, <2>1, <2>2, <2>3, ChildUpdate
  <2> QED
      BY <1>1, <1>2, <1>3, <1>4, <2>2, <2>4 DEF TypeOK, FileTypeOK
<1>10. CASE Exit(c) \/ Hang(c) \/ AstrayReturns(c) \/ AstrayRings(c)
  <2>1. /\ UNCHANGED <<messages, text, err>>
        /\ \/ UNCHANGED child
           \/ \E s \in {"zombie", "hangs"} : child' = [child EXCEPT ![c].state = s]
      BY <1>10 DEF Exit, Hang, AstrayReturns, AstrayRings
  <2>2. Len(child') = Len(child) /\ DOMAIN child' = DOMAIN child /\ ChildTypeOK'
      BY <2>1, ChildStateStep
  <2>3. FileTypeOK'
      BY <1>1, <1>2, <2>1, <2>2 DEF FileTypeOK
  <2> QED
      BY <1>1, <1>3, <1>4, <2>2, <2>3 DEF TypeOK
<1> QED
    BY <1>6, <1>7, <1>8, <1>9, <1>10 DEF ChildStep

(* An alarm reaps no child and makes none.                                 *)
LEMMA RingChildren ==
    ASSUME TypeOK, Ring
    PROVE  /\ Len(child') = Len(child) /\ DOMAIN child' = DOMAIN child
           /\ \A d \in DOMAIN child :
                 /\ child'[d].owner = child[d].owner /\ child'[d].path = child[d].path
                 /\ child'[d].fd = child[d].fd /\ child'[d].saw = child[d].saw
                 /\ \/ child'[d].state = child[d].state
                    \/ /\ child'[d].state = "zombie"
                       /\ child[d].state \notin {"zombie", "reaped"}
           /\ child' \in Seq(ChildStates)
<1> DEFINE next(d) == IF d \in KilledBy(c_pid)
                      THEN [child[d] EXCEPT !.state = "zombie", !.killed = TRUE]
                      ELSE child[d]
<1>1. child \in Seq(ChildStates) /\ Len(child) \in Nat /\ DOMAIN child = 1 .. Len(child)
    BY DEF TypeOK, ChildTypeOK
<1>2. ASSUME NEW d \in DOMAIN child
      PROVE  /\ next(d) \in ChildStates
             /\ next(d).owner = child[d].owner /\ next(d).path = child[d].path
             /\ next(d).fd = child[d].fd /\ next(d).saw = child[d].saw
             /\ \/ next(d).state = child[d].state
                \/ next(d).state = "zombie" /\ child[d].state \notin {"zombie", "reaped"}
    BY ChildFacts DEF KilledBy, ChildStates
<1>3. child' = [d \in DOMAIN child |-> next(d)]
    BY DEF Ring
<1> HIDE DEF next
<1>4. child' \in [1 .. Len(child) -> ChildStates]
    BY <1>1, <1>2, <1>3
<1>5. child' \in Seq(ChildStates) /\ Len(child') = Len(child) /\ DOMAIN child' = DOMAIN child
    BY <1>1, <1>4
<1> QED
    BY <1>2, <1>3, <1>5

(* The types survive the alarm...                                          *)
LEMMA RingType ==
    ASSUME TypeOK, CandidateThere, Ring, setting' = setting, Callers' = Callers
    PROVE  TypeOK' /\ CandidateThere'
<1>1. /\ setting \in Settings /\ CallerTypeOK /\ ChildTypeOK /\ FileTypeOK
      /\ UNCHANGED <<caller, c_pid, err, messages, text, recorded, renamed, alive>>
      /\ timer' = FALSE
    BY DEF TypeOK, Ring
<1>2. /\ Len(child') = Len(child) /\ DOMAIN child' = DOMAIN child
      /\ child' \in Seq(ChildStates)
      /\ \A d \in DOMAIN child :
            child'[d].owner = child[d].owner /\ child'[d].path = child[d].path
            /\ child'[d].fd = child[d].fd
    BY RingChildren
<1>3. Pids' = Pids /\ CallerStates' = CallerStates /\ ChildStates' = ChildStates
    BY <1>2 DEF Pids, CallerStates, ChildStates
<1>4. CallerTypeOK'
    BY <1>1, <1>3 DEF CallerTypeOK
<1>5. ChildTypeOK'
    BY <1>1, <1>2, <1>3 DEF ChildTypeOK
<1>6. FileTypeOK' /\ CandidateThere'
    BY <1>1, <1>2 DEF FileTypeOK, CandidateThere
<1> QED
    BY <1>1, <1>4, <1>5, <1>6 DEF TypeOK

(* ...and a file gets another name.                                        *)
LEMMA RenameType ==
    ASSUME TypeOK, CandidateThere, Rename, setting' = setting, Callers' = Callers
    PROVE  /\ TypeOK' /\ CandidateThere' /\ UNCHANGED <<caller, child, err, messages, text>>
           /\ \A w \in Callers : /\ recorded'[w] = {}
                                  /\ renamed'[w] \subseteq renamed[w] \cup recorded[w]
<1>1. /\ UNCHANGED <<caller, c_pid, timer, child, err, messages, text, alive>>
      /\ recorded' = [w \in Callers |-> {}]
    BY DEF Rename
<1>2. PICK w \in Callers :
          \E found \in recorded[w] : renamed' = [renamed EXCEPT ![w] = @ \cup {found}]
    BY DEF Rename
<1>3. renamed \in [Callers -> SUBSET (Nat \ {0})] /\ recorded \in [Callers -> SUBSET (Nat \ {0})]
    BY DEF TypeOK, FileTypeOK
<1>4. /\ renamed' \in [Callers -> SUBSET (Nat \ {0})]
      /\ \A v \in Callers : renamed'[v] \subseteq renamed[v] \cup recorded[v]
    BY <1>2, <1>3
<1>5. CallerTypeOK' /\ ChildTypeOK'
    BY <1>1 DEF TypeOK, CallerTypeOK, ChildTypeOK, CallerStates, ChildStates, Pids
<1>6. FileTypeOK'
    BY <1>1, <1>4 DEF TypeOK, FileTypeOK
<1>7. CandidateThere'
    BY <1>1 DEF CandidateThere
<1> QED
    BY <1>1, <1>4, <1>5, <1>6, <1>7 DEF TypeOK

(* ...and so every step.                                                   *)
LEMMA TypeStep ==
    ASSUME RunnerAssumption, TypeOK, CandidateThere, [Next]_vars
    PROVE  TypeOK' /\ CandidateThere'
<1>1. setting' = setting /\ Callers' = Callers
    BY SameCallers
<1>2. CASE \E w \in Callers : CallerStep(w)
    BY <1>1, <1>2, CallerType
<1>3. CASE \E c \in DOMAIN child : ChildStep(c)
    BY <1>1, <1>3, ChildType
<1>4. CASE Ring
    BY <1>1, <1>4, RingType
<1>5. CASE UNCHANGED vars
    BY <1>5 DEF vars, TypeOK, CallerTypeOK, ChildTypeOK, FileTypeOK, CallerStates,
       ChildStates, Pids, CandidateThere, Callers
<1>6. CASE Rename
    BY <1>1, <1>6, RenameType
<1> QED
    BY <1>2, <1>3, <1>4, <1>5, <1>6 DEF Next, Ended
-----------------------------------------------------------------------------
(* The writers of a file are children.                                     *)
LEMMA WritersExist ==
    ASSUME TypeOK, NEW f \in DOMAIN messages, NEW c \in messages[f]
    PROVE  c \in DOMAIN child
<1>1. messages \in Seq(SUBSET DOMAIN child) /\ f \in 1 .. Len(messages)
    BY DEF TypeOK, FileTypeOK
<1>2. messages[f] \in SUBSET DOMAIN child
    BY <1>1, ElementOfSeq
<1> QED
    BY <1>2

(* A stderr file stays with its caller.  First, steps that leave the files *)
(* and their writers alone.                                                *)
LEMMA OwnedKept ==
    ASSUME TypeOK, FilesOwned, UNCHANGED <<messages, err>>, Callers' = Callers,
           DOMAIN child' = DOMAIN child,
           \A d \in DOMAIN child :
              /\ child'[d].owner = child[d].owner
              /\ child'[d].fd = child[d].fd
              /\ \/ child'[d].state = child[d].state
                 \/ child'[d].state \in {"hangs", "zombie", "reaped"}
    PROVE  FilesOwned'
<1>1. \A f \in DOMAIN messages : messages[f] \subseteq DOMAIN child
    BY WritersExist
<1> QED
    BY <1>1 DEF FilesOwned

(* ...then steps of the callers...                                         *)
LEMMA OwnedCaller ==
    ASSUME TypeOK, FilesOwned, NEW w \in Callers, CallerStep(w),
           Callers' = Callers
    PROVE  FilesOwned'
<1>1. /\ messages \in Seq(SUBSET DOMAIN child) /\ Len(messages) \in Nat
      /\ DOMAIN messages = 1 .. Len(messages)
      /\ err \in [Callers -> 0 .. Len(messages)] /\ FileTypeOK
    BY DEF TypeOK, FileTypeOK
<1>2. CASE Rewrite(w) \/ Written(w)
  <2>1. UNCHANGED <<messages, err>>
      BY <1>2 DEF Rewrite, Written
  <2>2. CASE Rewrite(w)
      BY <2>1, <2>2, RewriteChildren, OwnedKept
  <2>3. CASE Written(w)
    <3>1. UNCHANGED child
        BY <2>3 DEF Written
    <3> QED
        BY <2>1, <3>1, OwnedKept
  <2> QED
      BY <1>2, <2>2, <2>3
<1>3. CASE Start(w)
  <2>1. child' = child
      BY <1>3 DEF Start
  <2>2. CASE err[w] = 0
    <3>1. messages' = Append(messages, {}) /\ err' = [err EXCEPT ![w] = Len(messages')]
        BY <1>3, <2>2 DEF Start, ErrPath
    <3>2. /\ Len(messages') = Len(messages) + 1 /\ DOMAIN messages' = 1 .. Len(messages')
          /\ messages'[Len(messages')] = {}
          /\ \A f \in DOMAIN messages : messages'[f] = messages[f]
        BY <1>1, <3>1, NewFile
    <3>3. \A c \in DOMAIN child : child[c].fd <= Len(messages) /\ child[c].fd \in Nat
        BY ChildFacts
    <3>4. \A u \in Callers : err'[u] # 0 =>
              /\ \A v \in Callers : err'[v] = err'[u] => v = u
              /\ \A c \in DOMAIN child : child[c].fd = err'[u] => child[c].owner = u
      <4> TAKE u \in Callers
      <4>1. CASE u = w
          BY <1>1, <3>1, <3>2, <3>3, <4>1
      <4>2. CASE u # w
          BY <1>1, <3>1, <3>2, <4>2 DEF FilesOwned
      <4> QED
          BY <4>1, <4>2
    <3>5. \A f \in DOMAIN messages' : \A c \in messages'[f] :
              f \in DOMAIN messages /\ c \in messages[f]
        BY <1>1, <3>2
    <3> QED
        BY <2>1, <3>4, <3>5 DEF FilesOwned
  <2>3. CASE err[w] # 0
    <3>1. messages' = [messages EXCEPT ![err[w]] = {}] /\ err' = err
        BY <1>3, <2>3 DEF Start, ErrPath
    <3>2. \A f \in DOMAIN messages' : f \in DOMAIN messages /\ messages'[f] \subseteq messages[f]
        BY <1>1, <2>3, <3>1
    <3> QED
        BY <2>1, <3>1, <3>2 DEF FilesOwned
  <2> QED
      BY <2>2, <2>3
<1>4. CASE Fork(w)
  <2> DEFINE new == [owner |-> w, path |-> Len(text[w]), fd |-> 0,
                     saw |-> {}, state |-> "forked", killed |-> FALSE]
  <2>1. UNCHANGED <<messages, err>> /\ (UNCHANGED child \/ child' = Append(child, new))
      BY <1>4 DEF Fork
  <2>2. CASE UNCHANGED child
      BY <2>1, <2>2, OwnedKept
  <2>3. CASE child' = Append(child, new)
    <3>1. \A c \in DOMAIN child' : \/ c \in DOMAIN child /\ child'[c] = child[c]
                                  \/ child'[c] = new
      <4>1. child \in Seq(ChildStates) /\ Len(child) \in Nat /\ DOMAIN child = 1 .. Len(child)
          BY DEF TypeOK, ChildTypeOK
      <4> HIDE DEF new
      <4>2. /\ DOMAIN child' = 1 .. Len(child) + 1 /\ child'[Len(child) + 1] = new
            /\ \A c \in 1 .. Len(child) : child'[c] = child[c]
          BY <2>3, <4>1
      <4> QED
          BY <4>1, <4>2
    <3>2. new.fd = 0
        OBVIOUS
    <3>3. \A f \in DOMAIN messages : \A c \in messages[f] : c \in DOMAIN child'
                                                       /\ child'[c] = child[c]
      <4>1. \A c \in DOMAIN child : c \in DOMAIN child' /\ child'[c] = child[c]
          BY <2>3 DEF TypeOK, ChildTypeOK
      <4> QED
          BY <1>1, <4>1, ElementOfSeq
    <3> HIDE DEF new
    <3> QED
        BY <2>1, <3>1, <3>2, <3>3 DEF FilesOwned
  <2> QED
      BY <2>1, <2>2, <2>3
<1>5. CASE StorePid(w) \/ Branch(w) \/ CallWait(w)
  <2>1. UNCHANGED <<messages, err, child>>
      BY <1>5 DEF StorePid, Branch, CallWait
  <2> QED
      BY <2>1 DEF FilesOwned
<1>6. CASE Reap(w)
  <2>1. /\ UNCHANGED <<messages, err, text>>
        /\ \/ UNCHANGED child
           \/ \E c \in DOMAIN child : child' = [child EXCEPT ![c].state = "reaped"]
      BY <1>6 DEF Reap, WaitedFor
  <2>2. /\ DOMAIN child' = DOMAIN child
        /\ \A d \in DOMAIN child :
              /\ child'[d].owner = child[d].owner
              /\ child'[d].fd = child[d].fd
      BY <2>1, ChildStateStep
  <2>3. \A d \in DOMAIN child : child'[d].state \in {child[d].state, "reaped"}
      BY <2>1, ChildFacts DEF ChildStates
  <2> QED
      BY <2>1, <2>2, <2>3, OwnedKept
<1>7. CASE ReadVerdict(w)
  <2>1. UNCHANGED <<messages, child>> /\ err' = [err EXCEPT ![w] = 0]
      BY <1>7 DEF ReadVerdict, ErrPath
  <2> QED
      BY <1>1, <2>1 DEF FilesOwned
<1> QED
    BY <1>2, <1>3, <1>4, <1>5, <1>6, <1>7 DEF CallerStep

(* ...and of the children.                                                 *)
LEMMA OwnedChild ==
    ASSUME TypeOK, FilesOwned, NEW c \in DOMAIN child, ChildStep(c), Callers' = Callers
    PROVE  FilesOwned'
<1>1. /\ messages \in Seq(SUBSET DOMAIN child) /\ Len(messages) \in Nat
      /\ DOMAIN messages = 1 .. Len(messages) /\ FileTypeOK
      /\ err \in [Callers -> 0 .. Len(messages)] /\ child[c].owner \in Callers
      /\ child \in Seq(ChildStates)
      /\ \A d \in DOMAIN child : child[d].fd <= Len(messages) /\ child[d].fd \in Nat
  <2>1. /\ messages \in Seq(SUBSET DOMAIN child) /\ FileTypeOK
        /\ err \in [Callers -> 0 .. Len(messages)]
      BY DEF TypeOK, FileTypeOK
  <2>2. Len(messages) \in Nat /\ DOMAIN messages = 1 .. Len(messages)
      BY <2>1
  <2>3. child \in Seq(ChildStates)
      BY DEF TypeOK, ChildTypeOK
  <2>4. \A d \in DOMAIN child : child[d].fd \in 0 .. Len(messages) /\ child[d].owner \in Callers
      BY ChildFacts DEF ChildStates
  <2> QED
      BY <2>1, <2>2, <2>3, <2>4
<1>2. \A f \in DOMAIN messages : messages[f] \subseteq DOMAIN child
    BY WritersExist
<1>3. CASE Open(c)
  <2> DEFINE owner == child[c].owner
             file  == IF err[owner] = 0 THEN Len(messages) + 1 ELSE err[owner]
             path  == IF child[c].path \in renamed[owner] THEN 0 ELSE child[c].path
  <2>1. /\ child' = [child EXCEPT ![c].state = "opened", ![c].fd = file, ![c].path = path]
        /\ err' = [err EXCEPT ![owner] = file]
        /\ messages' = IF err[owner] = 0 THEN Append(messages, {}) ELSE messages
        /\ child[c].state = "forked"
      BY <1>3 DEF Open, ErrPath
  <2> HIDE DEF file, path
  <2>2. /\ DOMAIN child' = DOMAIN child /\ \A d \in DOMAIN child : d # c => child'[d] = child[d]
        /\ child'[c].fd = file /\ child'[c].state = "opened" /\ child'[c].owner = owner
      BY <1>1, <2>1, ChildFacts DEF ChildStates
  <2>3. \A f \in DOMAIN messages' : \A d \in messages'[f] :
            f \in DOMAIN messages /\ d \in messages[f] /\ d # c
    <3>1. \A f \in DOMAIN messages : c \notin messages[f]
        BY <2>1 DEF FilesOwned
    <3>2. CASE err[owner] = 0
        BY <1>1, <2>1, <3>1, <3>2, NewFile
    <3>3. CASE err[owner] # 0
        BY <2>1, <3>1, <3>3
    <3> QED
        BY <3>2, <3>3
  <2>4. \A u \in Callers : err'[u] # 0 =>
            /\ \A v \in Callers : err'[v] = err'[u] => v = u
            /\ \A d \in DOMAIN child' : child'[d].fd = err'[u] => child'[d].owner = u
    <3> TAKE u \in Callers
    <3>1. err'[owner] = file /\ \A v \in Callers : v # owner => err'[v] = err[v]
        BY <1>1, <2>1
    <3>2. CASE err[owner] = 0
      <4>1. file = Len(messages) + 1
          BY <3>2 DEF file
      <4>2. CASE u = owner
        <5>1. err'[u] = Len(messages) + 1
            BY <3>1, <4>1, <4>2
        <5>2. \A v \in Callers : v # u => err'[v] \in 0 .. Len(messages)
            BY <1>1, <3>1, <4>2
        <5>3. \A d \in DOMAIN child : d # c => child'[d].fd \in 0 .. Len(messages)
            BY <2>2, ChildFacts
        <5>4. \A v \in Callers : err'[v] = err'[u] => v = u
            BY <1>1, <5>1, <5>2
        <5>5. \A d \in DOMAIN child : child'[d].fd = err'[u] => d = c
            BY <1>1, <5>1, <5>3
        <5> QED
            BY <2>2, <4>2, <5>4, <5>5
      <4>3. CASE u # owner
        <5>1. err'[u] = err[u] /\ err[u] \in 0 .. Len(messages) /\ err[u] # file
            BY <1>1, <3>1, <4>1, <4>3
        <5>2. err[u] # 0 => /\ \A v \in Callers : err[v] = err[u] => v = u
                            /\ \A d \in DOMAIN child : child[d].fd = err[u] => child[d].owner = u
            BY DEF FilesOwned
        <5> QED
            BY <1>1, <2>2, <3>1, <5>1, <5>2
      <4> QED
          BY <4>2, <4>3
    <3>3. CASE err[owner] # 0
      <4>1. file = err[owner]
          BY <3>3 DEF file
      <4>2. \A v \in Callers : err'[v] = err[v]
          BY <3>1, <4>1
      <4>3. \A d \in DOMAIN child' : child'[d].owner = child[d].owner
                                     /\ (d # c => child'[d].fd = child[d].fd)
          BY <2>2
      <4>4. child'[c].fd = err[owner] /\ child'[c].owner = owner
          BY <2>2, <4>1
      <4>5. err[u] # 0 => /\ \A v \in Callers : err[v] = err[u] => v = u
                          /\ \A d \in DOMAIN child : child[d].fd = err[u] => child[d].owner = u
          BY DEF FilesOwned
      <4>6. err[u] = err[owner] => u = owner
          BY <1>1, <3>3 DEF FilesOwned
      <4> QED
          BY <2>2, <4>2, <4>3, <4>4, <4>5, <4>6
    <3> QED
        BY <3>2, <3>3
  <2> QED
      BY <1>2, <2>2, <2>3, <2>4 DEF FilesOwned
<1>4. CASE Exec(c)
  <2>1. /\ UNCHANGED <<err, messages>> /\ child[c].state = "opened"
        /\ DOMAIN child' = DOMAIN child /\ \A d \in DOMAIN child : d # c => child'[d] = child[d]
        /\ child'[c].fd = child[c].fd /\ child'[c].owner = child[c].owner
        /\ child'[c].state = "runs"
      BY <1>1, <1>4, ChildFacts DEF Exec, ChildStates
  <2> QED
      BY <1>2, <2>1 DEF FilesOwned
<1>5. CASE Write(c)
  <2>1. /\ UNCHANGED err /\ child[c].state = "runs"
        /\ messages' = [messages EXCEPT ![child[c].fd] = @ \cup {c}]
        /\ DOMAIN child' = DOMAIN child /\ \A d \in DOMAIN child : d # c => child'[d] = child[d]
        /\ child'[c].fd = child[c].fd /\ child'[c].owner = child[c].owner
        /\ child'[c].state = "wrote"
      BY <1>1, <1>5, ChildFacts DEF Write, ChildStates
  <2>2. /\ DOMAIN messages' = DOMAIN messages
        /\ \A f \in DOMAIN messages : \A d \in messages'[f] :
              (f = child[c].fd /\ d = c) \/ d \in messages[f]
      BY <1>1, <2>1
  <2>3. \A f \in DOMAIN messages' : \A d \in messages'[f] :
            /\ child'[d].fd = f
            /\ child'[d].state \notin {"forked", "opened", "runs", "astray"}
    <3> TAKE f \in DOMAIN messages'
    <3> TAKE d \in messages'[f]
    <3>1. CASE d = c
      <4>1. f = child[c].fd
          BY <2>1, <2>2, <3>1 DEF FilesOwned
      <4> QED
          BY <2>1, <3>1, <4>1
    <3>2. CASE d # c
      <4>1. f \in DOMAIN messages /\ d \in messages[f]
          BY <2>2, <3>2
      <4>2. child'[d] = child[d]
          BY <1>2, <2>1, <3>2, <4>1
      <4> QED
          BY <4>1, <4>2 DEF FilesOwned
    <3> QED
        BY <3>1, <3>2
  <2>4. \A u \in Callers : err[u] # 0 =>
            /\ \A v \in Callers : err[v] = err[u] => v = u
            /\ \A d \in DOMAIN child' : child'[d].fd = err[u] => child'[d].owner = u
      BY <2>1 DEF FilesOwned
  <2> QED
      BY <2>1, <2>3, <2>4 DEF FilesOwned
<1>6. CASE GoAstray(c)
  <2> DEFINE owner == child[c].owner
  <2>1. /\ child[c].state = "opened"
        /\ DOMAIN child' = DOMAIN child /\ \A d \in DOMAIN child : d # c => child'[d] = child[d]
        /\ child'[c].fd = child[c].fd /\ child'[c].owner = owner
        /\ child'[c].state = "astray"
        /\ \/ err' = [err EXCEPT ![owner] = 0] /\ UNCHANGED messages
           \/ /\ messages' = Append(messages, {})
              /\ err' = [err EXCEPT ![owner] = Len(messages')]
      BY <1>1, <1>6, ChildFacts DEF GoAstray, ErrPath, ChildStates
  <2>2. \A f \in DOMAIN messages' : \A d \in messages'[f] :
            f \in DOMAIN messages /\ d \in messages[f] /\ d # c
    <3>1. \A f \in DOMAIN messages : c \notin messages[f]
        BY <2>1 DEF FilesOwned
    <3> QED
        BY <1>1, <2>1, <3>1, NewFile
  <2>3. /\ \A v \in Callers : v # owner => err'[v] = err[v]
        /\ err'[owner] = 0 \/ err'[owner] = Len(messages) + 1
      BY <1>1, <2>1, NewFile
  <2>4. \A u \in Callers : err'[u] # 0 =>
            /\ \A v \in Callers : err'[v] = err'[u] => v = u
            /\ \A d \in DOMAIN child' : child'[d].fd = err'[u] => child'[d].owner = u
    <3> TAKE u \in Callers
    <3>0. /\ \A d \in DOMAIN child' : /\ child'[d].fd = child[d].fd
                                      /\ child'[d].owner = child[d].owner
          /\ \A v \in Callers : err[v] \in Nat /\ err[v] <= Len(messages)
      <4>1. \A v \in Callers : err[v] \in 0 .. Len(messages)
          BY <1>1
      <4>2. \A d \in DOMAIN child : /\ child'[d].fd = child[d].fd
                                   /\ child'[d].owner = child[d].owner
          BY <2>1
      <4> QED
          BY <1>1, <2>1, <4>1, <4>2
    <3>1. CASE u = owner
      <4>1. \A v \in Callers : v # u => err'[v] # Len(messages) + 1
          BY <1>1, <2>3, <3>0, <3>1
      <4>2. \A d \in DOMAIN child' : child'[d].fd # Len(messages) + 1
          BY <1>1, <2>1, <3>0
      <4> QED
          BY <2>3, <3>1, <4>1, <4>2
    <3>2. CASE u # owner
      <4>1. err'[u] = err[u] /\ err[u] \in 0 .. Len(messages)
          BY <1>1, <2>3, <3>2
      <4>2. err[u] # 0 => /\ \A v \in Callers : err[v] = err[u] => v = u
                          /\ \A d \in DOMAIN child : child[d].fd = err[u] => child[d].owner = u
          BY DEF FilesOwned
      <4>3. \A v \in Callers : err'[v] = err'[u] /\ err'[u] # 0 => err[v] = err[u]
          BY <1>1, <2>3, <3>0, <4>1
      <4> QED
          BY <2>1, <3>0, <4>1, <4>2, <4>3
    <3> QED
        BY <3>1, <3>2
  <2> QED
      BY <1>2, <2>1, <2>2, <2>4 DEF FilesOwned
<1>7. CASE Exit(c) \/ Hang(c) \/ AstrayReturns(c) \/ AstrayRings(c)
  <2>1. /\ UNCHANGED <<messages, text, err>>
        /\ \/ UNCHANGED child
           \/ \E s \in {"zombie", "hangs"} : child' = [child EXCEPT ![c].state = s]
      BY <1>7 DEF Exit, Hang, AstrayReturns, AstrayRings
  <2>2. /\ DOMAIN child' = DOMAIN child
        /\ \A d \in DOMAIN child :
              /\ child'[d].owner = child[d].owner
              /\ child'[d].fd = child[d].fd
      BY <2>1, ChildStateStep
  <2>3. \A d \in DOMAIN child :
            child'[d].state = child[d].state \/ child'[d].state \in {"hangs", "zombie"}
    <3>1. child[c] \in ChildStates
        BY ChildFacts
    <3>2. ASSUME NEW s \in {"zombie", "hangs"}, child' = [child EXCEPT ![c].state = s]
          PROVE  child'[c].state = s /\ \A d \in DOMAIN child : d # c => child'[d] = child[d]
        BY <1>1, <3>1, <3>2 DEF ChildStates
    <3> QED
        BY <2>1, <3>2
  <2> QED
      BY <2>1, <2>2, <2>3, OwnedKept
<1> QED
    BY <1>3, <1>4, <1>5, <1>6, <1>7 DEF ChildStep

(* A file never has another owner than the caller who made it.             *)
LEMMA OwnedStep ==
    ASSUME TypeOK, FilesOwned, [Next]_vars
    PROVE  FilesOwned'
<1>1. Callers' = Callers
    BY SameCallers
<1>2. CASE \E w \in Callers : CallerStep(w)
    BY <1>1, <1>2, OwnedCaller
<1>3. CASE \E c \in DOMAIN child : ChildStep(c)
    BY <1>1, <1>3, OwnedChild
<1>4. CASE Ring
  <2>1. UNCHANGED <<messages, err>>
      BY <1>4 DEF Ring
  <2> QED
      BY <1>1, <1>4, <2>1, RingChildren, OwnedKept
<1>5. CASE UNCHANGED vars
    BY <1>5 DEF vars, FilesOwned, Callers
<1>6. CASE Rename
  <2>1. UNCHANGED <<messages, err, child>>
      BY <1>6 DEF Rename
  <2> QED
      BY <1>1, <2>1, OwnedKept
<1> QED
    BY <1>2, <1>3, <1>4, <1>5, <1>6 DEF Next, Ended
-----------------------------------------------------------------------------
(* What a caller's step does to the verdicts: only the end of a test gives *)
(* one, and the next test withdraws it.                                    *)
LEMMA VerdictStep ==
    ASSUME TypeOK, NEW w \in Callers, CallerStep(w), Callers' = Callers
    PROVE  /\ \A v \in Callers : v # w => caller'[v] = caller[v]
           /\ Tested(w)' =>
                 /\ ReadVerdict(w) /\ UNCHANGED <<child, messages, text>>
                 /\ caller'[w].ret = caller[w].ret
                 /\ caller'[w].verdict <=> /\ caller[w].type # "E_TIMEOUT_KILL"
                                           /\ err[w] # 0 /\ messages[err[w]] # {}
<1>1. caller \in [Callers -> CallerStates]
    BY DEF TypeOK, CallerTypeOK
<1>2. \A v \in Callers : v # w => caller'[v] = caller[v]
    BY <1>1 DEF CallerStep, Rewrite, Written, Start, Fork, StorePid, Branch, CallWait,
       Reap, ReadVerdict
<1>3. CASE ReadVerdict(w)
  <2> DEFINE verdict == caller[w].type # "E_TIMEOUT_KILL" /\ err[w] # 0 /\ messages[err[w]] # {}
  <2>1. /\ UNCHANGED <<child, messages, text>>
        /\ caller' = [caller EXCEPT ![w].at = "idle", ![w].type = "NO_ERROR",
                                    ![w].verdict = verdict]
      BY <1>3 DEF ReadVerdict, ErrPath
  <2> HIDE DEF verdict
  <2>2. caller'[w].ret = caller[w].ret /\ caller'[w].verdict = verdict
      BY <1>1, <2>1 DEF CallerStates
  <2> QED
      BY <1>2, <1>3, <2>1, <2>2 DEF verdict
<1>4. CASE ~ReadVerdict(w)
  <2>1. caller'[w].at # "idle"
    <3>1. CASE Written(w) \/ Start(w) \/ StorePid(w) \/ CallWait(w)
        BY <1>1, <3>1 DEF Written, Start, StorePid, CallWait, CallerStates
    <3>2. CASE Fork(w)
        BY <1>1, <3>2 DEF Fork, CallerStates
    <3>3. CASE Rewrite(w)
        BY <1>1, <3>3 DEF Rewrite, CallerStates
    <3>4. CASE Branch(w)
        BY <1>1, <3>4 DEF Branch, CallerStates
    <3>5. CASE Reap(w)
      <4>1. PICK type \in {"NO_ERROR", "E_TIMEOUT_KILL"} :
                caller' = [caller EXCEPT ![w].at = "read", ![w].type = type, ![w].waiting = 0]
          BY <3>5 DEF Reap
      <4> QED
          BY <1>1, <4>1 DEF CallerStates
    <3> QED
        BY <1>4, <3>1, <3>2, <3>3, <3>4, <3>5 DEF CallerStep
  <2> QED
      BY <1>2, <2>1 DEF Tested
<1> QED
    BY <1>3, <1>4
-----------------------------------------------------------------------------
(* A step of a child is one of a child that has not ended, and of no other.*)
LEMMA ChildStepOnly ==
    ASSUME TypeOK, NEW c \in DOMAIN child, ChildStep(c)
    PROVE  /\ UNCHANGED <<caller, c_pid>> /\ DOMAIN child' = DOMAIN child
           /\ \A d \in DOMAIN child : d # c => child'[d] = child[d]
           /\ child[c].state \notin {"zombie", "reaped"}
<1>1. child \in Seq(ChildStates)
    BY DEF TypeOK, ChildTypeOK
<1>2. UNCHANGED <<caller, c_pid>> /\ child[c].state \notin {"zombie", "reaped"}
    BY DEF ChildStep, Open, Exec, Write, Exit, Hang, GoAstray, AstrayReturns, AstrayRings
<1>3. CASE Exec(c)
  <2>1. child' = [child EXCEPT ![c] = [@ EXCEPT !.state = "runs", !.saw = child'[c].saw]]
      BY <1>1, <1>3 DEF Exec, ChildStates
  <2> QED
      BY <1>1, <1>2, <2>1
<1>4. CASE ~Exec(c)
  <2>1. \/ UNCHANGED child
        \/ \E next : child' = [child EXCEPT ![c] = next]
    <3>1. CASE Open(c)
      <4> DEFINE file == IF err[ErrPath(child[c].owner)] = 0 THEN Len(messages) + 1
                         ELSE err[ErrPath(child[c].owner)]
                 path == IF child[c].path \in renamed[child[c].owner] THEN 0 ELSE child[c].path
                 next == [child[c] EXCEPT !.state = "opened", !.fd = file, !.path = path]
      <4>1. child' = [child EXCEPT ![c] = next]
          BY <3>1 DEF Open
      <4> QED
          BY <4>1
    <3>2. CASE ~Open(c)
        BY <1>4, <3>2 DEF ChildStep, Write, Exit, Hang, GoAstray, AstrayReturns, AstrayRings
    <3> QED
        BY <3>1, <3>2
  <2> QED
      BY <1>1, <1>2, <2>1
<1> QED
    BY <1>3, <1>4

-----------------------------------------------------------------------------
(* What a step of one caller leaves to the others.                         *)
LEMMA OthersKept ==
    ASSUME TypeOK, NEW v \in Callers, CallerStep(v), Callers' = Callers,
           NEW w \in Callers, w # v
    PROVE  /\ caller'[w] = caller[w] /\ text'[w] = text[w]
           /\ recorded'[w] = recorded[w] /\ renamed'[w] = renamed[w]
           /\ \A d \in DOMAIN child : child[d].owner = w =>
                 /\ d \in DOMAIN child'
                 /\ child'[d].owner = w /\ child'[d].path = child[d].path
                 /\ child'[d].saw = child[d].saw /\ child'[d].fd = child[d].fd
<1>1. /\ caller \in [Callers -> CallerStates] /\ child \in Seq(ChildStates)
      /\ text \in [Callers -> Seq(Texts)] /\ recorded \in [Callers -> SUBSET (Nat \ {0})]
    BY DEF TypeOK, CallerTypeOK, ChildTypeOK, FileTypeOK
<1>2. /\ caller'[w] = caller[w] /\ text'[w] = text[w]
      /\ recorded'[w] = recorded[w] /\ renamed'[w] = renamed[w]
  <2>1. caller'[w] = caller[w]
      BY VerdictStep
  <2>2. text'[w] = text[w]
      BY <1>1 DEF CallerStep, Rewrite, Written, Start, Fork, StorePid, Branch, CallWait,
         Reap, ReadVerdict
  <2>3. recorded'[w] = recorded[w] /\ renamed'[w] = renamed[w]
      BY <1>1 DEF CallerStep, Rewrite, Written, Start, Fork, StorePid, Branch, CallWait,
         Reap, ReadVerdict
  <2> QED
      BY <2>1, <2>2, <2>3
<1> SUFFICES ASSUME NEW d \in DOMAIN child, child[d].owner = w
             PROVE  /\ d \in DOMAIN child'
                    /\ child'[d].owner = w /\ child'[d].path = child[d].path
                    /\ child'[d].saw = child[d].saw /\ child'[d].fd = child[d].fd
    BY <1>2
<1>3. CASE Rewrite(v)
    BY <1>3, RewriteChildren
<1>4. CASE Fork(v)
  <2> DEFINE new == [owner |-> v, path |-> Len(text[v]), fd |-> 0,
                     saw |-> {}, state |-> "forked", killed |-> FALSE]
  <2>1. UNCHANGED child \/ child' = Append(child, new)
      BY <1>4 DEF Fork
  <2> HIDE DEF new
  <2>2. Len(child) \in Nat /\ DOMAIN child = 1 .. Len(child)
      BY <1>1
  <2>3. d \in DOMAIN child' /\ child'[d] = child[d]
      BY <1>1, <2>1, <2>2
  <2> QED
      BY <2>3
<1>5. CASE Reap(v)
  <2>1. /\ UNCHANGED <<messages, text>>
        /\ \/ UNCHANGED child
           \/ \E c \in DOMAIN child : child' = [child EXCEPT ![c].state = "reaped"]
      BY <1>5 DEF Reap, WaitedFor
  <2> QED
      BY <2>1, ChildStateStep
<1>6. CASE ~(Rewrite(v) \/ Fork(v) \/ Reap(v))
  <2>1. UNCHANGED child
      BY <1>6 DEF CallerStep, Written, Start, StorePid, Branch, CallWait, ReadVerdict
  <2> QED
      BY <2>1
<1> QED
    BY <1>3, <1>4, <1>5, <1>6

(* What a target reads can only become less certain while it reads.        *)
LEMMA MayFailForever ==
    ASSUME TypeOK, [Next]_vars, NEW c \in DOMAIN child,
           child[c].state # "opened", MayFail(c)
    PROVE  MayFail(c)'
<1>1. /\ child \in Seq(ChildStates) /\ child[c] \in ChildStates /\ Callers' = Callers
      /\ child[c].owner \in Callers
    BY SameCallers, ChildFacts DEF TypeOK, ChildTypeOK, ChildStates
<1>2. SUFFICES child[c].saw \subseteq child'[c].saw
    BY <1>2 DEF MayFail
<1>3. CASE \E v \in Callers : CallerStep(v)
  <2>1. PICK v \in Callers : CallerStep(v)
      BY <1>3
  <2>2. CASE child[c].owner # v
      BY <1>1, <2>1, <2>2, OthersKept
  <2>3. CASE Rewrite(v)
      BY <2>3, RewriteChildren
  <2>4. CASE Fork(v)
    <3> DEFINE new == [owner |-> v, path |-> Len(text[v]), fd |-> 0,
                       saw |-> {}, state |-> "forked", killed |-> FALSE]
    <3>1. UNCHANGED child \/ child' = Append(child, new)
        BY <2>4 DEF Fork
    <3> HIDE DEF new
    <3>2. child'[c] = child[c]
        BY <1>1, <3>1
    <3> QED
        BY <3>2
  <2>5. CASE Reap(v)
    <3>1. /\ UNCHANGED <<messages, text>>
          /\ \/ UNCHANGED child
             \/ \E d \in DOMAIN child : child' = [child EXCEPT ![d].state = "reaped"]
        BY <2>5 DEF Reap, WaitedFor
    <3> QED
        BY <1>1, <3>1, ChildStateStep
  <2>6. CASE ~(Rewrite(v) \/ Fork(v) \/ Reap(v))
    <3>1. UNCHANGED child
        BY <2>1, <2>6 DEF CallerStep, Written, Start, StorePid, Branch, CallWait, ReadVerdict
    <3> QED
        BY <3>1
  <2> QED
      BY <2>3, <2>4, <2>5, <2>6
<1>4. CASE \E d \in DOMAIN child : ChildStep(d)
  <2>1. PICK d \in DOMAIN child : ChildStep(d)
      BY <1>4
  <2>2. CASE d # c
      BY <2>1, <2>2, ChildStepOnly
  <2>3. CASE Open(d)
    <3> DEFINE file == IF err[ErrPath(child[d].owner)] = 0 THEN Len(messages) + 1
                       ELSE err[ErrPath(child[d].owner)]
               path == IF child[d].path \in renamed[child[d].owner] THEN 0 ELSE child[d].path
               next == [child[d] EXCEPT !.state = "opened", !.fd = file, !.path = path]
    <3>1. child' = [child EXCEPT ![d] = next]
        BY <2>3 DEF Open
    <3>2. child[d] \in ChildStates
        BY ChildFacts
    <3> HIDE DEF file, path
    <3>3. next.saw = child[d].saw
        BY <3>2 DEF ChildStates
    <3> HIDE DEF next
    <3>4. child'[c] = IF c = d THEN next ELSE child[c]
        BY <1>1, <3>1
    <3> QED
        BY <3>3, <3>4
  <2>4. CASE d = c /\ ~Open(d)
    <3>1. \/ UNCHANGED child
          \/ \E s \in {"wrote", "zombie", "hangs", "astray"} :
                child' = [child EXCEPT ![c].state = s]
        BY <2>1, <2>4 DEF ChildStep, Exec, Write, Exit, Hang, GoAstray, AstrayReturns,
           AstrayRings
    <3>2. ASSUME NEW s, child' = [child EXCEPT ![c].state = s]
          PROVE  child'[c].saw = child[c].saw
      <4>1. child'[c] = [child[c] EXCEPT !.state = s]
          BY <1>1, <3>2
      <4>2. child[c] \in ChildStates
          BY ChildFacts
      <4> QED
          BY <4>1, <4>2 DEF ChildStates
    <3> QED
        BY <3>1, <3>2
  <2> QED
      BY <2>2, <2>3, <2>4
<1>5. CASE Ring
    BY <1>5, RingChildren
<1>6. CASE Rename \/ UNCHANGED vars
    BY <1>6 DEF Rename, vars
<1> QED
    BY <1>3, <1>4, <1>5, <1>6 DEF Next, Ended

(* A message comes from a target that failed on what it read.              *)
LEMMA WritersStep ==
    ASSUME TypeOK, FilesOwned, WritersFail, [Next]_vars
    PROVE  WritersFail'
<1>1. /\ messages \in Seq(SUBSET DOMAIN child) /\ Len(messages) \in Nat
      /\ DOMAIN messages = 1 .. Len(messages) /\ FileTypeOK
    BY DEF TypeOK, FileTypeOK
<1>2. ASSUME NEW f \in DOMAIN messages, NEW c \in messages[f]
      PROVE  MayFail(c)'
  <2>1. c \in DOMAIN child /\ child[c].state # "opened" /\ MayFail(c)
      BY <1>2, WritersExist DEF FilesOwned, WritersFail
  <2> QED
      BY <2>1, MayFailForever
<1>3. ASSUME NEW c \in DOMAIN child, Write(c)
      PROVE  MayFail(c)'
  <2>1. child[c].state = "runs" /\ MayFail(c)
      BY <1>3 DEF Write
  <2> QED
      BY <2>1, MayFailForever
<1>4. CASE messages' = messages
    BY <1>2, <1>4 DEF WritersFail
<1>5. CASE messages' = Append(messages, {})
  <2>1. \A f \in DOMAIN messages' : \A c \in messages'[f] :
            f \in DOMAIN messages /\ c \in messages[f]
      BY <1>1, <1>5, NewFile
  <2> QED
      BY <1>2, <2>1 DEF WritersFail
<1>6. ASSUME NEW w \in Callers, messages' = [messages EXCEPT ![err[w]] = {}]
      PROVE  WritersFail'
  <2>1. \A f \in DOMAIN messages' : \A c \in messages'[f] :
            f \in DOMAIN messages /\ c \in messages[f]
      BY <1>1, <1>6
  <2> QED
      BY <1>2, <2>1 DEF WritersFail
<1>7. ASSUME NEW c \in DOMAIN child, Write(c)
      PROVE  WritersFail'
  <2>1. messages' = [messages EXCEPT ![child[c].fd] = @ \cup {c}]
      BY <1>7 DEF Write
  <2>2. \A f \in DOMAIN messages' : \A d \in messages'[f] :
            f \in DOMAIN messages /\ (d \in messages[f] \/ d = c)
      BY <1>1, <2>1
  <2> QED
      BY <1>2, <1>3, <1>7, <2>2 DEF WritersFail
<1>8. CASE \E w \in Callers : CallerStep(w)
  <2>1. PICK w \in Callers : CallerStep(w)
      BY <1>8
  <2>2. \/ messages' = messages \/ messages' = Append(messages, {})
        \/ messages' = [messages EXCEPT ![err[w]] = {}]
      BY <2>1 DEF CallerStep, Rewrite, Written, Start, Fork, StorePid, Branch, CallWait,
         Reap, ReadVerdict, ErrPath
  <2> QED
      BY <1>4, <1>5, <1>6, <2>2
<1>9. CASE \E c \in DOMAIN child : ChildStep(c)
  <2>1. PICK c \in DOMAIN child : ChildStep(c)
      BY <1>9
  <2>2. messages' = messages \/ messages' = Append(messages, {}) \/ Write(c)
      BY <2>1 DEF ChildStep, Open, Exec, Exit, Hang, GoAstray, AstrayReturns, AstrayRings
  <2> QED
      BY <1>4, <1>5, <1>7, <2>2
<1>10. CASE Ring \/ Rename \/ UNCHANGED vars
    BY <1>4, <1>10 DEF Ring, Rename, vars
<1> QED
    BY <1>8, <1>9, <1>10 DEF Next, Ended

(* A test's own child reads the test's candidate: first the caller's steps.*)
LEMMA OwnCandidateCaller ==
    ASSUME TypeOK, CandidateThere, OwnCandidate, NEW w \in Callers, CallerStep(w),
           Callers' = Callers
    PROVE  OwnCandidate'
<1> DEFINE
      Kept(v) == \A i \in recorded[v] \cup renamed[v] :
                     /\ i <= Len(text[v])
                     /\ i = Len(text[v]) => caller[v].at = "idle" /\ caller[v].verdict
      Known(v) == caller[v].at \notin {"idle", "write"} => text[v][Len(text[v])] # BOOLEAN
      Reads(v) == LET c == caller[v].ret IN
                  (Forked(v) \/ caller[v].at = "read") /\ c > 0 =>
                      /\ child[c].owner = v /\ child[c].path = Len(text[v])
                      /\ child[c].saw \subseteq text[v][Len(text[v])]
<1>1. /\ caller \in [Callers -> CallerStates] /\ child \in Seq(ChildStates)
      /\ Len(child) \in Nat /\ DOMAIN child = 1 .. Len(child)
      /\ text \in [Callers -> Seq(Texts)] /\ recorded \in [Callers -> SUBSET (Nat \ {0})]
      /\ renamed \in [Callers -> SUBSET (Nat \ {0})]
    BY DEF TypeOK, CallerTypeOK, ChildTypeOK, FileTypeOK
<1>2. \A v \in Callers : Kept(v) /\ Known(v) /\ Reads(v)
    BY DEF OwnCandidate
<1>3. SUFFICES \A v \in Callers : Kept(v)' /\ Known(v)' /\ Reads(v)'
    BY <1>3 DEF OwnCandidate
<1>4. \A v \in Callers : caller[v].ret > 0 => caller[v].ret \in DOMAIN child
    BY <1>1 DEF CallerStates, Pids
<1>5. ASSUME NEW v \in Callers, v # w
      PROVE  Kept(v)' /\ Known(v)' /\ Reads(v)'
  <2>1. /\ caller'[v] = caller[v] /\ text'[v] = text[v]
        /\ recorded'[v] = recorded[v] /\ renamed'[v] = renamed[v]
        /\ \A d \in DOMAIN child : child[d].owner = v =>
              child'[d].owner = v /\ child'[d].path = child[d].path
              /\ child'[d].saw = child[d].saw
      BY <1>5, OthersKept
  <2> QED
      BY <1>2, <1>4, <2>1 DEF Forked
<1>6. text[w] \in Seq(Texts) /\ Len(text[w]) \in Nat /\ caller[w] \in CallerStates
      /\ \A i \in recorded[w] \cup renamed[w] : i \in Nat
    BY <1>1
<1>7. CASE Rewrite(w)
  <2>1. /\ caller[w].at = "idle" /\ caller'[w].at = "write" /\ UNCHANGED <<recorded, renamed>>
        /\ text'[w] = Placed(text[w], caller[w].verdict, BOOLEAN)
      BY <1>1, <1>7 DEF Rewrite, At, CallerStates
  <2>2. caller[w].verdict \in BOOLEAN /\ BOOLEAN \in Texts
        /\ (text[w] = <<>> => caller[w].verdict)
      BY <1>6 DEF CallerStates, Texts, CandidateThere
  <2>3. Len(text'[w]) = IF caller[w].verdict THEN Len(text[w]) + 1 ELSE Len(text[w])
    <3> DEFINE files == Placed(text[w], caller[w].verdict, BOOLEAN)
    <3>1. Len(files) = IF caller[w].verdict THEN Len(text[w]) + 1 ELSE Len(text[w])
        BY <1>6, <2>2, PlacedType
    <3> HIDE DEF files
    <3>2. text'[w] = files
        BY <2>1 DEF files
    <3> QED
        BY <3>1, <3>2
  <2>4. Kept(w)'
      BY <1>2, <1>6, <2>1, <2>3
  <2> QED
      BY <1>5, <2>1, <2>4 DEF Forked
<1>8. CASE Written(w)
  <2>1. /\ caller[w].at = "write" /\ caller'[w].at = "ready" /\ UNCHANGED <<recorded, renamed>>
      BY <1>1, <1>8 DEF Written, At, CallerStates
  <2>2. PICK fails \in BOOLEAN : text' = [text EXCEPT ![w][Len(text[w])] = {fails}]
      BY <1>8 DEF Written
  <2>3. text[w] # <<>>
      BY <2>1 DEF CandidateThere
  <2>4. /\ Len(text[w]) \in 1 .. Len(text[w])
        /\ text'[w] = [text[w] EXCEPT ![Len(text[w])] = {fails}]
      BY <1>1, <1>6, <2>2, <2>3, EmptySeq
  <2>5. Len(text'[w]) = Len(text[w]) /\ text'[w][Len(text[w])] = {fails}
      BY <1>6, <2>4
  <2>6. Kept(w)'
      BY <1>2, <2>1, <2>5
  <2>7. Known(w)'
    <3>1. {fails} # BOOLEAN
        OBVIOUS
    <3> QED
        BY <2>5, <3>1
  <2> QED
      BY <1>5, <2>1, <2>6, <2>7 DEF Forked
<1>9. CASE Start(w)
  <2>1. /\ caller[w].at = "ready" /\ caller'[w].at = "fork"
        /\ UNCHANGED <<text, recorded, renamed>>
      BY <1>1, <1>9 DEF Start, At, CallerStates
  <2> QED
      BY <1>2, <1>5, <2>1 DEF Forked
<1>10. CASE Fork(w)
  <2> DEFINE new == [owner |-> w, path |-> Len(text[w]), fd |-> 0,
                     saw |-> {}, state |-> "forked", killed |-> FALSE]
  <2>1. /\ caller[w].at = "fork" /\ UNCHANGED <<text, recorded, renamed>>
        /\ \/ /\ child' = Append(child, new)
              /\ caller' = [caller EXCEPT ![w].at = "store", ![w].ret = Len(child')]
           \/ caller' = [caller EXCEPT ![w].at = "store", ![w].ret = -1]
      BY <1>10 DEF Fork, At
  <2>2. new.owner = w /\ new.path = Len(text[w]) /\ new.saw = {}
      OBVIOUS
  <2> HIDE DEF new
  <2>3. caller'[w].at = "store"
      BY <1>1, <2>1 DEF CallerStates
  <2>4. Kept(w)' /\ Known(w)'
      BY <1>2, <2>1, <2>3
  <2>5. caller'[w].ret > 0 => child'[caller'[w].ret] = new
    <3>1. CASE /\ child' = Append(child, new)
               /\ caller' = [caller EXCEPT ![w].at = "store", ![w].ret = Len(child')]
      <4>1. Len(child') = Len(child) + 1 /\ child'[Len(child) + 1] = new
          BY <1>1, <3>1
      <4>2. caller'[w].ret = Len(child')
          BY <1>1, <3>1 DEF CallerStates
      <4> QED
          BY <4>1, <4>2
    <3>2. CASE caller' = [caller EXCEPT ![w].at = "store", ![w].ret = -1]
        BY <1>1, <3>2 DEF CallerStates
    <3> QED
        BY <2>1, <3>1, <3>2
  <2>6. Reads(w)'
      BY <2>1, <2>2, <2>5
  <2> QED
      BY <1>5, <2>4, <2>6
<1>11. CASE StorePid(w) \/ Branch(w) \/ CallWait(w)
  <2>1. UNCHANGED <<child, text, recorded, renamed>> /\ Forked(w)
      BY <1>11 DEF StorePid, Branch, CallWait, At, Forked
  <2>2. caller'[w].ret = caller[w].ret /\ caller'[w].at \notin {"idle", "write"}
    <3>1. CASE StorePid(w)
        BY <1>1, <3>1 DEF StorePid, CallerStates
    <3>2. CASE Branch(w)
        BY <1>1, <3>2 DEF Branch, CallerStates
    <3>3. CASE CallWait(w)
        BY <1>1, <3>3 DEF CallWait, CallerStates
    <3> QED
        BY <1>11, <3>1, <3>2, <3>3
  <2> QED
      BY <1>2, <1>5, <2>1, <2>2 DEF Forked
<1>12. CASE Reap(w)
  <2>1. /\ UNCHANGED <<messages, text, recorded, renamed>> /\ caller[w].at = "blocked"
        /\ \/ UNCHANGED child
           \/ \E c \in DOMAIN child : child' = [child EXCEPT ![c].state = "reaped"]
      BY <1>12 DEF Reap, At, WaitedFor
  <2>2. \A d \in DOMAIN child :
            /\ child'[d].owner = child[d].owner /\ child'[d].path = child[d].path
            /\ child'[d].saw = child[d].saw
      BY <2>1, ChildStateStep
  <2>3. caller'[w].at = "read" /\ caller'[w].ret = caller[w].ret
    <3>1. PICK type \in {"NO_ERROR", "E_TIMEOUT_KILL"} :
              caller' = [caller EXCEPT ![w].at = "read", ![w].type = type, ![w].waiting = 0]
        BY <1>12 DEF Reap
    <3> QED
        BY <1>1, <3>1 DEF CallerStates
  <2> QED
      BY <1>2, <1>4, <1>5, <2>1, <2>2, <2>3 DEF Forked
<1>13. CASE ReadVerdict(w)
  <2>1. /\ UNCHANGED <<child, text, renamed>> /\ caller[w].at = "read"
        /\ recorded' = IF caller'[w].verdict
                       THEN [recorded EXCEPT ![w] = @ \cup {Len(text[w])}] ELSE recorded
      BY <1>13 DEF ReadVerdict, At
  <2>2. caller'[w].at = "idle"
      BY <1>1, <1>13 DEF ReadVerdict, CallerStates
  <2>3. \A i \in recorded'[w] : i \in recorded[w] \/ (i = Len(text[w]) /\ caller'[w].verdict)
      BY <1>1, <2>1
  <2>4. \A i \in recorded[w] \cup renamed[w] : i <= Len(text[w]) /\ i # Len(text[w])
      BY <1>2, <2>1
  <2>5. Kept(w)'
      BY <1>6, <2>1, <2>2, <2>3, <2>4
  <2> QED
      BY <1>5, <2>2, <2>5 DEF Forked
<1> QED
    BY <1>7, <1>8, <1>9, <1>10, <1>11, <1>12, <1>13 DEF CallerStep

(* ...then every step: the name of the candidate is there when the child   *)
(* opens it, and the contents when the target reads them.                  *)
LEMMA OwnCandidateStep ==
    ASSUME TypeOK, CandidateThere, OwnCandidate, [Next]_vars
    PROVE  OwnCandidate'
<1>1. Callers' = Callers
    BY SameCallers
<1>2. \A w \in Callers : caller[w].ret > 0 => caller[w].ret \in DOMAIN child
    BY DEF TypeOK, CallerTypeOK, ChildTypeOK, CallerStates, Pids
<1>3. ASSUME UNCHANGED <<caller, text, recorded, renamed>>,
             \A d \in DOMAIN child :
                 /\ child'[d].owner = child[d].owner /\ child'[d].path = child[d].path
                 /\ child'[d].saw = child[d].saw
      PROVE  OwnCandidate'
    BY <1>1, <1>2, <1>3 DEF OwnCandidate, Forked
<1>4. CASE \E w \in Callers : CallerStep(w)
    BY <1>1, <1>4, OwnCandidateCaller
<1>5. CASE \E c \in DOMAIN child : ChildStep(c)
  <2>1. PICK c \in DOMAIN child : ChildStep(c)
      BY <1>5
  <2>2. /\ UNCHANGED <<caller, text, recorded, renamed>>
        /\ \A d \in DOMAIN child : d # c => child'[d] = child[d]
    <3>1. UNCHANGED <<text, recorded, renamed>>
        BY <2>1 DEF ChildStep, Open, Exec, Write, Exit, Hang, GoAstray, AstrayReturns,
           AstrayRings
    <3> QED
        BY <2>1, <3>1, ChildStepOnly
  <2>3. child \in Seq(ChildStates) /\ child[c] \in ChildStates
      BY ChildFacts DEF TypeOK, ChildTypeOK
  <2>4. CASE Open(c) \/ Exec(c)
    <3>1. SUFFICES ASSUME NEW w \in Callers, caller[w].ret = c, c > 0,
                          Forked(w) \/ caller[w].at = "read"
                   PROVE  /\ child'[c].owner = w /\ child'[c].path = Len(text[w])
                          /\ child'[c].saw \subseteq text[w][Len(text[w])]
        BY <1>1, <1>2, <2>2, <3>1 DEF OwnCandidate, Forked
    <3>2. /\ child[c].owner = w /\ child[c].path = Len(text[w])
          /\ child[c].saw \subseteq text[w][Len(text[w])]
          /\ Len(text[w]) \notin renamed[w] /\ text[w] # <<>>
      <4>1. caller[w].at # "idle"
          BY <3>1 DEF Forked
      <4> QED
          BY <3>1, <4>1 DEF OwnCandidate, CandidateThere
    <3>3. Len(text[w]) # 0
        BY <3>2, EmptySeq DEF TypeOK, FileTypeOK
    <3>4. CASE Open(c)
      <4> DEFINE file == IF err[ErrPath(w)] = 0 THEN Len(messages) + 1 ELSE err[ErrPath(w)]
      <4>1. child' = [child EXCEPT ![c].state = "opened", ![c].fd = file,
                  ![c].path = IF @ \in renamed[child[c].owner] THEN 0 ELSE @]
          BY <3>2, <3>4 DEF Open
      <4> HIDE DEF file
      <4> QED
          BY <2>3, <3>2, <4>1 DEF ChildStates
    <3>5. CASE Exec(c)
      <4>1. child' = [child EXCEPT ![c].state = "runs", ![c].saw = text[w][Len(text[w])]]
          BY <3>2, <3>3, <3>5 DEF Exec
      <4> QED
          BY <2>3, <3>2, <4>1 DEF ChildStates
    <3> QED
        BY <2>4, <3>4, <3>5
  <2>5. CASE ~(Open(c) \/ Exec(c))
    <3>1. \/ UNCHANGED child
          \/ \E s \in {"wrote", "zombie", "hangs", "astray"} :
                child' = [child EXCEPT ![c].state = s]
        BY <2>1, <2>5 DEF ChildStep, Write, Exit, Hang, GoAstray, AstrayReturns, AstrayRings
    <3>2. /\ child'[c].owner = child[c].owner /\ child'[c].path = child[c].path
          /\ child'[c].saw = child[c].saw
        BY <2>3, <3>1 DEF ChildStates
    <3> QED
        BY <1>3, <2>2, <3>2
  <2> QED
      BY <2>4, <2>5
<1>6. CASE Ring
  <2>1. UNCHANGED <<caller, text, recorded, renamed>>
      BY <1>6 DEF Ring
  <2> QED
      BY <1>3, <1>6, <2>1, RingChildren
<1>7. CASE Rename
  <2>1. /\ UNCHANGED <<caller, child, text>> /\ \A w \in Callers : caller[w].at = "idle"
        /\ \A w \in Callers : /\ recorded'[w] = {}
                              /\ renamed'[w] \subseteq renamed[w] \cup recorded[w]
    <3>1. setting' = setting
        BY SameCallers
    <3> QED
        BY <1>1, <1>7, <3>1, RenameType DEF Rename
  <2> QED
      BY <1>1, <2>1 DEF OwnCandidate, Forked
<1>8. CASE UNCHANGED vars
    BY <1>3, <1>8 DEF vars
<1> QED
    BY <1>4, <1>5, <1>6, <1>7, <1>8 DEF Next, Ended
-----------------------------------------------------------------------------
(* A verdict can only come from a message, and a message from a child: if  *)
(* it is the test's own the target fails on the candidate.                 *)
LEMMA NewVerdict ==
    ASSUME TypeOK, CandidateThere, OwnCandidate, FilesOwned, WritersFail, OneFile,
           NEW w \in Callers, caller[w].at = "read", err[w] # 0, messages[err[w]] # {}
    PROVE  /\ \E c \in DOMAIN child :
                 /\ child[c].owner = w /\ child[c].fd > 0 /\ c \in messages[child[c].fd]
                 /\ FoundRightly(w) \/ c # caller[w].ret
           /\ Alone => FoundRightly(w)
<1>1. err[w] \in DOMAIN messages /\ err[w] > 0
    BY DEF TypeOK, FileTypeOK
<1>2. PICK c \in messages[err[w]] : TRUE
    OBVIOUS
<1>3. c \in DOMAIN child /\ child[c].fd = err[w] /\ child[c].owner = w
      /\ MayFail(c)
  <2>1. c \in DOMAIN child /\ child[c].fd = err[w] /\ MayFail(c)
      BY <1>1, <1>2, WritersExist DEF FilesOwned, WritersFail
  <2> QED
      BY <2>1 DEF FilesOwned
<1>4. ASSUME c = caller[w].ret
      PROVE  FoundRightly(w)
  <2>1. c > 0
      BY <1>3, ChildFacts
  <2>2. child[c].saw \subseteq text[w][Len(text[w])] /\ text[w][Len(text[w])] # BOOLEAN
      BY <1>4, <2>1 DEF OwnCandidate
  <2>3. text[w] \in Seq(Texts) /\ text[w] # <<>>
      BY DEF CandidateThere, TypeOK, FileTypeOK
  <2>4. Len(text[w]) \in 1 .. Len(text[w])
      BY <2>3, EmptySeq
  <2>5. text[w][Len(text[w])] \in Texts
      BY <2>3, <2>4, ElementOfSeq
  <2> QED
      BY <1>3, <2>2, <2>5 DEF Texts, FoundRightly, MayFail
<1>5. Alone => c = caller[w].ret
    BY <1>3 DEF OneFile
<1> QED
    BY <1>1, <1>2, <1>3, <1>4, <1>5

(* A message stays in its file until the next test of the same caller.     *)
LEMMA MessageStays ==
    ASSUME TypeOK, FilesOwned, [Next]_vars, NEW c \in DOMAIN child,
           child[c].fd > 0, c \in messages[child[c].fd], ~Start(child[c].owner)
    PROVE  /\ c \in DOMAIN child' /\ child'[c].owner = child[c].owner
           /\ child'[c].fd = child[c].fd /\ c \in messages'[child'[c].fd]
<1>1. /\ Callers' = Callers /\ child \in Seq(ChildStates) /\ child[c] \in ChildStates
      /\ messages \in Seq(SUBSET DOMAIN child) /\ Len(messages) \in Nat
      /\ child[c].fd \in 1 .. Len(messages) /\ FileTypeOK
      /\ err \in [Callers -> 0 .. Len(messages)] /\ DOMAIN messages = 1 .. Len(messages)
  <2>1. /\ child[c].fd \in 0 .. Len(messages) /\ child[c] \in ChildStates
        /\ Len(messages) \in Nat
      BY ChildFacts
  <2>2. child[c].fd \in 1 .. Len(messages)
      BY <2>1
  <2> QED
      BY <2>1, <2>2, SameCallers DEF TypeOK, ChildTypeOK, FileTypeOK
<1>2. child[c].state \notin {"forked", "opened", "runs", "astray"}
    BY <1>1 DEF FilesOwned
<1>3. ASSUME NEW w \in Callers, CallerStep(w)
      PROVE  /\ c \in DOMAIN child' /\ child'[c].owner = child[c].owner
             /\ child'[c].fd = child[c].fd /\ c \in messages'[child'[c].fd]
  <2>1. CASE Start(w)
    <3>1. UNCHANGED child
        BY <2>1 DEF Start
    <3>2. w # child[c].owner
        BY <2>1
    <3>3. err[w] # 0 => child[c].fd # err[w]
        BY <3>2 DEF FilesOwned
    <3>4. CASE err[w] = 0
      <4>1. messages' = Append(messages, {})
          BY <2>1, <3>4 DEF Start, ErrPath
      <4>2. messages'[child[c].fd] = messages[child[c].fd]
          BY <1>1, <4>1, NewFile
      <4> QED
          BY <3>1, <4>2
    <3>5. CASE err[w] # 0
      <4>1. messages' = [messages EXCEPT ![err[w]] = {}]
          BY <2>1, <3>5 DEF Start, ErrPath
      <4> QED
          BY <1>1, <3>1, <3>3, <3>5, <4>1
    <3> QED
        BY <3>4, <3>5
  <2>2. CASE ~Start(w)
    <3>1. UNCHANGED messages
        BY <1>3, <2>2 DEF CallerStep, Rewrite, Written, Fork, StorePid, Branch, CallWait,
           Reap, ReadVerdict
    <3>2. /\ c \in DOMAIN child' /\ child'[c].owner = child[c].owner
          /\ child'[c].fd = child[c].fd
      <4>1. CASE Rewrite(w)
          BY <4>1, RewriteChildren
      <4>2. CASE Fork(w)
        <5> DEFINE new == [owner |-> w, path |-> Len(text[w]), fd |-> 0,
                           saw |-> {}, state |-> "forked", killed |-> FALSE]
        <5>1. UNCHANGED child \/ child' = Append(child, new)
            BY <4>2 DEF Fork
        <5> HIDE DEF new
        <5>2. Len(child) \in Nat /\ DOMAIN child = 1 .. Len(child)
            BY <1>1
        <5>3. c \in DOMAIN child' /\ child'[c] = child[c]
            BY <1>1, <5>1, <5>2
        <5> QED
            BY <5>3
      <4>3. CASE Reap(w)
        <5>1. /\ UNCHANGED <<messages, text>>
              /\ \/ UNCHANGED child
                 \/ \E d \in DOMAIN child : child' = [child EXCEPT ![d].state = "reaped"]
            BY <4>3 DEF Reap, WaitedFor
        <5> QED
            BY <1>1, <5>1, ChildStateStep
      <4>4. CASE ~(Rewrite(w) \/ Fork(w) \/ Reap(w))
        <5>1. UNCHANGED child
            BY <1>3, <2>2, <4>4 DEF CallerStep, Written, StorePid, Branch, CallWait,
               ReadVerdict
        <5> QED
            BY <5>1
      <4> QED
          BY <4>1, <4>2, <4>3, <4>4
    <3> QED
        BY <3>1, <3>2
  <2> QED
      BY <2>1, <2>2
<1>4. ASSUME NEW d \in DOMAIN child, ChildStep(d)
      PROVE  /\ c \in DOMAIN child' /\ child'[c].owner = child[c].owner
             /\ child'[c].fd = child[c].fd /\ c \in messages'[child'[c].fd]
  <2>1. /\ DOMAIN child' = DOMAIN child
        /\ \A e \in DOMAIN child : e # d => child'[e] = child[e]
      BY <1>4, ChildStepOnly
  <2>2. child'[c].owner = child[c].owner /\ child'[c].fd = child[c].fd
    <3>1. CASE d # c
        BY <2>1, <3>1
    <3>2. CASE d = c
      <4>1. UNCHANGED child \/ \E s \in {"wrote", "zombie", "hangs"} :
                                  child' = [child EXCEPT ![c].state = s]
          BY <1>2, <1>4, <3>2 DEF ChildStep, Open, Exec, Write, Exit, Hang, GoAstray,
             AstrayReturns, AstrayRings
      <4> QED
          BY <1>1, <4>1 DEF ChildStates
    <3> QED
        BY <3>1, <3>2
  <2>3. c \in messages'[child[c].fd]
    <3>1. CASE messages' = Append(messages, {})
        BY <1>1, <3>1, NewFile
    <3>2. CASE Write(d)
        BY <1>1, <3>2 DEF Write
    <3>3. messages' = messages \/ messages' = Append(messages, {}) \/ Write(d)
        BY <1>4 DEF ChildStep, Open, Exec, Exit, Hang, GoAstray, AstrayReturns, AstrayRings
    <3> QED
        BY <3>1, <3>2, <3>3
  <2> QED
      BY <2>1, <2>2, <2>3
<1>5. CASE Ring
  <2>1. UNCHANGED messages
      BY <1>5 DEF Ring
  <2> QED
      BY <1>5, <2>1, RingChildren
<1>6. CASE Rename
    BY <1>6 DEF Rename
<1>7. CASE UNCHANGED vars
    BY <1>7 DEF vars
<1> QED
    BY <1>3, <1>4, <1>5, <1>6, <1>7 DEF Next, Ended

(* A verdict stays as right or wrong as it was until the next test.        *)
LEMMA FoundStep ==
    ASSUME TypeOK, CandidateThere, OwnCandidate, FilesOwned, WritersFail, OneFile,
           FoundByOwn, FoundHere, [Next]_vars
    PROVE  FoundByOwn' /\ FoundHere'
<1>1. Callers' = Callers /\ Alone' = Alone
    BY SameCallers
<1> SUFFICES ASSUME NEW w \in Callers, Tested(w)', caller'[w].verdict
             PROVE  /\ \E c \in DOMAIN child' :
                          /\ child'[c].owner = w /\ child'[c].fd > 0
                          /\ c \in messages'[child'[c].fd]
                          /\ FoundRightly(w)' \/ c # caller'[w].ret
                    /\ Alone => FoundRightly(w)'
    BY <1>1 DEF FoundByOwn, FoundHere, FoundFailure
<1>2. CASE CallerStep(w)
  <2>1. /\ ReadVerdict(w) /\ UNCHANGED <<child, messages, text>>
        /\ caller'[w].ret = caller[w].ret /\ err[w] # 0 /\ messages[err[w]] # {}
      BY <1>1, <1>2, VerdictStep
  <2>2. caller[w].at = "read" /\ FoundRightly(w)' = FoundRightly(w)
      BY <2>1 DEF ReadVerdict, At, FoundRightly
  <2> QED
      BY <2>1, <2>2, NewVerdict
<1>3. CASE ~CallerStep(w)
  <2>1. caller'[w] = caller[w] /\ text'[w] = text[w]
    <3>1. CASE \E v \in Callers : CallerStep(v)
        BY <1>1, <1>3, <3>1, OthersKept
    <3>2. CASE \E c \in DOMAIN child : ChildStep(c)
        BY <3>2 DEF ChildStep, Open, Exec, Write, Exit, Hang, GoAstray, AstrayReturns,
           AstrayRings
    <3>3. CASE Ring \/ Rename \/ UNCHANGED vars
        BY <3>3 DEF Ring, Rename, vars
    <3> QED
        BY <3>1, <3>2, <3>3 DEF Next, Ended
  <2>2. Tested(w) /\ caller[w].verdict /\ FoundRightly(w)' = FoundRightly(w)
      BY <2>1 DEF Tested, FoundRightly
  <2>3. PICK c \in DOMAIN child :
            /\ child[c].owner = w /\ child[c].fd > 0 /\ c \in messages[child[c].fd]
            /\ FoundRightly(w) \/ c # caller[w].ret
      BY <2>2 DEF FoundByOwn
  <2>4. ~Start(child[c].owner)
      BY <2>2, <2>3 DEF Tested, Start, At
  <2>5. /\ c \in DOMAIN child' /\ child'[c].owner = w
        /\ child'[c].fd = child[c].fd /\ c \in messages'[child'[c].fd]
      BY <2>3, <2>4, MessageStays
  <2>6. Alone => FoundRightly(w)'
      BY <2>2 DEF FoundHere, FoundFailure
  <2> QED
      BY <2>1, <2>2, <2>3, <2>5, <2>6
<1> QED
    BY <1>2, <1>3
-----------------------------------------------------------------------------
(* One calling thread: what a step of it does to the children.             *)
LEMMA OneChildStep ==
    ASSUME RunnerAssumption, TypeOK, OneChild, [Next]_vars
    PROVE  OneChild'
<1>1. Callers' = Callers /\ Alone' = Alone
    BY SameCallers
<1> SUFFICES ASSUME Alone, NEW w \in Callers
             PROVE  /\ caller'[w].type # "E_TIMEOUT_KILL"
                    /\ \A c \in DOMAIN child' :
                          child'[c].state # "reaped" => Forked(w)' /\ caller'[w].ret = c
                    /\ caller'[w].at \in {"branch", "wait", "blocked"} =>
                          c_pid' = caller'[w].ret
                    /\ Forked(w)' => caller'[w].ret = -1 \/ caller'[w].ret \in DOMAIN child'
                    /\ caller'[w].at \in {"wait", "blocked"} => caller'[w].ret # -1
                    /\ caller'[w].at = "blocked" => caller'[w].waiting = caller'[w].ret
    BY <1>1 DEF OneChild
<1>2. /\ caller[w].type # "E_TIMEOUT_KILL"
      /\ \A c \in DOMAIN child : child[c].state # "reaped" => Forked(w) /\ caller[w].ret = c
      /\ caller[w].at \in {"branch", "wait", "blocked"} => c_pid = caller[w].ret
      /\ Forked(w) => caller[w].ret = -1 \/ caller[w].ret \in DOMAIN child
      /\ caller[w].at \in {"wait", "blocked"} => caller[w].ret # -1
      /\ caller[w].at = "blocked" => caller[w].waiting = caller[w].ret
    BY DEF OneChild
<1>3. /\ setting \in Settings /\ caller \in [Callers -> CallerStates]
      /\ child \in Seq(ChildStates) /\ Len(child) \in Nat /\ DOMAIN child = 1 .. Len(child)
    BY DEF TypeOK, CallerTypeOK, ChildTypeOK
<1>4. ASSUME NEW v \in Callers, CallerStep(v)
      PROVE  v = w
    BY <1>3, AloneOnly
<1>5. CASE CallerStep(w)
  <2>1. CASE Written(w) \/ Start(w)
    <3>1. /\ UNCHANGED <<child, c_pid>> /\ caller[w].at \in {"write", "ready"}
          /\ \E at \in {"ready", "fork"} : caller' = [caller EXCEPT ![w].at = at]
        BY <2>1 DEF Written, Start, At
    <3>2. caller'[w].at \in {"ready", "fork"} /\ caller'[w].type = caller[w].type
        BY <1>3, <3>1 DEF CallerStates
    <3> QED
        BY <1>2, <3>1, <3>2 DEF Forked
  <2>2. CASE Rewrite(w)
    <3>1. /\ caller[w].at = "idle" /\ caller'[w].at = "write" /\ c_pid' = c_pid
          /\ caller'[w].type = caller[w].type
        BY <1>3, <2>2 DEF Rewrite, At, CallerStates
    <3>2. \A c \in DOMAIN child' : child'[c].state = "reaped"
      <4>1. DOMAIN child' = DOMAIN child
            /\ \A c \in DOMAIN child : child'[c].state = child[c].state
          BY <2>2, RewriteChildren
      <4> QED
          BY <1>2, <3>1, <4>1 DEF Forked
    <3> QED
        BY <1>2, <3>1, <3>2 DEF Forked
  <2>3. CASE Fork(w)
    <3>1. \A c \in DOMAIN child : child[c].state = "reaped"
        BY <1>2, <2>3 DEF Fork, At, Forked
    <3> DEFINE new == [owner |-> w, path |-> Len(text[w]), fd |-> 0,
                       saw |-> {}, state |-> "forked", killed |-> FALSE]
    <3>2. \/ /\ child' = Append(child, new)
             /\ caller' = [caller EXCEPT ![w].at = "store", ![w].ret = Len(child')]
          \/ /\ caller' = [caller EXCEPT ![w].at = "store", ![w].ret = -1]
             /\ UNCHANGED child
        BY <2>3 DEF Fork
    <3> HIDE DEF new
    <3>3. /\ caller'[w].at = "store" /\ caller'[w].type # "E_TIMEOUT_KILL"
          /\ caller'[w].ret \in {-1, Len(child')}
        BY <1>2, <1>3, <3>2 DEF CallerStates
    <3>4. CASE /\ child' = Append(child, new)
               /\ caller' = [caller EXCEPT ![w].at = "store", ![w].ret = Len(child')]
      <4>1. /\ DOMAIN child' = 1 .. Len(child) + 1 /\ Len(child') = Len(child) + 1
            /\ \A c \in DOMAIN child : child'[c] = child[c]
          BY <1>3, <3>4
      <4>2. caller'[w].ret = Len(child) + 1
          BY <1>3, <3>4, <4>1 DEF CallerStates
      <4>3. \A c \in DOMAIN child' : child'[c].state # "reaped" => c = Len(child) + 1
          BY <1>3, <3>1, <4>1
      <4> QED
          BY <1>3, <3>3, <4>1, <4>2, <4>3 DEF Forked
    <3>5. CASE /\ caller' = [caller EXCEPT ![w].at = "store", ![w].ret = -1]
               /\ UNCHANGED child
      <4>1. caller'[w].ret = -1
          BY <1>3, <3>5 DEF CallerStates
      <4> QED
          BY <3>1, <3>3, <3>5, <4>1 DEF Forked
    <3> QED
        BY <3>2, <3>4, <3>5
  <2>4. CASE StorePid(w)
      BY <1>2, <1>3, <2>4 DEF StorePid, At, Forked, CallerStates
  <2>5. CASE Branch(w)
    <3>1. /\ UNCHANGED <<child, c_pid>> /\ Forked(w) /\ c_pid = caller[w].ret
          /\ \/ /\ c_pid < 0
                /\ caller' = [caller EXCEPT ![w].at = "read", ![w].type = "E_FORK"]
             \/ /\ ~(c_pid < 0)
                /\ caller' = [caller EXCEPT ![w].at = "wait"]
        BY <1>2, <2>5 DEF Branch, At, Forked
    <3> QED
        BY <1>2, <1>3, <3>1 DEF Forked, CallerStates, Pids
  <2>6. CASE CallWait(w)
      BY <1>2, <1>3, <2>6 DEF CallWait, At, Forked, CallerStates
  <2>7. CASE Reap(w)
    <3>1. /\ caller[w].at = "blocked" /\ caller[w].waiting = caller[w].ret
          /\ caller[w].ret \in DOMAIN child
        BY <1>2, <2>7 DEF Reap, At, Forked
    <3>2. WaitedFor(caller[w].waiting) = {caller[w].ret}
      <4>1. caller[w].ret # -1
          BY <1>3, <3>1
      <4> QED
          BY <3>1, <4>1 DEF WaitedFor
    <3>3. \/ child' = [child EXCEPT ![caller[w].ret].state = "reaped"]
          \/ child[caller[w].ret].state = "reaped" /\ UNCHANGED child
        BY <2>7, <3>2 DEF Reap, NoneLeft
    <3>4. DOMAIN child' = DOMAIN child /\ \A c \in DOMAIN child' : child'[c].state = "reaped"
      <4>1. \A c \in DOMAIN child : c # caller[w].ret => child[c].state = "reaped"
          BY <1>2
      <4>2. child[caller[w].ret] \in ChildStates
          BY <3>1, ChildFacts
      <4> QED
          BY <1>3, <3>1, <3>3, <4>1, <4>2 DEF ChildStates
    <3>5. caller'[w].at = "read" /\ caller'[w].type # "E_TIMEOUT_KILL"
      <4>1. caller' = [caller EXCEPT ![w].at = "read", ![w].type = "NO_ERROR", ![w].waiting = 0]
          BY <2>7 DEF Reap
      <4> QED
          BY <1>3, <4>1 DEF CallerStates
    <3> QED
        BY <3>4, <3>5 DEF Forked
  <2>8. CASE ReadVerdict(w)
    <3>1. UNCHANGED <<child, c_pid>> /\ caller'[w].at = "idle" /\ caller'[w].type = "NO_ERROR"
          /\ caller[w].at = "read"
        BY <1>3, <2>8 DEF ReadVerdict, At, CallerStates
    <3> QED
        BY <1>2, <3>1 DEF Forked
  <2> QED
      BY <1>5, <2>1, <2>2, <2>3, <2>4, <2>5, <2>6, <2>7, <2>8 DEF CallerStep
<1>6. CASE \E c \in DOMAIN child : ChildStep(c)
  <2>1. PICK c \in DOMAIN child : ChildStep(c)
      BY <1>6
  <2>2. /\ UNCHANGED <<caller, c_pid>> /\ DOMAIN child' = DOMAIN child
        /\ \A d \in DOMAIN child : d # c => child'[d] = child[d]
        /\ child[c].state # "reaped"
      BY <2>1, ChildStepOnly
  <2> QED
      BY <1>2, <2>2 DEF Forked
<1>7. CASE Ring
  <2>1. /\ UNCHANGED <<caller, c_pid>> /\ DOMAIN child' = DOMAIN child
        /\ \A d \in DOMAIN child : child[d].state = "reaped" => child'[d].state = "reaped"
      BY <1>7, RingChildren DEF Ring
  <2> QED
      BY <1>2, <2>1 DEF Forked
<1>8. CASE UNCHANGED vars
    BY <1>2, <1>8 DEF vars, Forked
<1>9. CASE Rename
    BY <1>2, <1>9 DEF Rename, Forked
<1> QED
    BY <1>4, <1>5, <1>6, <1>7, <1>8, <1>9 DEF Next, Ended
-----------------------------------------------------------------------------
(* The stderr file of a test, first with steps of the calling thread.      *)
LEMMA OneFileCaller ==
    ASSUME RunnerAssumption, TypeOK, OneChild, OneFile, Alone, Alone' = Alone,
           Callers' = Callers, NEW w \in Callers, CallerStep(w)
    PROVE  OneFile'
<1>1. /\ setting \in Settings /\ caller \in [Callers -> CallerStates]
      /\ child \in Seq(ChildStates) /\ Len(child) \in Nat /\ DOMAIN child = 1 .. Len(child)
      /\ err \in [Callers -> 0 .. Len(messages)] /\ Len(messages) \in Nat /\ FileTypeOK
    BY DEF TypeOK, CallerTypeOK, ChildTypeOK, FileTypeOK
<1>2. \A v \in Callers : v = w
    BY <1>1, AloneOnly
<1>3. SUFFICES
        IF caller'[w].at \in {"idle", "write", "ready"}
        THEN err'[w] = 0
        ELSE /\ \A c \in DOMAIN child' :
                   err'[w] # 0 /\ child'[c].fd = err'[w] =>
                       caller'[w].at # "fork" /\ caller'[w].ret = c
             /\ LET c == caller'[w].ret IN
                caller'[w].at # "fork" /\ c > 0 /\ child'[c].fd \notin {0, err'[w]} =>
                    /\ child'[c].state \in {"astray", "zombie", "reaped"}
                    /\ c \notin messages'[child'[c].fd]
    BY <1>2, <1>3 DEF OneFile
<1>4. IF caller[w].at \in {"idle", "write", "ready"}
      THEN err[w] = 0
      ELSE /\ \A c \in DOMAIN child :
                 err[w] # 0 /\ child[c].fd = err[w] =>
                     caller[w].at # "fork" /\ caller[w].ret = c
           /\ LET c == caller[w].ret IN
              caller[w].at # "fork" /\ c > 0 /\ child[c].fd \notin {0, err[w]} =>
                  /\ child[c].state \in {"astray", "zombie", "reaped"}
                  /\ c \notin messages[child[c].fd]
    BY DEF OneFile
<1>5. CASE Rewrite(w) \/ Written(w)
  <2>1. UNCHANGED err /\ caller[w].at \in {"idle", "write"}
      BY <1>5 DEF Rewrite, Written, At
  <2>2. caller'[w].at \in {"write", "ready"}
    <3>1. CASE Rewrite(w)
        BY <1>1, <3>1 DEF Rewrite, CallerStates
    <3>2. CASE Written(w)
        BY <1>1, <3>2 DEF Written, CallerStates
    <3> QED
        BY <1>5, <3>1, <3>2
  <2> QED
      BY <1>4, <2>1, <2>2
<1>6. CASE Start(w)
  <2>1. caller[w].at = "ready" /\ caller'[w].at = "fork" /\ UNCHANGED child
      BY <1>1, <1>6 DEF Start, At, CallerStates
  <2>2. messages' = Append(messages, {}) /\ err' = [err EXCEPT ![w] = Len(messages')]
      BY <1>4, <1>6, <2>1 DEF Start, ErrPath
  <2>3. err'[w] = Len(messages) + 1
      BY <1>1, <2>2, NewFile
  <2>4. \A c \in DOMAIN child : child[c].fd # err'[w]
      BY <1>1, <2>3, ChildFacts
  <2> QED
      BY <2>1, <2>4
<1>7. CASE Fork(w)
  <2>1. caller[w].at = "fork" /\ UNCHANGED <<err, messages>>
      BY <1>7 DEF Fork, At
  <2>2. \A c \in DOMAIN child : ~(err[w] # 0 /\ child[c].fd = err[w])
      BY <1>4, <2>1
  <2> DEFINE new == [owner |-> w, path |-> Len(text[w]), fd |-> 0,
                     saw |-> {}, state |-> "forked", killed |-> FALSE]
  <2>3. \/ /\ child' = Append(child, new)
           /\ caller' = [caller EXCEPT ![w].at = "store", ![w].ret = Len(child')]
        \/ /\ caller' = [caller EXCEPT ![w].at = "store", ![w].ret = -1]
           /\ UNCHANGED child
      BY <1>7 DEF Fork
  <2>4. new.fd = 0
      OBVIOUS
  <2> HIDE DEF new
  <2>5. CASE /\ child' = Append(child, new)
             /\ caller' = [caller EXCEPT ![w].at = "store", ![w].ret = Len(child')]
    <3>1. /\ DOMAIN child' = 1 .. Len(child) + 1 /\ Len(child') = Len(child) + 1
          /\ \A c \in DOMAIN child : child'[c] = child[c]
          /\ child'[Len(child) + 1].fd = 0
        BY <1>1, <2>4, <2>5
    <3>2. caller'[w].at = "store" /\ caller'[w].ret = Len(child) + 1
        BY <1>1, <2>5, <3>1 DEF CallerStates
    <3> QED
        BY <1>1, <2>1, <2>2, <3>1, <3>2
  <2>6. CASE /\ caller' = [caller EXCEPT ![w].at = "store", ![w].ret = -1]
             /\ UNCHANGED child
    <3>1. caller'[w].at = "store" /\ caller'[w].ret = -1
        BY <1>1, <2>6 DEF CallerStates
    <3> QED
        BY <2>1, <2>2, <2>6, <3>1
  <2> QED
      BY <2>3, <2>5, <2>6
<1>8. CASE StorePid(w) \/ Branch(w) \/ CallWait(w)
  <2>1. /\ UNCHANGED <<err, messages, child>> /\ caller'[w].ret = caller[w].ret
        /\ {caller[w].at, caller'[w].at} \cap {"idle", "write", "ready", "fork"} = {}
    <3>1. CASE StorePid(w)
        BY <1>1, <3>1 DEF StorePid, At, CallerStates
    <3>2. CASE Branch(w)
        BY <1>1, <3>2 DEF Branch, At, CallerStates
    <3>3. CASE CallWait(w)
        BY <1>1, <3>3 DEF CallWait, At, CallerStates
    <3> QED
        BY <1>8, <3>1, <3>2, <3>3
  <2> QED
      BY <1>4, <2>1
<1>9. CASE Reap(w)
  <2>1. /\ UNCHANGED <<err, messages, text>> /\ caller[w].at = "blocked"
        /\ \/ UNCHANGED child
           \/ \E c \in DOMAIN child : child' = [child EXCEPT ![c].state = "reaped"]
      BY <1>9 DEF Reap, At, WaitedFor
  <2>2. caller'[w].at = "read" /\ caller'[w].ret = caller[w].ret
    <3>1. caller' = [caller EXCEPT ![w].at = "read", ![w].type = "NO_ERROR", ![w].waiting = 0]
        BY <1>9 DEF Reap
    <3> QED
        BY <1>1, <3>1 DEF CallerStates
  <2>3. DOMAIN child' = DOMAIN child /\ \A d \in DOMAIN child : child'[d].fd = child[d].fd
      BY <2>1, ChildStateStep
  <2>4. \A d \in DOMAIN child : child'[d].state \in {child[d].state, "reaped"}
      BY <1>1, <2>1, ChildFacts DEF ChildStates
  <2>5. caller[w].ret > 0 => caller[w].ret \in DOMAIN child
      BY <1>1 DEF CallerStates, Pids
  <2> QED
      BY <1>4, <2>1, <2>2, <2>3, <2>4, <2>5
<1>10. CASE ReadVerdict(w)
    BY <1>1, <1>10 DEF ReadVerdict, ErrPath, CallerStates
<1> QED
    BY <1>5, <1>6, <1>7, <1>8, <1>9, <1>10 DEF CallerStep

(* ...then with steps of its child: the only one that is not reaped.       *)
LEMMA OneFileChild ==
    ASSUME RunnerAssumption, TypeOK, FilesOwned, OneChild, OneFile, Alone, Alone' = Alone,
           Callers' = Callers, NEW w \in Callers, NEW c \in DOMAIN child, ChildStep(c)
    PROVE  OneFile'
<1>1. /\ setting \in Settings /\ child[c] \in ChildStates /\ child[c].owner = w
      /\ child \in Seq(ChildStates) /\ Len(child) \in Nat /\ DOMAIN child = 1 .. Len(child)
      /\ err \in [Callers -> 0 .. Len(messages)] /\ Len(messages) \in Nat /\ FileTypeOK
      /\ DOMAIN messages = 1 .. Len(messages)
  <2>1. setting \in Settings /\ child[c] \in ChildStates /\ child[c].owner \in Callers
      BY ChildFacts DEF TypeOK, ChildStates
  <2> QED
      BY <2>1, AloneOnly DEF TypeOK, ChildTypeOK, FileTypeOK
<1>2. \A v \in Callers : v = w
    BY <1>1, AloneOnly
<1>3. UNCHANGED caller /\ caller[w].ret = c /\ caller[w].at \notin {"idle", "write", "ready", "fork"}
  <2>1. UNCHANGED caller /\ child[c].state # "reaped"
      BY ChildStepOnly
  <2>2. Forked(w) /\ caller[w].ret = c
      BY <2>1 DEF OneChild
  <2> QED
      BY <2>1, <2>2 DEF Forked
<1>4. /\ \A d \in DOMAIN child : err[w] # 0 /\ child[d].fd = err[w] => d = c
      /\ child[c].fd \notin {0, err[w]} =>
            /\ child[c].state \in {"astray", "zombie", "reaped"}
            /\ c \notin messages[child[c].fd]
    BY <1>1, <1>3 DEF OneFile
<1>5. SUFFICES
        /\ \A d \in DOMAIN child' : err'[w] # 0 /\ child'[d].fd = err'[w] => d = c
        /\ child'[c].fd \notin {0, err'[w]} =>
              /\ child'[c].state \in {"astray", "zombie", "reaped"}
              /\ c \notin messages'[child'[c].fd]
    BY <1>2, <1>3, <1>5 DEF OneFile
<1>6. DOMAIN child' = DOMAIN child /\ \A d \in DOMAIN child : d # c => child'[d] = child[d]
    BY ChildStepOnly
<1>7. CASE Open(c)
  <2> DEFINE file == IF err[w] = 0 THEN Len(messages) + 1 ELSE err[w]
             path == IF child[c].path \in renamed[w] THEN 0 ELSE child[c].path
  <2>1. /\ child' = [child EXCEPT ![c].state = "opened", ![c].fd = file, ![c].path = path]
        /\ err' = [err EXCEPT ![w] = file]
      BY <1>1, <1>7 DEF Open, ErrPath
  <2> HIDE DEF file, path
  <2>2. child'[c].fd = file /\ err'[w] = file
      BY <1>1, <2>1 DEF ChildStates
  <2>3. \A d \in DOMAIN child : d # c => child[d].fd # file
      BY <1>1, <1>4, ChildFacts DEF file
  <2> QED
      BY <1>6, <2>2, <2>3
<1>8. CASE GoAstray(c)
  <2>1. /\ child[c].state = "opened"
        /\ child'[c].fd = child[c].fd /\ child'[c].state = "astray"
        /\ \/ err' = [err EXCEPT ![w] = 0] /\ UNCHANGED messages
           \/ /\ messages' = Append(messages, {})
              /\ err' = [err EXCEPT ![w] = Len(messages')]
      BY <1>1, <1>8 DEF GoAstray, ErrPath, ChildStates
  <2>2. err'[w] = 0 \/ err'[w] = Len(messages) + 1
      BY <1>1, <2>1, NewFile
  <2>3. \A d \in DOMAIN child : child'[d].fd \in 0 .. Len(messages)
    <3>1. \A d \in DOMAIN child : child'[d].fd = child[d].fd
        BY <1>6, <2>1
    <3> QED
        BY <3>1, ChildFacts
  <2>4. child[c].fd # 0 => c \notin messages'[child[c].fd]
    <3>1. child[c].fd # 0 => child[c].fd \in DOMAIN messages
        BY <1>1, ChildFacts
    <3>2. \A f \in DOMAIN messages : c \notin messages[f] /\ messages'[f] = messages[f]
        BY <1>1, <2>1, NewFile DEF FilesOwned
    <3> QED
        BY <3>1, <3>2
  <2> QED
      BY <1>1, <1>6, <2>1, <2>2, <2>3, <2>4
<1>9. CASE Write(c)
  <2>1. UNCHANGED err /\ child[c].state = "runs" /\ child'[c].fd = child[c].fd
      BY <1>1, <1>9 DEF Write, ChildStates
  <2> QED
      BY <1>4, <1>6, <2>1
<1>10. CASE Exec(c)
  <2>1. /\ UNCHANGED <<err, messages>> /\ child[c].state = "opened"
        /\ child'[c].fd = child[c].fd
      BY <1>1, <1>10 DEF Exec, ChildStates
  <2> QED
      BY <1>4, <1>6, <2>1
<1>11. CASE Exit(c) \/ Hang(c) \/ AstrayReturns(c) \/ AstrayRings(c)
  <2>1. /\ UNCHANGED <<err, messages, text>>
        /\ \/ UNCHANGED child
           \/ child' = [child EXCEPT ![c].state = "zombie"]
           \/ child[c].state \in {"runs", "wrote"} /\ child' = [child EXCEPT ![c].state = "hangs"]
      BY <1>11 DEF Exit, Hang, AstrayReturns, AstrayRings
  <2>2. /\ child'[c].fd = child[c].fd
        /\ \/ child'[c].state = child[c].state
           \/ child'[c].state = "zombie" \/ child[c].state \in {"runs", "wrote"}
    <3>1. ASSUME NEW s, child' = [child EXCEPT ![c].state = s]
          PROVE  child'[c].fd = child[c].fd /\ child'[c].state = s
        BY <1>1, <3>1 DEF ChildStates
    <3> QED
        BY <2>1, <3>1
  <2> QED
      BY <1>4, <1>6, <2>1, <2>2
<1> QED
    BY <1>7, <1>8, <1>9, <1>10, <1>11 DEF ChildStep

(* ...and with every step.                                                 *)
LEMMA OneFileStep ==
    ASSUME RunnerAssumption, TypeOK, FilesOwned, OneChild, OneFile, [Next]_vars
    PROVE  OneFile'
<1>1. Callers' = Callers /\ Alone' = Alone
    BY SameCallers
<1>2. SUFFICES ASSUME Alone, NEW w \in Callers
               PROVE  OneFile'
    BY <1>1 DEF OneFile
<1>3. CASE \E v \in Callers : CallerStep(v)
    BY <1>1, <1>2, <1>3, OneFileCaller
<1>4. CASE \E c \in DOMAIN child : ChildStep(c)
    BY <1>1, <1>2, <1>4, OneFileChild
<1>5. CASE Ring
  <2>1. UNCHANGED <<caller, err, messages>>
      BY <1>5 DEF Ring
  <2>2. /\ DOMAIN child' = DOMAIN child
        /\ \A d \in DOMAIN child : /\ child'[d].fd = child[d].fd
                                  /\ child'[d].state \in {child[d].state, "zombie"}
      BY <1>5, RingChildren
  <2>3. \A v \in Callers : caller[v].ret > 0 => caller[v].ret \in DOMAIN child
      BY DEF TypeOK, CallerTypeOK, ChildTypeOK, CallerStates, Pids
  <2> QED
      BY <1>1, <2>1, <2>2, <2>3 DEF OneFile
<1>6. CASE UNCHANGED vars
    BY <1>1, <1>6 DEF vars, OneFile
<1>7. CASE Rename
    BY <1>1, <1>7 DEF Rename, OneFile
<1> QED
    BY <1>3, <1>4, <1>5, <1>6, <1>7 DEF Next, Ended
-----------------------------------------------------------------------------
(* A verdict is that of the test's own child, and stays so until the next.*)
LEMMA VerdictOwnStep ==
    ASSUME RunnerAssumption, TypeOK, FilesOwned, OneChild, OneFile, VerdictOwn, [Next]_vars
    PROVE  VerdictOwn'
<1>1. Callers' = Callers /\ Alone' = Alone /\ setting \in Settings
    BY SameCallers DEF TypeOK
<1> SUFFICES ASSUME Alone, NEW w \in Callers, Tested(w)'
             PROVE  caller'[w].verdict <=>
                        LET c == caller'[w].ret IN
                        c > 0 /\ child'[c].fd > 0 /\ c \in messages'[child'[c].fd]
    BY <1>1 DEF VerdictOwn
<1>2. caller[w].ret > 0 => caller[w].ret \in DOMAIN child
    BY DEF TypeOK, CallerTypeOK, ChildTypeOK, CallerStates, Pids
<1>3. CASE \E v \in Callers : CallerStep(v)
  <2>1. CallerStep(w)
      BY <1>1, <1>3, AloneOnly
  <2>2. /\ ReadVerdict(w) /\ UNCHANGED <<child, messages>> /\ caller'[w].ret = caller[w].ret
        /\ caller'[w].verdict <=> /\ caller[w].type # "E_TIMEOUT_KILL"
                                  /\ err[w] # 0 /\ messages[err[w]] # {}
      BY <1>1, <2>1, VerdictStep
  <2>3. caller[w].at = "read" /\ caller[w].type # "E_TIMEOUT_KILL"
      BY <2>2 DEF ReadVerdict, At, OneChild
  <2>4. /\ \A c \in DOMAIN child : err[w] # 0 /\ child[c].fd = err[w] => caller[w].ret = c
        /\ LET c == caller[w].ret IN
           c > 0 /\ child[c].fd \notin {0, err[w]} => c \notin messages[child[c].fd]
      BY <2>3 DEF OneFile
  <2>5. ASSUME err[w] # 0, messages[err[w]] # {}
        PROVE  LET c == caller[w].ret IN
               c > 0 /\ child[c].fd > 0 /\ c \in messages[child[c].fd]
    <3>1. err[w] \in DOMAIN messages /\ err[w] > 0
        BY <2>5 DEF TypeOK, FileTypeOK
    <3>2. PICK c \in messages[err[w]] : TRUE
        BY <2>5
    <3>3. c \in DOMAIN child /\ child[c].fd = err[w]
        BY <3>1, WritersExist DEF FilesOwned
    <3>4. caller[w].ret = c
        BY <2>4, <2>5, <3>3
    <3>5. c > 0
        BY <3>3, ChildFacts
    <3> QED
        BY <3>1, <3>3, <3>4, <3>5
  <2>6. ASSUME LET c == caller[w].ret IN
               c > 0 /\ child[c].fd > 0 /\ c \in messages[child[c].fd]
        PROVE  err[w] # 0 /\ messages[err[w]] # {}
    <3>1. child[caller[w].ret].fd > 0 /\ caller[w].ret > 0
          /\ caller[w].ret \in messages[child[caller[w].ret].fd]
        BY <2>6
    <3>2. child[caller[w].ret].fd # 0
        BY <3>1
    <3>3. child[caller[w].ret].fd = err[w]
        BY <2>4, <3>1, <3>2
    <3> QED
        BY <3>1, <3>2, <3>3
  <2> QED
      BY <2>2, <2>3, <2>5, <2>6
<1>4. CASE \E c \in DOMAIN child : ChildStep(c)
  <2>1. PICK c \in DOMAIN child : ChildStep(c)
      BY <1>4
  <2>2. UNCHANGED caller /\ child[c].state # "reaped"
      BY <2>1, ChildStepOnly
  <2>3. caller[w].at = "idle" /\ Forked(w)
      BY <2>2 DEF Tested, OneChild
  <2> QED
      BY <2>3 DEF Forked
<1>5. CASE Ring
  <2>1. UNCHANGED <<caller, messages>>
      BY <1>5 DEF Ring
  <2>2. \A d \in DOMAIN child : child'[d].fd = child[d].fd
      BY <1>5, RingChildren
  <2>3. Tested(w)
      BY <2>1 DEF Tested
  <2> QED
      BY <1>2, <2>1, <2>2, <2>3 DEF VerdictOwn
<1>6. CASE UNCHANGED vars
    BY <1>6 DEF vars, VerdictOwn, Tested
<1>7. CASE Rename
    BY <1>7 DEF Rename, VerdictOwn, Tested
<1> QED
    BY <1>3, <1>4, <1>5, <1>6, <1>7 DEF Next, Ended

(* The inductive invariant behind the verdicts of runner() holds for any   *)
(* callers, numbers of tests and faults.                                   *)
THEOREM IInvAlways == Spec => []IInv
<1>1. Init => IInv
    BY RunnerAssumption, InitIInv
<1>2. IInv /\ [Next]_vars => IInv'
    BY RunnerAssumption, TypeStep, OwnCandidateStep, OwnedStep, WritersStep, FoundStep,
       OneChildStep, OneFileStep, VerdictOwnStep DEF IInv
<1> QED
    BY <1>1, <1>2, PTL DEF Spec
-----------------------------------------------------------------------------
(* Process ids, stderr files and candidate files that the state names      *)
(* exist, whatever the callers and the children do.                        *)
THEOREM TypeCorrect == Spec => []TypeOK
<1>1. IInv => TypeOK
    BY DEF IInv
<1> QED
    BY <1>1, IInvAlways, PTL

(* However many threads call runner() at once and whatever fails, a thread *)
(* is told of a failure only if one of its own children wrote the message: *)
(* the shared c_pid confuses children, but never stderr files.  The target *)
(* may yet not fail on the candidate of the test, but only if the child was*)
(* forked for an earlier one.                                              *)
THEOREM FoundByOwnAlways == Spec => []FoundByOwn
<1>1. IInv => FoundByOwn
    BY DEF IInv
<1> QED
    BY <1>1, IInvAlways, PTL

(* With one calling thread the target fails on the candidate just tested   *)
(* whenever a test says so.                                                *)
THEOREM FoundHereAlways == Spec => []FoundHere
<1>1. IInv => FoundHere
    BY DEF IInv
<1> QED
    BY <1>1, IInvAlways, PTL

(* With one calling thread every call reaps the child it forked, killed or *)
(* not, so none writes into the file of a later test.                      *)
THEOREM ChildrenReaped == Spec => []NoChildLeft
<1>1. IInv => NoChildLeft
    BY DEF IInv, OneChild, NoChildLeft, Forked
<1> QED
    BY <1>1, IInvAlways, PTL

(* With one calling thread a verdict is TRUE if and only if the child of   *)
(* this very call wrote the message, though it may have been killed, have  *)
(* gone astray or never have been forked.                                  *)
THEOREM VerdictIsOwn == Spec => []VerdictOwn
<1>1. IInv => VerdictOwn
    BY DEF IInv
<1> QED
    BY <1>1, IInvAlways, PTL
=============================================================================
