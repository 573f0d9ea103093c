SPECIFICATION Spec
CONSTANTS
  THREAD_N = 2
  FAIL_MAX = 3
  Size = 3
  Candidates <- MCCandidates
  Inputs <- MCInputs
  Judges <- ManyFailures
  Leftovers <- NothingLeft
INVARIANTS
  IInv
  SignalMeansIdle
