SPECIFICATION Spec
CONSTANTS
  THREAD_N = 2
  FAIL_MAX = 3
  Size = 3
  Candidates <- MCCandidates
  Inputs <- MCInputs
  Judges <- AlwaysFails
  Leftovers <- NothingLeft
INVARIANTS
  FailuresKept
