SPECIFICATION Spec
CONSTANTS
  THREAD_N = 1
  FAIL_MAX = 2
  Size = 5
  Candidates <- MCCandidates
  Inputs <- MCInputs
  Judges <- LongerJudges
  Leftovers <- NothingLeft
INVARIANTS
  FailuresKept
  ResultOneMinimal
  RecordsInv
PROPERTIES
  ImplementsReduction
