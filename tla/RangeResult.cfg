SPECIFICATION FairSpec
CONSTANTS
  THREAD_N = 2
  FAIL_MAX = 8
  Size = 3
  Candidates <- MCCandidates
  Inputs <- MCInputs
  Judges <- MCJudges
  Leftovers <- MaybeLeft
INVARIANTS
  TypeOK
  TokensMatchTasks
  ExistingCountsTasks
  SignalMeansIdle
  SignalOncePerRound
  TasksCurrent
  FailuresKept
  ResultOneMinimal
  RecordsInv
  RoomInv
  TasksApart
  FailuresCounted
PROPERTIES
  ImplementsReduction
  Terminates
