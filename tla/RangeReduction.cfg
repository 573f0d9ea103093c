SPECIFICATION Spec
CONSTANTS
  Size = 4
  Candidates <- MCCandidates
  Inputs <- MCInputs
  Judges <- MCJudges
INVARIANTS
  TypeOK
  BytesTried
PROPERTIES
  ImplementsMinimiser
CHECK_DEADLOCK FALSE
