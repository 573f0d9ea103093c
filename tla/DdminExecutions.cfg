SPECIFICATION Spec
CONSTANTS
  Size = 4
  Candidates <- MCCandidates
  Inputs <- MCInputs
  InputNames <- FreshName
  Judges <- Monotone
INVARIANTS
  ExecutionsReported
