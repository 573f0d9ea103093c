SPECIFICATION FairSpec
CONSTANTS
  Size = 6
  Candidates <- MCCandidates
  Inputs <- MCInputs
  InputNames <- FreshName
  Judges <- ResultJudges
INVARIANTS
  PartsFit
  IInv
  OneMinimal
  BytesTested
PROPERTIES
  ImplementsMinimiser
  Terminates
