SPECIFICATION FairSpec
CONSTANTS
  Size = 6
  Candidates <- MCCandidates
  Inputs <- MCInputs
  InputNames <- AnyName
  Judges <- MCJudges
INVARIANTS
  IInv
  BlocksTried
  OneMinimal
PROPERTIES
  OnlyReduces
  Terminates
