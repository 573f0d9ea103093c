SPECIFICATION FairSpec
CONSTANTS
  Size = 4
  Candidates <- MCCandidates
  Inputs <- MCInputs
  InputNames <- ResultName
  Judges <- Monotone
PROPERTIES
  Terminates
