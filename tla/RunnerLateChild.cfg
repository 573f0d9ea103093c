SPECIFICATION Spec
CONSTANTS
  Settings <- NoFaults
INVARIANTS
  FoundFailure
