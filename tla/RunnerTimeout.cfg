SPECIFICATION Spec
CONSTANTS
  Settings <- MayHang
INVARIANTS
  NormalExit
