CONSTANTS
  Processes = {p1, p2, p3}
  NoFile = none
  Takeovers = FALSE
  FsErrors = FALSE
SPECIFICATION Spec
INVARIANT HeldByOneProcess
SYMMETRY ProcessSymmetry
CHECK_DEADLOCK FALSE
