CONSTANTS
  Posts = {p1}
SPECIFICATION Spec
CHECK_DEADLOCK FALSE
INVARIANTS
  ClosedMeansQuiet
