SPECIFICATION Spec
CONSTANTS
  Conns = {c1}
  Others = {}
  Objects = {o1, o2, o3}
  None = none
  SharedBodies = FALSE
  MaxCallbacks = 0
SYMMETRY Symmetry
INVARIANTS PlayerFollowsExec
CHECK_DEADLOCK FALSE
