SPECIFICATION Spec
CONSTANTS
  Conns = {c1, c2}
  Others = {}
  Objects = {o1, o2, o3}
  None = none
  SharedBodies = TRUE
  MaxCallbacks = 0
SYMMETRY Symmetry
INVARIANTS Linked OwnHandlers
PROPERTIES ClosesWithUser
CHECK_DEADLOCK FALSE
