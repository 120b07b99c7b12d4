SPECIFICATION Spec
CONSTANTS
  Conns = {c1, c2}
  Others = {callout}
  Objects = {o1, o2, o3}
  None = none
  SharedBodies = FALSE
  MaxCallbacks = 2
SYMMETRY Symmetry
INVARIANTS TypeOK CallbackOnce CallbackWaits
CHECK_DEADLOCK FALSE
