SPECIFICATION Spec
CONSTANTS
  Objects = {room, a, b, c}
  Living = {a, b, c}
  None = none
  MaxDead = 0
  MaxDepth = 4
SYMMETRY Symmetry
INVARIANT EachLivingMeets
CHECK_DEADLOCK FALSE
