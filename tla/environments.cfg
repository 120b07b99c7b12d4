SPECIFICATION Spec
CONSTANTS
  Objects = {room, a, b}
  Living = {a, b}
  None = none
  MaxDead = 1
  MaxDepth = 4
SYMMETRY Symmetry
INVARIANTS TypeOK InventoriesAgree
PROPERTIES MeetsOnce
CHECK_DEADLOCK FALSE
