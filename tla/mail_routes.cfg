SPECIFICATION Spec
CONSTANTS
  ann = ann
  bob = bob
  Users = {ann, bob}
  Saved = {"=x"}
  Forward <- MCNoForward
  None = none
  MaxLetters = 2
  Readers = {ann}
  Mailers = {m1, m2}
  MaxTo = 2
  MaxNew = 3
  MaxBox = 1
  MaxPrompts = 2
SYMMETRY Symmetry
PROPERTIES ReachesAll
CHECK_DEADLOCK FALSE
