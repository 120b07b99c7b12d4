SPECIFICATION Spec
CONSTANTS
  Files = {"m", "a", "v"}
  Spellings = {""}
  Inherits <- MCInherits
  Virtuals = {"v"}
  Master <- MCMaster
  MaxDefs = 3
  MaxInsts = 3
INVARIANTS TypeOK MarksMatchStack FindAgreesWithLoad FoundAreAlive MastersAreAlive OneDefinition
CHECK_DEADLOCK FALSE
