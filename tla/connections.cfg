SPECIFICATION Spec
CONSTANTS
  Conns = {c1, c2}
  Readers = {r1, r2}
  Others = {callout}
  Acceptor = acceptor
  NoConn = none
  CrossWrites = TRUE
  MaxChunks = 2
SYMMETRY Symmetry
INVARIANTS TypeOK InOrder OneSignal
PROPERTIES EmbraceIsForEver
CHECK_DEADLOCK FALSE
