SPECIFICATION FairSpec
CONSTANTS
  Conns = {c1}
  Readers = {r1, r2}
  Others = {callout}
  Acceptor = acceptor
  NoConn = none
  CrossWrites = TRUE
  MaxChunks = 2
PROPERTIES InputArrives
CHECK_DEADLOCK FALSE
