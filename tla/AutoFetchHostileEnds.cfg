SPECIFICATION FairSpec
CONSTANTS
  c1 = c1
  c2 = c2
  NoConn = NoConn
  NFiles = 1
  BodyChunks = 2
  FileRetries = 2
  FileSlots = 2
  MaxLookups = 1
  Conns <- OneConn
  Env <- Hostile
INVARIANTS TypeOK OnlySigned
PROPERTIES RunEnds UpdatedIsCurrent
