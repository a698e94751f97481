SPECIFICATION FairSpec
CONSTANTS
  c1 = c1
  c2 = c2
  NoConn = NoConn
  NFiles = 3
  BodyChunks = 2
  FileRetries = 2
  FileSlots = 2
  MaxLookups = 1
  Conns <- TwoConns
  Env <- Closing
INVARIANTS IdleIsClean OneConnection CountersAgree
PROPERTIES SuccessIsCurrent
