SPECIFICATION Spec
CONSTANTS
  Before = Before
  None = None
  MagicSize = 3
  CorSize = 10
  HeaderSize = 10
  SearchLimit = 16
  ChunkSize = 3
  MaxPreamble = 3
  MaxRecords = 4
  ByteBits = 3
  IdleTicks = 2
  MaxBytes = 3
  Signature <- Sig
  Streams <- TwoStreams
  Files <- SomeFiles
INVARIANTS SwitchGivenBack LoadsThePayload
PROPERTIES Implements
