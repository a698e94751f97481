SPECIFICATION Spec
CONSTANTS
  Letters = {"a", "w"}
  Bulk = "w"
  LineMax = 2
  Payload = 2
  ChunkMax = 2
  FifoMax = 3
  MaxTyped = 5
INVARIANTS LineIsOwn DataIsOwn DataIsNotRun
CHECK_DEADLOCK FALSE
