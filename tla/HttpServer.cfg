SPECIFICATION Spec
CONSTANTS
  p1 = p1
  p2 = p2
  p3 = p3
  NoConn = NoConn
  BodyChunks = 2
  Conns <- ThreeConns
SYMMETRY ConnSymmetry
INVARIANTS OneServed NothingLeft OnlySigned
PROPERTIES SuccessIsTrue
