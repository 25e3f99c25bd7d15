SPECIFICATION IsrSpec
CONSTANT HALF = 16
INVARIANTS
  InterruptTransparent
  VectorReachesHandler
