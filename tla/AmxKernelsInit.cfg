CONSTANTS
  t1 = t1
  t2 = t2
  Threads <- MC_Threads
  NoResult = NoResult
SYMMETRY Symmetry
INIT Init
NEXT Next
CHECK_DEADLOCK FALSE
INVARIANT TileConfigInitEnsures
