CONSTANTS
  b1 = b1
  b2 = b2
  t1 = t1
  t2 = t2
  t3 = t3
  o1 = o1
  o2 = o2
  o3 = o3
  o4 = o4
  Buffers = {b1, b2}
  Tensors = {t1, t2, t3}
  Nodes = {n1, n2}
  Payloads = {p1, p2}
  Ops = {o1, o2, o3, o4}
  NULL = NULL
  TBuf <- MC_TBuf
  TType <- MC_TType
  StartTensor <- MC_StartTensor
  OpSpec <- MC_OpSpec
  Forged = {}
  UninitForged = FALSE
INIT Init
NEXT Next
CHECK_DEADLOCK FALSE
INVARIANT
  AmxOnlyForSupportedOps
