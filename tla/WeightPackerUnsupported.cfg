CONSTANTS
  Types = {"Q4_0", "Q4_1", "Q8_0", "Q4_K"}
  Ks = {0, 31, 32, 64}
  Ns = {0, 15, 16, 32}
INIT Init
NEXT Next
CHECK_DEADLOCK FALSE
INVARIANT PackRejectsUnsupported
