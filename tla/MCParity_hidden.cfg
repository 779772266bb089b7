SPECIFICATION Spec
CONSTANTS
  Group = 4
  Tile = 2
  Hash <- MCHash
  Shaders = {"gemv_add", "matmul_add"}
  Random <- MCRandom
  PAD = 7777
  NaN = NaN
  Inf = Inf
  NegInf = NegInf
  WrongValues = {Inf, NaN}
  MaxFaults = 2
  None = None
INVARIANTS
  PassedMeansClose
CHECK_DEADLOCK FALSE
