SPECIFICATION Spec
CONSTANTS
  Group = 4
  Tile = 2
  Hash <- MCHash
  Shaders = {"matmul", "matmul_add", "matmul_trp", "gemv", "gemv_add", "transpose", "dot",
             "add", "mul", "scale", "max", "min", "clamp", "sum", "zero_tensor",
             "fill_constant", "fill_random"}
  Random <- MCRandom
  PAD = 7777
  NaN = NaN
  Inf = Inf
  NegInf = NegInf
  WrongValues = {5, NaN}
  MaxFaults = 1
  None = None
INVARIANTS
  BuiltinsAgree
  PassedMeansClose
  PassedMeansInBounds
CHECK_DEADLOCK FALSE
