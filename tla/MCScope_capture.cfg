SPECIFICATION Spec
CONSTANTS
  Scopes = {s1}
  Tensors = {t1, t2}
  Places = {p1}
  Buffers = {b1, b2}
  NodeIds = {n1, n2}
  Recordings = {r1}
  Addresses = {x1, x2}
  Lens = {1, 2}
  Metas = {1, 2}
  PoolKeeps = FALSE
  MaxQueue = 2
  MaxCalls = 2
  None = None
  Kind <- MCKind
  Layout <- MCLayout1
  MinLens <- MCMinLens1
SYMMETRY Symmetry
INVARIANTS
  RunsFitTheirBuffers
  
  WorkIsBorrowed
