SPECIFICATION Spec
CONSTANTS
  Scopes = {s1, s2}
  Tensors = {t1}
  Places = {p1}
  Buffers = {b1}
  NodeIds = {n1}
  Recordings = {r1}
  Addresses = {x1}
  Lens = {1}
  Metas = {1}
  PoolKeeps = FALSE
  MaxQueue = 2
  MaxCalls = 1
  None = None
  Kind <- MCKind
  Layout <- MCLayout1
  MinLens <- MCMinLens1
SYMMETRY Symmetry
INVARIANTS
  CapturesAgree
