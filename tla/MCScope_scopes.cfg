SPECIFICATION Spec
CONSTANTS
  Scopes = {s1, s2}
  Tensors = {t1, t2}
  Places = {p1, p2}
  Buffers = {b1, b2}
  NodeIds = {n1, n2}
  Recordings = {}
  Addresses = {x1, x2}
  Lens = {1}
  Metas = {1, 2}
  PoolKeeps = FALSE
  MaxQueue = 2
  MaxCalls = 0
  None = None
  Kind <- MCKind
  Layout <- MCLayout
  MinLens <- MCMinLens
SYMMETRY Symmetry
INVARIANTS
  TypeOK
  WorkIsBorrowed
  RunsFitTheirBuffers
  RunsSeeTheirMeta
  OneOwner
