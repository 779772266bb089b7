SPECIFICATION Spec
CONSTANTS
  Word = 1024
  Threads = {t1, t2, t3}
  Asks <- MCAsks
  Size <- MCSize
  Buffers = {b1, b2, b3, b4}
  Capacity = 16
  max_free_bytes = 12
  None = None
SYMMETRY Symmetry
INVARIANTS
  TypeOK
  OneHome
  CountIsExact
  RangesFit
