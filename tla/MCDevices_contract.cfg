SPECIFICATION Spec
CONSTANTS
  Backends = {"cuda", "cpu"}
  Threads = {t1, t2}
  Buffers = {a, b}
  Nodes = {n}
  Values = {0, 1}
  Words = {0, 1}
  Zero = 0
  Effect <- MCEffect
  MaxCalls = 2
  MaxRecorded = 2
  None = None
  Captures = {r}
  Overlap = FALSE
  Twice = FALSE
SYMMETRY Symmetry
INVARIANTS
  TypeOK
PROPERTIES
  KeepsTheContract
CHECK_DEADLOCK FALSE
