SPECIFICATION Spec
CONSTANTS
  Threads = {t1, t2}
  Buffers = {a, b}
  Nodes = {n}
  Values = {0, 1}
  Words = {0, 1}
  Zero = 0
  Effect <- MCEffect
  MaxCalls = 4
  None = None
  SubmitEvery = {0, 1}
SYMMETRY Symmetry
INVARIANTS
  TypeOK
PROPERTIES
  KeepsTheContract
