SPECIFICATION Spec
CONSTANTS
  Backends = {"cpu"}
  Threads = {t1, t2}
  Buffers = {a, b}
  Nodes = {n}
  Values = {0, 1}
  Words = {0, 1}
  Zero = 0
  Effect <- MCEffect
  MaxCalls = 1
  MaxRecorded = 1
  None = None
  Captures = {r}
  Overlap = FALSE
  Twice = TRUE
SYMMETRY Symmetry
INVARIANTS
  RecordingCanEnd
CHECK_DEADLOCK FALSE
