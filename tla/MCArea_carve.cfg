SPECIFICATION FairSpec
CONSTANTS
  Threads = {t1, t2, t3}
  Areas <- MCAreas
  Asks = {0, 3, 8, 260}
  MaxParts = 4
  None = None
INVARIANTS
  TypeOK
  PartsApart
  PartsInside
  CudaAddressesDiffer
PROPERTIES
  AlignedRefusedWhenFull
  CarvesEnd
CHECK_DEADLOCK FALSE
