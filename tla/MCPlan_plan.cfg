SPECIFICATION FairSpec
CONSTANTS
  Word = 1024
  Threads = {planner, t1}
  Values = {0, 8, 9}
  Given <- MCGiven
  Fixed <- MCFixed
  Inputs <- MCInputs
  Computes <- MCComputes
  Dynamics <- MCDynamics
  None = None
  Plans <- MCPlans
  Shaders <- MCShaders
  min_lens <- MCMinLens
  EditTensors <- MCEditTensors
  EditNodes <- MCEditNodes
  MaxEdits = 1
  planner = planner
INVARIANTS
  TypeOK
  ResolversWork
  ReadersAgree
  ReadyBuilds
  BuiltRunsExecute
  OnePlace
  CallsFit
  OnlyTooShort
  RecordedStay
PROPERTIES
  DynamicsApplied
  ReadsEnd
CHECK_DEADLOCK FALSE
