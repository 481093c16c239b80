SPECIFICATION Spec
CONSTANTS
  o1 = o1
  o2 = o2
  c1 = c1
  c2 = c2
  Outputs <- TwoOutputs
  Clients <- OneClient
  NoClient = NoClient
  Dead = Dead
  Unplugged = Unplugged
  Disturbances <- FailingFrames
  RELAUNCH_LIMIT = 1
  MaxLocks = 2
  MaxAsks = 1
SYMMETRY Symmetry
INVARIANTS ToldMeansShown
