SPECIFICATION FairSpec
CONSTANTS
  o1 = o1
  o2 = o2
  c1 = c1
  c2 = c2
  Outputs <- OneOutput
  Clients <- OneClient
  NoClient = NoClient
  Dead = Dead
  Unplugged = Unplugged
  Disturbances <- OnlyHotplug
  RELAUNCH_LIMIT = 1
  MaxLocks = 1
  MaxAsks = 0
PROPERTIES ShownIsTold
