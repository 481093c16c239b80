SPECIFICATION SleepSpec
CONSTANTS
  o1 = o1
  c1 = c1
  Outputs <- OneOutput
  Clients <- OneClient
  NoClient = NoClient
  Dead = Dead
  Unplugged = Unplugged
  Disturbances <- NoDisturbance
  RELAUNCH_LIMIT = 1
  MaxLocks = 5
  MaxAsks = 2
  MaxSleeps = 2
  ClientLocks = 2
  LateSleeps = 0
PROPERTIES LetGoOnlyLocked
