SPECIFICATION FairSleepSpec
CONSTANTS
  o1 = o1
  c1 = c1
  Outputs <- OneOutput
  Clients <- OneClient
  NoClient = NoClient
  Dead = Dead
  Unplugged = Unplugged
  Disturbances <- NoDisturbance
  RELAUNCH_LIMIT = 1
  MaxLocks = 4
  MaxAsks = 2
  MaxSleeps = 2
  ClientLocks = 1
  LateSleeps = 2
INVARIANTS SleepTypeOK ComesBackLocked InhibitorBack
PROPERTIES SleepsLocked SleepGoesAhead
