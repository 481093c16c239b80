SPECIFICATION FairSpec
CONSTANTS
  o1 = o1
  o2 = o2
  c1 = c1
  c2 = c2
  Outputs <- OneOutput
  Clients <- TwoClients
  NoClient = NoClient
  Dead = Dead
  Unplugged = Unplugged
  Disturbances <- ShownFrames
  RELAUNCH_LIMIT = 1
  MaxLocks = 2
  MaxAsks = 1
INVARIANTS TypeOK LockedIsUnreachable SessionIsCovered
PROPERTIES OnlyItsClientUnlocks GuardOnlyUnanswered KeepsContract AskedIsLocked LockedIsHidden DeadIsReplaced
