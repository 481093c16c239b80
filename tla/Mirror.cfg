SPECIFICATION MirrorSpec
CONSTANTS
  MAX_ID = 2
  Shapes <- MirroredShapes
  DiskMayFail = FALSE
  MaxNotify = 2
  MaxLives = 2
  MaxShells = 2
  MaxInbox = 2
INVARIANTS MirrorTypeOK MirrorIsHistory NoGhosts
CHECK_DEADLOCK FALSE
