SPECIFICATION Spec
CONSTANTS
  MAX_ID = 3
  Shapes <- ExpiringShapes
  DiskMayFail = TRUE
  MaxNotify = 3
  MaxLives = 2
INVARIANTS ServerTypeOK StoreFollows
PROPERTIES NoStolenId ExpiresOnlyItself TimedGoes
CHECK_DEADLOCK FALSE
