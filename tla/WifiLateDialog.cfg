SPECIFICATION JoinSpec
CONSTANTS
  u1 = u1
  u2 = u2
  Profiles <- TwoProfiles
  Known <- OneProfile
  MaxCalls = 2
  MaxJoins = 2
INVARIANTS DialogHasCall
CHECK_DEADLOCK FALSE
