SPECIFICATION JoinFair
CONSTANTS
  u1 = u1
  u2 = u2
  Profiles <- TwoProfiles
  Known <- OneProfile
  MaxCalls = 2
  MaxJoins = 2
INVARIANTS JoinTypeOK DialogIsAsked CancelIsTold CancelledByUser SavedWorks
PROPERTIES AgentIsFreed JoinSettles
CHECK_DEADLOCK FALSE
