SPECIFICATION InstallerFair
CONSTANT Window <- Ticks
INVARIANTS InstallerTypeOK FooterTells CredentialsGo NobodyLeftAlone InstalledAsConfirmed
PROPERTIES PhasesForward RunEnds
CHECK_DEADLOCK FALSE
