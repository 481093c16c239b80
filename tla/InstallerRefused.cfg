SPECIFICATION InstallerSpec
CONSTANT Window <- Ticks
INVARIANT NeverConfirmsRefused
CHECK_DEADLOCK FALSE
