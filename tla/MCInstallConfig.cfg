CONSTANTS
    Cmdline <- Cmdlines
    Disks <- NoDisks
    Setups <- NetSetups
    Attempts = 2
    MaxWait = 2
    MaxPowerLoss = 1
    MaxFailures = 0
SPECIFICATION InstallSpec
INVARIANTS
    ConfigInstalled
CHECK_DEADLOCK FALSE
