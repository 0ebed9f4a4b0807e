\* Installations and takeovers; power is lost twice, one command fails.
CONSTANTS
    Cmdline <- Cmdlines
    Disks <- NoDisks
    Setups <- AllSetups
    Attempts = 2
    MaxWait = 2
    MaxPowerLoss = 2
    MaxFailures = 1
SPECIFICATION InstallSpec
INVARIANTS
    InstallTypeOK
    TakeoverReplaces
    LeadsSomewhere
    NodeAsAsked
CHECK_DEADLOCK FALSE
