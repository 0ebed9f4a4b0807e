\* Every disk and command line; power is lost twice, one command fails.
CONSTANTS
    Cmdline <- Cmdlines
    Disks <- AllDisks
    Markers = {"poweroff", "ephemeral"}
    MaxWait = 3
    MaxPowerLoss = 2
    MaxFailures = 1
SPECIFICATION Spec
INVARIANTS
    TypeOK
    ForgetsOldState
    TakeoverFinishes
    OnlyProgramsSurvive
    RescueHasCause
PROPERTIES
    BootEnds
