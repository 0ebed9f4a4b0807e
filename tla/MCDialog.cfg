\* The questions of `edgi install`, at a terminal and from a pipe.
CONSTANTS
    Modes = {"install", "live-server", "live-agent", "shell"}
    Presets <- SomePresets
    DiskSets <- DiskChoices
    MaxBytes = 2
    None = None
SPECIFICATION Spec
INVARIANTS
    InstallsAsAnswered
    LeavesNothing
CHECK_DEADLOCK FALSE
