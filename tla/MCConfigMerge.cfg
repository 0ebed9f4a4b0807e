\* A file, the command line with up to three names, and a file, for each kind of field.
CONSTANTS
    Fields <- AllFields
    Files <- FilesOf
    Cmdlines <- CmdlinesOf
    Rest = 1
SPECIFICATION Spec
\* ReadConfig returns.
CHECK_DEADLOCK FALSE
INVARIANTS
    TypeOK
    LastSourceWins
    RepeatedKeysInOrder
    RefusedWithCause
