\* Four nodes; one run by hand at a time, one edit, one failure, one reboot.
CONSTANTS
    Nodes <- AllNodes
    AuthorizedKeys <- KeyLists
    Remote <- RemoteKeys
    Operator = {console}
    Attempts = 2
    MaxEdits = 1
    MaxFailures = 1
    MaxReboots = 1
SPECIFICATION Spec
INVARIANTS
    TypeOK
    FilesBeforeCommands
    ConfiguredWhenUp
    K3sWhenConfigured
PROPERTIES
    KeysKept
    NodeComesUp
