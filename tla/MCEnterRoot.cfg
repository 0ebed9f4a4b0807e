\* Every program, every layout, as process 1 and in a container; every call
\* may fail.
CONSTANTS
    Magic <- ShortMagic
    Block = 2
    Layouts <- BothLayouts
    Trees <- SmallTrees
    Loops = 3
    Nodes = 3
    None = None
SPECIFICATION Spec
INVARIANTS
    TypeOK
    RootMoved
    EntersItsImage
    DevicesFreed
PROPERTY EntersOrStops
CHECK_DEADLOCK FALSE
