\* Two writers of one file, any number of calls, failures and kills.
CONSTANTS
    w1 = w1
    w2 = w2
    d1 = d1
    d2 = d2
    NoFile = NoFile
    NoCall = NoCall
    Writer = {w1, w2}
    Data = {d1, d2}
SPECIFICATION Spec
INVARIANTS
    IInv
    NoStrays
PROPERTY ReplacesAtOnce
SYMMETRY Symmetric
