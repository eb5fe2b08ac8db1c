SPECIFICATION Spec
CONSTANTS
    Number = 2
    States = 2
    Thread = {t1, t2}
    NoThread = NoThread
    SpinMax = 1
    MaxCount = 4
SYMMETRY Symmetry
INVARIANTS MutualExclusion Conserved OldestFirst
PROPERTY ImplementsSpec
