SPECIFICATION FairSpec
CONSTANTS
    NCPU = 2
    Procs = {p1}
    Objs = {o1}
    MaxEpoch = 4
    MaxDepth = 2
INVARIANTS TypeOK EpochOrder EpochLag SlotReady FreeOnce NoneLost LocalGrace
PROPERTY EventuallyFreed
