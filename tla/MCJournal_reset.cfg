CONSTANTS
    NCPU = 2
    Threads = {t1, t2}
    Calls <- MixedCalls
    Clean = FALSE
    Blocks = {1, 2}
    MaxBlocks = 1
    JSize = 8
    MaxTxn = 4
    MaxCrash = 0
    CrashIn = {"run", "recover"}
SPECIFICATION Spec
SYMMETRY Symmetry
PROPERTY Implements
CHECK_DEADLOCK FALSE
