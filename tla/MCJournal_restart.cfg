CONSTANTS
    NCPU = 2
    Threads = {t1, t2}
    Calls <- FsyncCalls
    Clean = FALSE
    Blocks = {1}
    MaxBlocks = 1
    JSize = 8
    MaxTxn = 2
    MaxCrash = 2
    CrashIn = {"run", "recover", "init"}
SPECIFICATION Spec
SYMMETRY Symmetry
INVARIANT RecoveredDurable
CHECK_DEADLOCK FALSE
