CONSTANTS
    NCPU = 1
    Threads = {t1, t2}
    Calls <- AllCalls
    Clean = TRUE
    Blocks = {1, 2}
    MaxBlocks = 2
    JSize = 6
    MaxTxn = 3
    MaxCrash = 2
    CrashIn = {"run", "recover"}
SPECIFICATION Spec
SYMMETRY Symmetry
INVARIANTS TypeOK NoPanic AckedDurable
PROPERTY Implements
