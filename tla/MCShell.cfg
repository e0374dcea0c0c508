CONSTANTS
    None = None
    bootproc = init
    worker = worker
    first = p
    Procs = {init, worker, p, c}
    Cvs <- MCCvs
    Spins <- MCSpins
    JointExit = FALSE
    PIPESIZE = 2
    MaxBytes = 3
    Sizes = {1, 2}
    Calls <- MCCalls
    Killable = {c}
SPECIFICATION FairSpec
INVARIANTS TypeOK NoPanic UserHoldsNothing NoLostWakeup InOrder ChildrenKept
PROPERTIES OrphansReaped ReadsEnd
CHECK_DEADLOCK FALSE
