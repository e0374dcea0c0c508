SPECIFICATION Spec
CONSTANTS
    Cores = {c1, c2}
    Objs = {a, b}
    WeakObjs = {b}
    Way <- OneWay
    IntMax = 1
    MaxRef <- WeakShared
    PromptReview = TRUE
VIEW Shifted
SYMMETRY Symmetry
INVARIANTS TypeOK NoPanic FreedUnreferenced CollectedInTime TrueCount OneReviewer EpochBarrier
