SPECIFICATION Spec
CONSTANTS
    Cores = {c1, c2, c3}
    Objs = {a}
    WeakObjs = {}
    Way <- OneWay
    IntMax = 1
    MaxRef <- AllShared
    PromptReview = FALSE
VIEW Shifted
SYMMETRY Symmetry
INVARIANTS FreedUnreferenced
