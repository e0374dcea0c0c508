CONSTANTS
    Root = r
    a = a
    b = b
    c = c
    x = x
    y = y
    None = None
    Dirs = {r, a, b, c}
    Files = {f}
    Names = {x, y}
    CPUs = {c1, c2}
    Synced = {a, b, c, f}
    Kinds = {"create", "link", "rename"}
    Trees <- BothTrees
    MaxOps = 2
    MaxFsync = 2
SPECIFICATION Spec
SYMMETRY Symmetry
INVARIANTS TypeOK NoOrphanLoop OneParent OperationsApply NothingLost LoneFsyncDurable
PROPERTY StaysReachable
CHECK_DEADLOCK FALSE
