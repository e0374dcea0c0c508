CONSTANTS
    Root = r
    a = a
    b = b
    c = c
    x = x
    y = y
    None = None
    Dirs = {r, a, b, c}
    Files = {f}
    Names = {x, y}
    CPUs = {c1, c2}
    Synced = {r, a, b, c, f}
    Kinds = {"create", "link", "rename"}
    Trees <- NestedTree
    MaxOps = 1
    MaxFsync = 2
SPECIFICATION Spec
SYMMETRY Symmetry
INVARIANT AssertionsHold
CHECK_DEADLOCK FALSE
