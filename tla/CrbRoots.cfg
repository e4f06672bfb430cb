CONSTANTS
    Objs = {o1, o2, o3, o4}
    Plain = Plain
    Ops = {"string", "array", "assoc", "add", "concat", "index", "slice", "variable", "member", "element", "try", "throw", "closure", "call", "native", "return", "tryfinally"}
    MaxRefs = 2
    MaxLive = 4
    MaxStack = 3
    MaxEnvs = 2
    MaxCtl = 6
SPECIFICATION MCSpec
INVARIANTS NothingDangles HeldObjectsLive
SYMMETRY Symmetry
CHECK_DEADLOCK FALSE
