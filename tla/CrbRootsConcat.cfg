CONSTANTS
    Objs = {o1, o2, o3}
    Plain = Plain
    Ops = {"string", "concat"}
    MaxRefs = 1
    MaxLive = 3
    MaxStack = 2
    MaxEnvs = 0
    MaxCtl = 4
SPECIFICATION Spec
INVARIANTS NoDeadVariable
CHECK_DEADLOCK FALSE
