CONSTANTS
    Arrays = {a1, a2, a3}
    Slices = {o1, o2, o3}
    Handles = {}
    Values = {null}
    Null = null
    Junk = Junk
    NoArray = NoArray
    MaxCap = 3
    SizeBound = 4
SPECIFICATION CrbSpec
INVARIANTS NeverUndercounts
PROPERTIES SizeFollowsArrays
SYMMETRY Symmetry
CHECK_DEADLOCK FALSE
