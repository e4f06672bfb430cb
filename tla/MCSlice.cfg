CONSTANTS
    Arrays = {a1, a2}
    Slices = {s1, s2}
    Handles = {h1, h2}
    Values = {v1}
    Junk = Junk
    NoArray = NoArray
    MaxCap = 3
SPECIFICATION Spec
INVARIANTS TypeOK RefCountsHolders WindowInArray
PROPERTIES OwnViewIsASequence GrowthIsolates WritesStayInWindow
SYMMETRY Symmetry
