CONSTANTS
    Values = {v1, v2}
    Junk = Junk
    NoValue = NoValue
    MaxCap = 6
SPECIFICATION Spec
INVARIANTS AcceptedIndexInArray
