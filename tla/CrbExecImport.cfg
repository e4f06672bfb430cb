CONSTANTS
    Modules = {m}
    ImportAnywhere = TRUE
    MaxFrames = 3
    MaxTemps = 1
    MaxSp = 1
SPECIFICATION FairSpec
INVARIANTS ModuleEndsOnEmptyStack
