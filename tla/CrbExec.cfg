CONSTANTS
    Modules = {m}
    ImportAnywhere = FALSE
    MaxFrames = 5
    MaxTemps = 2
    MaxSp = 8
SPECIFICATION FairSpec
INVARIANTS RecoveryIsInnermost JumpsIntoLiveFrame StackAccounted EnvPerCall
PROPERTIES TryNotSkipped EveryJumpLands
