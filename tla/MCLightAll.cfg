SPECIFICATION FairSpec
CONSTANTS
    MaxLevel = 1
    Ops <- MCOps
    Modes <- MCModes
    MaxNested = 0
    HalfOpen = FALSE
    Toggles = "always"
    Boots <- MCBoots
    OldReports <- MCOldReports
INVARIANTS
    TypeOK
    StateReported
    AnimationReported
PROPERTIES
    OnlyButtonOverlaps
    EventuallySettled
