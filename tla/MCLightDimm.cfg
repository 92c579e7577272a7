SPECIFICATION Spec
CONSTANTS
    MaxLevel = 2
    Ops <- FadeOps
    Modes <- MCModes
    MaxNested = 1
    HalfOpen = TRUE
    Toggles = "never"
    Boots <- MCBoots
    OldReports <- MCOldReports
INVARIANTS
    OffIsDark
PROPERTIES
    IsDimLamp
    OnlyRepeatsLose
