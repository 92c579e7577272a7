SPECIFICATION Spec
CONSTANTS
    MaxLevel = 1
    Ops = {"on", "off"}
    Modes = {}
    MaxNested = 1
    HalfOpen = FALSE
    Toggles = "never"
    Boots = {"power"}
    OldReports <- MCOldReports
INVARIANTS
    StateReported
