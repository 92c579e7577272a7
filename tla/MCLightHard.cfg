SPECIFICATION Spec
CONSTANTS
    MaxLevel = 1
    Ops = {"on", "off", "dimmOn", "dimmOff"}
    Modes = {"pwm"}
    MaxNested = 0
    HalfOpen = FALSE
    Toggles = "never"
    Boots = {"power"}
    OldReports <- MCOldReports
INVARIANTS
    OffIsDark
