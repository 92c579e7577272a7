SPECIFICATION Spec
CONSTANTS
    Modes <- MCModes
    Debounce = 1
    Interval = 2
    Fast = 0
    Long = 2
    Timeout = 3
    Holds = 1
    Offset = 3
    Limit = 2
    Wide = 5
INVARIANTS
    TypeOK
    BouncesIgnored
    HoldsEnd
    SwitchPredicted
