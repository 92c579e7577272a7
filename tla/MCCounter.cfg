SPECIFICATION FairSpec
CONSTANTS
    Ghost = 1
    Starts <- MCStarts
    MaxEdges = 4
    MaxFaults = 2
INVARIANTS
    TypeOK
    CountKept
PROPERTIES
    NeverBack
    Reported
