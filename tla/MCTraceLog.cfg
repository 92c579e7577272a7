SPECIFICATION FairSpec
CONSTANTS
    Size = 8
    Waste = 3
    MaxMsg = 3
    Char = {"a", "b"}
    Hash = "#"
    Dollar = "$"
    End = "0"
    Hasty = FALSE
INVARIANTS
    TypeOK
PROPERTIES
    IsTextQueue
    OverrunMarkedInRing
    Drained
