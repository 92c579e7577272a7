SPECIFICATION FairSpec
CONSTANTS
    MinReconnect = 2
    MaxReconnect = 3
    Weight = 1
    ApTime = 2
    MaxRound = 1
    ClockMod = 14
    ShortMod = 9
    Cap = 7
INVARIANTS
    TypeOK
    GivesUpLateWhileYoung
    GivesUpSoonWhileYoung
PROPERTIES
    TryingEnds
    PortalsClose
    StaysConnected
