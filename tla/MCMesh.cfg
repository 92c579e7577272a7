SPECIFICATION FairSpec
CONSTANTS
    Slots = 3
    MaxMsg = 2
    Wire = 2
    MaxTrouble = 2
INVARIANTS
    TypeOK
    Kept
    OnceInOrder
PROPERTIES
    Drained
