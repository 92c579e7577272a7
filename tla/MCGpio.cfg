SPECIFICATION FairSpec
CONSTANTS
    Outputs = {4, 5}
    Inputs = {12}
    Top = 1
    Longest = 2
    Commands <- MCCommands
    Nested <- MCNested
    HalfOpen = {5, 12}
    None = None
INVARIANTS
    TypeOK
    StateReported
    StateIsLight
    InputReported
PROPERTIES
    EventuallySettled
