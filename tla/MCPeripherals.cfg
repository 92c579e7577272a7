SPECIFICATION FairSpec
CONSTANTS
    adc = adc
    meter = meter
    dht = dht
    light = light
    typo = typo
    None = None
    Order <- MCOrder
    Updates <- MCUpdates
    Typos <- MCTypos
    MaxSlots = 6
    Payloads <- MCPayloads
    Retained <- MCRetained
INVARIANTS
    TypeOK
    SlotsDealt
    RunsWhatIsStored
    ReportsWhatIsStored
PROPERTIES
    EverySlotServed
