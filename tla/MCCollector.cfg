SPECIFICATION FairSpec
CONSTANTS
    MaxReadings = 3
    MaxLosses = 2
INVARIANTS
    TypeOK
    CountersBracketDeliveries
    BacklogCounted
    CopiesNeedLosses
PROPERTIES
    SignalEnds
    EveryReadingCounted
