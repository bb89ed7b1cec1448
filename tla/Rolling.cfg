SPECIFICATION FairSpec
CONSTANTS
    Size = 3
    Nobody = Nobody
    Loop = Loop
    Evictable = {0, 1, 2}
    Stops = 2
INVARIANTS
    TypeOK
    DataSurvives
    MastersHoldData
PROPERTIES
    EventuallyReplicated
