SPECIFICATION Spec
CONSTANTS
    Size = 3
    Nobody = Nobody
    Loop = Loop
    Evictable = {}
    Stops = 3
INVARIANTS
    DataSurvives
