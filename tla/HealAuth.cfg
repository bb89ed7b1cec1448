SPECIFICATION FairSpec
CONSTANTS
    Redises = {r1, r2, r3}
    Sentinels = {s1, s2}
    Nobody = Nobody
    Loop = Loop
    Password = TRUE
    Disturbances = 1
PROPERTIES
    RoundsKeepSucceeding
