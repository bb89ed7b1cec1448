SPECIFICATION FairSpec
CONSTANTS
    imgNone = imgNone
    imgDefault = imgDefault
    imgNew = imgNew
    p1 = p1
    p2 = p2
    Specs <- TwoSpecs
    Images <- MCImages
    Passwords <- MCPasswords
    NoImage = imgNone
    DefaultImage = imgDefault
    MinRedis <- MCMinRedis
    MinSentinels <- MCMinSentinels
    Budget <- LifeBudget
PROPERTIES
    NoLostUserEdit
    EventuallyCollected
CHECK_DEADLOCK FALSE
