SPECIFICATION FairSpec
CONSTANTS
    Params <- MCParams
    Values <- MCValues
    MemParams <- MCMemParams
    Bad <- MCBad
    Kilo = 10
    Kibi = 16
    Modulus = 65536
    BuiltIn <- MCBuiltIn
    EnableConf <- MCEnableConf
    DisableConf <- MCDisableConf
    Images = {"old", "new"}
    Sizes = {2}
    Configs <- LiveConfigs
    Specs <- LiveSpecs
    Budget <- LiveBudget
INVARIANT
    TypeOK
PROPERTIES
    HealthyIsConfigured
    EventuallyComplete
    EventuallyRunsConfig
    ConfigSettles
    EventuallyReady
