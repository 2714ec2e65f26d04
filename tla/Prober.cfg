SPECIFICATION ProberLiveSpec
CONSTANTS
    prober = prober
    Account = {a1}
    Caller = {prober, c1}
    FailureCap = 2
    MaxOpen = 0
    MaxQuota = 2
    MaxCooldown = 0
    Configs <- OnAndOff
    Resettable = {}
    RedThreshold = 2
    GreenThreshold = 1
PROPERTIES EjectNeedsReds OutageOpens RecoveryCloses
