SPECIFICATION LiveSpec
CONSTANTS
    Account = {a1}
    Caller = {c1, c2}
    FailureCap = 3
    MaxOpen = 1
    MaxQuota = 2
    MaxCooldown = 1
    Configs <- SeveralConfigs
    Resettable = {a1}
INVARIANTS CountersMatchHistory TransitionsAddUp
PROPERTIES TripNeedsRun CloseNeedsQuota OpenIsTriedAgain
