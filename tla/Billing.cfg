SPECIFICATION LiveSpec
CONSTANTS
    r1 = r1
    r2 = r2
    Request = {r1, r2}
    Grain = 3
    Tolerance = 0
    Cost <- Costs
    UserRatio = 1
    PlanRatio = 1
    GrantCredit = 6
    Funds = 3
    TopUp = 3
    Mixes <- Meeting
    MaxTopUps = 1
    MaxGrants = 1
    MaxStored = 3
INVARIANTS GrantAddsUp PlanFirst PaygIsBilled WalletNotUnderstated
PROPERTIES ImplementsCharging CacheSettles
CHECK_DEADLOCK FALSE
