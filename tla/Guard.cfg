SPECIFICATION LiveSpec
CONSTANTS
    r1 = r1
    r2 = r2
    Request <- Requests
    Threshold = 2
    MaxRestarts = 1
INVARIANTS
    ParkedIsRemembered
PROPERTIES
    TripsAfterStreak
    DeadIsParked
    GoodIsRestored
