SPECIFICATION ListenerSpec
CONSTANTS
    none = none
    Refresher <- Prices
    MaxEdits = 4
    MaxBackoff = 2
    NoQuery = none
PROPERTIES CatchesUp
CHECK_DEADLOCK FALSE
