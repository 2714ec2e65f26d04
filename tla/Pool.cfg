SPECIFICATION LiveSpec
CONSTANTS
    none = none
    Refresher <- AllThree
    MaxEdits = 4
    MaxBackoff = 2
    NoQuery = none
INVARIANTS NoEditForgotten
PROPERTIES CatchesUp
