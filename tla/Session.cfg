SPECIFICATION LiveSpec
CONSTANTS
    b1 = b1
    b2 = b2
    a1 = a1
    p1 = p1
    p2 = p2
    none = none
    Tab <- TwoTabs
    Token <- Tokens
    NoToken = none
    Slot <- TwoSlots
    Signer = {b1}
    Wanderer = {b1}
PROPERTIES
    SeparateSessions
    LoadingEnds
    RedirectsEnd
