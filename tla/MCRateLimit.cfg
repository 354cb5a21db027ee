SPECIFICATION RateSpec
CONSTANTS
    Caller = {r1, r2, r3}
    Limit = 2
    Window = 3
INVARIANTS
    AtMostTwiceTheLimit
PROPERTIES
    WindowCloses
    LostWindowCloses
