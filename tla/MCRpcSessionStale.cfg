\* Two calls are enough for a timer that hits the wrong one.
SPECIFICATION FairSpec
CONSTANTS
    Call = {c1, c2}
    NoCall = NoCall
    Threw = Threw
PROPERTIES TimeoutHitsOwnCall
CHECK_DEADLOCK FALSE
