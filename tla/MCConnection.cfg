\* A connection with and one without a timeout, each for one request.
SPECIFICATION FairSpec
CONSTANTS
    Conn = {c1, c2}
    Timed = {c1}
INVARIANTS TypeOK ReadGuarded NoDanglingTimer TimerStopsWithRead
PROPERTIES OnlyLateTimerCloses ReadEnds PeerGoneReleased
CHECK_DEADLOCK FALSE
