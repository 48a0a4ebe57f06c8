\* Three calls that compete for the mutex, with and without a timeout.  No
\* symmetry: one property is temporal.
SPECIFICATION FairSpec
CONSTANTS
    Call = {c1, c2, c3}
    NoCall = NoCall
    Threw = Threw
INVARIANTS TypeOK OwnResponse ClosedBetweenCalls TimerBelongsToReader
PROPERTIES TimedCallEnds
CHECK_DEADLOCK FALSE
