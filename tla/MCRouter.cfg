\* Two requests, each key unbound at most once.
SPECIFICATION FairSpec
CONSTANTS
    p = p
    raw_p = raw_p
    call_p = call_p
    call_p2 = call_p2
    Key <- MCKey
    Handler <- MCHandler
    NoHandler = NoHandler
    Serves <- MCServes
    Void <- MCVoid
    Request = {r1, r2}
    NoKey = NoKey
    MaxUnbind = 1
INVARIANTS TypeOK OwnHandler NoDanglingReference ValueMeansDone
PROPERTIES FoundIsAnswered
CHECK_DEADLOCK FALSE
