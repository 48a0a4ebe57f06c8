\* Two calls that compete for the mutex; the server has a timeout for one of them.
SPECIFICATION SysFairSpec
CONSTANTS
    Call = {c1, c2}
    NoCall = NoCall
    Threw = Threw
    Timed = {c1}
INVARIANTS EndsAgree
PROPERTIES ImplementsRemoteCall CallEnds
CHECK_DEADLOCK FALSE
