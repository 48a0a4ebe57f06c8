\* One connection with a timeout, whose client leaves.
SPECIFICATION FairSpec
CONSTANTS
    Conn = {c1}
    Timed = {c1}
PROPERTIES PeerGoneClosed
CHECK_DEADLOCK FALSE
