\* The same, for the request of exactly the limit.
SPECIFICATION Spec
CONSTANTS
    max_buffer_len = 6
    WordMod = 16
    Size <- MCSize
INVARIANTS RequestAgreed
CHECK_DEADLOCK FALSE
