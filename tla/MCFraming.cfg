\* Strings up to one more than a word counts, a limit of 6.
SPECIFICATION Spec
CONSTANTS
    max_buffer_len = 6
    WordMod = 16
    Size <- MCSize
INVARIANTS TypeOK ExactRequest ExactResponse TooBigNotSent
CHECK_DEADLOCK FALSE
