SPECIFICATION MemorySpec
CONSTANTS
    Tellers = {o1, o2}
    MaxFacts = 2
INVARIANT NewTermsAreUsed
CHECK_DEADLOCK FALSE
