SPECIFICATION Spec
CONSTANTS
    w1 = w1
    w2 = w2
    w3 = w3
    Nobody = Nobody
    Workers <- MCWorkers
    TTL = 2
    MaxClock = 5
    MaxToken = 3
INVARIANTS
    NoSplitBrain
CHECK_DEADLOCK FALSE
