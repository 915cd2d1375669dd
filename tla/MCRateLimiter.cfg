CONSTANTS
    Symbols = {s1, s2}
    TicksPerSecond = 2
    DefaultRate = 1
    DefaultBurst = 2
    Rates = {3}
    Bursts = {1}
    MaxTime = 5
    MaxRequests = 4
SPECIFICATION Spec
CHECK_DEADLOCK FALSE
INVARIANTS WindowBound
PROPERTIES RejectsOnlyExcess
