SPECIFICATION Spec
CONSTANTS
    N = 3
    Tracked = {1, 2, 3}
    MaxFaults = 0
    MaxArrivals = 4
INVARIANTS
    MissedStopsDetected
