SPECIFICATION Spec
CONSTANTS
    Threshold = 6
    DefaultThreshold = 6
    StateTTL = 3
    MaxDelay = 1
    MaxLatency = 1
    MaxFaults = 0
PROPERTIES
    OfflineOnlyWhenSilent
