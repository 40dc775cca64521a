SPECIFICATION FairSpec
CONSTANTS
    Threshold = 4
    DefaultThreshold = 2
    StateTTL = 3
    MaxDelay = 1
    MaxLatency = 1
    MaxFaults = 3
INVARIANTS
    TypeOK
    RepeatsAreFaults
PROPERTIES
    NotOfflineTooEarly
    SilentGoesOffline
    FreshGoesOnline
