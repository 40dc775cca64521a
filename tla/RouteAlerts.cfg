SPECIFICATION FairSpec
CONSTANTS
    Trip = {t1, t2}
    Slot = {a1}
    Window = 1
    KeyTTL = 2
    MaxFaults = 1
INVARIANTS
    TypeOK
    FollowingHasNoOpenAlert
PROPERTIES
    DeviationAlerts
    ReturnResolves
